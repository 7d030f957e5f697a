------------------------------ MODULE MCWindows ------------------------------
(***************************************************************************)
(* The window manager, each part explored on its own: the manager with the  *)
(* threads of its applications, and the components of a window in each of   *)
(* the applications that come with it.                                      *)
(***************************************************************************)
EXTENDS Integers, Sequences, TLC

VARIABLE part     \* the component that runs
VARIABLES wm, api
VARIABLES w

\* Applications: one adds a component whose closure runs each turn and bears losing
\* its handle, one adds a component and ends with an unwrap; then two that do nothing.
Apps ==
  <<"b">> :> [calls |-> <<"loop">>, unwraps |-> FALSE] @@
  <<"e">> :> [calls |-> <<"comp">>, unwraps |-> TRUE]
Quiet == [a \in {<<"b">>, <<"e">>} |-> [calls |-> <<>>, unwraps |-> FALSE]]
Terminal == <<"e">>
Screen == [x |-> 1, y |-> 1, w |-> 11, h |-> 9]

Spaces == INSTANCE WindowManager WITH
  Keys <- {"c", "x", "q"}, Letters <- {"b"}, Clicks <- {}, Programs <- Apps,
  DEFAULT_APP <- Terminal, Area <- Screen, MaxWorkspaces <- 3,
  MaxCommand <- 1, MaxWindows <- 3
Tiles == INSTANCE WindowManager WITH
  Keys <- {"h", "v", "b", "enter", "d", "m"}, Letters <- {"b"},
  Clicks <- {}, Programs <- Quiet, DEFAULT_APP <- Terminal, Area <- Screen,
  MaxWorkspaces <- 1, MaxCommand <- 1, MaxWindows <- 3
Order == INSTANCE WindowManager WITH
  Keys <- {"h", "b", "enter", "o", "m"}, Letters <- {"b"}, Clicks <- {},
  Programs <- Quiet, DEFAULT_APP <- Terminal, Area <- Screen,
  MaxWorkspaces <- 1, MaxCommand <- 1, MaxWindows <- 3
Bar == INSTANCE WindowManager WITH
  Keys <- {"c", "h", "b", "enter", "esc", "back", "terminal", "e"},
  Letters <- {"b", "h"}, Clicks <- {"+", "X", "workspace"},
  Programs <- Apps, DEFAULT_APP <- Terminal, Area <- Screen,
  MaxWorkspaces <- 2, MaxCommand <- 1, MaxWindows <- 2
Buttons == INSTANCE WindowManager WITH
  Keys <- {"h", "b", "enter", "w", "a", "i"}, Letters <- {"b"},
  Clicks <- {"window", "<", ">", "close"}, Programs <- Apps,
  DEFAULT_APP <- Terminal, Area <- Screen, MaxWorkspaces <- 1,
  MaxCommand <- 1, MaxWindows <- 2
Counter == INSTANCE Widgets WITH
  App <- "counter", Keys <- {"f", "w", "s", "d"}, Mouse <- {"down", "up"},
  Hits <- {0, 7, 8, 9}, MaxChars <- 2, MaxValue <- 1
Submit == INSTANCE Widgets WITH
  App <- "submit", Keys <- {"f", "enter", "back"}, Mouse <- {"down", "up"},
  Hits <- {0, 7, 11}, MaxChars <- 2, MaxValue <- 1
Slider == INSTANCE Widgets WITH
  App <- "slider", Keys <- {"+", "-"},
  Mouse <- {"down", "up", "scroll+", "scroll-"}, Hits <- {0, 8},
  MaxChars <- 2, MaxValue <- 1
Radio == INSTANCE Widgets WITH
  App <- "radio", Keys <- {"f", "w"}, Mouse <- {"down", "up"},
  Hits <- {0, 8, 10}, MaxChars <- 2, MaxValue <- 1
Clock == INSTANCE Widgets WITH
  App <- "clock", Keys <- {"w"}, Mouse <- {"up"}, Hits <- {0, 7},
  MaxChars <- 2, MaxValue <- 1
Canvas == INSTANCE Widgets WITH
  App <- "canvas", Keys <- {"w", "f"}, Mouse <- {"down", "up"},
  Hits <- {0, 7}, MaxChars <- 2, MaxValue <- 2
Calculator == INSTANCE Widgets WITH
  App <- "calculator", Keys <- {"f"}, Mouse <- {"up"},
  Hits <- {12, 13, 15, 18, 19, 20, 21}, MaxChars <- 2, MaxValue <- 1
Layout == INSTANCE Widgets WITH
  App <- "layout", Keys <- {"w", "s"}, Mouse <- {"up"}, Hits <- {0, 12},
  MaxChars <- 2, MaxValue <- 1

ASSUME BoundsMakeSense ==
  /\ Spaces!WindowManagerAssumption
  /\ Tiles!WindowManagerAssumption
  /\ Order!WindowManagerAssumption
  /\ Bar!WindowManagerAssumption
  /\ Buttons!WindowManagerAssumption

spacesVars == <<wm, api>>
counterVars == <<w>>
vars == <<part, spacesVars, counterVars>>

\* A component that does not run has no state.
Off == "off"
SpacesOff ==
  /\ wm = Off /\ api = Off
CounterOff ==
  /\ w = Off

Init ==
  \/ /\ part = "workspaces" /\ Spaces!Init
     /\ CounterOff
  \/ /\ part = "tiles" /\ Tiles!Init
     /\ CounterOff
  \/ /\ part = "order" /\ Order!Init
     /\ CounterOff
  \/ /\ part = "bar" /\ Bar!Init
     /\ CounterOff
  \/ /\ part = "buttons" /\ Buttons!Init
     /\ CounterOff
  \/ /\ part = "counter" /\ Counter!Init
     /\ SpacesOff
  \/ /\ part = "submit" /\ Submit!Init
     /\ SpacesOff
  \/ /\ part = "slider" /\ Slider!Init
     /\ SpacesOff
  \/ /\ part = "radio" /\ Radio!Init
     /\ SpacesOff
  \/ /\ part = "clock" /\ Clock!Init
     /\ SpacesOff
  \/ /\ part = "canvas" /\ Canvas!Init
     /\ SpacesOff
  \/ /\ part = "calculator" /\ Calculator!Init
     /\ SpacesOff
  \/ /\ part = "layout" /\ Layout!Init
     /\ SpacesOff

Next ==
  \/ /\ part = "workspaces" /\ Spaces!Next
     /\ UNCHANGED <<part, counterVars>>
  \/ /\ part = "tiles" /\ Tiles!Next
     /\ UNCHANGED <<part, counterVars>>
  \/ /\ part = "order" /\ Order!Next
     /\ UNCHANGED <<part, counterVars>>
  \/ /\ part = "bar" /\ Bar!Next
     /\ UNCHANGED <<part, counterVars>>
  \/ /\ part = "buttons" /\ Buttons!Next
     /\ UNCHANGED <<part, counterVars>>
  \/ /\ part = "counter" /\ Counter!Next
     /\ UNCHANGED <<part, spacesVars>>
  \/ /\ part = "submit" /\ Submit!Next
     /\ UNCHANGED <<part, spacesVars>>
  \/ /\ part = "slider" /\ Slider!Next
     /\ UNCHANGED <<part, spacesVars>>
  \/ /\ part = "radio" /\ Radio!Next
     /\ UNCHANGED <<part, spacesVars>>
  \/ /\ part = "clock" /\ Clock!Next
     /\ UNCHANGED <<part, spacesVars>>
  \/ /\ part = "canvas" /\ Canvas!Next
     /\ UNCHANGED <<part, spacesVars>>
  \/ /\ part = "calculator" /\ Calculator!Next
     /\ UNCHANGED <<part, spacesVars>>
  \/ /\ part = "layout" /\ Layout!Next
     /\ UNCHANGED <<part, spacesVars>>

Spec == Init /\ [][Next]_vars

-----------------------------------------------------------------------------
\* While the manager's loop and the threads of the applications interleave: the
\* windows of a workspace, their order, their focus and the tree of buddies agree;
\* windows never overlap or leave the screen; a handle leads to the workspace its
\* window is in (api.rs); after a frame the screen shows what the manager has; the
\* api's lock is lost only by an application that was closed under its calls.
WindowsExact ==
  /\ part = "workspaces" =>
       /\ Spaces!TypeOK /\ Spaces!WindowsAgree /\ Spaces!WindowsTile
       /\ Spaces!HandlesExact /\ Spaces!FrameExact /\ Spaces!LockLostWithHandle
  /\ part = "tiles" =>
       /\ Tiles!TypeOK /\ Tiles!WindowsAgree /\ Tiles!WindowsTile
       /\ Tiles!HandlesExact /\ Tiles!FrameExact /\ Tiles!LockLostWithHandle
  /\ part = "order" =>
       /\ Order!TypeOK /\ Order!WindowsAgree /\ Order!WindowsTile
       /\ Order!HandlesExact /\ Order!FrameExact /\ Order!LockLostWithHandle
  /\ part = "bar" =>
       /\ Bar!TypeOK /\ Bar!WindowsAgree /\ Bar!WindowsTile
       /\ Bar!HandlesExact /\ Bar!FrameExact /\ Bar!LockLostWithHandle
  /\ part = "buttons" =>
       /\ Buttons!TypeOK /\ Buttons!WindowsAgree /\ Buttons!WindowsTile
       /\ Buttons!HandlesExact /\ Buttons!FrameExact /\ Buttons!LockLostWithHandle

\* Components that share signals and call back into each other (components): the
\* focus moves in the order of the containers and is held only by the focused one;
\* what is dirty is drawn and shows the value its signal has; no callback locks what
\* its caller has locked; labels, sliders and radio buttons of the applications
\* agree with their signals; a layout puts its components apart.
WidgetsExact ==
  /\ part = "counter" =>
       /\ Counter!TypeOK /\ Counter!FocusInOrder /\ Counter!DrawnExact /\ Counter!NotStuck
       /\ Counter!AppsAgree /\ Counter!HoldIsFocused
  /\ part = "submit" =>
       /\ Submit!TypeOK /\ Submit!FocusInOrder /\ Submit!DrawnExact /\ Submit!NotStuck
       /\ Submit!AppsAgree /\ Submit!HoldIsFocused
  /\ part = "slider" =>
       /\ Slider!TypeOK /\ Slider!FocusInOrder /\ Slider!DrawnExact /\ Slider!NotStuck
       /\ Slider!AppsAgree /\ Slider!HoldIsFocused
  /\ part = "radio" =>
       /\ Radio!TypeOK /\ Radio!FocusInOrder /\ Radio!DrawnExact /\ Radio!NotStuck
       /\ Radio!AppsAgree /\ Radio!HoldIsFocused
  /\ part = "clock" =>
       /\ Clock!TypeOK /\ Clock!FocusInOrder /\ Clock!DrawnExact /\ Clock!NotStuck
       /\ Clock!AppsAgree /\ Clock!HoldIsFocused
  /\ part = "canvas" =>
       /\ Canvas!TypeOK /\ Canvas!FocusInOrder /\ Canvas!DrawnExact /\ Canvas!NotStuck
       /\ Canvas!AppsAgree /\ Canvas!HoldIsFocused
  /\ part = "calculator" =>
       /\ Calculator!TypeOK /\ Calculator!FocusInOrder /\ Calculator!DrawnExact /\ Calculator!NotStuck
       /\ Calculator!AppsAgree /\ Calculator!HoldIsFocused
  /\ part = "layout" =>
       /\ Layout!TypeOK /\ Layout!FocusInOrder /\ Layout!DrawnExact /\ Layout!NotStuck
       /\ Layout!AppsAgree /\ Layout!HoldIsFocused
  /\ part = "layout" /\ Layout!Init => Layout!LayoutApart({0, 1})
=============================================================================
