--------------------------- MODULE WindowManager ---------------------------
(***************************************************************************)
(* The window manager (src/os/application/window_manager/src): workspaces  *)
(* with their windows, the tree of buddies and the order of the windows,   *)
(* the command line, the screen, and the Api through which the threads of  *)
(* the applications reach the loop of the manager: handles, a lock and     *)
(* three queues.  The loop and the threads interleave.  What goes on       *)
(* inside a window is the module Widgets; here a window only knows whether *)
(* it has a focused component ("free"), one that does not give up the      *)
(* focus ("held"), or none.  Workspaces are indexed from 0, as in the code.*)
(* wm is the state of the loop, api what it shares with the threads.       *)
(***************************************************************************)
EXTENDS Integers, Sequences, FiniteSets, SequencesExt, TLC

CONSTANTS Keys,          \* the keys that are pressed
          Letters,       \* those that are typed on the command line
          Clicks,        \* what the mouse hits: "+", "X", "workspace", "window", "<", ">", "close"
          Programs,      \* application (a text) |-> its calls of execute, and whether it unwraps them
          DEFAULT_APP,   \* the application of a new workspace
          Area,          \* the rectangle of a new workspace
          MaxWorkspaces, \* 9 in the code
          MaxCommand,    \* bound: letters on the command line
          MaxWindows     \* bound: windows ever created

VARIABLES wm, api

vars == <<wm, api>>

Nobody == 0

WindowManagerAssumption ==
    /\ MaxWorkspaces \in Nat \ {0} /\ MaxWindows \in Nat \ {0} /\ MaxCommand \in Nat
    /\ DEFAULT_APP \in DOMAIN Programs

\* ------------------------------------------------------------- window tree

\* A leaf is <<id>>, a branch <<left, right>>.
IsLeaf(node) == Len(node) = 1

RECURSIVE Leaves(_), insert_value(_, _, _), get_sibling(_, _), remove_leaf(_, _), swap_values(_, _, _)

Leaves(node) == IF IsLeaf(node) THEN node ELSE Leaves(node[1]) \o Leaves(node[2])

insert_value(node, old, new) ==
    CASE IsLeaf(node) /\ node[1] = old -> << <<old>>, <<new>> >>
      [] IsLeaf(node) /\ node[1] # old -> node
      [] OTHER -> <<insert_value(node[1], old, new), insert_value(node[2], old, new)>>

\* The other leaf of a branch of two leaves, or Nobody.
get_sibling(node, id) ==
    CASE IsLeaf(node) -> Nobody
      [] ~IsLeaf(node) /\ IsLeaf(node[1]) /\ IsLeaf(node[2]) ->
             IF node[1][1] = id THEN node[2][1] ELSE IF node[2][1] = id THEN node[1][1] ELSE Nobody
      [] OTHER -> LET l == get_sibling(node[1], id)
                  IN  IF l # Nobody THEN l ELSE get_sibling(node[2], id)

remove_leaf(node, id) ==
    CASE IsLeaf(node) -> node
      [] ~IsLeaf(node) /\ IsLeaf(node[1]) /\ IsLeaf(node[2]) ->
             IF node[1][1] = id THEN node[2] ELSE IF node[2][1] = id THEN node[1] ELSE node
      [] OTHER -> <<remove_leaf(node[1], id), remove_leaf(node[2], id)>>

swap_values(node, a, b) ==
    IF IsLeaf(node) THEN <<IF node[1] = a THEN b ELSE IF node[1] = b THEN a ELSE node[1]>>
                    ELSE <<swap_values(node[1], a, b), swap_values(node[2], a, b)>>

\* ------------------------------------------------- windows and a workspace

AppWindow(rect) == [rect |-> rect, dirty |-> TRUE, comp |-> "none"]

mark_window_dirty(ws, id) == [ws EXCEPT !.windows[id].dirty = TRUE]
can_unfocus(ws) == ws.windows[ws.focus].comp # "held"
unfocus(ws, id) == [ws EXCEPT !.windows[id].comp = "none"]
rescale_window(ws, id, rect) == [ws EXCEPT !.windows[id].rect = rect, !.windows[id].dirty = TRUE]

\* merge: the buddy doubles along the axis on which the two differ.
MergedRect(r, o) ==
    CASE r.x # o.x -> [r EXCEPT !.x = IF r.x < o.x THEN r.x ELSE o.x, !.w = 2 * r.w]
      [] r.x = o.x /\ r.y # o.y -> [r EXCEPT !.y = IF r.y < o.y THEN r.y ELSE o.y, !.h = 2 * r.h]
      [] OTHER -> r

new_with_single_window(id, win, rect) ==
    [id |-> id, windows |-> win :> AppWindow(rect), focus |-> win, order |-> <<win>>, tree |-> <<win>>]

At(order, id) == CHOOSE i \in DOMAIN order : order[i] = id

insert_window(ws, win, rect) ==
    [ws EXCEPT !.windows = @ @@ (win :> AppWindow(rect)), !.tree = insert_value(@, ws.focus, win),
               !.order = InsertAt(@, At(@, ws.focus) + 1, win)]

\* The window after (d = 1) or before (d = -1) the focused one, around the end.
Neighbour(ws, d) == ws.order[((At(ws.order, ws.focus) - 1 + d) % Len(ws.order)) + 1]

\* The focus moves to a window: the old one and the new one are drawn again.
FocusWindow(ws, to) ==
    mark_window_dirty([mark_window_dirty(unfocus(ws, ws.focus), ws.focus) EXCEPT !.focus = to], to)

focus_next_window(ws) == IF can_unfocus(ws) THEN FocusWindow(ws, Neighbour(ws, 1)) ELSE ws
focus_prev_window(ws) == IF can_unfocus(ws) THEN FocusWindow(ws, Neighbour(ws, -1)) ELSE ws
focus_window_at(ws, win) ==
    IF can_unfocus(ws) /\ win # Nobody /\ win # ws.focus THEN FocusWindow(ws, win) ELSE ws

Closable(ws) == Len(ws.order) > 1 /\ get_sibling(ws.tree, ws.focus) # Nobody

close_focused_window(ws) ==
    LET buddy == get_sibling(ws.tree, ws.focus)
        rest == [w \in DOMAIN ws.windows \ {ws.focus} |-> ws.windows[w]]
    IN  IF ~Closable(ws) THEN ws
        ELSE rescale_window([ws EXCEPT !.windows = rest, !.tree = remove_leaf(@, ws.focus),
                                       !.focus = Neighbour(ws, 1), !.order = RemoveAt(@, At(@, ws.focus))],
                            buddy, MergedRect(ws.windows[buddy].rect, ws.windows[ws.focus].rect))

\* A mutant of Moved: the buddies are not told that the windows changed places.
MovedTreeKept(ws, order, with) ==
    LET mine == ws.windows[ws.focus].rect
        other == ws.windows[with].rect
    IN  [rescale_window(rescale_window(ws, with, mine), ws.focus, other) EXCEPT !.order = order]

\* The focused window changes places with the next or the previous one.
Moved(ws, order, with) ==
    LET mine == ws.windows[ws.focus].rect
        other == ws.windows[with].rect
    IN  [rescale_window(rescale_window(ws, with, mine), ws.focus, other)
         EXCEPT !.tree = swap_values(@, ws.focus, with), !.order = order]

move_focused_window_forward(ws) ==
    LET rest == RemoveAt(ws.order, At(ws.order, ws.focus))
        with == Neighbour(ws, 1)
    IN  IF Len(ws.order) = 1 THEN ws
        ELSE Moved(ws, InsertAt(rest, At(rest, with) + 1, ws.focus), with)

move_focused_window_backward(ws) ==
    LET rest == RemoveAt(ws.order, At(ws.order, ws.focus))
        with == Neighbour(ws, -1)
    IN  IF Len(ws.order) = 1 THEN ws ELSE Moved(ws, InsertAt(rest, At(rest, with), ws.focus), with)

\* --------------------------------------------------------- the manager

Current(m) == m.ws[m.cur + 1]
WithCurrent(m, ws) == [m EXCEPT !.ws[m.cur + 1] = ws]

switch_workspace(m, i) == IF m.cur = i THEN m ELSE [m EXCEPT !.cur = i, !.dirty = TRUE, !.selDirty = TRUE]
switch_prev_workspace(m) == switch_workspace(m, (m.cur + Len(m.ws) - 1) % Len(m.ws))
switch_next_workspace(m) == switch_workspace(m, (m.cur + 1) % Len(m.ws))

\* create_new_workspace up to the call of register.
AddWorkspace(m) ==
    LET added == [m EXCEPT !.ws = Append(@, new_with_single_window(m.nextWs, m.nextWin, Area)),
                           !.buttons = @ \cup {m.nextWs}, !.nextWs = @ + 1, !.nextWin = @ + 1]
    IN  [switch_workspace(added, Len(m.ws)) EXCEPT !.selDirty = TRUE]

SplitRect(r, split) == IF split = "h" THEN [r EXCEPT !.h = @ \div 2] ELSE [r EXCEPT !.w = @ \div 2]
OtherHalf(r, split) == IF split = "h" THEN [r EXCEPT !.y = @ + r.h] ELSE [r EXCEPT !.x = @ + r.w]

\* split_window and add_window_to_workspace up to the call of register.
split_window(m, split) ==
    LET ws == Current(m)
        half == SplitRect(ws.windows[ws.focus].rect, split)
    IN  [WithCurrent(m, insert_window(rescale_window(ws, ws.focus, half), m.nextWin, OtherHalf(half, split)))
         EXCEPT !.dirty = TRUE, !.nextWin = @ + 1]

\* remove_current_workspace up to the call of the api.
DropWorkspace(m) ==
    LET kept(f) == f.index # m.cur
        lower(f) == IF f.index > m.cur THEN [f EXCEPT !.index = @ - 1] ELSE f
        fns == SelectSeq(m.fns, kept)
    IN  [m EXCEPT !.buttons = @ \ {Current(m).id}, !.selDirty = TRUE, !.ws = RemoveAt(@, m.cur + 1),
                  !.fns = [i \in DOMAIN fns |-> lower(fns[i])]]

\* --------------------------------------------------------------- the api

\* A thread of an application: created by register, which also gives it its handle.
register(a, index, win, home, app) ==
    LET t == Len(a.threads) + 1
    IN  [a EXCEPT !.threads = Append(@, [app |-> app, at |-> 0, state |-> "new"]),
                  !.handles = @ @@ (t :> [index |-> index, window |-> win, home |-> home])]

\* A mutant: the handles of the later workspaces keep their index.
IndicesKept(a, index) ==
    [a EXCEPT !.handles = [t \in {t \in DOMAIN @ : @[t].index # index} |-> @[t]]]

remove_all_handles_tied_to_workspace(a, index) ==
    LET kept == {t \in DOMAIN a.handles : a.handles[t].index # index}
    IN  [a EXCEPT !.handles = [t \in kept |-> IF @[t].index > index
                                                  THEN [@[t] EXCEPT !.index = @ - 1] ELSE @[t]]]

send_message(a, msg) == [a EXCEPT !.messages = Append(@, msg)]
is_app_name_valid(name) == name \in DOMAIN Programs

Unlocked == api.lock = Nobody

\* run of an application: it takes the lock and keeps it to the end of run.
AppStarts(t) ==
    /\ api.threads[t].state = "new" /\ Unlocked
    /\ api' = [api EXCEPT !.threads[t].state = "running", !.lock = t]
    /\ UNCHANGED wm

\* execute: the component, and the closure of a label, are queued with the
\* index and the window of the handle.  Without a handle an unwrap ends the
\* thread, which leaves the lock taken.
AppExecutes(t) ==
    LET th == api.threads[t]
        prog == Programs[th.app]
        next == [api EXCEPT !.threads[t].at = @ + 1]
    IN  /\ th.state = "running" /\ th.at < Len(prog.calls)
        /\ api' = CASE t \notin DOMAIN api.handles /\ prog.unwraps -> [api EXCEPT !.threads[t].state = "dead"]
                    [] t \notin DOMAIN api.handles /\ ~prog.unwraps -> next
                    [] OTHER -> [next EXCEPT !.components = Append(@, api.handles[t]),
                                             !.closures = IF prog.calls[th.at + 1] = "loop"
                                                          THEN Append(@, api.handles[t]) ELSE @]
        /\ UNCHANGED wm

AppReturns(t) ==
    /\ api.threads[t].state = "running" /\ api.threads[t].at = Len(Programs[api.threads[t].app].calls)
    /\ api' = [api EXCEPT !.threads[t].state = "done", !.lock = Nobody]
    /\ UNCHANGED wm

\* --------------------------------------------------------------- the loop

\* create_new_workspace and split_window with register, which needs the lock.
create_new_workspace(pc) ==
    IF Len(wm.ws) = MaxWorkspaces
        THEN wm' = [wm EXCEPT !.pc = pc] /\ UNCHANGED api
        ELSE /\ Unlocked /\ wm.nextWin <= MaxWindows
             /\ wm' = [AddWorkspace(wm) EXCEPT !.pc = pc]
             /\ api' = register(api, Len(wm.ws), wm.nextWin, wm.nextWs, DEFAULT_APP)

\* remove_current_workspace: the handles go in a step of their own, Unhandle,
\* because a thread that has the lock still queues components before it.
remove_current_workspace(pc) ==
    /\ wm' = IF Len(wm.ws) <= 1 THEN [wm EXCEPT !.pc = pc]
                                ELSE [DropWorkspace(wm) EXCEPT !.pc = "unhandle", !.back = pc]
    /\ UNCHANGED api

Unhandle ==
    /\ wm.pc = "unhandle" /\ Unlocked
    /\ api' = remove_all_handles_tied_to_workspace(api, wm.cur)
    /\ wm' = [switch_prev_workspace(wm) EXCEPT !.dirty = TRUE, !.pc = wm.back]

\* What a window shows: its rectangle, and whether its border is the focused one.
Look(ws, id) == [rect |-> ws.windows[id].rect, focused |-> id = ws.focus]

\* draw: nothing while the command line is open; everything when dirty; else
\* the windows that are dirty, and the selection bar when it is.
Draw ==
    LET ws == Current(wm)
        again == {id \in DOMAIN ws.windows : wm.dirty \/ ws.windows[id].dirty}
        left == IF wm.dirty THEN {} ELSE DOMAIN wm.shown.windows \ again
        drawn == [id \in DOMAIN ws.windows |-> [ws.windows[id] EXCEPT !.dirty = FALSE]]
        bar == wm.dirty \/ wm.selDirty
    IN  /\ wm.pc = "draw"
        /\ wm' = IF wm.cmd.active THEN [wm EXCEPT !.pc = "keyboard"]
                 ELSE [WithCurrent(wm, [ws EXCEPT !.windows = drawn])
                       EXCEPT !.dirty = FALSE, !.selDirty = FALSE, !.pc = "keyboard",
                              !.shown.windows = [id \in left \cup again |->
                                                     IF id \in again THEN Look(ws, id) ELSE @[id]],
                              !.shown.buttons = IF bar THEN wm.buttons ELSE @,
                              !.shown.active = IF bar THEN ws.id ELSE @]
        /\ UNCHANGED api

Goto(m, pc) == wm' = [m EXCEPT !.pc = pc] /\ UNCHANGED api

OnWorkspace(ws) == Goto(WithCurrent(wm, ws), "mouse")

\* CommandLineWindow::process_keyboard_input; a closed command line redraws all.
CommandLineKey(k) ==
    LET closed == [wm EXCEPT !.cmd.active = FALSE, !.dirty = TRUE]
    IN  /\ wm.cmd.active
        /\ \/ k = "enter" /\ Unlocked
              /\ api' = send_message(api, <<"launch", wm.cmd.text, wm.cmd.split>>)
              /\ wm' = [closed EXCEPT !.pc = "mouse"]
           \/ k = "back" /\ Goto([wm EXCEPT !.cmd.text = IF @ = <<>> THEN @ ELSE Front(@)], "mouse")
           \/ k = "esc" /\ Goto(closed, "mouse")
           \/ k \in Letters /\ Len(wm.cmd.text) < MaxCommand
              /\ Goto([wm EXCEPT !.cmd.text = Append(@, k)], "mouse")

activate_enter_app_mode(split) == [wm EXCEPT !.cmd = [active |-> TRUE, text |-> <<>>, split |-> split]]

\* The focused component takes the key, and may take or give up the hold.
ComponentKey ==
    /\ ~wm.cmd.active /\ Current(wm).windows[Current(wm).focus].comp # "none"
    /\ \E c \in {"free", "held"} : OnWorkspace([Current(wm) EXCEPT !.windows[Current(wm).focus].comp = c])

\* focus_next_component and focus_prev_component.
FocusComponent(ws) ==
    IF can_unfocus(ws) THEN {[ws EXCEPT !.windows[ws.focus].comp = c] : c \in {"none", "free", "held"}}
                       ELSE {ws}

ManagerKey(k) ==
    LET ws == Current(wm)
    IN  /\ ~wm.cmd.active
        /\ \/ k = "terminal" /\ Goto(wm, "exit")
           \/ k = "c" /\ create_new_workspace("mouse")
           \/ k = "x" /\ remove_current_workspace("mouse")
           \/ k = "q" /\ Goto(switch_prev_workspace(wm), "mouse")
           \/ k = "e" /\ Goto(switch_next_workspace(wm), "mouse")
           \/ k = "o" /\ OnWorkspace(move_focused_window_forward(ws))
           \/ k = "i" /\ OnWorkspace(move_focused_window_backward(ws))
           \/ k \in {"h", "v"} /\ Goto(activate_enter_app_mode(k), "mouse")
           \/ k = "w" /\ \E n \in FocusComponent(ws) : OnWorkspace(n)
           \/ k = "a" /\ OnWorkspace(focus_prev_window(ws))
           \/ k = "d" /\ OnWorkspace(focus_next_window(ws))
           \/ k = "m" /\ Goto([WithCurrent(wm, close_focused_window(ws)) EXCEPT !.dirty = @ \/ Closable(ws)], "mouse")

process_keyboard_input ==
    /\ wm.pc = "keyboard"
    /\ \/ Goto(wm, "mouse")
       \/ \E k \in Keys : CommandLineKey(k) \/ ComponentKey \/ ManagerKey(k)

\* The selection bar first; then the window and the component under the
\* cursor get the focus, and the component the event: the buttons of the
\* window send messages.
process_mouse_input ==
    /\ wm.pc = "mouse"
    /\ \/ Goto(wm, "components")
       \/ \E c \in Clicks :
             \/ /\ c \in {"+", "X", "workspace"} /\ Unlocked
                /\ \E id \in IF c = "workspace" THEN wm.buttons ELSE {Nobody} : api' = send_message(api, <<c, id>>)
                /\ wm' = [wm EXCEPT !.pc = "components"]
             \/ /\ c = "window"
                /\ \E win \in DOMAIN Current(wm).windows \cup {Nobody} :
                      \E n \in FocusComponent(focus_window_at(Current(wm), win)) :
                         Goto(WithCurrent(wm, n), "components")
             \/ /\ c \in {"<", ">", "close"} /\ Unlocked
                /\ \E win \in DOMAIN Current(wm).windows :
                      LET ws == focus_window_at(Current(wm), win)
                      IN  /\ can_unfocus(ws) /\ ws.focus = win
                          /\ wm' = [WithCurrent(wm, [ws EXCEPT !.windows[win].comp = "free"]) EXCEPT !.pc = "components"]
                /\ api' = send_message(api, <<c, Nobody>>)

\* A queued component reaches its window when the workspace at its index has it.
Found(c) == c.index < Len(wm.ws) /\ c.window \in DOMAIN wm.ws[c.index + 1].windows

add_new_components_from_api ==
    /\ wm.pc = "components"
    /\ IF api.components = <<>> THEN Goto(wm, "closures")
       ELSE LET c == Head(api.components)
            IN  /\ api' = [api EXCEPT !.components = Tail(@)]
                /\ wm' = IF Found(c) THEN wm ELSE [wm EXCEPT !.dropped = @ \cup {<<c.home, c.window>>}]

add_new_closures_from_api ==
    /\ wm.pc = "closures"
    /\ wm' = [wm EXCEPT !.fns = @ \o api.closures, !.pc = "messages"]
    /\ api' = [api EXCEPT !.closures = <<>>]

\* One message of process_messages; rest is the api without it.
Message(msg, rest) ==
    LET ws == Current(wm)
        done(m) == wm' = m /\ api' = rest
    IN  \/ /\ msg[1] = "+" /\ Len(wm.ws) = MaxWorkspaces /\ done(wm)
        \/ /\ msg[1] = "+" /\ Len(wm.ws) < MaxWorkspaces /\ Unlocked /\ wm.nextWin <= MaxWindows
           /\ wm' = AddWorkspace(wm) /\ api' = register(rest, Len(wm.ws), wm.nextWin, wm.nextWs, DEFAULT_APP)
        \/ /\ msg[1] = "X" /\ api' = rest
           /\ wm' = IF Len(wm.ws) <= 1 THEN wm ELSE [DropWorkspace(wm) EXCEPT !.pc = "unhandle", !.back = "messages"]
        \/ /\ msg[1] = "workspace"
           /\ LET at == {i \in DOMAIN wm.ws : wm.ws[i].id = msg[2]}
              IN  done(IF at = {} THEN wm ELSE switch_workspace(wm, (CHOOSE i \in at : TRUE) - 1))
        \/ /\ msg[1] = "close"
           /\ done([WithCurrent(wm, close_focused_window(ws)) EXCEPT !.dirty = @ \/ Closable(ws)])
        \/ msg[1] = ">" /\ done(WithCurrent(wm, move_focused_window_forward(ws)))
        \/ msg[1] = "<" /\ done(WithCurrent(wm, move_focused_window_backward(ws)))
        \/ msg[1] = "launch" /\ ~is_app_name_valid(msg[2]) /\ Unlocked /\ done(wm)
        \/ /\ msg[1] = "launch" /\ is_app_name_valid(msg[2]) /\ Unlocked /\ wm.nextWin <= MaxWindows
           /\ wm' = split_window(wm, msg[3])
           /\ api' = register(rest, wm.cur, wm.nextWin, ws.id, msg[2])

process_messages ==
    /\ wm.pc = "messages"
    /\ IF api.messages = <<>> THEN Goto(wm, "draw")
       ELSE Message(Head(api.messages), [api EXCEPT !.messages = Tail(@)])

Init ==
    LET none == [ws |-> <<>>, cur |-> 0, buttons |-> {}, selDirty |-> TRUE, dirty |-> TRUE,
                 cmd |-> [active |-> FALSE, text |-> <<>>, split |-> "h"], fns |-> <<>>,
                 nextWs |-> 1, nextWin |-> 1, pc |-> "draw", back |-> "draw", dropped |-> {},
                 shown |-> [windows |-> <<>>, buttons |-> {}, active |-> Nobody]]
        closed == [handles |-> <<>>, threads |-> <<>>, lock |-> Nobody,
                   components |-> <<>>, closures |-> <<>>, messages |-> <<>>]
    IN  wm = AddWorkspace(none) /\ api = register(closed, 0, 1, 1, DEFAULT_APP)

Loop == \/ Draw \/ process_keyboard_input \/ process_mouse_input
        \/ add_new_components_from_api \/ add_new_closures_from_api \/ process_messages \/ Unhandle

Apps == \E t \in DOMAIN api.threads : AppStarts(t) \/ AppExecutes(t) \/ AppReturns(t)

Next == Loop \/ Apps

Spec == Init /\ [][Next]_vars

\* ------------------------------------------------------------- properties

\* The current workspace exists, a handle belongs to a thread that was
\* created, and the lock to a thread that runs or died with it.
TypeOK ==
    /\ wm.cur \in 0 .. Len(wm.ws) - 1 \/ wm.pc = "unhandle"
    /\ Len(wm.ws) \in 1 .. MaxWorkspaces
    /\ DOMAIN api.handles \subseteq DOMAIN api.threads
    /\ api.lock # Nobody => api.threads[api.lock].state \in {"running", "dead"}

\* The map, the order and the tree of a workspace hold the same windows, each
\* once, the focus is one of them, and the bar has a button per workspace.
WindowsAgree ==
    /\ \A i \in DOMAIN wm.ws :
          LET ws == wm.ws[i]
          IN  /\ IsInjective(ws.order) /\ IsInjective(Leaves(ws.tree))
              /\ ToSet(ws.order) = DOMAIN ws.windows /\ ToSet(Leaves(ws.tree)) = DOMAIN ws.windows
              /\ ws.focus \in DOMAIN ws.windows
    /\ wm.buttons = {wm.ws[i].id : i \in DOMAIN wm.ws}
    /\ \A i, j \in DOMAIN wm.ws : i # j => DOMAIN wm.ws[i].windows \cap DOMAIN wm.ws[j].windows = {}

Inside(r, o) == r.x >= o.x /\ r.y >= o.y /\ r.x + r.w <= o.x + o.w /\ r.y + r.h <= o.y + o.h
Apart(r, o) == r.x + r.w <= o.x \/ o.x + o.w <= r.x \/ r.y + r.h <= o.y \/ o.y + o.h <= r.y

\* However windows are split, moved and closed, the windows of a workspace
\* stay inside its area and never overlap, and two buddies share exactly one
\* coordinate, which is what merge asserts and what it tells the axis by (their
\* sizes may differ: halving an odd size loses a pixel for good).
WindowsTile ==
    \A i \in DOMAIN wm.ws :
       LET ws == wm.ws[i]
           rect(w) == ws.windows[w].rect
       IN  /\ \A w \in DOMAIN ws.windows : Inside(rect(w), Area)
           /\ \A w, v \in DOMAIN ws.windows : w # v => Apart(rect(w), rect(v))
           /\ \A w \in DOMAIN ws.windows :
                 LET b == get_sibling(ws.tree, w)
                 IN  b # Nobody => (rect(w).x = rect(b).x) # (rect(w).y = rect(b).y)

\* The index in a handle is that of the workspace in which its window was
\* opened, whatever workspaces were removed since.
HandlesExact ==
    wm.pc # "unhandle" =>
        \A t \in DOMAIN api.handles : /\ api.handles[t].index < Len(wm.ws)
                                      /\ wm.ws[api.handles[t].index + 1].id = api.handles[t].home

\* After a draw the screen shows the windows of the current workspace where
\* they are, with one focused border, and the bar its buttons with the active
\* one marked: every change left the dirty marks it needs.
FrameExact ==
    wm.pc = "keyboard" /\ ~wm.cmd.active =>
        LET ws == Current(wm)
        IN  /\ wm.shown.windows = [id \in DOMAIN ws.windows |-> Look(ws, id)]
            /\ wm.shown.buttons = wm.buttons /\ wm.shown.active = ws.id

\* The lock of the api is lost only with a thread whose workspace was removed
\* before it made its calls: then the loop never gets it again.
LockLostWithHandle ==
    \A t \in DOMAIN api.threads : api.threads[t].state = "dead" => t \notin DOMAIN api.handles

\* add_new_components_from_api "Adds all components to the window that have
\* been queued by the api since the last frame": no component of a window
\* that is still open is dropped.
AllQueuedAdded ==
    \A d \in wm.dropped : \A i \in DOMAIN wm.ws : wm.ws[i].id = d[1] => d[2] \notin DOMAIN wm.ws[i].windows

=============================================================================
