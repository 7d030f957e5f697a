------------------------------- MODULE MCApps --------------------------------
(***************************************************************************)
(* The programs one sits in front of, each explored on its own: the text    *)
(* editor and its piece table, the shell, and the terminal with its tty.    *)
(* Each runs several times, with the keys and the output that one of its    *)
(* parts is about.                                                          *)
(***************************************************************************)
EXTENDS Integers, Sequences, TLC

VARIABLE part     \* the component that runs
VARIABLES buf, text, edits, caret, mode, copy, view, offset, draws, pc
VARIABLES sh
VARIABLES tm

\* A line for the editor; every text of up to six characters and lines; texts that
\* are higher than the view.
Line == <<"a", "n">>
ShortTexts == UNION {[1 .. n -> {"a", "n"}] : n \in 0 .. 6}
LongTexts == {[i \in 1 .. 16 |-> "n"], [i \in 1 .. 24 |-> IF i % 2 = 1 THEN "a" ELSE "n"]}

\* The commands of the shell, and the programs its completion knows.
Commands ==
  <<"e">> :> "debug_error" @@ <<"A">> :> "alias" @@ <<"U">> :> "unalias" @@
  <<"c">> :> "cd" @@ <<"m">> :> "mkdir" @@ <<"l">> :> "ls" @@ <<"p">> :> "pwd" @@
  <<"x">> :> "exit" @@ <<"o">> :> "echo"
Programs ==
  << [name |-> <<"t", "m">>, single |-> << <<"x">> >>,
      keys |-> << << <<"m">>, << <<"v">>, <<"w">> >> >> >>],
     [name |-> <<"t">>, single |-> << <<"m", "y">> >>, keys |-> <<>>] >>

\* What is written to the terminal: characters, and control sequences with parameters.
Plain(op) == <<op, <<>>>>
Csi(op, n) == <<op, <<n>>>>
Lines == {Plain("a"), Plain("nl")}
Moves ==
  {Plain("a"), Plain("W"), Plain("nl"), Csi("D", 1), Csi("C", 1), Csi("A", 1),
   Csi("K", 1), Csi("J", 0), Csi("J", 2)}
Places ==
  {Plain("a"), Plain(" "), Plain("z"), Plain("tab"), Plain("bell"), Csi("B", 1),
   Csi("E", 0), Csi("F", 0), Csi("G", 3), <<"H", <<3, 1>>>>, <<"H", <<1, 3>>>>,
   Csi("H", 0), Csi("s", 0), Csi("u", 0), Csi("K", 0), Csi("K", 2), Csi("J", 1)}
Styles ==
  {Plain("a")} \cup
  {<<"m", p>> : p \in {<<38, 5, 7>>, <<48, 5, 300>>, <<38, 2, 1>>, <<1, 94, 45>>,
                       <<2, 101>>, <<22, 27, 39>>, <<0>>, <<38, 5, 1, 41>>, <<31, 7>>}}

Undo == INSTANCE TextEditor WITH
  Files <- {Line}, MaxEdits <- 3, Rows <- 3, Cols <- 9,
  Views <- {"markdown"}, Uses <- {"edit", "undo"}
Copy == INSTANCE TextEditor WITH
  Files <- {Line}, MaxEdits <- 2, Rows <- 3, Cols <- 9,
  Views <- {"markdown"}, Uses <- {"edit", "copy"}
Menu == INSTANCE TextEditor WITH
  Files <- {Line}, MaxEdits <- 2, Rows <- 3, Cols <- 9,
  Views <- {"markdown"}, Uses <- {"edit", "menu"}
Short == INSTANCE TextEditor WITH
  Files <- ShortTexts, MaxEdits <- 1, Rows <- 4, Cols <- 9,
  Views <- {"simple", "code"}, Uses <- {"view"}
Long == INSTANCE TextEditor WITH
  Files <- LongTexts, MaxEdits <- 1, Rows <- 12, Cols <- 4,
  Views <- {"simple", "code"}, Uses <- {"view"}
Edited == INSTANCE Shell WITH
  Keys <- {"a", "&", "|", ">", "'", " ", "Left", "Back", "Del", "End"},
  MaxLine <- 4, MaxHistory <- 0, MaxAlias <- 0, Aliases <- <<>>,
  Registry <- <<>>, BuiltIns <- Commands, Dirs <- {<<>>}, Apps <- {<<"a">>},
  MaxSubmits <- 0
Completed == INSTANCE Shell WITH
  Keys <- {"t", "m", " ", "Tab", "Home", "Right", "Del"}, MaxLine <- 4,
  MaxHistory <- 0, MaxAlias <- 0, Aliases <- <<>>, Registry <- Programs,
  BuiltIns <- Commands, Dirs <- {<<>>}, Apps <- {<<"a">>}, MaxSubmits <- 0
Ran == INSTANCE Shell WITH
  Keys <- {"e", "a", "&", ";", "Enter"}, MaxLine <- 6, MaxHistory <- 0,
  MaxAlias <- 0, Aliases <- <<>>, Registry <- <<>>, BuiltIns <- Commands,
  Dirs <- {<<>>}, Apps <- {<<"a">>}, MaxSubmits <- 1
Aliased == INSTANCE Shell WITH
  Keys <- {"A", "U", " ", "k", "=", "Enter"}, MaxLine <- 4, MaxHistory <- 0,
  MaxAlias <- 1, Aliases <- <<>>, Registry <- <<>>, BuiltIns <- Commands,
  Dirs <- {<<>>}, Apps <- {<<"a">>}, MaxSubmits <- 2
Unaliased == INSTANCE Shell WITH
  Keys <- {"U", " ", "k", "'", "Enter"}, MaxLine <- 5, MaxHistory <- 0,
  MaxAlias <- 1, Aliases <- << <<<<"k">>, <<"e", " ", "e">>>> >>,
  Registry <- <<>>, BuiltIns <- Commands, Dirs <- {<<>>}, Apps <- {<<"a">>},
  MaxSubmits <- 2
Moved == INSTANCE Shell WITH
  Keys <- {"c", "m", " ", ".", "/", "Enter"}, MaxLine <- 3, MaxHistory <- 0,
  MaxAlias <- 0, Aliases <- <<>>, Registry <- <<>>, BuiltIns <- Commands,
  Dirs <- {<<>>, << <<"m">> >>}, Apps <- {<<"a">>}, MaxSubmits <- 2
Parent == INSTANCE Shell WITH
  Keys <- {"c", "m", " ", ".", "Enter"}, MaxLine <- 4, MaxHistory <- 0,
  MaxAlias <- 0, Aliases <- <<>>, Registry <- <<>>, BuiltIns <- Commands,
  Dirs <- {<<>>, << <<"m">> >>}, Apps <- {<<"a">>}, MaxSubmits <- 2
Recalled == INSTANCE Shell WITH
  Keys <- {"a", "&", "Up", "Down", "Back", "Enter"}, MaxLine <- 3,
  MaxHistory <- 2, MaxAlias <- 0, Aliases <- <<>>, Registry <- <<>>,
  BuiltIns <- Commands, Dirs <- {<<>>}, Apps <- {<<"a">>}, MaxSubmits <- 2
Reused == INSTANCE Shell WITH
  Keys <- {"a", "&", "Up", "Down", "Left", "Back", "Enter"}, MaxLine <- 2,
  MaxHistory <- 2, MaxAlias <- 0, Aliases <- <<>>, Registry <- <<>>,
  BuiltIns <- Commands, Dirs <- {<<>>}, Apps <- {<<"a">>}, MaxSubmits <- 2
Screen == INSTANCE Terminal WITH
  Columns <- 3, Rows <- 3, TAB_SPACES <- 2, Output <- Moves, Keys <- {},
  Modes <- {}, BUFFER_SIZE <- 3, ReadSize <- 3, MaxOutput <- 4,
  MaxKeys <- 0, MaxReads <- 0, MaxBlinks <- 0
Cursors == INSTANCE Terminal WITH
  Columns <- 3, Rows <- 3, TAB_SPACES <- 2, Output <- Places, Keys <- {},
  Modes <- {}, BUFFER_SIZE <- 3, ReadSize <- 3, MaxOutput <- 3,
  MaxKeys <- 0, MaxReads <- 0, MaxBlinks <- 0
Colours == INSTANCE Terminal WITH
  Columns <- 4, Rows <- 3, TAB_SPACES <- 2, Output <- Styles, Keys <- {},
  Modes <- {}, BUFFER_SIZE <- 3, ReadSize <- 3, MaxOutput <- 3,
  MaxKeys <- 0, MaxReads <- 0, MaxBlinks <- 0
Edits == INSTANCE Terminal WITH
  Columns <- 6, Rows <- 3, TAB_SPACES <- 2, Output <- Lines,
  Keys <- {"a", "b", "Left", "Right", "Back", "Del", "Enter"},
  Modes <- {"Canonical"}, BUFFER_SIZE <- 3, ReadSize <- 3, MaxOutput <- 1,
  MaxKeys <- 5, MaxReads <- 2, MaxBlinks <- 0
Ends == INSTANCE Terminal WITH
  Columns <- 4, Rows <- 3, TAB_SPACES <- 2, Output <- Lines,
  Keys <- {"a", "Home", "End", "Enter"}, Modes <- {"Canonical"},
  BUFFER_SIZE <- 3, ReadSize <- 3, MaxOutput <- 1, MaxKeys <- 4,
  MaxReads <- 2, MaxBlinks <- 0
ModesOf == INSTANCE Terminal WITH
  Columns <- 4, Rows <- 3, TAB_SPACES <- 2, Output <- Lines,
  Keys <- {"a", "Enter", "release", "hotkey"},
  Modes <- {"Canonical", "Fluid", "Raw"}, BUFFER_SIZE <- 3, ReadSize <- 3,
  MaxOutput <- 0, MaxKeys <- 4, MaxReads <- 2, MaxBlinks <- 1

ASSUME BoundsMakeSense ==
  /\ Undo!EditorAssumption
  /\ Copy!EditorAssumption
  /\ Menu!EditorAssumption
  /\ Short!EditorAssumption
  /\ Long!EditorAssumption
  /\ Edited!ShellAssumption
  /\ Completed!ShellAssumption
  /\ Ran!ShellAssumption
  /\ Aliased!ShellAssumption
  /\ Unaliased!ShellAssumption
  /\ Moved!ShellAssumption
  /\ Parent!ShellAssumption
  /\ Recalled!ShellAssumption
  /\ Reused!ShellAssumption
  /\ Screen!TerminalAssumption
  /\ Cursors!TerminalAssumption
  /\ Colours!TerminalAssumption
  /\ Edits!TerminalAssumption
  /\ Ends!TerminalAssumption
  /\ ModesOf!TerminalAssumption

undoVars == <<buf, text, edits, caret, mode, copy, view, offset, draws, pc>>
editedVars == <<sh>>
screenVars == <<tm>>
vars == <<part, undoVars, editedVars, screenVars>>

\* A component that does not run has no state.
Off == "off"
UndoOff ==
  /\ buf = Off /\ text = Off /\ edits = Off /\ caret = Off /\ mode = Off
  /\ copy = Off /\ view = Off /\ offset = Off /\ draws = Off /\ pc = Off
EditedOff ==
  /\ sh = Off
ScreenOff ==
  /\ tm = Off

Init ==
  \/ /\ part = "undo" /\ Undo!Init
     /\ EditedOff /\ ScreenOff
  \/ /\ part = "copy" /\ Copy!Init
     /\ EditedOff /\ ScreenOff
  \/ /\ part = "menu" /\ Menu!Init
     /\ EditedOff /\ ScreenOff
  \/ /\ part = "short" /\ Short!Init
     /\ EditedOff /\ ScreenOff
  \/ /\ part = "long" /\ Long!Init
     /\ EditedOff /\ ScreenOff
  \/ /\ part = "line" /\ Edited!Init
     /\ UndoOff /\ ScreenOff
  \/ /\ part = "complete" /\ Completed!Init
     /\ UndoOff /\ ScreenOff
  \/ /\ part = "run" /\ Ran!Init
     /\ UndoOff /\ ScreenOff
  \/ /\ part = "alias" /\ Aliased!Init
     /\ UndoOff /\ ScreenOff
  \/ /\ part = "unalias" /\ Unaliased!Init
     /\ UndoOff /\ ScreenOff
  \/ /\ part = "directory" /\ Moved!Init
     /\ UndoOff /\ ScreenOff
  \/ /\ part = "up" /\ Parent!Init
     /\ UndoOff /\ ScreenOff
  \/ /\ part = "history" /\ Recalled!Init
     /\ UndoOff /\ ScreenOff
  \/ /\ part = "reuse" /\ Reused!Init
     /\ UndoOff /\ ScreenOff
  \/ /\ part = "screen" /\ Screen!Init
     /\ UndoOff /\ EditedOff
  \/ /\ part = "cursor" /\ Cursors!Init
     /\ UndoOff /\ EditedOff
  \/ /\ part = "colour" /\ Colours!Init
     /\ UndoOff /\ EditedOff
  \/ /\ part = "edit" /\ Edits!Init
     /\ UndoOff /\ EditedOff
  \/ /\ part = "ends" /\ Ends!Init
     /\ UndoOff /\ EditedOff
  \/ /\ part = "modes" /\ ModesOf!Init
     /\ UndoOff /\ EditedOff

Next ==
  \/ /\ part = "undo" /\ Undo!Next
     /\ UNCHANGED <<part, editedVars, screenVars>>
  \/ /\ part = "copy" /\ Copy!Next
     /\ UNCHANGED <<part, editedVars, screenVars>>
  \/ /\ part = "menu" /\ Menu!Next
     /\ UNCHANGED <<part, editedVars, screenVars>>
  \/ /\ part = "short" /\ Short!Next
     /\ UNCHANGED <<part, editedVars, screenVars>>
  \/ /\ part = "long" /\ Long!Next
     /\ UNCHANGED <<part, editedVars, screenVars>>
  \/ /\ part = "line" /\ Edited!Next
     /\ UNCHANGED <<part, undoVars, screenVars>>
  \/ /\ part = "complete" /\ Completed!Next
     /\ UNCHANGED <<part, undoVars, screenVars>>
  \/ /\ part = "run" /\ Ran!Next
     /\ UNCHANGED <<part, undoVars, screenVars>>
  \/ /\ part = "alias" /\ Aliased!Next
     /\ UNCHANGED <<part, undoVars, screenVars>>
  \/ /\ part = "unalias" /\ Unaliased!Next
     /\ UNCHANGED <<part, undoVars, screenVars>>
  \/ /\ part = "directory" /\ Moved!Next
     /\ UNCHANGED <<part, undoVars, screenVars>>
  \/ /\ part = "up" /\ Parent!Next
     /\ UNCHANGED <<part, undoVars, screenVars>>
  \/ /\ part = "history" /\ Recalled!Next
     /\ UNCHANGED <<part, undoVars, screenVars>>
  \/ /\ part = "reuse" /\ Reused!Next
     /\ UNCHANGED <<part, undoVars, screenVars>>
  \/ /\ part = "screen" /\ Screen!Next
     /\ UNCHANGED <<part, undoVars, editedVars>>
  \/ /\ part = "cursor" /\ Cursors!Next
     /\ UNCHANGED <<part, undoVars, editedVars>>
  \/ /\ part = "colour" /\ Colours!Next
     /\ UNCHANGED <<part, undoVars, editedVars>>
  \/ /\ part = "edit" /\ Edits!Next
     /\ UNCHANGED <<part, undoVars, editedVars>>
  \/ /\ part = "ends" /\ Ends!Next
     /\ UNCHANGED <<part, undoVars, editedVars>>
  \/ /\ part = "modes" /\ ModesOf!Next
     /\ UNCHANGED <<part, undoVars, editedVars>>

Spec == Init /\ [][Next]_vars

-----------------------------------------------------------------------------
\* The piece table of the editor (text_buffer) spells the text its edits make, and
\* undo and redo, in any order and among further edits, lead back to the file and
\* forth again. (The Undo button leaves the caret where it is, and what is typed
\* behind the end is lost to undo.) A view scrolls the caret into sight after
\* finitely many renders.
EditorExact ==
  /\ part = "undo" => Undo!TypeOK /\ Undo!BufferExact /\ Undo!UndoExact
  /\ part = "copy" => Copy!TypeOK /\ Copy!BufferExact /\ Copy!UndoExact
  /\ part = "menu" => Menu!TypeOK /\ Menu!BufferExact
  /\ part = "short" => Short!TypeOK /\ Short!BufferExact /\ Short!RenderSettles
  /\ part = "long" => Long!TypeOK /\ Long!BufferExact /\ Long!RenderSettles

\* The shell keeps its tokens while a line is edited in the middle: they spell the
\* line and are those of lexing it anew; the screen shows prompt, line and
\* suggestion; jobs are what the tokens say; a job runs as its && and || allow;
\* the working directory has neither dots nor empty names.
ShellExact ==
  /\ part = "line" =>
       /\ Edited!TypeOK /\ Edited!TokensExact /\ Edited!ScreenExact
       /\ Edited!JobsExact /\ Edited!RunsExact /\ Edited!WdProper
  /\ part = "complete" =>
       /\ Completed!TypeOK /\ Completed!TokensExact /\ Completed!ScreenExact
       /\ Completed!JobsExact /\ Completed!RunsExact /\ Completed!WdProper
  /\ part = "run" =>
       /\ Ran!TypeOK /\ Ran!TokensExact /\ Ran!ScreenExact
       /\ Ran!JobsExact /\ Ran!RunsExact /\ Ran!WdProper
  /\ part = "alias" =>
       /\ Aliased!TypeOK /\ Aliased!TokensExact /\ Aliased!ScreenExact
       /\ Aliased!JobsExact /\ Aliased!RunsExact /\ Aliased!WdProper
  /\ part = "unalias" =>
       /\ Unaliased!TypeOK /\ Unaliased!TokensExact /\ Unaliased!ScreenExact
       /\ Unaliased!JobsExact /\ Unaliased!RunsExact /\ Unaliased!WdProper
  /\ part = "directory" =>
       /\ Moved!TypeOK /\ Moved!TokensExact /\ Moved!ScreenExact
       /\ Moved!JobsExact /\ Moved!RunsExact /\ Moved!WdProper
  /\ part = "up" =>
       /\ Parent!TypeOK /\ Parent!TokensExact /\ Parent!ScreenExact
       /\ Parent!JobsExact /\ Parent!RunsExact /\ Parent!WdProper
  /\ part = "history" =>
       /\ Recalled!TypeOK /\ Recalled!TokensExact /\ Recalled!ScreenExact
       /\ Recalled!JobsExact /\ Recalled!RunsExact /\ Recalled!WdProper
  /\ part = "reuse" =>
       /\ Reused!TypeOK /\ Reused!TokensExact /\ Reused!ScreenExact
       /\ Reused!JobsExact /\ Reused!RunsExact /\ Reused!WdProper

\* The terminal: every cell on the screen shows the character of the buffer in its
\* colours, or the cursor; buffer and cursor follow the output; the line that is
\* edited in canonical mode is the one on the screen, and a reader gets it in the
\* mode it asked for; the cursor never runs out of the buffer to the left but for
\* the keys and sequences that ask for it.
TerminalExact ==
  /\ part = "screen" =>
       /\ Screen!TypeOK /\ Screen!BufferDrawn /\ Screen!ScreenFollows
       /\ Screen!EchoExact /\ Screen!ReadsExact /\ Screen!NoUnderflow
  /\ part = "cursor" =>
       /\ Cursors!TypeOK /\ Cursors!BufferDrawn /\ Cursors!ScreenFollows
       /\ Cursors!EchoExact /\ Cursors!ReadsExact /\ Cursors!NoUnderflow
  /\ part = "colour" =>
       /\ Colours!TypeOK /\ Colours!BufferDrawn /\ Colours!ScreenFollows
       /\ Colours!EchoExact /\ Colours!ReadsExact /\ Colours!NoUnderflow
  /\ part = "edit" =>
       /\ Edits!TypeOK /\ Edits!BufferDrawn /\ Edits!ScreenFollows
       /\ Edits!EchoExact /\ Edits!ReadsExact /\ Edits!NoUnderflow
  /\ part = "ends" =>
       /\ Ends!TypeOK /\ Ends!BufferDrawn /\ Ends!ScreenFollows
       /\ Ends!EchoExact /\ Ends!ReadsExact /\ Ends!NoUnderflow
  /\ part = "modes" =>
       /\ ModesOf!TypeOK /\ ModesOf!BufferDrawn /\ ModesOf!ScreenFollows
       /\ ModesOf!EchoExact /\ ModesOf!ReadsExact /\ ModesOf!NoUnderflow
=============================================================================
