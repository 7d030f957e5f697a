------------------------------ MODULE Terminal ------------------------------
(***************************************************************************)
(* The terminal emulator and the tty behind it                             *)
(* (src/os/application/terminal_emulator/, src/os/kernel/src/device/tty.rs, *)
(* syscall/sys_terminal.rs, src/os/library/terminal/): the character buffer *)
(* with the two framebuffers it is drawn into, the escape sequences, the    *)
(* line editor of canonical mode, and the handshake between the terminal    *)
(* and a reading application.                                               *)
(*                                                                         *)
(* What the escape-sequence parser delivers is a pair of an operation and   *)
(* its parameters; framebuffers are functions from cells to what is drawn.  *)
(* Row 0 is the status bar.  `odd` records which of the situations happened *)
(* that the properties except.                                              *)
(***************************************************************************)
EXTENDS Integers, Sequences, FiniteSets, SequencesExt

CONSTANTS Columns, Rows,   \* display.size
          TAB_SPACES,
          Output,          \* what the application writes
          Keys,            \* the keys pressed
          Modes,           \* the modes the application reads in
          BUFFER_SIZE,     \* of a canonical line
          ReadSize,        \* of the application's buffer
          MaxOutput, MaxKeys, MaxReads, \* bounds
          MaxBlinks

VARIABLE tm
vars == <<tm>>

TerminalAssumption ==
    /\ Columns \in Nat \ {0, 1} /\ Rows \in Nat \ {0, 1} /\ TAB_SPACES \in Nat \ {0}
    /\ BUFFER_SIZE \in Nat /\ ReadSize \in Nat /\ Modes \subseteq {"Canonical", "Fluid", "Raw"}

Letters == {"a", "b", " ", "W", "z"}
Wide == "W"      \* a glyph two columns wide
NoGlyph == "z"   \* a character the font does not have
Null == "0"
Shade(color, up, down) == <<color, up, down>>   \* a colour and how its brightness was shifted
INVISIBLE == Shade("invisible", FALSE, FALSE)
WHITE == Shade("white", FALSE, FALSE)
BLACK == Shade("black", FALSE, FALSE)
CURSOR == "cursor"
Status == <<"status">>
Width(c) == CASE c = Wide -> 2 [] c = NoGlyph -> 0 [] OTHER -> 1

Cells == 0 .. Columns * Rows - 1
Index(pos) == pos[2] * Columns + pos[1]
Row(c) == c \div Columns
Col(c) == c % Columns

\* ------------------------------------------------------------------ drawing

Blank(bg) == <<"blank", bg>>
Glyph(c, part, fg, bg) == IF c = " " THEN Blank(bg) ELSE <<c, part, fg, bg>>

\* draw_char clips at the framebuffer's edge and skips invisible pixels.
Drawn(fb, c, pos, fg, bg) ==
    [x \in Cells |-> IF fg # INVISIBLE /\ Row(x) = pos[2] /\ Col(x) \in pos[1] .. pos[1] + Width(c) - 1
                     THEN Glyph(c, x - Index(pos) + 1, fg, bg) ELSE fb[x]]

print_char_at(t, c, pos) ==
    [t EXCEPT !.back = Drawn(@, c, pos, t.color.fg_color, t.color.bg_color),
              !.direct = Drawn(@, c, pos, t.color.fg_color, t.color.bg_color),
              !.dirty = @ \/ (Width(c) > 0 /\ pos[1] < Columns /\ pos[2] < Rows)]

\* flush does nothing unless the buffer was drawn to since.
flush(t) == IF t.dirty THEN [t EXCEPT !.direct = t.back, !.dirty = FALSE] ELSE t

draw_status_bar(t) ==
    [t EXCEPT !.back = [x \in Cells |-> IF Row(x) = 0 THEN Status ELSE @[x]],
              !.direct = [x \in Cells |-> IF Row(x) = 0 THEN Status ELSE @[x]], !.dirty = TRUE]

\* Cells S are filled with the background and emptied in the character buffer.
Emptied(t, S, value) ==
    LET bg == t.color.bg_color
    IN  [t EXCEPT !.back = [x \in Cells |-> IF x \in S THEN Blank(bg) ELSE @[x]],
                  !.buf = [x \in DOMAIN @ |-> IF x \in S THEN [v |-> value, fg |-> t.color.fg_color, bg |-> bg] ELSE @[x]],
                  !.dirty = @ \/ S # {}]

\* Mutant: the character buffer stays where it is.
ScrollPixels(t) ==
    LET last == Columns * (Rows - 1)
        u == [t EXCEPT !.back = [x \in Cells |-> IF x < last THEN @[x + Columns] ELSE Blank(t.color.bg_color)]]
    IN  flush(draw_status_bar([u EXCEPT !.dirty = TRUE]))

scroll_up(t) ==
    LET last == Columns * (Rows - 1)
        u == [t EXCEPT !.buf = [x \in DOMAIN @ |-> IF x < last THEN @[x + Columns] ELSE @[x]],
                       !.back = [x \in Cells |-> IF x < last THEN @[x + Columns] ELSE @[x]]]
    IN  flush(draw_status_bar([Emptied(u, {x \in Cells : x >= last}, Null) EXCEPT !.dirty = TRUE]))

ScrolledTo(t, p) ==
    LET Scrolled[n \in 0 .. Rows] == IF n = 0 THEN t ELSE scroll_up(Scrolled[n - 1])
    IN  IF p[2] < Rows THEN [t EXCEPT !.pos = p]
        ELSE [Scrolled[IF p[2] - Rows + 1 > Rows THEN Rows ELSE p[2] - Rows + 1] EXCEPT !.pos = <<p[1], Rows - 1>>]
position(t, pos) == ScrolledTo(t, IF pos[2] = 0 THEN <<pos[1], 1>> ELSE pos)

\* ----------------------------------------------------------- what is erased

FromCursor(t) == {x \in Cells : x >= Index(t.pos)}
ToCursor(t) == {x \in Cells : x < Index(t.pos)}
Line(t) == {x \in Cells : Row(x) = t.pos[2]}

clear_screen(t) == flush(draw_status_bar(Emptied(t, Cells, Null)))
clear_screen_to_cursor(t) == flush(draw_status_bar(Emptied(t, ToCursor(t), Null)))
clear_screen_from_cursor(t) == flush(draw_status_bar(Emptied(t, FromCursor(t), Null)))
clear_line(t) == flush(Emptied(t, Line(t), " "))
clear_line_to_cursor(t) == flush(Emptied(t, Line(t) \cap ToCursor(t), Null))
clear_line_from_cursor(t) == flush(Emptied(t, Line(t) \cap FromCursor(t), Null))

\* ------------------------------------------------------------- print_char

\* Behind the last column the next row begins, behind the last row the screen
\* scrolls.
RowSettled(t) == IF t.pos[2] >= Rows THEN [scroll_up(t) EXCEPT !.pos = <<0, Rows - 1>>] ELSE t
Settled(t) == RowSettled(IF t.pos[1] >= Columns THEN [t EXCEPT !.pos = <<0, t.pos[2] + 1>>] ELSE t)

NewLine(t) == Settled([clear_line_from_cursor(t) EXCEPT !.pos = <<0, t.pos[2] + 1>>])

\* The character goes into the buffer, the cells a wide glyph covers are null.
Stored(t, c) ==
    LET i == Index(t.pos)
    IN  [t.buf EXCEPT ![i] = [v |-> c, fg |-> t.color.fg_color, bg |-> t.color.bg_color]]

Covered(t, c, buf) ==
    LET i == Index(t.pos)
        S == {i + k : k \in {j \in 1 .. Width(c) - 1 : t.pos[1] + j < Columns}}
    IN  [x \in DOMAIN buf |-> IF x \in S THEN [v |-> Null, fg |-> INVISIBLE, bg |-> INVISIBLE] ELSE buf[x]]

Advanced(t, width) ==
    IF t.pos[1] + width >= Columns THEN position(t, <<0, t.pos[2] + 1>>)
    ELSE [t EXCEPT !.pos = <<t.pos[1] + width, t.pos[2]>>]

print_char(t, c) ==
    Settled(IF Width(c) = 0 THEN t
            ELSE Advanced([print_char_at(t, c, t.pos) EXCEPT !.buf = Covered(t, c, Stored(t, c))], Width(c)))

handle_tab(t) ==
    position(t, IF t.pos[1] + TAB_SPACES >= Columns THEN <<0, t.pos[2] + 1>>
                ELSE <<((t.pos[1] + TAB_SPACES) \div TAB_SPACES) * TAB_SPACES, t.pos[2]>>)

\* ------------------------------------------------------------- sequences
\* Positions are u16: below zero the emulator stops (or the position wraps).

Fault(t) == [t EXCEPT !.fault = TRUE]
Checked(t, pos) == IF pos[1] < 0 \/ pos[2] < 0 THEN Fault(t) ELSE position(t, pos)
OneOr(n) == IF n = 0 THEN 1 ELSE n
Capped(n, size) == IF n < size THEN n ELSE size - 1
CappedLate(n, size) == IF n > size THEN size - 1 ELSE n

\* Where a sequence puts the cursor; only A, D and F can ask for less than zero.
CursorTarget(t, op, p) ==
    LET x == t.pos[1]
        y == t.pos[2]
    IN  CASE op = "A" -> <<x, y - OneOr(p[1])>>
          [] op = "B" -> <<x, Capped(y + OneOr(p[1]), Rows)>>
          [] op = "C" -> <<Capped(x + OneOr(p[1]), Columns), y>>
          [] op = "D" -> <<x - OneOr(p[1]), y>>
          [] op = "E" -> <<0, Capped(y + p[1] + 1, Rows)>>
          [] op = "F" -> <<0, y - p[1] - 1>>
          [] op = "G" -> <<Capped(p[1], Columns), y>>
          [] op = "H" -> IF Len(p) < 2 THEN <<0, 0>> ELSE <<CappedLate(p[1], Columns), CappedLate(p[2], Rows)>>
          [] op = "u" -> t.saved

handle_ansi_cursor_sequence(t, op, p) ==
    flush(IF op = "s" THEN [t EXCEPT !.saved = t.pos] ELSE Checked(t, CursorTarget(t, op, p)))

handle_ansi_erase_sequence(t, op, code) ==
    CASE op = "J" /\ code = 0 -> clear_screen_from_cursor(t)
      [] op = "J" /\ code = 1 -> clear_screen_to_cursor(t)
      [] op = "J" /\ code = 2 -> position(clear_screen(t), <<0, 0>>)
      [] op = "K" /\ code = 0 -> clear_line_from_cursor(t)
      [] op = "K" /\ code = 1 -> clear_line_to_cursor(t)
      [] op = "K" /\ code = 2 -> clear_line(t)
      [] OTHER -> t

ColorState == [fg_color |-> WHITE, bg_color |-> BLACK, fg_base |-> "white", bg_base |-> "black",
               fg_bright |-> FALSE, bg_bright |-> FALSE, invert |-> FALSE, bright |-> FALSE, dim |-> FALSE]
Palette == <<"black", "red", "green", "yellow", "blue", "magenta", "cyan", "white">>

\* ansi_color and parse_complex_color: the colour and how many parameters it
\* takes; an incomplete one takes what is left.
parse_complex_color(p) ==
    CASE p = <<>> -> <<"none", 0>>
      [] p # <<>> /\ p[1] = 2 -> IF Len(p) < 4 THEN <<"none", Len(p)>> ELSE <<"rgb", 4>>
      [] p # <<>> /\ p[1] = 5 -> IF Len(p) < 2 THEN <<"none", Len(p)>> ELSE IF p[2] <= 255 THEN <<"table", 2>> ELSE <<"none", 2>>
      [] OTHER -> <<"none", 1>>
ansi_color(n, p) ==
    CASE n \in 0 .. 7 -> <<Palette[n + 1], 0>> [] n = 9 -> <<"white", 0>> [] n = 8 -> parse_complex_color(p) [] OTHER -> <<"none", 0>>

handle_ansi_graphic_rendition(c, code) ==
    CASE code = 0 -> ColorState
      [] code = 1 -> [c EXCEPT !.bright = TRUE] [] code = 2 -> [c EXCEPT !.dim = TRUE]
      [] code = 7 -> [c EXCEPT !.invert = TRUE] [] code = 22 -> [c EXCEPT !.bright = FALSE, !.dim = FALSE]
      [] code = 27 -> [c EXCEPT !.invert = FALSE] [] OTHER -> c

Based(c, fg, color, bright) ==
    IF color = "none" THEN c
    ELSE IF fg THEN [c EXCEPT !.fg_base = color, !.fg_bright = bright] ELSE [c EXCEPT !.bg_base = color, !.bg_bright = bright]

\* One code and the parameters that follow it.
CodeApplied(c, code, rest) ==
    LET From(base) == ansi_color(code - base, rest)
    IN  CASE code <= 29 -> <<handle_ansi_graphic_rendition(c, code), 0>>
          [] code \in 30 .. 39 -> <<Based(c, TRUE, From(30)[1], FALSE), From(30)[2]>>
          [] code \in 40 .. 49 -> <<Based(c, FALSE, From(40)[1], FALSE), From(40)[2]>>
          [] code \in 90 .. 97 -> <<Based(c, TRUE, From(90)[1], TRUE), From(90)[2]>>
          [] code \in 100 .. 107 -> <<Based(c, FALSE, From(100)[1], TRUE), From(100)[2]>>
          [] OTHER -> <<c, 0>>

Resolved(c) ==
    LET fg == IF c.invert THEN c.bg_base ELSE c.fg_base
        bg == IF c.invert THEN c.fg_base ELSE c.bg_base
    IN  [c EXCEPT !.fg_color = Shade(fg, c.bright \/ c.fg_bright, c.dim), !.bg_color = Shade(bg, c.bg_bright, FALSE)]

handle_ansi_color(c, p) ==
    LET After[i \in 1 .. Len(p) + 1] ==   \* the colours and the next parameter after i - 1 rounds
            IF i = 1 THEN <<c, 1>>
            ELSE LET b == After[i - 1]
                 IN  IF b[2] > Len(p) THEN b
                     ELSE LET r == CodeApplied(b[1], p[b[2]], SubSeq(p, b[2] + 1, Len(p))) IN <<r[1], b[2] + 1 + r[2]>>
    IN  Resolved(After[Len(p) + 1][1])

\* Perform: what the parser delivers.
Performed(t, op, p) ==
    CASE op \in Letters -> print_char(t, op)
      [] op = "nl" -> NewLine(t)
      [] op = "tab" -> handle_tab(t)
      [] op = "bell" -> t
      [] op \in {"A", "B", "C", "D", "E", "F", "G", "H", "s", "u"} -> handle_ansi_cursor_sequence(t, op, p)
      [] op \in {"J", "K"} -> handle_ansi_erase_sequence(t, op, p[1])
      [] op = "m" -> [t EXCEPT !.color = handle_ansi_color(@, p)]
Noted(t, odd, what) == IF odd THEN [t EXCEPT !.odd = @ \cup {what}] ELSE t
Beyond(t) == Noted(t, t.pos[1] >= Columns, "beyond")
Perform(t, e) == IF t.fault THEN t ELSE Beyond(Performed(t, e[1], e[2]))

write_str(t, es) == FoldLeft(Perform, t, es)

Chars(s) == [i \in DOMAIN s |-> <<s[i], <<>>>>]

\* ------------------------------------------------- the canonical line editor

redraw_canonical_content(can) ==
    LET content == SubSeq(can.buf, can.at + 1, Len(can.buf))
    IN  IF content = <<>> THEN <<>> ELSE <<<<"K", <<0>>>>>> \o Chars(content) \o <<<<"D", <<Len(content)>>>>>>

\* The new editor state and what is echoed.
remove_before_cursor(can) == [can EXCEPT !.buf = RemoveAt(@, can.at), !.at = @ - 1]
remove_at_cursor(can) == [can EXCEPT !.buf = RemoveAt(@, can.at + 1)]
\* Mutant: a character is always appended.
AddAtEnd(can, ch) == [can EXCEPT !.buf = Append(@, ch), !.at = @ + 1]
add_at_cursor(can, ch) == [can EXCEPT !.buf = InsertAt(@, can.at + 1, ch), !.at = @ + 1]

\* What a key makes of the line, and what is echoed: nothing if it has no effect.
Redrawn(can, echo) == <<can, echo \o redraw_canonical_content(can)>>
Canonical(can, k) ==
    LET n == Len(can.buf) - can.at
    IN  CASE k = "Left" /\ can.at > 0 -> <<[can EXCEPT !.at = @ - 1], <<<<"D", <<1>>>>>>>>
          [] k = "Right" /\ n > 0 -> <<[can EXCEPT !.at = @ + 1], <<<<"C", <<1>>>>>>>>
          [] k = "Home" -> <<[can EXCEPT !.at = 0], <<<<"D", <<0>>>>>>>>
          [] k = "End" -> <<[can EXCEPT !.at = Len(can.buf)], <<<<"C", <<0>>>>>>>>
          [] k = "Back" /\ can.at > 0 -> Redrawn(remove_before_cursor(can), <<<<"D", <<1>>>>, <<" ", <<>>>>, <<"D", <<1>>>>>>)
          [] k = "Del" /\ n > 0 -> Redrawn(remove_at_cursor(can), <<<<" ", <<>>>>, <<"D", <<1>>>>>>)
          [] k = "Enter" -> <<[buf |-> <<>>, at |-> 0, start |-> 0], (IF n > 0 THEN <<<<"C", <<n>>>>>> ELSE <<>>) \o <<<<"nl", <<>>>>>>>>
          [] k \in Letters /\ Len(can.buf) < BUFFER_SIZE -> Redrawn(add_at_cursor(can, k), <<<<k, <<>>>>>>)
          [] OTHER -> <<can, <<>>>>

Echoed(t, edit) == write_str([t EXCEPT !.can = edit[1]], edit[2])
buffer_canonical(t, k) ==
    Noted([Echoed(t, Canonical(t.can, k)) EXCEPT !.line = IF k = "Enter" THEN t.can.buf ELSE @], k \in {"Home", "End"}, "homed")

\* ------------------------------------------------------ the application's side

Alive == ~tm.fault

\* print: what was written is queued in the kernel.
Write ==
    /\ Alive /\ tm.app.pc = "idle" /\ tm.written < MaxOutput
    /\ \E e \in Output : tm' = [tm EXCEPT !.out = Append(@, e), !.written = @ + 1]

\* TtyInput::read: the state, then the mode, then the wait.
ReadState ==
    /\ Alive /\ tm.app.pc = "idle" /\ tm.reads < MaxReads
    /\ \E m \in Modes : tm' = [tm EXCEPT !.app = [pc |-> "mode", mode |-> m, got |-> <<>>], !.tty.state = "Waiting", !.reads = @ + 1]

ReadMode ==
    /\ Alive /\ tm.app.pc = "mode"
    /\ tm' = [tm EXCEPT !.app.pc = "wait", !.tty.mode = tm.app.mode]

ReadBytes ==
    /\ Alive /\ tm.app.pc = "wait" /\ tm.tty.state = "Ready"
    /\ LET n == IF Len(tm.tty.buf) < ReadSize THEN Len(tm.tty.buf) ELSE ReadSize
       IN  tm' = [tm EXCEPT !.app.pc = "idle", !.app.got = SubSeq(tm.tty.buf, 1, n), !.tty.buf = SubSeq(@, n + 1, Len(@)),
                     !.tty.state = "Idle", !.odd = IF n < Len(tm.tty.buf) THEN @ \cup {"leftover"} ELSE @]

\* ------------------------------------------------- the emulator's main loop

handle_events ==
    /\ Alive /\ tm.turn = "events"
    /\ IF tm.gui = 0 THEN tm' = [tm EXCEPT !.turn = "output"]
       ELSE tm' = flush([tm EXCEPT !.gui = @ - 1, !.direct = [x \in Cells |-> <<"loader">>], !.odd = @ \cup {"gui"}])

\* The output worker takes what is there (up to 128 bytes).
Shown(t) == Noted([t EXCEPT !.out = <<>>, !.turn = "input"], t.fault, "asked")
output_observer ==
    /\ Alive /\ tm.turn = "output"
    /\ tm' = Shown(write_str(tm, tm.out))

NextTurn(t) == [t EXCEPT !.turn = "cursor", !.in = [pc |-> "idle", key |-> "", mode |-> "", bytes |-> <<>>]]

\* A key is read and the state of the tty checked; a release goes to the tty as
\* it is, the hotkey to the event queue.
InputKey ==
    /\ Alive /\ tm.turn = "input" /\ tm.in.pc = "idle"
    /\ \/ tm' = NextTurn(tm)
       \/ /\ tm.pressed < MaxKeys
          /\ \E k \in Keys :
                LET t == [tm EXCEPT !.pressed = @ + 1, !.in.key = k]
                IN  tm' = CASE k = "release" -> [t EXCEPT !.in.pc = "state", !.in.mode = "Raw", !.in.bytes = <<"Raw", k>>]
                            [] k = "hotkey" -> NextTurn([t EXCEPT !.gui = @ + 1])
                            [] tm.tty.state # "Waiting" -> NextTurn(t)
                            [] OTHER -> [t EXCEPT !.in.pc = "mode"]

\* The mode is read, and the key becomes bytes of that mode.
ForTty(t, mode, bytes) == [t EXCEPT !.in = [@ EXCEPT !.pc = "state", !.mode = mode, !.bytes = bytes]]
Wrapped(t) == Noted(t, Col(t.can.start) + Len(t.can.buf) >= Columns, "wrapped")
LineEdited(t, k) == IF k = "Enter" THEN ForTty(t, "Canonical", t.line) ELSE NextTurn(Wrapped(t))
KeyRead(t, m, k) ==
    IF m = "Canonical" THEN LineEdited(buffer_canonical(t, k), k) ELSE ForTty(t, m, <<m, k>>)
InputMode ==
    /\ Alive /\ tm.turn = "input" /\ tm.in.pc = "mode"
    /\ LET odd == tm.odd \cup (IF tm.app.pc = "mode" THEN {"stale"} ELSE {}) \cup (IF tm.out # <<>> THEN {"raced"} ELSE {})
           t == [tm EXCEPT !.odd = odd, !.can.start = IF tm.can.buf = <<>> THEN Index(tm.pos) ELSE @]
       IN  tm' = KeyRead(t, tm.tty.mode, tm.in.key)

\* TtyInput::write: the state, then the mode, then the bytes.
WriteState ==
    /\ Alive /\ tm.turn = "input" /\ tm.in.pc = "state"
    /\ tm' = IF tm.tty.state = "Waiting" THEN [tm EXCEPT !.in.pc = "check"] ELSE NextTurn(tm)

\* Mutant: any mode will do.
WriteAnyMode ==
    /\ Alive /\ tm.turn = "input" /\ tm.in.pc = "check"
    /\ tm' = NextTurn([tm EXCEPT !.tty.buf = @ \o tm.in.bytes, !.tty.state = "Ready", !.last = tm.in.bytes])

WriteMode ==
    /\ Alive /\ tm.turn = "input" /\ tm.in.pc = "check"
    /\ tm' = IF tm.tty.mode # tm.in.mode THEN NextTurn(tm)
             ELSE NextTurn([tm EXCEPT !.tty.buf = @ \o tm.in.bytes, !.tty.state = "Ready", !.last = tm.in.bytes,
                               !.odd = IF tm.app.pc = "mode" THEN @ \cup {"stale"} ELSE @])

\* The cursor blinks in the framebuffer itself, if its interval is over.
Cursor ==
    /\ Alive /\ tm.turn = "cursor"
    /\ \/ tm' = [tm EXCEPT !.turn = "status"]
       \/ /\ tm.blinks < MaxBlinks
          /\ LET ch == tm.buf[Index(tm.pos)]
                 c == CASE ~tm.visible -> CURSOR [] ch.v = Null -> " " [] OTHER -> ch.v
             IN  tm' = [tm EXCEPT !.direct = Drawn(@, c, tm.pos, ch.fg, ch.bg), !.visible = ~@, !.blinks = @ + 1, !.turn = "status"]

StatusBar ==
    /\ Alive /\ tm.turn = "status"
    /\ \/ tm' = [tm EXCEPT !.turn = "events"]
       \/ tm.blinks < MaxBlinks /\ tm' = [draw_status_bar(tm) EXCEPT !.turn = "events", !.blinks = @ + 1]

Space == [v |-> " ", fg |-> WHITE, bg |-> BLACK]
InitState ==
    draw_status_bar(
          [pos |-> <<0, 1>>, saved |-> <<0, 1>>, buf |-> [x \in 0 .. Columns * (Rows + 1) |-> Space],
           back |-> [x \in Cells |-> Blank(BLACK)], direct |-> [x \in Cells |-> Blank(BLACK)], dirty |-> FALSE,
           color |-> ColorState, visible |-> TRUE, fault |-> FALSE, odd |-> {}, turn |-> "events", gui |-> 0,
           can |-> [buf |-> <<>>, at |-> 0, start |-> 0], line |-> <<>>, out |-> <<>>, written |-> 0, pressed |-> 0, reads |-> 0, blinks |-> 0,
           tty |-> [state |-> "Idle", mode |-> "Canonical", buf |-> <<>>], last |-> <<>>,
           app |-> [pc |-> "idle", mode |-> "Canonical", got |-> <<>>], in |-> [pc |-> "idle", key |-> "", mode |-> "", bytes |-> <<>>]])

Init == tm = InitState

Next ==
    \/ Write \/ ReadState \/ ReadMode \/ ReadBytes
    \/ handle_events \/ output_observer \/ InputKey \/ InputMode \/ WriteState \/ WriteMode \/ Cursor \/ StatusBar

Spec == Init /\ [][Next]_vars

\* ------------------------------------------------------------- properties

TypeOK ==
    /\ tm.pos[2] \in 1 .. Rows - 1 /\ tm.pos[1] \in 0 .. Columns
    /\ tm.tty.state \in {"Idle", "Waiting", "Ready"} /\ tm.can.at \in 0 .. Len(tm.can.buf) /\ Len(tm.can.buf) <= BUFFER_SIZE

\* The framebuffer shows the characters of the buffer in their colours, and the
\* status bar over them, whatever was written, erased or scrolled -- unless the
\* cursor was put behind the last column.
BufferDrawn ==
    /\ \A x \in Cells : Row(x) = 0 => tm.back[x] = Status
    /\ "beyond" \notin tm.odd =>
        \A x \in Cells : Row(x) > 0 =>
            LET ch == tm.buf[x]
            IN  CASE ch.v \in {Null, " "} -> ch.bg = INVISIBLE \/ tm.back[x] = Blank(ch.bg)
                  [] OTHER -> tm.back[x] = Glyph(ch.v, 1, ch.fg, ch.bg)

\* What the screen shows otherwise is the cursor's picture, or half of a glyph
\* that was partly overwritten -- unless the window manager ran.
ScreenFollows ==
    tm.odd \cap {"beyond", "gui"} = {} =>
        \A x \in Cells : tm.direct[x] = tm.back[x] \/ tm.direct[x][1] = CURSOR \/ tm.direct[x][1] = Wide

\* A comment of handle_ansi_cursor_sequence: moving the cursor leaves no picture
\* of it behind.
NoTrailingCursor == \A x \in Cells : tm.direct[x][1] = CURSOR => x = Index(tm.pos)

\* The line an application reads in canonical mode is on the screen as it is
\* edited, and the cursor is where the next character goes -- as long as it fits
\* the row, and no key moved to its start or end.
EchoExact ==
    (tm.odd \cap {"homed", "wrapped", "raced", "beyond", "stale"} = {} /\ tm.can.buf # <<>>) =>
        /\ Index(tm.pos) = tm.can.start + tm.can.at
        /\ \A i \in DOMAIN tm.can.buf : tm.buf[tm.can.start + i - 1].v = tm.can.buf[i]

\* A reader gets what one key or line wrote for its own mode, all of it, unless
\* the key came between the two stores of read or the line did not fit.
ReadsExact ==
    tm.odd \cap {"stale", "leftover"} = {} =>
        /\ tm.app.pc = "idle" /\ tm.app.mode \in {"Fluid", "Raw"} /\ tm.reads > 0 => tm.app.got[1] = tm.app.mode
        /\ tm.tty.state # "Ready" => tm.tty.buf = <<>>
        /\ tm.tty.state = "Ready" => tm.tty.buf = tm.last

\* Line editing within a row never moves the cursor below zero.
NoUnderflow == tm.fault => tm.odd \cap {"homed", "wrapped", "raced", "asked"} # {}

=============================================================================
