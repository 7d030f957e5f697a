----------------------------- MODULE TextEditor -----------------------------
(***************************************************************************)
(* The text editor of the window manager: the piece table it edits         *)
(* (os/library/text_buffer), the document with its caret and modes, the    *)
(* simple and the code view, and the loop that redraws until a view does   *)
(* not ask to scroll (apps/text_editor/{model,view,editor}.rs).            *)
(*                                                                         *)
(* A text is a sequence of "a" and newlines "n"; positions count from 0,   *)
(* as in the code.  A view is Rows rows of Cols characters.  How far       *)
(* the markdown view scrolls depends on an external parser: it is left     *)
(* open.  Colours, fonts and the choice between documents are left out.    *)
(***************************************************************************)
EXTENDS Naturals, Sequences, SequencesExt, FiniteSets, FiniteSetsExt

CONSTANTS
  Files,      \* the texts a document is opened with
  MaxEdits,   \* bound on the edits: insertions, deletions, undos and redos
  Rows, Cols, \* the size of the view
  Views,      \* the views a document is in at the start
  Uses        \* what is used: "edit", "undo", "copy", "view" and "menu", the buttons

Char == {"a", "n"}
EditorAssumption ==
  /\ Files \subseteq Seq(Char) /\ {MaxEdits, Rows, Cols} \subseteq Nat \ {0}
  /\ Views \subseteq {"simple", "markdown", "code"}
  /\ Uses \subseteq {"edit", "undo", "copy", "view", "menu"}

VARIABLES
  buf,     \* the TextBuffer
  text,    \* the text itself, by the edits alone
  edits,   \* how many there were
  caret,   \* the Caret: head, and anchor while visual
  mode,    \* EditMode
  copy,    \* copy_buffer
  view,    \* current_view
  offset,  \* scroll_offset
  draws,   \* renders since the last message; 0 when the editor waits for the next
  pc       \* "wait", "draw", or "panic"

vars == <<buf, text, edits, caret, mode, copy, view, offset, draws, pc>>

-----------------------------------------------------------------------------
(* The piece table *)

Piece(b, off, len) == [buffer |-> b, offset |-> off, length |-> len]
FromStr(f) == [file |-> f, add |-> <<>>, pieces |-> <<Piece("file", 0, Len(f))>>,
               length |-> Len(f), history |-> <<>>, redo |-> <<>>]

\* The logical address at which piece i ends.
End(b, i) ==
  LET e[k \in 0 .. Len(b.pieces)] == IF k = 0 THEN 0 ELSE e[k - 1] + b.pieces[k].length
  IN  e[i]

\* resolve_logical_adress: the piece and the offset in it; behind the last piece
\* when there is none.
Resolve(b, la) ==
  LET hits == {i \in 1 .. Len(b.pieces) : End(b, i - 1) <= la /\ la < End(b, i)}
  IN  IF hits = {} THEN [piece |-> Len(b.pieces) + 1, off |-> 0]
      ELSE [piece |-> Min(hits), off |-> la - End(b, Min(hits) - 1)]
Resolves(b, la) == Resolve(b, la).piece <= Len(b.pieces)

CharIn(b, p, off) == (IF p.buffer = "add" THEN b.add ELSE b.file)[p.offset + off + 1]
GetChar(b, la) == LET r == Resolve(b, la) IN CharIn(b, b.pieces[r.piece], r.off)

\* What was done is remembered for undo, for redo when it is itself an undo; an
\* edit of the user's ends what can be redone.
Logged(b, how, op) ==
  CASE how = "undo" -> [b EXCEPT !.redo = Append(@, op)]
    [] how = "redo" -> [b EXCEPT !.history = Append(@, op)]
    [] how = "none" -> [b EXCEPT !.history = Append(@, op), !.redo = <<>>]

\* Mutant of PiecesWith: the piece before grows whatever it ends with.
PiecesWithGrown(b, at) ==
  LET i == at.piece
      new == Piece("add", Len(b.add), 1)
      p == b.pieces[i]
  IN  IF i > 1 /\ at.off = 0 /\ b.pieces[i - 1].buffer = "add"
      THEN [b.pieces EXCEPT ![i - 1].length = @ + 1]
      ELSE IF at.off = 0 THEN InsertAt(b.pieces, i, new)
      ELSE InsertAt(InsertAt([b.pieces EXCEPT ![i].length = at.off], i + 1,
                             Piece(p.buffer, p.offset + at.off, p.length - at.off)), i + 1, new)
\* The pieces with a new character where an address resolved to: the piece before it
\* grows when it ends with the newest character of the add buffer; or a piece is
\* inserted; or the piece is split around it.
PiecesWith(b, at) ==
  LET i == at.piece
      new == Piece("add", Len(b.add), 1)
      p == b.pieces[i]
  IN  IF /\ i > 1 /\ at.off = 0 /\ b.pieces[i - 1].buffer = "add"
         /\ b.pieces[i - 1].offset + b.pieces[i - 1].length = Len(b.add)
      THEN [b.pieces EXCEPT ![i - 1].length = @ + 1]
      ELSE IF at.off = 0 THEN InsertAt(b.pieces, i, new)
      ELSE InsertAt(InsertAt([b.pieces EXCEPT ![i].length = at.off], i + 1,
                             Piece(p.buffer, p.offset + at.off, p.length - at.off)), i + 1, new)

InsertChar(b, la, c, how) ==
  Logged([b EXCEPT !.pieces = PiecesWith(b, Resolve(b, la)), !.add = Append(@, c), !.length = @ + 1],
         how, [op |-> "insert", la |-> la, c |-> c])

\* The pieces without the character an address resolved to: cut at the front or at
\* the end, or split; an empty piece goes.
Cut(pieces, i, off) ==
  LET p == pieces[i] IN
  IF off = 0 THEN [pieces EXCEPT ![i].offset = @ + 1, ![i].length = @ - 1]
  ELSE IF off = p.length - 1 THEN [pieces EXCEPT ![i].length = @ - 1]
  ELSE InsertAt([pieces EXCEPT ![i].length = off], i + 1,
                Piece(p.buffer, p.offset + off + 1, p.length - off - 1))
NonEmpty(pieces, i) == IF pieces[i].length = 0 THEN RemoveAt(pieces, i) ELSE pieces
PiecesWithout(b, at) == NonEmpty(Cut(b.pieces, at.piece, at.off), at.piece)

DeleteChar(b, la, how) ==
  IF ~Resolves(b, la) THEN b
  ELSE Logged([b EXCEPT !.pieces = PiecesWithout(b, Resolve(b, la)), !.length = @ - 1],
              how, [op |-> "delete", la |-> la, c |-> GetChar(b, la)])

\* undo and redo: the last operation is taken back, by its inverse.
Inverse1(b, o, how) ==
  IF o.op = "insert" THEN DeleteChar(b, o.la, how) ELSE InsertChar(b, o.la, o.c, how)
Undo(b) == IF b.history = <<>> THEN b
           ELSE Inverse1([b EXCEPT !.history = Front(@)], Last(b.history), "undo")
Redo(b) == IF b.redo = <<>> THEN b
           ELSE Inverse1([b EXCEPT !.redo = Front(@)], Last(b.redo), "redo")

Spelled(b) == [i \in 1 .. End(b, Len(b.pieces)) |-> GetChar(b, i - 1)]

-----------------------------------------------------------------------------
(* The document *)

At(t, pos) == IF pos < Len(t) THEN t[pos + 1] ELSE "none"
NoLine == 1000

\* The start of the next line, or the end of the last one.
NextLine(t, pos) ==
  LET stops == {k \in 1 .. Len(t) : At(t, pos + k) \in {"n", "none"}}
      i == IF At(t, pos) = "none" THEN 0 ELSE Min(stops)
  IN  IF At(t, pos) = "n" THEN IF At(t, pos + 1) # "none" THEN pos + 1 ELSE NoLine
      ELSE IF At(t, pos + i + 1) # "none" THEN pos + i + 1
      ELSE IF At(t, pos + i) # "none" THEN pos + i ELSE NoLine

\* The start of the line.
PrevLine(t, pos) ==
  LET stops == {k \in 1 .. pos : At(t, pos - k) = "n"}
  IN  IF At(t, pos) = "none" THEN IF At(t, pos + 1) # "none" THEN pos + 1 ELSE NoLine
      ELSE IF stops = {} THEN 0 ELSE pos - Min(stops) + 1

OrElse(line, default) == IF line = NoLine THEN default ELSE line
Less1(n) == IF n = 0 THEN 0 ELSE n - 1

Down(t, head) ==
  LET origin == head - OrElse(PrevLine(t, head), head)
      next == OrElse(NextLine(t, head), head)
      after == NextLine(t, next)
  IN  IF At(t, next) = "n" THEN next
      ELSE IF after # NoLine /\ after - next <= origin THEN after - 1
      ELSE next + origin

Up(t, head) ==
  LET line == PrevLine(t, head)
      above == OrElse(PrevLine(t, Less1(line)), line)
  IN  IF line = NoLine \/ line = above THEN 0
      ELSE IF At(t, head) = "n" /\ At(t, Less1(head)) = "n" THEN Less1(head)
      ELSE IF line - above <= head - line THEN Less1(line)
      ELSE above + (head - line)

Moves == {"left", "right", "up", "down"}
Moved(t, k, head) ==
  CASE k = "left" -> Less1(head) [] k = "right" -> head + 1
    [] k = "up" -> Up(t, head) [] k = "down" -> Down(t, head)

Clamped(head, b) == Min({head, b.length})

\* The same edits on the text alone.
TextInsert(t, la, c) == InsertAt(t, Min({la, Len(t)}) + 1, c)
TextDelete(t, la) == IF la < Len(t) THEN RemoveAt(t, la + 1) ELSE t
TextInverse(t, ops) ==
  IF ops = <<>> THEN t
  ELSE LET o == Last(ops) IN
       IF o.op = "insert" THEN TextDelete(t, o.la) ELSE TextInsert(t, o.la, o.c)

-----------------------------------------------------------------------------
(* The views *)

\* Where a character is drawn, when drawing starts with the one at position from: a
\* row is left behind a newline, and before a character it has no room for.
InLine(t, from, i) == i - Max({from} \cup {m \in from + 1 .. i : t[m] = "n"})
Full(t, from, i) == InLine(t, from, i) > 0 /\ InLine(t, from, i) % Cols = 0 /\ t[i + 1] # "n"
Row(t, from, i) == Cardinality({m \in from .. i - 1 : t[m + 1] = "n" \/ Full(t, from, m)})

NoScroll == [to |-> "none"]
ScrollDown(n) == [to |-> "down", by |-> n]
ScrollUp(n) == [to |-> "up", by |-> n]
Panics == [to |-> "panic"]
Difference(a, b) == IF a > b THEN a - b ELSE 0

Nth(S, k) == CHOOSE x \in S : Cardinality({y \in S : y < x}) = k

\* render_simple: drawing ends at the last row or with the text.  The caret is found
\* on a character, or behind the last one of a selection.
RenderSimple(t, from, head, anchor) ==
  LET stop == IF from >= Len(t) THEN from
              ELSE Min({i \in from .. Len(t) : i = Len(t) \/ Row(t, from, i) + 1 >= Rows})
      selected == anchor # NoLine /\ anchor < head /\ head - 1 \in from .. stop - 1
      found == head \in from .. stop - 1 \/ selected
      row == Row(t, from, head)
      lines == {i + 1 : i \in {j \in from .. stop - 1 : t[j + 1] = "n"}}
  IN  IF ~found
      THEN IF head >= from
           THEN IF lines = {} THEN Panics
                ELSE ScrollDown(Nth(lines, Cardinality(lines) \div 3) - from)
           ELSE ScrollUp(from - OrElse(PrevLine(t, head), from))
      ELSE IF 6 * row > 5 * Rows THEN IF lines = {} THEN NoScroll ELSE ScrollDown(Min(lines) - from)
      ELSE IF 6 * row < 2 * Rows /\ from # 0
           THEN LET line == PrevLine(t, from - 1) IN
                IF line = NoLine \/ line >= from THEN NoScroll ELSE ScrollUp(from - line)
      ELSE NoScroll

\* The tokens of lex_clike: runs of letters and runs of white space.
Tokens(t) ==
  {s \in (0 .. Len(t)) \X (0 .. Len(t)) :
     /\ s[1] < s[2]
     /\ \A i \in s[1] + 1 .. s[2] : t[i] = t[s[1] + 1]
     /\ s[1] > 0 => t[s[1]] # t[s[1] + 1]
     /\ s[2] < Len(t) => t[s[2] + 1] # t[s[2]]}

\* render_code: whole tokens are drawn, from the first that ends behind the offset,
\* until one begins below the view; a line starts behind a newline and where a row
\* was full.
RenderCode(t, from, head) ==
  LET toks == {s \in Tokens(t) : s[2] - 1 >= from}
      first == IF toks = {} THEN 0 ELSE Min({s[1] : s \in toks})
      drawn == {s \in toks : Row(t, first, s[1]) <= Rows}
      seen == {s \in Tokens(t) : s \in drawn \/ s[2] - 1 < from}
      last == IF seen = {} THEN 0 ELSE Max({s[1] : s \in seen})
      to == IF drawn = {} THEN first ELSE Max({s[2] : s \in drawn})
      lines == {i \in first + 1 .. to : t[i] = "n"}
               \cup {i \in first .. to - 1 : Full(t, first, i)}
      row == Max({0} \cup {Row(t, first, s[2]) : s \in {d \in drawn : d[1] = head}})
      ahead == IF lines = {} THEN 0
               ELSE Difference(Nth(lines, Cardinality(lines) \div 5), from)
  IN  IF from > head THEN ScrollUp(Difference(from, OrElse(PrevLine(t, head), from)))
      ELSE IF last < head THEN IF ahead = 0 THEN NoScroll ELSE ScrollDown(ahead)
      ELSE IF 6 * row > 5 * Rows /\ lines # {}
           THEN IF Min(lines) < from THEN Panics
                ELSE IF Min(lines) = from THEN NoScroll ELSE ScrollDown(Min(lines) - from)
      ELSE NoScroll

-----------------------------------------------------------------------------
(* The editor *)

Init ==
  /\ \E f \in Files : buf = FromStr(f) /\ text = f
  /\ edits = 0 /\ caret = [head |-> 0, anchor |-> NoLine] /\ mode = "insert" /\ copy = <<>>
  /\ view \in Views /\ offset = 0 /\ draws = 0 /\ pc = "wait"

\* What drawing the view gives.
Rendered(v, t, from, c) ==
  CASE v = "simple" -> RenderSimple(t, from, c.head, c.anchor)
    [] v = "code" -> RenderCode(t, from, c.head)
    [] v = "markdown" -> NoScroll
Goes(to) == CASE to = "none" -> "wait" [] to = "panic" -> "panic" [] OTHER -> "draw"
Drawn ==
  \E t \in {text'}, from \in {offset'}, c \in {caret'} :
    pc' = Goes(Rendered(view', t, from, c).to)

\* apply_message: a message is applied and the view is drawn ...
Message(use) == use \in Uses \cup {"key"} /\ pc = "wait" /\ draws' = 0

SetHead(h) == caret' = [caret EXCEPT !.head = h]

\* update_insert
Type(c) ==
  /\ Message("edit") /\ mode = "insert" /\ edits < MaxEdits
  /\ buf' = InsertChar(buf, caret.head, c, "none")
  /\ text' = TextInsert(text, caret.head, c)
  /\ edits' = edits + 1
  /\ SetHead(Clamped(caret.head + 1, buf'))
  /\ UNCHANGED <<mode, copy, view, offset>>

Backspace ==
  /\ Message("edit") /\ mode = "insert" /\ edits < MaxEdits
  /\ buf' = DeleteChar(buf, Less1(caret.head), "none")
  /\ text' = TextDelete(text, Less1(caret.head))
  /\ edits' = edits + 1
  /\ SetHead(Clamped(Less1(caret.head), buf'))
  /\ UNCHANGED <<mode, copy, view, offset>>

Move(k) ==
  /\ Message("key")
  /\ SetHead(Clamped(Moved(text, k, caret.head), buf))
  /\ UNCHANGED <<buf, text, edits, mode, copy, view, offset>>

Escape ==
  /\ Message("key") /\ mode \in {"insert", "visual"}
  /\ mode' = "normal"
  /\ SetHead(Clamped(caret.head, buf))
  /\ UNCHANGED <<buf, text, edits, copy, view, offset>>

\* update_normal
UndoKey(b, t) ==
  /\ Message("undo") /\ mode = "normal" /\ edits < MaxEdits
  /\ buf' = b /\ text' = t /\ edits' = edits + 1
  /\ SetHead(Clamped(caret.head, b))
  /\ UNCHANGED <<mode, copy, view, offset>>

InsertMode ==
  /\ Message("key") /\ mode = "normal"
  /\ mode' = "insert"
  /\ SetHead(Clamped(caret.head, buf))
  /\ UNCHANGED <<buf, text, edits, copy, view, offset>>

VisualMode ==
  /\ Message("copy") /\ mode = "normal"
  /\ mode' = "visual"
  /\ caret' = [anchor |-> caret.head, head |-> Clamped(caret.head, buf)]
  /\ UNCHANGED <<buf, text, edits, copy, view, offset>>

ViewKey(v) ==
  /\ Message("view") /\ mode = "normal" /\ v \in {"simple", "markdown"}
  /\ view' = v
  /\ SetHead(Clamped(caret.head, buf))
  /\ UNCHANGED <<buf, text, edits, mode, copy, offset>>

\* yank, in visual mode: what is between anchor and head is copied; past the text
\* the copy ends, and the mode stays.
Yank ==
  LET fst == Min({caret.anchor, caret.head})
      snd == Max({caret.anchor, caret.head})
  IN  /\ Message("copy") /\ mode = "visual"
      /\ copy' = SubSeq(text, fst + 1, Min({snd, Len(text)}))
      /\ IF snd <= Len(text)
         THEN mode' = "normal" /\ caret' = [head |-> caret.head, anchor |-> NoLine]
         ELSE UNCHANGED mode /\ SetHead(Clamped(caret.head, buf))
      /\ UNCHANGED <<buf, text, edits, view, offset>>

\* paste, in normal mode: one insertion for each character.
Paste ==
  /\ Message("copy") /\ mode = "normal" /\ edits + Len(copy) <= MaxEdits
  /\ LET at[i \in 0 .. Len(copy)] ==
           IF i = 0 THEN buf ELSE InsertChar(at[i - 1], caret.head + i - 1, copy[i], "none")
         txt[i \in 0 .. Len(copy)] ==
           IF i = 0 THEN text ELSE TextInsert(txt[i - 1], caret.head + i - 1, copy[i])
     IN  buf' = at[Len(copy)] /\ text' = txt[Len(copy)]
  /\ edits' = edits + Len(copy)
  /\ SetHead(Clamped(caret.head + Len(copy), buf'))
  /\ UNCHANGED <<mode, copy, view, offset>>

\* update, for a button: the caret is left where it is.
UndoButton(b, t) ==
  /\ Message("menu") /\ edits < MaxEdits
  /\ buf' = b /\ text' = t /\ edits' = edits + 1
  /\ UNCHANGED <<caret, mode, copy, view, offset>>

ViewButton(v) ==
  /\ Message("menu") /\ v \in {"markdown", "code"}
  /\ view' = CASE view = v -> "simple" [] view = "simple" -> v [] OTHER -> view
  /\ UNCHANGED <<buf, text, edits, caret, mode, copy, offset>>

\* ... again, until it does not ask to scroll.
Scrolled(from, m) == IF m.to = "down" THEN from + m.by ELSE Difference(from, m.by)
Render ==
  /\ pc = "draw"
  /\ offset' = Scrolled(offset, Rendered(view, text, offset, caret))
  /\ draws' = Min({draws + 1, Len(text) + 3})     \* bound
  /\ UNCHANGED <<buf, text, edits, caret, mode, copy, view>>

\* render_markdown: it scrolls as the parser's events have it.
MarkdownScrolls ==
  /\ "view" \in Uses /\ pc = "wait" /\ view = "markdown"
  /\ offset' \in 0 .. Len(text)
  /\ UNCHANGED <<buf, text, edits, caret, mode, copy, view, draws>>

Step ==
  \/ \E c \in Char : Type(c)
  \/ Backspace
  \/ \E k \in Moves : Move(k)
  \/ Escape \/ InsertMode \/ VisualMode \/ Yank \/ Paste
  \/ UndoKey(Undo(buf), TextInverse(text, buf.history))
  \/ UndoKey(Redo(buf), TextInverse(text, buf.redo))
  \/ UndoButton(Undo(buf), TextInverse(text, buf.history))
  \/ UndoButton(Redo(buf), TextInverse(text, buf.redo))
  \/ \E v \in {"simple", "markdown", "code"} : ViewKey(v) \/ ViewButton(v)
  \/ Render \/ MarkdownScrolls

Next == Step /\ Drawn

Spec == Init /\ [][Next]_vars

-----------------------------------------------------------------------------
TypeOK ==
  /\ \A i \in DOMAIN buf.pieces :
       LET p == buf.pieces[i] IN
       p.offset + p.length <= Len(IF p.buffer = "add" THEN buf.add ELSE buf.file)
  /\ caret.head \in Nat /\ offset \in Nat /\ pc \in {"wait", "draw", "panic"}
  /\ mode \in {"insert", "normal", "visual"} /\ view \in {"simple", "markdown", "code"}

\* The piece table spells the text of the edits, however they were split, grown and
\* cut, and knows its length.
BufferExact == Spelled(buf) = text /\ buf.length = Len(text)

\* Taking back everything that can be undone gives the text the document was opened
\* with; doing again what can be redone and then taking it all back does too.
AllUndone(b) ==
  LET u[i \in 0 .. Len(b.history)] == IF i = 0 THEN b ELSE Undo(u[i - 1])
  IN  u[Len(b.history)]
AllRedone(b) ==
  LET r[i \in 0 .. Len(b.redo)] == IF i = 0 THEN b ELSE Redo(r[i - 1])
  IN  r[Len(b.redo)]
UndoExact ==
  /\ Spelled(AllUndone(buf)) = buf.file
  /\ Spelled(AllUndone(AllRedone(buf))) = buf.file
  /\ Spelled(AllRedone(AllUndone(buf))) = Spelled(AllRedone(buf))

\* In the simple view a message is answered after finitely many renders, while the
\* caret is on a character and no line is longer than a row.
RenderSettles ==
  view = "simple" /\ caret.head < Len(text) /\ (\A i \in 0 .. Len(text) - 1 : ~Full(text, 0, i)) =>
    draws <= Len(text) + 2
=============================================================================
