------------------------------ MODULE Widgets ------------------------------
(***************************************************************************)
(* The inside of a window of the window manager                            *)
(* (src/os/application/window_manager/src): the tree of containers and     *)
(* components, the focus that keys and the mouse move through it, the      *)
(* state machines of the components, the signals that tie components to    *)
(* values, the dirty marks and what is drawn, and the callbacks of the     *)
(* applications.  The thread of an application creates its components one  *)
(* after the other while the loop of the manager already dequeues, draws   *)
(* and drives the first ones.  w is the state of the window: components    *)
(* are numbered in the order of their creation, 1 is the root container, 2 *)
(* the bar with the buttons 4 to 6, 3 the container of the application.    *)
(***************************************************************************)
EXTENDS Integers, Sequences, FiniteSets, SequencesExt, TLC

CONSTANTS App,       \* the application
          Keys,      \* the keys that are pressed; "f" is INTERACT_BUTTON
          Mouse,     \* mouse packets: "up", "down" (left button), "scroll+", "scroll-"
          Hits,      \* the components under the mouse, 0 for none
          MaxChars,  \* width_in_chars of the input field
          MaxValue   \* bound: the counter, the pixels of the canvas, the numbers of the calculator

VARIABLE w

vars == <<w>>

None == 0

\* ------------------------------------------------------------ applications

New(kind, parent, sig) == [kind |-> kind, parent |-> parent, sig |-> sig]

CounterApp == <<New("checkbox", 3, "on"), New("button", 3, "count"), New("button", 3, "reset")>>
SubmitLabel == <<New("input", 3, ""), New("label", 3, "title"), New("label", 3, "submitted"),
                 New("label", 3, "input"), New("button", 3, "submit")>>
SliderApp == <<New("label", 3, "label"), New("slider", 3, "value"), New("bitmap", 3, "")>>
\* The radio buttons are in their group before it is queued.
RadioButtonApp == <<New("container", 3, ""), New("radio", 7, "selected"), New("radio", 7, "selected"),
                    New("radio", 7, "selected"), New("label", 3, "title"), New("label", 3, "option")>>
Clock == <<New("label", 3, "time"), New("label", 3, "time")>>
CanvasApp == <<New("canvas", 3, "")>>
\* Three of the ten digits, "+", "-", "*", ".", the sign, "/"; "C" and "=".
CalculatorApp == <<New("container", 3, ""), New("label", 7, "display"), New("container", 7, ""), New("container", 7, "")>>
                 \o [i \in 1 .. 9 |-> New("button", 9, "caption")] \o <<New("button", 10, "caption"), New("button", 10, "caption")>>
LayoutApp == <<New("container", 3, ""), New("container", 7, ""), New("container", 7, ""), New("container", 7, ""),
               New("container", 3, "")>>
             \o [i \in 1 .. 2 |-> New("button", 8, "caption")] \o [i \in 1 .. 2 |-> New("button", 9, "caption")]
             \o <<New("button", 10, "caption")>> \o [i \in 1 .. 3 |-> New("button", 11, "caption")]

Program == CASE App = "counter" -> CounterApp [] App = "submit" -> SubmitLabel [] App = "slider" -> SliderApp
             [] App = "radio" -> RadioButtonApp [] App = "clock" -> Clock [] App = "canvas" -> CanvasApp
             [] App = "calculator" -> CalculatorApp [] OTHER -> LayoutApp

\* The numbers of the calculator are whole, and zero has a sign as in f64.
Number(neg, n) == [neg |-> neg, n |-> n]
Value(num) == IF num.neg THEN -num.n ELSE num.n
Sum(a, b) ==
    LET v == Value(a) + Value(b)
    IN  Number(v < 0 \/ (v = 0 /\ a.neg /\ b.neg), IF v < 0 THEN -v ELSE v)
Negated(a) == [a EXCEPT !.neg = ~@]

Signals == [on |-> 1, count |-> 0, reset |-> 0, title |-> 0, submitted |-> <<>>, input |-> <<>>, submit |-> 0,
            label |-> 1, value |-> 1, last |-> 1, selected |-> 1, option |-> 1, time |-> 0, pixels |-> 0,
            display |-> Number(FALSE, 0), stored |-> Number(FALSE, 0), operator |-> "none", caption |-> 0]

SliderMin == 1
SliderMax == 3
SliderSteps == 1

\* ------------------------------------------------------ traits of a component

IsContainer(c) == w.comp[c].kind = "container"
Focusable(c) == w.comp[c].kind \in {"button", "input", "slider", "checkbox", "radio", "canvas"}

\* is_selected of an input field or a canvas, is_dragging of a slider.
can_unfocus(s) == s.focus = None \/ ~s.comp[s.focus].sel

\* The component and all that are below it.
RECURSIVE Below(_, _)
Below(s, c) == {c} \cup UNION {Below(s, k) : k \in ToSet(s.kids[c])}

MarkAll(s, cs) == [s EXCEPT !.comp = [c \in DOMAIN @ |-> IF c \in cs THEN [@[c] EXCEPT !.dirty = TRUE] ELSE @[c]]]
mark_dirty(s, c) == MarkAll(s, Below(s, c))
is_dirty(s, c) == \E k \in Below(s, c) : s.comp[k].dirty

MarkOne(s, c) == [s EXCEPT !.comp[c].dirty = TRUE]

\* Taking the lock of a component that is held: the thread waits for itself.
Lock(s, c) == IF c \in s.locked THEN [s EXCEPT !.stuck = TRUE] ELSE s

focus(s, c) == MarkOne([s EXCEPT !.comp[c].sel = IF s.comp[c].kind = "canvas" THEN TRUE ELSE @], c)
unfocus(s, c) == MarkOne([s EXCEPT !.comp[c].sel = FALSE], c)

disable(s, c) == MarkOne([Lock(s, c) EXCEPT !.comp[c].disabled = TRUE], c)
enable(s, c) == MarkOne([Lock(s, c) EXCEPT !.comp[c].disabled = FALSE], c)
hide(s, c) == disable([s EXCEPT !.comp[c].hidden = TRUE], c)
show(s, c) == enable([s EXCEPT !.comp[c].hidden = FALSE], c)

\* Signal::set: every component that depends on the signal is locked and marked.
Dependents(s, sig) == {c \in DOMAIN s.comp : s.comp[c].sig = sig}
\* Mutant: the components are not told.
SetQuiet(s, sig, v) == [s EXCEPT !.sig[sig] = v]
set(s, sig, v) ==
    LET marked == [c \in DOMAIN s.comp |-> IF c \in Dependents(s, sig) THEN [s.comp[c] EXCEPT !.dirty = TRUE] ELSE s.comp[c]]
    IN  [s EXCEPT !.sig[sig] = v, !.comp = marked, !.stuck = @ \/ Dependents(s, sig) \cap s.locked # {}]

\* ----------------------------------------------------- focus in the containers

RECURSIVE focus_next_child(_, _), NextFrom(_, _, _), focus_prev_child(_, _), PrevFrom(_, _, _)

\* The result is <<idx, component or None>>; idx[c] is focused_child_idx, 0 for None.
NextFrom(idx, c, i) ==
    IF i > Len(w.kids[c]) THEN <<[idx EXCEPT ![c] = None], None>>
    ELSE LET k == w.kids[c][i]
             in == IF IsContainer(k) THEN focus_next_child(idx, k) ELSE <<idx, IF Focusable(k) THEN k ELSE None>>
         IN  IF in[2] # None THEN <<[in[1] EXCEPT ![c] = i], in[2]>> ELSE NextFrom(in[1], c, i + 1)

focus_next_child(idx, c) ==
    LET k == IF idx[c] = None THEN None ELSE w.kids[c][idx[c]]
        in == IF k # None /\ IsContainer(k) THEN focus_next_child(idx, k) ELSE <<idx, None>>
    IN  IF in[2] # None THEN in ELSE NextFrom(in[1], c, in[1][c] + 1)

PrevFrom(idx, c, i) ==
    IF i < 1 THEN <<[idx EXCEPT ![c] = None], None>>
    ELSE LET k == w.kids[c][i]
             in == IF IsContainer(k) THEN focus_prev_child(idx, k) ELSE <<idx, IF Focusable(k) THEN k ELSE None>>
         IN  IF in[2] # None THEN <<[in[1] EXCEPT ![c] = i], in[2]>> ELSE PrevFrom(in[1], c, i - 1)

focus_prev_child(idx, c) ==
    LET k == IF idx[c] = None THEN None ELSE w.kids[c][idx[c]]
        in == IF k # None /\ IsContainer(k) THEN focus_prev_child(idx, k) ELSE <<idx, None>>
    IN  IF in[2] # None THEN in
        ELSE PrevFrom(in[1], c, IF in[1][c] = None THEN Len(w.kids[c]) ELSE in[1][c] - 1)

\* AppWindow::focus_component: a component without the trait only takes the focus away.
focus_component(s, c) ==
    LET left == IF s.focus = None THEN s ELSE unfocus(s, s.focus)
    IN  CASE c = s.focus \/ ~can_unfocus(s) -> s
          [] c # s.focus /\ can_unfocus(s) /\ (c = None \/ ~Focusable(c)) -> [left EXCEPT !.focus = None]
          [] OTHER -> [focus(left, c) EXCEPT !.focus = c]

focus_next_component(s) ==
    LET n == focus_next_child(s.idx, 1)
    IN  IF can_unfocus(s) THEN focus_component([s EXCEPT !.idx = n[1]], n[2]) ELSE s

focus_prev_component(s) ==
    LET n == focus_prev_child(s.idx, 1)
    IN  IF can_unfocus(s) THEN focus_component([s EXCEPT !.idx = n[1]], n[2]) ELSE s

\* focus_child_at does not move the index of the containers.
focus_component_at(s, c) == IF can_unfocus(s) THEN focus_component(s, c) ELSE s

\* ----------------------------------------------------------- the layout
\* Rectangles are records; quotients of f64 are exact and truncated.

Rect(x, y, wd, ht) == [x |-> x, y |-> y, w |-> wd, h |-> ht]
Screen == 8
Least(a, b) == IF a < b THEN a ELSE b
Most(a, b) == IF a < b THEN b ELSE a
Clamp(v, lo, hi) == Most(lo, Least(v, hi))

Scaled(rel, size) == (rel * size) \div Screen
Stretched(rel, size) == IF rel = 0 THEN size ELSE Scaled(rel, size)

\* With the aspect ratio kept, the longer side shrinks.
Aspect(rel, box, wd, ht) ==
    LET rw == IF rel.w = 0 THEN box.w ELSE rel.w
        rh == IF rel.h = 0 THEN box.h ELSE rel.h
        sh == (wd * rh) \div rw
        sw == (ht * rw) \div rh
    IN  IF sh <= ht THEN <<wd, sh>> ELSE <<sw, ht>>

scale_rect_to_rect(rel, box, min, max, keep) ==
    LET wd == Stretched(rel.w, box.w)
        ht == Stretched(rel.h, box.h)
        size == IF keep THEN Aspect(rel, box, wd, ht) ELSE <<wd, ht>>
    IN  Rect(Scaled(rel.x, box.w) + box.x, Scaled(rel.y, box.h) + box.y,
             Clamp(size[1], min[1], max[1]), Clamp(size[2], min[2], max[2]))

get_content_area(box, border) ==
    IF border THEN Rect(box.x + 1, box.y + 1, Most(box.w, 1) - 1, Most(box.h, 1) - 1) ELSE box

\* max_dim.max(min_dim) compares the pairs from the left.
PairMax(a, b) == IF a[1] > b[1] \/ (a[1] = b[1] /\ a[2] >= b[2]) THEN a ELSE b

scale_to_container(area, align, fill, cursor, kid) ==
    LET hor == align \in {"left", "right"}
        ver == align \in {"top", "bottom"}
        max == CASE hor /\ fill -> <<kid.max[1], Most(area.h, kid.min[2])>>
                 [] ver /\ fill -> <<Most(area.w, kid.min[1]), kid.max[2]>>
                 [] align = "none" /\ fill -> <<Most(area.w, kid.min[1]), Most(area.h, kid.min[2])>>
                 [] OTHER -> PairMax(kid.max, kid.min)
        r == scale_rect_to_rect(kid.rel, area, kid.min, max, kid.keep)
        x == IF align = "right" THEN r.x + area.w - cursor.x - r.w ELSE r.x + cursor.x
        y == IF align = "bottom" THEN r.y + area.h - cursor.y - r.h ELSE r.y + cursor.y
    IN  Rect(x, y, IF fill /\ ~hor THEN area.w ELSE r.w, IF fill /\ ~ver THEN area.h ELSE r.h)

\* The cursor after child number i; row is last_row_height.
Advance(align, cols, pad, c, i, r) ==
    CASE align \in {"left", "right"} -> [c EXCEPT !.x = @ + r.w + pad]
      [] align \in {"top", "bottom"} -> [c EXCEPT !.y = @ + r.h + pad]
      [] align = "grid" /\ i % cols = 0 -> [c EXCEPT !.x = 0, !.y = @ + c.row + pad, !.row = 0]
      [] align = "grid" /\ i % cols # 0 -> [c EXCEPT !.x = @ + r.w + pad, !.row = Most(@, r.h)]
      [] OTHER -> c

apply_layout(area, align, fill, cols, pad, kids) ==
    LET Step(acc, kid) ==
          LET r == scale_to_container(area, align, fill, acc.cursor, kid)
          IN  [cursor |-> Advance(align, cols, pad, acc.cursor, Len(acc.rects) + 1, r), rects |-> Append(acc.rects, r)]
    IN  FoldLeft(Step, [cursor |-> [x |-> 0, y |-> 0, row |-> 0], rects |-> <<>>], kids).rects

\* FitMode::GrowAndShrink: the container takes the bounds of its children.
apply_fit(rects) ==
    LET all == ToSet(rects)
        mins == <<CHOOSE v \in {r.x : r \in all} : \A r \in all : v <= r.x, CHOOSE v \in {r.y : r \in all} : \A r \in all : v <= r.y>>
        maxs == <<CHOOSE v \in {r.x + r.w : r \in all} : \A r \in all : v >= r.x + r.w,
                  CHOOSE v \in {r.y + r.h : r \in all} : \A r \in all : v >= r.y + r.h>>
    IN  Rect(mins[1] - 1, mins[2] - 1, maxs[1] - mins[1] + 2, maxs[2] - mins[2] + 2)

\* --------------------------------------------------------- the callbacks

Exists(s, c) == c <= 6 + s.made

CounterChange(s, on) ==
    LET first == IF ~Exists(s, 8) THEN s ELSE IF on = 1 THEN enable(s, 8) ELSE disable(s, 8)
    IN  IF ~Exists(s, 9) THEN first ELSE IF on = 1 THEN show(first, 9) ELSE hide(first, 9)

CounterClick(s, c) == IF c = 8 THEN set(s, "count", s.sig.count + 1) ELSE set(s, "count", 0)

\* The field is locked while clear calls on_change.
SubmitClick(s) ==
    LET sub == set(s, "submitted", s.sig.input)
        cleared == set([Lock(sub, 7) EXCEPT !.comp[7].text = <<>>, !.locked = @ \cup {7}], "input", <<>>)
    IN  MarkOne([cleared EXCEPT !.locked = @ \ {7}], 7)

SliderChange(s, v) ==
    LET lab == set(s, "label", v)
    IN  IF ~Exists(s, 9) THEN lab
        ELSE set(MarkOne([Lock(lab, 9) EXCEPT !.comp[9].text = <<v>>], 9), "last", v)

NumberClick(s, digit) ==
    LET d == s.sig.display
    IN  set(s, "display", IF d = Number(FALSE, 0) THEN Number(FALSE, digit) ELSE [d EXCEPT !.n = 10 * @ + digit])

OperatorClick(s, op) ==
    LET t == set([s EXCEPT !.sig.stored = s.sig.display], "display", Number(FALSE, 0))
        u == [t EXCEPT !.sig.operator = op]
    IN  IF Exists(s, 21) THEN enable(u, 21) ELSE u

SignClick(s) == set(s, "display", Negated(s.sig.display))

ClearClick(s) ==
    LET t == [set(s, "display", Number(FALSE, 0)) EXCEPT !.sig.stored = Number(FALSE, 0), !.sig.operator = "none"]
    IN  IF Exists(s, 21) THEN disable(t, 21) ELSE t

\* Quotients are truncated to whole numbers; nothing happens for a divisor 0.
EqualsClick(s) ==
    LET v == s.sig.display
        st == s.sig.stored
        op == s.sig.operator
    IN  CASE op = "add" -> set(s, "display", Sum(st, v))
          [] op = "sub" -> set(s, "display", Sum(st, Negated(v)))
          [] op = "mul" -> set(s, "display", Number(st.neg # v.neg, st.n * v.n))
          [] op = "div" /\ v.n # 0 -> set(s, "display", Number(st.neg # v.neg, st.n \div v.n))
          [] OTHER -> s

\* "." (17) is not pressed.
CalculatorClick(s, c) ==
    CASE c \in 11 .. 13 -> NumberClick(s, c - 11)
      [] c \in {14, 15, 16, 19} -> OperatorClick(s, CASE c = 14 -> "add" [] c = 15 -> "sub" [] c = 16 -> "mul" [] c = 19 -> "div")
      [] c = 18 -> SignClick(s)
      [] c = 20 -> ClearClick(s)
      [] c = 21 -> EqualsClick(s)
      [] OTHER -> s

\* on_click of a button; those of the bar of the window send messages.
Click(s, c) ==
    CASE App = "counter" /\ c \in {8, 9} -> CounterClick(s, c)
      [] App = "submit" /\ c = 11 -> SubmitClick(s)
      [] App = "calculator" /\ c > 10 -> CalculatorClick(s, c)
      [] OTHER -> s

\* ------------------------------------------------- events in a component
\* The result is <<state, callback ran>>.  The component is locked while it
\* consumes the event; its callback runs after the lock was given back.

\* Mutant: the callback runs under the lock of its component.
UnlockLate(s) == s
Unlock(s) == [s EXCEPT !.locked = {}]
Ran(s) == <<[s EXCEPT !.early = @ \/ s.made < Len(Program)], TRUE>>
Nothing(s) == <<s, FALSE>>

HandleClick(s, c) == Ran(Click(Unlock(MarkOne(s, c)), c))
CheckboxClick(s, c) == LET on == 1 - s.sig.on IN Ran(CounterChange(set(Unlock(s), "on", on), on))
RadioClick(s, c) == Ran(set(set(Unlock(s), "option", c - 8), "selected", c - 8))

update_value(s, v) ==
    IF v > SliderMax \/ v < SliderMin THEN Nothing(s) ELSE Ran(SliderChange(set(Unlock(s), "value", v), v))

\* on_change of the input field hands the text to the signal.
InputChange(s, c, text) == Ran(set(Unlock(MarkOne([s EXCEPT !.comp[c].text = text], c)), "input", text))

InputKey(s, c, k) ==
    LET text == s.comp[c].text
    IN  CASE k = "f" /\ ~s.comp[c].sel /\ ~s.comp[c].disabled -> Nothing(MarkOne([s EXCEPT !.comp[c].sel = TRUE], c))
          [] s.comp[c].sel /\ k = "enter" -> Nothing(MarkOne([s EXCEPT !.comp[c].sel = FALSE], c))
          [] s.comp[c].sel /\ k = "back" -> InputChange(s, c, IF text = <<>> THEN text ELSE Front(text))
          [] s.comp[c].sel /\ k \notin {"enter", "back"} -> InputChange(s, c, IF Len(text) < MaxChars THEN Append(text, k) ELSE text)
          [] OTHER -> Nothing(s)

CanvasKey(s, c, k) == Ran([Unlock(MarkOne(s, c)) EXCEPT !.sig.pixels = @ + 1])

ButtonKey(s, c, k) == IF k = "f" /\ ~s.comp[c].disabled THEN HandleClick(s, c) ELSE Nothing(s)
CheckboxKey(s, c, k) == IF k = "f" /\ ~s.comp[c].disabled THEN CheckboxClick(s, c) ELSE Nothing(s)
RadioKey(s, c, k) == IF k = "f" THEN RadioClick(s, c) ELSE Nothing(s)
SliderKey(s, c, k) ==
    IF k \notin {"+", "-"} \/ s.comp[c].disabled THEN Nothing(s)
    ELSE update_value(s, IF k = "+" THEN s.sig.value + SliderSteps ELSE s.sig.value - SliderSteps)

consume_keyboard_press(s, c, k) ==
    LET kind == s.comp[c].kind
    IN  CASE kind = "button" -> ButtonKey(s, c, k) [] kind = "checkbox" -> CheckboxKey(s, c, k)
          [] kind = "radio" -> RadioKey(s, c, k) [] kind = "slider" -> SliderKey(s, c, k)
          [] kind = "input" -> InputKey(s, c, k) [] kind = "canvas" -> CanvasKey(s, c, k)

Pressed(s) == s.left = "pressed"

\* Dragging: x is the value under the mouse, clamped to the range.
SliderMouse(s, c, scroll, x) ==
    LET drag == IF Pressed(s) THEN TRUE ELSE IF s.left = "released" THEN FALSE ELSE s.comp[c].sel
        t == [s EXCEPT !.comp[c].sel = drag]
    IN  CASE s.comp[c].disabled -> Nothing(s)
          [] ~s.comp[c].disabled /\ scroll # 0 -> update_value(s, s.sig.value + scroll * SliderSteps)
          [] ~s.comp[c].disabled /\ scroll = 0 /\ drag /\ x # s.sig.value -> update_value(t, x)
          [] OTHER -> Nothing(t)

ButtonMouse(s, c) == IF Pressed(s) /\ ~s.comp[c].disabled THEN HandleClick(s, c) ELSE Nothing(s)
CheckboxMouse(s, c) == IF Pressed(s) /\ ~s.comp[c].disabled THEN CheckboxClick(s, c) ELSE Nothing(s)
RadioMouse(s, c) == IF Pressed(s) THEN RadioClick(s, c) ELSE Nothing(s)
InputMouse(s, c) == Nothing(IF Pressed(s) /\ ~s.comp[c].disabled THEN MarkOne([s EXCEPT !.comp[c].sel = ~@], c) ELSE s)
CanvasMouse(s, c) == Nothing(IF Pressed(s) THEN MarkOne([s EXCEPT !.comp[c].sel = ~@], c) ELSE s)

consume_mouse_event(s, c, scroll, x) ==
    LET kind == s.comp[c].kind
    IN  CASE kind = "button" -> ButtonMouse(s, c) [] kind = "checkbox" -> CheckboxMouse(s, c)
          [] kind = "radio" -> RadioMouse(s, c) [] kind = "slider" -> SliderMouse(s, c, scroll, x)
          [] kind = "input" -> InputMouse(s, c) [] kind = "canvas" -> CanvasMouse(s, c)

Locked(s) == [s EXCEPT !.locked = {s.focus}]

\* ----------------------------------------------------------------- the loop

\* ButtonState::next_state
next_state(state, down) ==
    CASE state \in {"none", "released"} /\ down -> "pressed"
      [] state \in {"pressed", "down"} /\ down -> "down"
      [] state \in {"pressed", "down"} /\ ~down -> "released"
      [] OTHER -> "none"

\* What draw paints: the colours follow from the flags.
ButtonLook(s, c) == <<s.comp[c].disabled, s.focus = c, s.sig[s.comp[c].sig]>>
CheckboxLook(s, c) == <<s.comp[c].disabled, s.focus = c, s.sig.on>>
RadioLook(s, c) == <<s.comp[c].disabled, s.focus = c, s.sig.selected = c - 8>>
SliderLook(s, c) == <<s.comp[c].disabled, s.focus = c, s.sig.value>>
InputLook(s, c) == <<s.comp[c].disabled, s.focus = c, s.comp[c].sel, s.comp[c].text>>
CanvasLook(s, c) == <<s.focus = c, s.comp[c].sel, s.sig.pixels>>
LabelLook(s, c) == <<s.sig[s.comp[c].sig]>>
BitmapLook(s, c) == <<s.focus = c, s.comp[c].text>>

\* A hidden component paints nothing.
Look(s, c) ==
    LET kind == s.comp[c].kind
    IN  CASE s.comp[c].hidden -> <<"nothing">>
          [] ~s.comp[c].hidden /\ kind = "button" -> ButtonLook(s, c) [] kind = "checkbox" -> CheckboxLook(s, c)
          [] kind = "radio" -> RadioLook(s, c) [] kind = "slider" -> SliderLook(s, c)
          [] kind = "input" -> InputLook(s, c) [] kind = "canvas" -> CanvasLook(s, c)
          [] kind = "label" -> LabelLook(s, c) [] kind = "bitmap" -> BitmapLook(s, c)

\* The layout of a dirty container rescales, and thereby marks, all children.
Laid(s, c) == UNION {Below(s, k) : k \in {k \in Below(s, c) : s.comp[k].dirty}}

\* A dirty child is painted; its old picture is cleared before, unless the
\* whole container is dirty, in which case a hidden child leaves it behind.
DrawChild(s, dirty, k) ==
    LET old == IF k \in DOMAIN s.drawn THEN s.drawn[k] ELSE <<"nothing">>
        whole == \E p \in dirty : k \in ToSet(s.kids[p])
    IN  IF s.comp[k].hidden /\ whole THEN old ELSE Look(s, k)

Drawn(s, dirty) ==
    [s EXCEPT !.drawn = [k \in {k \in dirty : s.comp[k].kind # "container"} |-> DrawChild(s, dirty, k)] @@ @,
              !.comp = [k \in DOMAIN @ |-> IF k \in dirty THEN [@[k] EXCEPT !.dirty = FALSE] ELSE @[k]]]
DrawContainer(s, c) == IF is_dirty(s, c) THEN Drawn(s, Laid(s, c)) ELSE s

Draw ==
    /\ w.pc = "draw"
    /\ w' = [DrawContainer(w, 1) EXCEPT !.pc = "keyboard"]

\* The components in the tree of the window.
Shown == {c \in 4 .. 6 + w.placed : ~IsContainer(c)}

\* The window loses the focus: unfocus forgets the component before it would
\* tell it, and the whole window is cleared and marked.
LeaveWindow(s) == IF can_unfocus(s) THEN mark_dirty([s EXCEPT !.focus = None, !.drawn = <<>>], 1) ELSE s

interact(s, result) == [Unlock(result[1]) EXCEPT !.stuck = result[1].stuck]

process_keyboard_input(k) ==
    LET result == IF w.focus = None THEN Nothing(w) ELSE consume_keyboard_press(Locked(w), w.focus, k)
        s == interact(w, result)
    IN  /\ w.pc = "keyboard"
        /\ w' = [(CASE ~result[2] /\ k = "w" -> focus_next_component(s)
                    [] ~result[2] /\ k = "s" -> focus_prev_component(s)
                    [] ~result[2] /\ k = "d" -> LeaveWindow(s)
                    [] OTHER -> s) EXCEPT !.pc = "mouse"]

NoKey == w.pc = "keyboard" /\ w' = [w EXCEPT !.pc = "mouse"]

process_mouse_input(packet, hit, x) ==
    LET moved == [w EXCEPT !.left = next_state(@, packet = "down")]
        s == focus_component_at(moved, hit)
        scroll == IF packet = "scroll+" THEN 1 ELSE IF packet = "scroll-" THEN -1 ELSE 0
    IN  /\ w.pc = "mouse" /\ hit \in {None} \cup Shown
        /\ w' = [(IF s.focus = None THEN s ELSE interact(s, consume_mouse_event(Locked(s), s.focus, scroll, x)))
                 EXCEPT !.pc = "insert"]

NoMouse == w.pc = "mouse" /\ w' = [w EXCEPT !.pc = "insert"]

Fresh(n) == [kind |-> n.kind, sig |-> n.sig, dirty |-> TRUE, disabled |-> FALSE, hidden |-> FALSE, sel |-> FALSE, text |-> <<>>]

\* A component that is made with its parent, as the buttons of a radio group.
WithParent(i) == Program[i].kind = "radio"

\* execute in the thread of the application: the components exist, and are
\* queued; a radio group comes with its buttons.  The thread of the calculator
\* ends by disabling "=".
RECURSIVE Made(_)
Made(s) ==
    LET i == s.made + 1
        s1 == [s EXCEPT !.made = i, !.comp = @ @@ ((6 + i) :> Fresh(Program[i])), !.kids = @ @@ ((6 + i) :> <<>>),
                        !.idx = @ @@ ((6 + i) :> None)]
        s2 == IF WithParent(i) THEN [s1 EXCEPT !.kids[Program[i].parent] = Append(@, 6 + i)] ELSE s1
        s3 == IF App = "calculator" /\ i = Len(Program) THEN disable(s2, 6 + i) ELSE s2
    IN  IF i < Len(Program) /\ WithParent(i + 1) THEN Made(s3) ELSE s3

AppExecutes ==
    /\ w.made < Len(Program)
    /\ w' = Made(w)

\* add_new_components_from_api: the queue is emptied into the containers, and
\* a container that gets a child is marked.
Queued(s) == SelectSeq([j \in 1 .. s.made - s.placed |-> s.placed + j], LAMBDA i : ~WithParent(i))
Into(s, p) == LET for == SelectSeq(Queued(s), LAMBDA i : Program[i].parent = p) IN [j \in DOMAIN for |-> 6 + for[j]]
Inserted(s) == [s EXCEPT !.placed = s.made, !.kids = [p \in DOMAIN @ |-> @[p] \o Into(s, p)]]
MarkParents(s, parents) == MarkAll(s, UNION {Below(s, p) : p \in parents})
InsertAll(s) == MarkParents(Inserted(s), {Program[i].parent : i \in ToSet(Queued(s))})

\* The closure of the clock is called in each iteration; the date may have changed.
add_and_call(tick) ==
    /\ w.pc = "insert"
    /\ LET s == InsertAll(w)
       IN  w' = [(IF tick THEN set(s, "time", 1 - s.sig.time) ELSE s) EXCEPT !.pc = "draw"]

Init ==
    LET button == [Fresh(New("button", 2, "caption")) EXCEPT !.kind = "button"]
        box == Fresh(New("container", 1, ""))
    IN  w = [comp |-> <<box, box, box, button, button, button>>, kids |-> << <<2, 3>>, <<4, 5, 6>>, <<>>, <<>>, <<>>, <<>> >>,
             idx |-> <<0, 0, 0, 0, 0, 0>>, focus |-> None, sig |-> Signals, left |-> "none", drawn |-> <<>>,
             made |-> 0, placed |-> 0, locked |-> {}, stuck |-> FALSE, early |-> FALSE, pc |-> "draw"]

Bounded == w.sig.count <= MaxValue /\ w.sig.pixels <= MaxValue /\ w.sig.display.n <= MaxValue /\ ~w.stuck

Next ==
    /\ Bounded
    /\ \/ Draw \/ NoKey \/ NoMouse \/ AppExecutes
       \/ \E k \in Keys : process_keyboard_input(k)
       \/ \E p \in Mouse, h \in Hits, x \in SliderMin .. SliderMax : process_mouse_input(p, h, x)
       \/ \E tick \in {FALSE} \cup {App = "clock"} : add_and_call(tick)

Spec == Init /\ [][Next]_vars

\* ------------------------------------------------------------- properties

\* What is placed was made, the focus and the indices are in the tree.
TypeOK ==
    /\ w.placed <= w.made /\ w.made <= Len(Program) /\ DOMAIN w.comp = 1 .. 6 + w.made
    /\ \A c \in DOMAIN w.kids : w.idx[c] \in 0 .. Len(w.kids[c])
    /\ w.left \in {"none", "pressed", "down", "released"}

RECURSIVE InOrder(_), KeyboardAt(_)
\* The focusable components in the order of the tree.
InOrder(c) == IF IsContainer(c) THEN FlattenSeq([i \in DOMAIN w.kids[c] |-> InOrder(w.kids[c][i])])
              ELSE IF Focusable(c) THEN <<c>> ELSE <<>>
\* The component that the indices of the containers lead to.
KeyboardAt(c) == IF ~IsContainer(c) THEN c ELSE IF w.idx[c] = None THEN None ELSE KeyboardAt(w.kids[c][w.idx[c]])

\* Whatever was inserted and wherever the mouse was, the keys walk through
\* the tree in order, one component at a time, to none after the last and
\* before the first; and a component that has the focus can take it.
FocusInOrder ==
    LET order == <<None>> \o InOrder(1)
        n == Len(order)
        at == CHOOSE i \in 1 .. n : order[i] = KeyboardAt(1)
    IN  /\ w.focus # None => Focusable(w.focus) /\ \E i \in 1 .. n : order[i] = w.focus
        /\ \E i \in 1 .. n : order[i] = KeyboardAt(1)
        /\ focus_next_child(w.idx, 1)[2] = order[(at % n) + 1]
        /\ focus_prev_child(w.idx, 1)[2] = order[((at + n - 2) % n) + 1]

\* After a draw every component in the tree looks as its state says: each
\* change of the focus, of a signal or of a component left its dirty mark.
DrawnExact ==
    w.pc = "keyboard" =>
        \A c \in Shown : c \in DOMAIN w.drawn /\ w.drawn[c] = Look(w, c)

\* No callback takes the lock of a component that its own thread holds.
NotStuck == ~w.stuck

\* The values an application keeps in several places agree, if its thread
\* was done before its first callback: the checkbox and the buttons it
\* disables and hides, the field and its signal, the slider, its label and
\* the bitmap, the radio buttons and their label, "=" and the operator.
AppsAgree ==
    w.made = Len(Program) /\ ~w.early =>
        CASE App = "counter" -> w.comp[8].disabled = (w.sig.on = 0) /\ w.comp[9].hidden = (w.sig.on = 0)
          [] App = "submit" -> w.comp[7].text = w.sig.input /\ Len(w.comp[7].text) <= MaxChars
          [] App = "slider" -> /\ w.sig.value \in SliderMin .. SliderMax
                               /\ w.sig.label = w.sig.value /\ w.sig.last = w.sig.value
          [] App = "radio" -> w.sig.selected = w.sig.option
          [] App = "calculator" -> w.comp[21].disabled = (w.sig.operator = "none")
          [] OTHER -> TRUE

\* A component that holds the focus is the one that has it: nothing else is
\* selected or dragged.
HoldIsFocused == \A c \in DOMAIN w.comp : w.comp[c].sel => c = w.focus

Areas == {Rect(2, 2, wd, ht) : wd \in {3, 8}, ht \in {5, 8}}
Kids == {[rel |-> Rect(0, 0, wd, ht), min |-> <<1, 1>>, max |-> <<wd + 1, ht + 1>>, keep |-> keep] :
            wd \in 1 .. 3, ht \in {1, 2, 4}, keep \in BOOLEAN}
Families == {<<a, b, a>> : a, b \in Kids} \cup {<<a, b, c>> : a, b, c \in {k \in Kids : ~k.keep /\ k.rel.w < 3}}

Apart(r, s) == r.x + r.w <= s.x \/ s.x + s.w <= r.x \/ r.y + r.h <= s.y \/ s.y + s.h <= r.y
Inside(r, s) == s.x <= r.x /\ s.y <= r.y /\ r.x + r.w <= s.x + s.w /\ r.y + r.h <= s.y + s.h

\* The children of a container do not overlap, whatever their sizes: in a
\* row, in a column, from either end, stretched or not; in a grid if the last
\* child of a row is not the tallest.  A container that fits itself holds all
\* of them.
LayoutApart(pads) ==
    \A area \in Areas, kids \in Families, pad \in pads, align \in {"left", "right", "top", "bottom", "grid"}, fill \in BOOLEAN :
       (align # "grid" \/ (~fill /\ kids[2].rel.h <= kids[1].rel.h /\ ~kids[1].keep /\ ~kids[2].keep)) =>
          LET rects == apply_layout(get_content_area(area, pad = 1), align, fill, 2, pad, kids)
          IN  /\ \A i, j \in 1 .. 3 : i < j => Apart(rects[i], rects[j])
              /\ \A i \in 1 .. 3 : Inside(rects[i], apply_fit(rects))

=============================================================================
