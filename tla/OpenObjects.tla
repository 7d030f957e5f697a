----------------------------- MODULE OpenObjects -----------------------------
(***************************************************************************)
(* Open objects: os/kernel/src/naming/open_objects.rs, with the files of   *)
(* tmpfs.rs.  One file and the read end of one pipe are opened, used and   *)
(* closed by several threads.                                              *)
(*                                                                         *)
(* An opened object is a number; a thread that has looked it up keeps it,  *)
(* closed or not.  Positions are Width bits wide.  What a pipe does is in  *)
(* module Pipe; here it is claimed by open and released by close.          *)
(***************************************************************************)
EXTENDS Integers, Sequences, FiniteSets, SequencesExt

CONSTANTS Thread,
          Handles,     \* MAX_OPEN_OBJECTS: handles are 0..Handles-1
          MaxOpens,    \* opened objects in a behaviour
          MaxSize,     \* bytes of the file
          Width,       \* of usize
          Faults       \* "share": threads use each other's handles;
                       \* "full": opens may meet a full table;
                       \* "negative": seek to before the start

ObjectsAssumption ==
  /\ Handles \in Nat \ {0} /\ MaxOpens \in Nat /\ MaxSize \in Nat
  /\ MaxSize < 2^(Width - 1) /\ Faults \subseteq {"share", "full", "negative"}

VARIABLES
  open_handles,   \* entries <<handle, opened object>>
  free_handles,   \* 1: in use
  obj,            \* the opened objects: kind and pos
  len, size,      \* the file: the length of its data, and stat.size
  has_reader,     \* of the pipe
  th,             \* the call each thread is in
  want,           \* history: where the position of each opened object should be
  panicked        \* the kernel has stopped

vars == <<open_handles, free_handles, obj, len, size, has_reader, th, want, panicked>>
file == <<len, size>>
table == <<open_handles, free_handles>>

Usize(n) == n % 2^Width
Idle == [pc |-> "idle"]
Set(t, call) == th' = [th EXCEPT ![t] = call]

Init ==
  /\ open_handles = <<>> /\ free_handles = [h \in 0..Handles - 1 |-> 0]
  /\ obj = <<>> /\ len = 0 /\ size = 0
  /\ has_reader = FALSE /\ th = [t \in Thread |-> Idle]
  /\ want = <<>> /\ panicked = FALSE

\* lookup_opened_object: the entries that have the handle.
Lookup(h) == SelectSeq(open_handles, LAMBDA e : e[1] = h)

\* Handles a thread may use: the ones it has opened, and no call of another is
\* in them, unless threads share.
May(t, h) ==
  /\ th[t] = Idle /\ ~panicked /\ Lookup(h) # <<>>
  /\ "share" \in Faults \/ obj[Head(Lookup(h))[2]].by = t

-----------------------------------------------------------------------------
\* find_free_handle: the first that is free.
Pick ==
  LET free == {h \in DOMAIN free_handles : free_handles[h] = 0}
  IN  {h \in free : \A g \in free : h <= g}

\* allocate_handle, under the lock of the table.
Allocate(t, k) ==
  \/ \E h \in Pick :
       /\ free_handles' = [free_handles EXCEPT ![h] = 1]
       /\ open_handles' = Append(open_handles, <<h, Len(obj) + 1>>)
       /\ obj' = Append(obj, [kind |-> k, pos |-> 0, by |-> t])
       /\ want' = Append(want, 0)
  \/ /\ "full" \in Faults /\ Pick = {}     \* ENOHANDLES
     /\ UNCHANGED <<table, obj, want>>

\* open of a file
Open(t) ==
  /\ th[t] = Idle /\ ~panicked /\ Len(obj) < MaxOpens
  /\ Allocate(t, "file")
  /\ UNCHANGED <<file, has_reader, th, panicked>>

\* open of a pipe: the pipe is claimed, or busy, and then a handle is taken.
OpenPipe(t) ==
  /\ th[t] = Idle /\ ~panicked /\ Len(obj) < MaxOpens
  /\ ~has_reader
  /\ has_reader' = TRUE /\ Set(t, [pc |-> "claimed"])
  /\ UNCHANGED <<table, obj, file, want, panicked>>

OpenedPipe(t) ==
  /\ th[t].pc = "claimed" /\ ~panicked /\ Len(obj) < MaxOpens
  /\ Allocate(t, "pipe")
  /\ Set(t, Idle)
  /\ UNCHANGED <<file, has_reader, panicked>>

-----------------------------------------------------------------------------
\* read and write of a file of n bytes: the position is loaded,
Load(t, h, op, n) ==
  /\ May(t, h)
  /\ LET o == Head(Lookup(h))[2] IN
       /\ obj[o].kind = "file"
       /\ Set(t, [pc |-> op, o |-> o, pos |-> obj[o].pos, n |-> n])
  /\ UNCHANGED <<table, obj, file, has_reader, want, panicked>>

\* File::read
ReadLen(pos, n) ==
  IF pos > len THEN 0 ELSE IF len - pos < n THEN len - pos ELSE n
Read(t) ==
  /\ th[t].pc = "read" /\ ~panicked
  /\ Set(t, [th[t] EXCEPT !.pc = "store", !.n = ReadLen(th[t].pos, th[t].n)])
  /\ UNCHANGED <<table, obj, file, has_reader, want, panicked>>

\* File::write sets stat.size when the file grows, filling it with zeros.
NewSize(end) == IF end > len THEN end ELSE size

\* File::write: an end beyond usize, or a size nobody can allocate, panics.
Write(t) ==
  LET end == th[t].pos + th[t].n IN
  /\ th[t].pc = "write" /\ ~panicked
  /\ \/ /\ end <= MaxSize
        /\ size' = NewSize(end)
        /\ len' = IF end > len THEN end ELSE len
        /\ Set(t, [th[t] EXCEPT !.pc = "store"])
        /\ UNCHANGED panicked
     \/ /\ th[t].pos >= 2^(Width - 1)
        /\ panicked' = TRUE
        /\ UNCHANGED <<file, th>>
  /\ UNCHANGED <<table, obj, has_reader, want>>

\* Mutant of Moved: the position is left at what the call moved.
MovedOnly(pos, n) == Usize(n)
Moved(pos, n) == Usize(pos + n)

\* and stored with what the call has moved.
Store(t) ==
  /\ th[t].pc = "store" /\ ~panicked
  /\ obj' = [obj EXCEPT ![th[t].o].pos = Moved(th[t].pos, th[t].n)]
  /\ want' = [want EXCEPT ![th[t].o] = Usize(@ + th[t].n)]
  /\ Set(t, Idle)
  /\ UNCHANGED <<table, file, has_reader, panicked>>

\* seek by off from the start, the end or the current position.
SeekTo(o, origin, off) ==
  Usize(off + CASE origin = "Start" -> 0 [] origin = "End" -> size [] origin = "Current" -> obj[o].pos)

\* What the caller means, without the width: never before the start.
Meant(o, origin, off) ==
  off + CASE origin = "Start" -> 0 [] origin = "End" -> size [] origin = "Current" -> obj[o].pos

Seek(t, h, origin, off) ==
  /\ May(t, h)
  /\ LET o == Head(Lookup(h))[2] IN
       /\ obj[o].kind = "file"
       /\ Meant(o, origin, off) <= MaxSize
       /\ "negative" \in Faults \/ Meant(o, origin, off) >= 0
       /\ obj' = [obj EXCEPT ![o].pos = SeekTo(o, origin, off)]
       /\ want' = [want EXCEPT ![o] = SeekTo(o, origin, off)]
  /\ UNCHANGED <<table, file, has_reader, th, panicked>>

-----------------------------------------------------------------------------
\* close: a pipe is released,
Released(k) == IF k = "pipe" THEN FALSE ELSE has_reader

Close(t, h) ==
  /\ May(t, h)
  /\ LET o == Head(Lookup(h))[2] IN
       /\ has_reader' = Released(obj[o].kind)
       /\ Set(t, [pc |-> "close", h |-> h, o |-> o])
  /\ UNCHANGED <<table, obj, file, want, panicked>>

EntryOf(h) ==
  LET hits == {i \in DOMAIN open_handles : open_handles[i][1] = h}
  IN  {i \in hits : \A j \in hits : i <= j}

\* and its handle is freed: the last entry takes the place of the one removed.
Free(t) ==
  /\ th[t].pc = "close" /\ ~panicked
  /\ \/ \E i \in EntryOf(th[t].h) :
          /\ open_handles' = Front([open_handles EXCEPT ![i] = Last(open_handles)])
          /\ free_handles' = [free_handles EXCEPT ![th[t].h] = 0]
     \/ EntryOf(th[t].h) = {} /\ UNCHANGED table     \* EINVALH
  /\ Set(t, Idle)
  /\ UNCHANGED <<obj, file, has_reader, want, panicked>>

Next ==
  \/ \E t \in Thread :
       \/ Open(t) \/ OpenPipe(t) \/ OpenedPipe(t)
       \/ Read(t) \/ Write(t) \/ Store(t) \/ Free(t)
       \/ \E h \in 0..Handles - 1 :
            \/ \E op \in {"read", "write"} : Load(t, h, op, 1)
            \/ \E origin \in {"Start", "End", "Current"}, off \in {-1, 0, 1} :
                 Seek(t, h, origin, off)
            \/ Close(t, h)

Spec == Init /\ [][Next]_vars

-----------------------------------------------------------------------------
\* Handles, opened objects and the file have their types.
TypeOK ==
  /\ free_handles \in [0..Handles - 1 -> {0, 1}]
  /\ \A i \in DOMAIN open_handles : open_handles[i] \in (0..Handles - 1) \X DOMAIN obj
  /\ \A o \in DOMAIN obj : obj[o].pos \in 0..2^Width - 1
  /\ len \in 0..MaxSize

\* A handle is in use when it has an entry, and it has at most one.
HandlesExact ==
  \A h \in 0..Handles - 1 : free_handles[h] = Len(Lookup(h))

\* The size a file tells is the number of its bytes.
SizeIsData == size = len

\* The pipe is claimed while it is open, or being opened or closed.
ClaimMatches ==
  has_reader =>
    \/ \E i \in DOMAIN open_handles : obj[open_handles[i][2]].kind = "pipe"
    \/ \E t \in Thread : th[t].pc = "claimed"

\* Where no call is in an opened object, its position is where the calls on it lead.
PosExact ==
  \A o \in DOMAIN obj :
    (\A t \in Thread : th[t].pc \in {"read", "write", "store"} => th[t].o # o)
      => obj[o].pos = want[o]
=============================================================================
