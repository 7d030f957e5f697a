-------------------------------- MODULE Pipe --------------------------------
(***************************************************************************)
(* Named pipes: Pipe in os/kernel/src/naming/tmpfs.rs.                     *)
(*                                                                         *)
(* A pipe has one reader and one writer at a time; open waits for the      *)
(* other side, read for data, write for space.  WaitQueue::wait tests its  *)
(* condition again and again (module WaitQueue), so a wait is a step that  *)
(* is enabled when the condition holds; the epoch only makes waiting opens *)
(* test theirs again.  The queue of bytes and `count', the number of bytes *)
(* the conditions look at, are changed one after the other, and the locks  *)
(* are `mutex' (open_close_mutex) and the read guard of `pq' that read and *)
(* write hold while they move bytes.                                       *)
(*                                                                         *)
(* Readers and writers are the threads that use the pipe: each opens it,   *)
(* makes some calls and closes it, again and again.                        *)
(***************************************************************************)
EXTENDS Integers, FiniteSets

CONSTANTS Readers, Writers,  \* threads
          Size,              \* PIPE_SIZE
          MaxBytes,          \* bound on the length of a buffer
          MaxCalls,          \* bound on the calls a thread makes in all
          Faults             \* "exit": a thread may end without closing

PipeAssumption ==
  /\ Readers \cap Writers = {}
  /\ Size \in Nat \ {0} /\ MaxBytes \in Nat \ {0} /\ MaxCalls \in Nat
  /\ Faults \subseteq {"exit"}

Thread == Readers \cup Writers
Wrap == 2 * (Size + MaxBytes)   \* count is a usize: it wraps around

VARIABLES
  pc,          \* where each thread is
  want,        \* bytes of the call still to move
  moved,       \* bytes the call has moved
  calls,       \* calls made
  queue,       \* number of bytes in rx/wx
  count,       \* count
  has_reader, has_writer,
  mutex        \* the thread that holds open_close_mutex, or "none"

vars == <<pc, want, moved, calls, queue, count, has_reader, has_writer, mutex>>

Init ==
  /\ pc = [t \in Thread |-> "closed"]
  /\ want = [t \in Thread |-> 0] /\ moved = [t \in Thread |-> 0]
  /\ calls = [t \in Thread |-> 0]
  /\ queue = 0 /\ count = 0
  /\ has_reader = FALSE /\ has_writer = FALSE
  /\ mutex = "none"

has_data == count > 0
has_space == count < Size

\* The threads that hold the read guard of pq.
Moving == {t \in Thread : pc[t] \in {"move", "counted", "again"}}

Goto(t, l) == pc' = [pc EXCEPT ![t] = l]

-----------------------------------------------------------------------------

\* open: EBUSY when the side is taken, else the side is announced ...
Open(t) ==
  /\ pc[t] = "closed" /\ calls[t] < MaxCalls /\ mutex = "none"
  /\ calls' = [calls EXCEPT ![t] = @ + 1]
  /\ IF t \in Readers
     THEN IF has_reader THEN UNCHANGED <<pc, has_reader>>
                        ELSE has_reader' = TRUE /\ Goto(t, "opening")
     ELSE UNCHANGED has_reader
  /\ IF t \in Writers
     THEN IF has_writer THEN UNCHANGED <<pc, has_writer>>
                        ELSE has_writer' = TRUE /\ Goto(t, "opening")
     ELSE UNCHANGED has_writer
  /\ UNCHANGED <<want, moved, queue, count, mutex>>

\* ... and the other side is waited for.
OpenMet(t) ==
  /\ pc[t] = "opening"
  /\ t \in Readers => has_writer
  /\ t \in Writers => has_reader
  /\ Goto(t, "open")
  /\ UNCHANGED <<want, moved, calls, queue, count, has_reader, has_writer, mutex>>

\* read, write: a call with a buffer of n bytes; an empty one returns at once.
Call(t, n) ==
  /\ pc[t] = "open" /\ calls[t] < MaxCalls
  /\ calls' = [calls EXCEPT ![t] = @ + 1]
  /\ want' = [want EXCEPT ![t] = n] /\ moved' = [moved EXCEPT ![t] = 0]
  /\ Goto(t, "wait")
  /\ UNCHANGED <<queue, count, has_reader, has_writer, mutex>>

\* Mutant: a reader waits for data only.
ReadyData(t) == IF t \in Readers THEN has_data ELSE has_space \/ ~has_reader
\* What read and write wait for.
Ready(t) ==
  IF t \in Readers THEN has_data \/ ~has_writer ELSE has_space \/ ~has_reader

Waited(t) ==
  /\ pc[t] = "wait" /\ Ready(t)
  /\ Goto(t, "check")
  /\ UNCHANGED <<want, moved, calls, queue, count, has_reader, has_writer, mutex>>

\* EPIPE for a writer without a reader; end of file for a reader without data
\* and without a writer, which it looks at one after the other.
Check(t) ==
  /\ pc[t] = "check"
  /\ IF t \in Readers THEN Goto(t, IF has_data THEN "move" ELSE "eof")
                      ELSE Goto(t, IF has_reader THEN "move" ELSE "open")
  /\ UNCHANGED <<want, moved, calls, queue, count, has_reader, has_writer, mutex>>

CheckEof(t) ==
  /\ pc[t] = "eof"
  /\ Goto(t, IF has_writer THEN "move" ELSE "open")
  /\ UNCHANGED <<want, moved, calls, queue, count, has_reader, has_writer, mutex>>

\* One byte, if there is one, or space for one; then it is counted.
Move(t) ==
  /\ pc[t] = "move" /\ moved[t] < want[t]
  /\ IF t \in Readers
     THEN IF queue > 0 THEN queue' = queue - 1 /\ Goto(t, "counted")
                       ELSE Goto(t, "again") /\ UNCHANGED queue
     ELSE IF queue < Size THEN queue' = queue + 1 /\ Goto(t, "counted")
                          ELSE Goto(t, "again") /\ UNCHANGED queue
  /\ UNCHANGED <<want, moved, calls, count, has_reader, has_writer, mutex>>

Counted(t) ==
  /\ pc[t] = "counted"
  /\ count' = IF t \in Readers THEN (count - 1) % Wrap ELSE (count + 1) % Wrap
  /\ moved' = [moved EXCEPT ![t] = @ + 1]
  /\ Goto(t, "move")
  /\ UNCHANGED <<want, calls, queue, has_reader, has_writer, mutex>>

\* Nothing to read or no space: wait again.  A reader then goes on when there is
\* data, a writer gives up when the reader has gone.
Again(t) ==
  /\ pc[t] = "again" /\ Ready(t)
  /\ IF t \in Readers THEN Goto(t, IF has_data THEN "move" ELSE "open")
                      ELSE Goto(t, IF has_reader THEN "move" ELSE "open")
  /\ UNCHANGED <<want, moved, calls, queue, count, has_reader, has_writer, mutex>>

Return(t) ==
  /\ pc[t] = "move" /\ moved[t] = want[t]
  /\ Goto(t, "open")
  /\ UNCHANGED <<want, moved, calls, queue, count, has_reader, has_writer, mutex>>

\* close: the side is given up ...
Close(t) ==
  /\ pc[t] = "open" /\ mutex = "none"
  /\ has_reader' = (has_reader /\ t \notin Readers)
  /\ has_writer' = (has_writer /\ t \notin Writers)
  /\ IF has_reader' \/ has_writer'
     THEN Goto(t, "closed") /\ UNCHANGED mutex
     ELSE Goto(t, "reset") /\ mutex' = t
  /\ UNCHANGED <<want, moved, calls, queue, count>>

\* Mutant: the buffer is replaced, but not the count.
ResetQueue(t) ==
  /\ pc[t] = "reset" /\ Moving = {}
  /\ queue' = 0
  /\ mutex' = "none" /\ Goto(t, "closed")
  /\ UNCHANGED <<want, moved, calls, count, has_reader, has_writer>>

\* ... and when both are, the buffer is replaced.
Reset(t) ==
  /\ pc[t] = "reset" /\ Moving = {}
  /\ queue' = 0 /\ count' = 0
  /\ mutex' = "none" /\ Goto(t, "closed")
  /\ UNCHANGED <<want, moved, calls, has_reader, has_writer>>

\* A thread that ends, or is killed, between two calls: nobody closes for it.
Exit(t) ==
  /\ "exit" \in Faults /\ pc[t] = "open"
  /\ Goto(t, "gone")
  /\ UNCHANGED <<want, moved, calls, queue, count, has_reader, has_writer, mutex>>

Step(t) ==
  \/ OpenMet(t) \/ Waited(t) \/ Check(t) \/ CheckEof(t) \/ Move(t) \/ Counted(t) \/ Again(t)
  \/ Return(t) \/ Close(t) \/ Reset(t)

Next ==
  \E t \in Thread :
    \/ Open(t) \/ Step(t) \/ Exit(t)
    \/ \E n \in 1 .. MaxBytes : Call(t, n)

Spec == Init /\ [][Next]_vars

-----------------------------------------------------------------------------
\* Counters and program counters have their types.
TypeOK ==
  /\ pc \in [Thread -> {"closed", "opening", "open", "wait", "check", "eof", "move",
                        "counted", "again", "reset", "gone"}]
  /\ \A t \in Thread : moved[t] \in 0 .. want[t] /\ want[t] \in 0 .. MaxBytes
  /\ queue \in 0 .. Size /\ count \in 0 .. Wrap - 1
  /\ mutex \in Thread \cup {"none"}

\* `count' is the number of bytes in the queue but for the bytes that have been
\* moved and are about to be counted, whatever readers and writers overlap.
CountExact ==
  LET Late(S) == Cardinality({t \in S : pc[t] = "counted"})
  IN count = (queue + Late(Readers) - Late(Writers)) % Wrap

\* There is one reader and one writer at most, and nobody moves bytes or waits
\* for them without having its side of the pipe.
OneEach ==
  LET In(S) == {t \in S : pc[t] \notin {"closed", "reset", "gone"}}
  IN /\ Cardinality(In(Readers)) <= (IF has_reader THEN 1 ELSE 0)
     /\ Cardinality(In(Writers)) <= (IF has_writer THEN 1 ELSE 0)

\* A thread is in read or write.
Calling(t) == pc[t] \in {"wait", "check", "eof", "move", "counted", "again"}
=============================================================================
