-------------------------------- MODULE Ring --------------------------------
(***************************************************************************)
(* Indices of the power-of-two rings the mlx4 provider shares with the     *)
(* card: work queues (os/library/ibverbs/src/provider/mlx4/queue_pair.rs)  *)
(* and completion queues (completion_queue.rs).                            *)
(*                                                                         *)
(* An index is a u32 that is never reduced to the ring: it wraps at        *)
(* Wrap = 2^32.  Its slot is index & (Cnt - 1), and the parity of the      *)
(* number of rounds it has made, the bit `index & Cnt`, tells whether an   *)
(* entry of the ring belongs to this round or to the previous one.         *)
(***************************************************************************)
EXTENDS Integers

CONSTANTS Cnt,      \* wqe_cnt or num_entries, a power of two
          Wrap      \* 2^32, the range of an index

\* Cnt and Wrap are powers of two and Cnt < Wrap, so that a whole, even
\* number of rounds fits into the range of an index.
RingAssumption ==
  /\ Cnt \in Nat \ {0}
  /\ Wrap \in Nat
  /\ \E k \in 1 .. Wrap : Wrap = 2 * Cnt * k

Index == 0 .. Wrap - 1
Slots == 0 .. Cnt - 1

\* u32 addition and subtraction of indices (wrapping: release build)
Add(a, b) == IF a + b >= Wrap THEN a + b - Wrap ELSE a + b
Sub(a, b) == IF a >= b THEN a - b ELSE a - b + Wrap

\* index & (Cnt - 1), and (index / Cnt) & 1
Slot(i) == i % Cnt
Round(i) == (i \div Cnt) % 2
=============================================================================
