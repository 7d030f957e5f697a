------------------------------ MODULE BootMemory ------------------------------
(***************************************************************************)
(* Physical memory at boot: os/kernel/src/memory/dram.rs, its callers in   *)
(* boot.rs, and the start of the two frame allocators, frames_lf.rs and    *)
(* frames.rs.                                                              *)
(*                                                                         *)
(* Regions are half open ranges <<start, end>> of frame numbers.  The      *)
(* memory map gives the available ones; the heap is taken from them; then  *)
(* the kernel image, the code for the other cores and the initial ramdisk  *)
(* (fixed) and the multiboot record are reserved, and what is left is made *)
(* free.  The areas of the memory map and the multiboot record are ranges  *)
(* of bytes, PageSize to a frame.                                          *)
(***************************************************************************)
EXTENDS Integers, Sequences, FiniteSets, SequencesExt

CONSTANTS MaxFrame,    \* frames are 0..MaxFrame-1
          MaxAreas,    \* regions the memory map leaves (MAX_REGIONS is never reached)
          FixedCount,  \* regions reserved after the heap
          HeapFrames,  \* KERNEL_HEAP_PAGES
          PageSize,    \* bytes of a frame
          MaxChunk,    \* 2^MAX_ORDER
          Faults       \* "overlap": the heap may fall on what is reserved later;
                       \* "small": the multiboot record may end inside a frame;
                       \* "tiny": an area of the memory map may lie inside a frame

BootAssumption ==
  /\ MaxFrame \in Nat /\ MaxAreas \in Nat /\ FixedCount \in Nat /\ HeapFrames \in Nat \ {0}
  /\ PageSize \in Nat \ {0} /\ MaxChunk \in Nat \ {0}
  /\ Faults \subseteq {"overlap", "small", "tiny"}

VARIABLES
  pc,          \* how far the boot is
  done,        \* regions of fixed that are reserved
  available, reserved, limit,   \* AVAILABLE_REGIONS, RESERVED_REGIONS, DRAM_LIMIT
  heap,        \* heap_region
  fixed,       \* the image, the code for the other cores, the ramdisk
  boot_info,   \* the multiboot record, in bytes
  given, kept, \* history: frames inserted as available, and as reserved
  free         \* the frames the allocator starts with

vars == <<pc, done, available, reserved, limit, heap, fixed, boot_info, given, kept, free>>

Frames(r) == r[1]..(r[2] - 1)
Cover(s) == UNION {Frames(s[i]) : i \in DOMAIN s}
Ranges == {r \in (0..MaxFrame) \X (0..MaxFrame) : r[1] < r[2]}
MaxOf(a, b) == IF a > b THEN a ELSE b

Init ==
  /\ pc = "map" /\ done = 0
  /\ available = <<>> /\ reserved = <<>> /\ limit = 0
  /\ heap = <<0, 0>>
  /\ fixed \in [1..FixedCount -> {r \in Ranges : r[2] = r[1] + 1}]
  /\ boot_info \in {<<s, s + n>> : s \in 0..(MaxFrame - 1) * PageSize, n \in 1..PageSize}
  /\ boot_info[2] <= MaxFrame * PageSize
  /\ "small" \notin Faults => boot_info[1] % PageSize = 0 /\ boot_info[2] % PageSize = 0
  /\ given = {} /\ kept = {} /\ free = {}

-----------------------------------------------------------------------------
Touches(a, b) == b[1] <= a[2]

\* insert_region: sorted by start, then merged from the left.
Sorted(set, r) ==
  LET at == Cardinality({i \in DOMAIN set : set[i][1] < r[1]})
  IN  SubSeq(set, 1, at) \o <<r>> \o SubSeq(set, at + 1, Len(set))
Merge(set) ==
  LET step[i \in 1..Len(set)] ==
        IF i = 1 THEN <<set[1]>>
        ELSE LET out == step[i - 1]
                 last == out[Len(out)]
             IN  IF Touches(last, set[i])
                 THEN [out EXCEPT ![Len(out)] = <<last[1], MaxOf(last[2], set[i][2])>>]
                 ELSE Append(out, set[i])
  IN  IF set = <<>> THEN <<>> ELSE step[Len(set)]
Insert(set, r) == Merge(Sorted(set, r))

\* insert_available: the first frame is left out.
InsertAvailable(r) ==
  LET cut == IF r[1] = 0 THEN <<1, r[2]>> ELSE r IN
  IF r[1] = 0 /\ r[2] <= 1 THEN UNCHANGED <<available, limit, given>>
  ELSE /\ available' = Insert(available, cut)
       /\ limit' = MaxOf(limit, cut[2])
       /\ given' = given \cup Frames(cut)

\* scan_multiboot2_memory_map; the two scans of an EFI map have areas of whole
\* frames.  An area loses the frames it does not cover: it may end up with
\* its end before its start.
Areas == {a \in (0..MaxFrame * PageSize) \X (0..MaxFrame * PageSize) : a[1] < a[2]}
Whole(a) == <<(a[1] + PageSize - 1) \div PageSize, a[2] \div PageSize>>
Scan(a) ==
  /\ pc = "map"
  /\ "tiny" \in Faults \/ Whole(a) \in Ranges
  /\ InsertAvailable(Whole(a))
  /\ Len(available') <= MaxAreas
  /\ UNCHANGED <<done, pc, reserved, heap, fixed, boot_info, kept, free>>

\* boot_alloc: the first region that is large enough, shrunk from the front.
\* The size is an unsigned difference: a region that ends before it starts is
\* larger than any heap.
Fitting ==
  {i \in DOMAIN available : \/ available[i][2] - available[i][1] >= HeapFrames
                            \/ available[i][2] < available[i][1]}
First(s) == CHOOSE i \in s : \A j \in s : i <= j
Taken(i) == <<available[i][1], available[i][1] + HeapFrames>>

Shrunk(i) ==
  IF Taken(i)[2] = available[i][2] THEN RemoveAt(available, i)
  ELSE [available EXCEPT ![i] = <<Taken(i)[2], @[2]>>]

Reserve(r) ==
  /\ reserved' = Insert(reserved, r)
  /\ limit' = MaxOf(limit, r[2])
  /\ kept' = kept \cup Frames(r)

BootInfoFrames == <<boot_info[1] \div PageSize, boot_info[2] \div PageSize>>
BootInfoWhole == (boot_info[1] \div PageSize)..((boot_info[2] - 1) \div PageSize)

\* start: the heap is taken before the other regions are known.
Heap ==
  /\ pc = "map" /\ Fitting # {}
  /\ LET i == First(Fitting) IN
       /\ "overlap" \in Faults \/ Frames(Taken(i)) \cap (Cover(fixed) \cup BootInfoWhole) = {}
       /\ heap' = Taken(i) /\ available' = Shrunk(i)
       /\ Reserve(Taken(i))
  /\ pc' = "reserve"
  /\ UNCHANGED <<done, fixed, boot_info, given, free>>

\* insert_reserved for the image, the code of the other cores, the ramdisk
ReserveFixed ==
  /\ pc = "reserve" /\ done < FixedCount
  /\ Reserve(fixed[done + 1])
  /\ done' = done + 1
  /\ UNCHANGED <<pc, available, heap, fixed, boot_info, given, free>>

\* get_multiboot_frames: the frame in which the record ends is left out.
ReserveBootInfo ==
  /\ pc = "reserve" /\ done = FixedCount
  /\ Reserve(BootInfoFrames)
  /\ pc' = "finalize"
  /\ UNCHANGED <<done, available, heap, fixed, boot_info, given, free>>

-----------------------------------------------------------------------------
\* finalize_available_regions: what is left of the region f after the reserved
\* regions.  State of the scan: cur_start, and what has been pushed.
Cut(f) ==
  LET start == [cur |-> f[1], out |-> <<>>]
      step[i \in 0..Len(reserved)] ==
        IF i = 0 THEN start
        ELSE LET w == step[i - 1]
                 r == reserved[i]
             IN  IF r[2] <= f[1] \/ r[1] >= f[2] \/ w.cur >= f[2] THEN w
                 ELSE [out |-> IF w.cur < r[1] THEN Append(w.out, <<w.cur, r[1]>>) ELSE w.out,
                       cur |-> IF r[2] > w.cur THEN (IF r[2] > f[2] THEN f[2] ELSE r[2]) ELSE w.cur]
      end == step[Len(reserved)]
  IN  IF end.cur < f[2] THEN Append(end.out, <<end.cur, f[2]>>) ELSE end.out

\* Mutant of Subtract: the reserved regions are not taken out.
SubtractNot(n) == SubSeq(available, 1, n)
Subtract(n) ==
  LET all[i \in 0..n] == IF i = 0 THEN <<>> ELSE all[i - 1] \o Cut(available[i])
  IN  all[n]

\* finalize_reserved_regions: the complement in 0..limit-1.
Gaps(av, lim) ==
  LET step[i \in 0..Len(av)] ==
        IF i = 0 THEN [cur |-> 0, out |-> <<>>]
        ELSE [cur |-> MaxOf(step[i - 1].cur, av[i][2]),
              out |-> IF step[i - 1].cur < av[i][1]
                      THEN Append(step[i - 1].out, <<step[i - 1].cur, av[i][1]>>)
                      ELSE step[i - 1].out]
      end == step[Len(av)]
  IN  IF end.cur < lim THEN Append(end.out, <<end.cur, lim>>) ELSE end.out

Finalize ==
  /\ pc = "finalize"
  /\ available' = Subtract(Len(available))
  /\ reserved' = Gaps(available', limit)
  /\ pc' = "frames"
  /\ UNCHANGED <<done, limit, heap, fixed, boot_info, given, kept, free>>

-----------------------------------------------------------------------------
\* mark_reserved: the largest aligned power of two that fits, again and again.
PowersUpTo(n) == {k \in 1..n : \E e \in 0..n : k = 2^e}
Largest(s) == CHOOSE k \in s : \A j \in s : j <= k

Chunk(at, n) == Largest({k \in PowersUpTo(n) : k <= MaxChunk /\ at % k = 0})

\* The chunks a region is reserved by, <<first frame, frames>>; k frames remain.
Chunks(r) ==
  LET left[k \in 0..(r[2] - r[1])] ==
        IF k = 0 THEN {}
        ELSE LET c == Chunk(r[2] - k, k) IN {<<r[2] - k, c>>} \cup left[k - c]
  IN  left[r[2] - r[1]]
AllChunks == UNION {Chunks(reserved[i]) : i \in DOMAIN reserved}

\* LLFree::get of a given chunk: an error, and a panic, when it is not aligned.
Refused == \E c \in AllChunks : c[1] % c[2] # 0

\* frames_lf::init: all frames are free, then the reserved ones are allocated.
StartLockFree ==
  /\ pc = "frames"
  /\ IF Refused THEN pc' = "panic" /\ free' = {}
     ELSE /\ pc' = "running"
          /\ free' = (0..limit - 1) \ UNION {c[1]..(c[1] + c[2] - 1) : c \in AllChunks}
  /\ UNCHANGED <<done, available, reserved, limit, heap, fixed, boot_info, given, kept>>

\* frames::init: mark_avail of each available region
StartList ==
  /\ pc = "frames"
  /\ free' = Cover(available) \ {0}
  /\ pc' = "running"
  /\ UNCHANGED <<done, available, reserved, limit, heap, fixed, boot_info, given, kept>>

Next ==
  \/ \E a \in Areas : Scan(a)
  \/ Heap \/ ReserveFixed \/ ReserveBootInfo \/ Finalize \/ StartLockFree \/ StartList

Spec == Init /\ [][Next]_vars

-----------------------------------------------------------------------------
\* The region sets are sequences of regions below the limit.
TypeOK ==
  /\ \A i \in DOMAIN available : available[i] \in Ranges
  /\ Cover(available) \cup Cover(reserved) \subseteq 0..limit - 1
  /\ limit \in 0..MaxFrame

\* Inserting keeps a set sorted, and its regions apart from each other: no two
\* of them overlap or touch.
Apart(s) == \A i \in 1..Len(s) - 1 : s[i][2] < s[i + 1][1]
SetsApart == Apart(available) /\ Apart(reserved)

\* The available regions are what the memory map gave, without what is in use.
AvailableExact ==
  /\ pc = "map" => Cover(available) = given
  /\ pc \in {"frames", "running"} => Cover(available) = given \ kept

\* After finalize each frame below the limit is available or reserved, not both.
Complement ==
  pc \in {"frames", "running"} =>
    /\ Cover(available) \cap Cover(reserved) = {}
    /\ Cover(available) \cup Cover(reserved) = 0..limit - 1

\* The chunks mark_reserved asks for are aligned: the allocator refuses none.
NotRefused == pc # "panic"

\* Either allocator starts with the frames that are available: none is lost and
\* none is given out that is in use.
FreeExact == pc = "running" => free = given \ kept
=============================================================================
