----------------------------- MODULE PageTables -----------------------------
(***************************************************************************)
(* Page tables (os/kernel/src/memory/pages.rs) under the calls the virtual *)
(* memory manager makes of them, beside what they stand for: a map from    *)
(* pages to frames and flags.  Each call holds the lock on the root table  *)
(* and is one step.                                                        *)
(***************************************************************************)
EXTENDS PageTree

CONSTANTS Holes,      \* may a range to unmap have pages that are not mapped?
          MaxMapped   \* bound: pages mapped at a time

PageTablesAssumption == Holes \in BOOLEAN /\ MaxMapped \in Nat

VARIABLES tree,       \* the page tables
          flat        \* what each page is mapped to

vars == <<tree, flat>>

Ranges == {r \in [start : Page, end : 1 .. Fanout^Depth] : r.start < r.end}
In(r) == r.start .. r.end - 1
AllMapped(r) == \A p \in In(r) : flat[p] # Unused

Init == tree = NewTree /\ flat = [p \in Page |-> Unused]

\* The manager maps only pages that are not mapped yet.
Map(r, given) ==
  /\ \A p \in In(r) : flat[p] = Unused
  /\ Cardinality(In(r) \cup {p \in Page : flat[p] # Unused}) <= MaxMapped
  /\ tree' = MapPages(tree, r, "rw", given)
  /\ flat' = [p \in Page |->
               IF p \in In(r) THEN [frame |-> IF given THEN p ELSE Own, flags |-> "rw"]
               ELSE flat[p]]

\* Frames of the allocator are freed with the mapping, others are not.
UnmapRange(r, free) ==
  /\ Holes \/ AllMapped(r)
  /\ \E p \in In(r) : flat[p] # Unused
  /\ \A p \in In(r) : flat[p] # Unused => (free <=> flat[p].frame = Own)
  /\ tree' = Unmap(tree, r, free)
  /\ flat' = [p \in Page |-> IF p \in In(r) THEN Unused ELSE flat[p]]

\* Drivers switch the cache off for buffers in kernel memory.
ChangeFlags(r) ==
  /\ AllMapped(r)
  /\ \A p \in In(r) : flat[p].frame # Own
  /\ tree' = SetFlags(tree, r, "nc")
  /\ flat' = [p \in Page |-> IF p \in In(r) THEN [flat[p] EXCEPT !.flags = "nc"]
                             ELSE flat[p]]

Next == \E r \in Ranges :
  \/ \E given \in BOOLEAN : Map(r, given)
  \/ \E free \in BOOLEAN : UnmapRange(r, free)
  \/ ChangeFlags(r)

Spec == Init /\ [][Next]_vars

-----------------------------------------------------------------------------
\* The tree and its reference have their types.
TypeOK ==
  LET Entry == [frame : Page \cup {Own, None}, flags : {"rw", "nc", "none"}] IN
    /\ tree \in [entry : [Page -> Entry], table : SUBSET Node, free : 0 .. Frames,
                  foreign : SUBSET Page]
    /\ flat \in [Page -> Entry]

\* Whatever tables a range runs through, the walk that translates an address
\* finds what the calls to map, unmap and set_flags asked for.
TranslateExact == \A p \in Page : translate(tree, p) = flat[p]

\* map, unmap and the tables they add and drop lose no frame, free none twice
\* and free none that the allocator did not give out.
FramesAccounted == Accounted(tree)

\* unmap leaves no empty table behind and drops none that is in use.
TablesTrimmed == Trimmed(tree)
=============================================================================
