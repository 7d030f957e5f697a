------------------------------ MODULE PageTree ------------------------------
(***************************************************************************)
(* The page table tree of an address space, os/kernel/src/memory/pages.rs: *)
(* the recursive walks that map, unmap, change and translate pages.        *)
(*                                                                         *)
(* A tree t has the entries of its level 1 tables, one per page (entry),   *)
(* the tables that are there (table), the number of frames the allocator   *)
(* has left (free), and the frames it was given that are not its own       *)
(* (foreign).  A table of level l is named <<l, i>>, the i-th of its       *)
(* level.  A walk returns the tree and the page from which its range is    *)
(* still to be done; the code returns the number of pages done.            *)
(***************************************************************************)
EXTENDS Integers, Sequences, FiniteSets, SequencesExt, FiniteSetsExt

CONSTANTS Fanout,     \* entries of a table: 512
          Depth,      \* levels of tables: 4
          Frames      \* bound: frames of the allocator

PageTreeAssumption ==
  Fanout \in Nat \ {0} /\ Depth \in Nat \ {0} /\ Frames \in Nat

Page == 0 .. Fanout^Depth - 1
Node == UNION {{<<l, i>> : i \in 0 .. Fanout^(Depth - l) - 1} : l \in 1 .. Depth}

\* What an entry points to: a frame of the allocator, or one it does not own:
\* memory of a device, or of the kernel, here named after the page.
Own == -1
None == -2

Unused == [frame |-> None, flags |-> "none"]
Used(t, p) == t.entry[p] # Unused

\* Mutant of Empty: only tables of the last level are ever freed.
EmptyLeaf(t, n) ==
  n[1] = 1 /\ \A p \in Page : p \div Fanout = n[2] => ~Used(t, p)

\* A table without an entry in use: is_table_empty.
Empty(t, n) ==
  IF n[1] = 1
  THEN \A p \in Page : p \div Fanout = n[2] => ~Used(t, p)
  ELSE \A x \in 0 .. Fanout - 1 : <<n[1] - 1, n[2] * Fanout + x>> \notin t.table

page_table_index(p, l) == (p \div Fanout^(l - 1)) % Fanout

\* The children of table <<l, i>> a walk goes through when page `start' is next.
Children(l, i, start) ==
  LET first == page_table_index(start, l) IN
    [k \in 1 .. Fanout - first |-> <<l - 1, i * Fanout + first + k - 1>>]

\* The pages of the level 1 table <<1, i>> a walk does when it has range r to do.
Count(r) == Min({r.end - r.start, Fanout - page_table_index(r.start, 1)})
Leaves(i, r) ==
  LET first == i * Fanout + page_table_index(r.start, 1) IN
    [k \in 1 .. Count(r) |-> first + k - 1]

\* A frame for a table is zeroed; memory::free_frames takes any frame.
AllocTable(t, n) ==
  [t EXCEPT !.table = @ \cup {n}, !.free = @ - 1,
            !.entry = [p \in Page |-> IF n[1] = 1 /\ p \div Fanout = n[2]
                                      THEN Unused ELSE @[p]]]
FreeTable(t, n) == [t EXCEPT !.table = @ \ {n}, !.free = @ + 1]
FreeFrame(t, f) ==
  IF f = Own THEN [t EXCEPT !.free = @ + 1] ELSE [t EXCEPT !.foreign = @ \cup {f}]

-----------------------------------------------------------------------------
\* One entry of a level 1 table: map_user takes a new frame; for
\* map_user_physical and identity_map_kernel it is the next frame of a range,
\* named after the page of the range it is for.
MapEntry(t, p, next, flags, given) ==
  IF given
  THEN [t EXCEPT !.entry[p] = [frame |-> next, flags |-> flags]]
  ELSE [t EXCEPT !.entry[p] = [frame |-> Own, flags |-> flags], !.free = @ - 1]

RECURSIVE map_in_table(_, _, _, _, _)
map_in_table(t, n, r, flags, given) ==
  IF n[1] = 1
  THEN [tree |-> FoldLeft(LAMBDA u, k : MapEntry(u, Leaves(n[2], r)[k], r.start + k - 1,
                                                 flags, given),
                          t, [k \in 1 .. Count(r) |-> k]),
        start |-> r.start + Count(r)]
  ELSE LET Enter(acc, c) ==
             IF acc.start >= r.end THEN acc
             ELSE map_in_table(IF c \notin acc.tree.table THEN AllocTable(acc.tree, c)
                               ELSE acc.tree,
                               c, [r EXCEPT !.start = acc.start], flags, given)
       IN FoldLeft(Enter, [tree |-> t, start |-> r.start], Children(n[1], n[2], r.start))

\* One entry of a level 1 table: its frame goes back only when asked to.
UnmapEntry(t, p, free) ==
  LET u == [t EXCEPT !.entry[p] = Unused] IN
    IF free /\ Used(t, p) THEN FreeFrame(u, t.entry[p].frame) ELSE u

\* A walk that passes over an unused entry does not advance in its range.
RECURSIVE unmap_in_table(_, _, _, _)
unmap_in_table(t, n, r, free) ==
  IF n[1] = 1
  THEN [tree |-> FoldLeft(LAMBDA u, p : UnmapEntry(u, p, free), t, Leaves(n[2], r)),
        start |-> r.start + Count(r)]
  ELSE LET Enter(acc, c) ==
             IF acc.start >= r.end \/ c \notin acc.tree.table THEN acc
             ELSE LET u == unmap_in_table(acc.tree, c, [r EXCEPT !.start = acc.start], free)
                  IN IF Empty(u.tree, c) THEN [u EXCEPT !.tree = FreeTable(@, c)] ELSE u
       IN FoldLeft(Enter, [tree |-> t, start |-> r.start], Children(n[1], n[2], r.start))

RECURSIVE set_flags_in_table(_, _, _, _)
set_flags_in_table(t, n, r, flags) ==
  IF n[1] = 1
  THEN [tree |-> FoldLeft(LAMBDA u, p : [u EXCEPT !.entry[p].flags = flags], t,
                          Leaves(n[2], r)),
        start |-> r.start + Count(r)]
  ELSE LET Enter(acc, c) ==
             IF acc.start >= r.end \/ c \notin acc.tree.table THEN acc
             ELSE set_flags_in_table(acc.tree, c, [r EXCEPT !.start = acc.start], flags)
       IN FoldLeft(Enter, [tree |-> t, start |-> r.start], Children(n[1], n[2], r.start))

\* translate: None where a table or the entry is missing.
translate(t, p) ==
  IF \A l \in 1 .. Depth : <<l, p \div Fanout^l>> \in t.table
  THEN t.entry[p] ELSE Unused

-----------------------------------------------------------------------------
Root == <<Depth, 0>>

\* Paging::new, map (and map_physical), unmap, set_flags, and drop_table.
NewTree == AllocTable([entry |-> [p \in Page |-> Unused], table |-> {},
                       free |-> Frames, foreign |-> {}], Root)
MapPages(t, r, flags, given) == map_in_table(t, Root, r, flags, given).tree
Unmap(t, r, free) == unmap_in_table(t, Root, r, free).tree
SetFlags(t, r, flags) == set_flags_in_table(t, Root, r, flags).tree
DropTree(t) ==
  [t EXCEPT !.entry = [p \in Page |-> Unused], !.table = {},
            !.free = @ + Cardinality(t.table)]

\* Every frame of the allocator is free, or holds a table, or backs a page, and
\* the allocator has been given no frame that is not its own.
Accounted(t) ==
  /\ t.free + Cardinality(t.table)
       + Cardinality({p \in Page : t.entry[p].frame = Own}) = Frames
  /\ t.foreign = {}

\* A table other than the root is there exactly when a page beneath it is in use.
Trimmed(t) ==
  \A n \in Node \ {Root} :
    n \in t.table <=> \E p \in Page : p \div Fanout^n[1] = n[2] /\ Used(t, p)
=============================================================================
