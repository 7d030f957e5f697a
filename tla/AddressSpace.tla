---------------------------- MODULE AddressSpace ----------------------------
(***************************************************************************)
(* The address space of a process from its creation to its end:            *)
(* os/kernel/src/memory/vmm.rs, the handler of page faults                 *)
(* (interrupt/interrupt_dispatcher.rs) and the system calls that map       *)
(* memory (syscall/sys_vmem.rs).                                           *)
(*                                                                         *)
(* The threads of the process allocate areas, which are mapped whole       *)
(* ("full"), mapped to the memory of a device ("dev"), or mapped page by   *)
(* page as they are touched ("lazy": heap, stacks, anonymous memory).  The *)
(* list of areas is locked for the search of a gap and again for the       *)
(* insertion, not in between, and mapping is a third step.                 *)
(***************************************************************************)
EXTENDS PageTree

CONSTANTS Thread,       \* threads of the process
          KernelPages,  \* pages below user space, mapped for the kernel
          MaxAreas,     \* bound on the number of areas
          MaxLen,       \* bound on the length of an area, in pages
          Uses          \* what processes may do besides careful use:
                        \*   "race":   two threads touch a new page at once
                        \*   "sparse": end without having touched a page in
                        \*             each table a lazy area runs through

AddressSpaceAssumption ==
  KernelPages \in Page \ {0} /\ Uses \subseteq {"race", "sparse"}

VARIABLES
  tree,       \* page_tables
  areas,      \* virtual_memory_areas
  pc,         \* what a thread is doing in the kernel
  rss,        \* rss_user_pages
  alive       \* the address space has not been dropped

vars == <<tree, areas, pc, rss, alive>>

Typ == {"full", "lazy", "dev"}
UserEnd == Fanout^Depth
Areas == [start : KernelPages .. UserEnd - 1, end : KernelPages + 1 .. UserEnd, typ : Typ]
In(a) == a.start .. a.end - 1
Running == [at |-> "run"]

\* Paging::from_other: a copy of the tables of the kernel, whose pages are
\* mapped one to one.
Init ==
  /\ tree = MapPages(NewTree, [start |-> 0, end |-> KernelPages], "rw", TRUE)
  /\ areas = {}
  /\ pc = [t \in Thread |-> Running]
  /\ rss = 0
  /\ alive = TRUE

-----------------------------------------------------------------------------
\* alloc_at: within user space and clear of the areas that are there.
Fits(start, len) ==
  /\ start + len <= UserEnd
  /\ \A a \in areas : start + len <= a.start \/ a.end <= start

\* alloc: the first gap, at the start of user space or behind an area.
Gaps(len) == {s \in {KernelPages} \cup {a.end : a \in areas} : Fits(s, len)}

\* What follows an insertion: the caller maps the area, or leaves it to the
\* page faults.
Inserted(t, a) ==
  /\ areas' = areas \cup {a}
  /\ pc' = [pc EXCEPT ![t] = IF a.typ = "lazy" THEN Running ELSE [at |-> "map", area |-> a]]

AllocBegin(t, len, typ) ==
  /\ alive /\ pc[t] = Running
  /\ Cardinality(areas) < MaxAreas
  /\ Gaps(len) # {}
  /\ pc' = [pc EXCEPT ![t] = [at |-> "alloc", len |-> len, typ |-> typ,
                              start |-> Min(Gaps(len))]]
  /\ UNCHANGED <<tree, areas, rss, alive>>

\* Mutant of AllocEnd: the gap is not looked at again.
AllocEndUnchecked(t) ==
  /\ pc[t].at = "alloc"
  /\ Inserted(t, [start |-> pc[t].start, end |-> pc[t].start + pc[t].len, typ |-> pc[t].typ])
  /\ UNCHANGED <<tree, rss, alive>>
AllocEnd(t) ==
  /\ pc[t].at = "alloc"
  /\ Fits(pc[t].start, pc[t].len)
  /\ Inserted(t, [start |-> pc[t].start, end |-> pc[t].start + pc[t].len, typ |-> pc[t].typ])
  /\ UNCHANGED <<tree, rss, alive>>

AllocFail(t) ==
  /\ pc[t].at = "alloc"
  /\ ~Fits(pc[t].start, pc[t].len)
  /\ pc' = [pc EXCEPT ![t] = Running]
  /\ UNCHANGED <<tree, areas, rss, alive>>

\* alloc_vma with a start address given.
AllocFixed(t, start, len, typ) ==
  /\ alive /\ pc[t] = Running
  /\ Cardinality(areas) < MaxAreas
  /\ Fits(start, len)
  /\ Inserted(t, [start |-> start, end |-> start + len, typ |-> typ])
  /\ UNCHANGED <<tree, rss, alive>>

\* user_alloc_map_full, map_pfr_for_vma, mmap with POPULATE.
MapArea(t) ==
  /\ pc[t].at = "map"
  /\ LET a == pc[t].area IN tree' = MapPages(tree, a, "rw", a.typ = "dev")
  /\ pc' = [pc EXCEPT ![t] = Running]
  /\ UNCHANGED <<areas, rss, alive>>

\* An access to a page of a lazy area that the page tables do not map traps;
\* handle_page_fault maps it without another look at the tables.
Fault(t, p) ==
  /\ alive /\ pc[t] = Running
  /\ \E a \in areas : p \in In(a) /\ a.typ = "lazy"
  /\ translate(tree, p) = Unused
  /\ "race" \in Uses \/ \A u \in Thread : pc[u] # [at |-> "fault", page |-> p]
  /\ pc' = [pc EXCEPT ![t] = [at |-> "fault", page |-> p]]
  /\ UNCHANGED <<tree, areas, rss, alive>>

FaultMap(t) ==
  /\ pc[t].at = "fault"
  /\ tree' = MapPages(tree, [start |-> pc[t].page, end |-> pc[t].page + 1], "rw", FALSE)
  /\ rss' = rss + 1
  /\ pc' = [pc EXCEPT ![t] = Running]
  /\ UNCHANGED <<areas, alive>>

\* The process is gone: VirtualAddressSpace::drop unmaps the areas in the order
\* of their addresses, those of devices excepted, then Paging::drop frees the
\* tables.
Touched(a) ==
  \A p \in In(a) : \E q \in In(a) : q \div Fanout = p \div Fanout /\ Used(tree, q)
UnmapAll(t, as) ==
  FoldLeft(LAMBDA u, a : Unmap(u, a, TRUE), t,
           SetToSortSeq({a \in as : a.typ # "dev"}, LAMBDA a, b : a.start < b.start))
DropAll(t, as) == DropTree(UnmapAll(t, as))
Drop ==
  /\ alive /\ areas # {} /\ \A t \in Thread : pc[t] = Running
  /\ "sparse" \in Uses \/ \A a \in areas : Touched(a)
  /\ tree' = DropAll(tree, areas)
  /\ areas' = {} /\ alive' = FALSE
  /\ UNCHANGED <<pc, rss>>

Next ==
  \/ \E t \in Thread :
       \/ \E len \in 1 .. MaxLen, typ \in Typ :
            \/ AllocBegin(t, len, typ)
            \/ \E start \in KernelPages .. UserEnd - 1 : AllocFixed(t, start, len, typ)
       \/ AllocEnd(t) \/ AllocFail(t) \/ MapArea(t)
       \/ \E p \in Page : Fault(t, p)
       \/ FaultMap(t)
  \/ Drop

Spec == Init /\ [][Next]_vars

-----------------------------------------------------------------------------
\* Areas lie in user space, threads are between the steps of a call.
TypeOK ==
  /\ areas \subseteq Areas
  /\ \A t \in Thread : pc[t].at \in {"run", "alloc", "map", "fault"}
  /\ rss \in Nat /\ alive \in BOOLEAN
  /\ tree.free \in 0 .. Frames /\ tree.table \subseteq Node

\* However the searches for a gap and the insertions of several threads
\* interleave, no two areas overlap.
AreasDisjoint == \A a, b \in areas : a # b => In(a) \cap In(b) = {}

\* A page of user space is mapped only within an area, to the device only within
\* an area for a device, and an area for a device is mapped whole; the pages of
\* the kernel stay mapped.
MappedAsAllocated ==
  alive =>
    /\ \A p \in 0 .. KernelPages - 1 : translate(tree, p).frame = p
    /\ \A p \in KernelPages .. UserEnd - 1 : Used(tree, p) =>
         \E a \in areas :
           p \in In(a) /\ tree.entry[p].frame = IF a.typ = "dev" THEN p ELSE Own
    /\ \A a \in areas :
         a.typ = "lazy" \/ (\E t \in Thread : pc[t] = [at |-> "map", area |-> a])
           \/ \A p \in In(a) : translate(tree, p) # Unused

\* A process that is gone has given back every frame of its pages and tables
\* once, and no frame of a device: whatever its threads did before, none was
\* lost on the way.
EndGivesBack == ~alive => tree.free = Frames /\ tree.foreign = {}

\* rss_user_pages counts the pages that page faults have mapped, each once.
RssExact ==
  alive => rss = Cardinality({p \in Page :
                    Used(tree, p) /\ \E a \in areas : p \in In(a) /\ a.typ = "lazy"})
=============================================================================
