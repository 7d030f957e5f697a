---------------------------- MODULE SharedMemory ----------------------------
(***************************************************************************)
(* Shared memory between processes, os/kernel/src/memory/shm.rs, with the  *)
(* parts of the virtual memory manager it uses (memory/vmm.rs,             *)
(* memory/pages.rs).                                                       *)
(*                                                                         *)
(* open, attach, detach and unlink run under the lock on the tables and    *)
(* are one step each; but detach and unlink release it before they call    *)
(* delete, which takes it again: `deleting' is the step in between.  The   *)
(* frames of a region are identified by the region's id.                   *)
(***************************************************************************)
EXTENDS Integers, FiniteSets

CONSTANTS Proc,       \* processes
          Name,       \* names of regions
          Area,       \* places for areas in an address space
          MaxId,      \* bound: ids 0 .. MaxId are given out
          Wide,       \* 2^64, the range of the attach counter
          Uses        \* what processes may do besides orderly use:
                      \*   "late":  attach a region that was unlinked
                      \*   "again": detach an area a second time
                      \*   "exit":  end with areas attached

SharedMemoryAssumption ==
  /\ MaxId \in Nat /\ Wide \in Nat /\ Wide > Cardinality(Proc) * Cardinality(Area)
  /\ Uses \subseteq {"late", "again", "exit"}

Id == 0 .. MaxId
None == -1

VARIABLES
  naming,     \* naming_table
  entry,      \* entry_table: counter, unlinked, and whether it is there
  nextId,     \* next_free_id
  area,       \* the shm areas of an address space: region, and whether the
              \* page tables map it
  deleting,   \* the region a process is about to call delete for
  freed       \* how often the frames of a region were given back

vars == <<naming, entry, nextId, area, deleting, freed>>

NoArea == [id |-> None, mapped |-> FALSE]

Init ==
  /\ naming = [n \in Name |-> None]
  /\ entry = [i \in Id |-> [there |-> FALSE, counter |-> 0, unlinked |-> FALSE]]
  /\ nextId = 0
  /\ area = [p \in Proc |-> [a \in Area |-> NoArea]]
  /\ deleting = [p \in Proc |-> None]
  /\ freed = [i \in Id |-> 0]

Idle(p) == deleting[p] = None

-----------------------------------------------------------------------------
\* open with create: fails when the name exists.
OpenCreate(p, n) ==
  /\ Idle(p)
  /\ naming[n] = None
  /\ nextId <= MaxId
  /\ naming' = [naming EXCEPT ![n] = nextId]
  /\ entry' = [entry EXCEPT ![nextId].there = TRUE]
  /\ nextId' = nextId + 1
  /\ UNCHANGED <<area, deleting, freed>>

\* attach: a new area, mapped to the region's frames, and counted.
Attach(p, a, i) ==
  /\ Idle(p)
  /\ entry[i].there
  /\ area[p][a] = NoArea
  /\ "late" \in Uses \/ ~entry[i].unlinked
  /\ area' = [area EXCEPT ![p][a] = [id |-> i, mapped |-> TRUE]]
  /\ entry' = [entry EXCEPT ![i].counter = (@ + 1) % Wide]
  /\ UNCHANGED <<naming, nextId, deleting, freed>>

\* The guard of detach compares the type of the area with that of an area of
\* region 0.
DetachAccepts(p, a) == area[p][a].id = 0

\* Mutant of Detach: the region is left to nobody.
DetachKeepsRegion(p, a) ==
  /\ Idle(p)
  /\ DetachAccepts(p, a)
  /\ "again" \in Uses \/ area[p][a].mapped
  /\ area' = [area EXCEPT ![p][a].mapped = FALSE]
  /\ LET i == area[p][a].id IN
       entry' = [entry EXCEPT ![i].counter =
                   IF entry[i].there THEN (@ - 1) % Wide ELSE @]
  /\ UNCHANGED <<naming, nextId, deleting, freed>>

\* detach: the area is unmapped but stays in the list of areas.  The last one
\* to go deletes an unlinked region.
Detach(p, a) ==
  /\ Idle(p)
  /\ DetachAccepts(p, a)
  /\ "again" \in Uses \/ area[p][a].mapped
  /\ area' = [area EXCEPT ![p][a].mapped = FALSE]
  /\ LET i == area[p][a].id IN
       /\ entry' = [entry EXCEPT ![i].counter =
                      IF entry[i].there THEN (@ - 1) % Wide ELSE @]
       /\ deleting' = [deleting EXCEPT ![p] =
                         IF entry[i].there /\ entry[i].counter = 1 /\ entry[i].unlinked
                         THEN i ELSE None]
  /\ UNCHANGED <<naming, nextId, freed>>

\* unlink: the name goes, and with it the region if nobody is attached.
Unlink(p, n) ==
  /\ Idle(p)
  /\ naming[n] # None
  /\ naming' = [naming EXCEPT ![n] = None]
  /\ LET i == naming[n] IN
       /\ entry' = [entry EXCEPT ![i].unlinked = entry[i].there]
       /\ deleting' = [deleting EXCEPT ![p] =
                         IF entry[i].there /\ entry[i].counter = 0 THEN i ELSE None]
  /\ UNCHANGED <<nextId, area, freed>>

\* Mutant of Delete: frames are freed again.
DeleteUnchecked(p) ==
  /\ ~Idle(p)
  /\ deleting' = [deleting EXCEPT ![p] = None]
  /\ LET i == deleting[p] IN
       /\ entry' = [entry EXCEPT ![i].there = FALSE]
       /\ freed' = [freed EXCEPT ![i] = @ + 1]
  /\ UNCHANGED <<naming, nextId, area>>

\* delete: the entry goes and its frames are freed, if no one was faster.
Delete(p) ==
  /\ ~Idle(p)
  /\ deleting' = [deleting EXCEPT ![p] = None]
  /\ LET i == deleting[p] IN
       /\ entry' = [entry EXCEPT ![i].there = FALSE]
       /\ freed' = [freed EXCEPT ![i] = IF entry[i].there THEN @ + 1 ELSE @]
  /\ UNCHANGED <<naming, nextId, area>>

\* A process ends: its address space is dropped, which unmaps every area that
\* is not device memory and frees the frames it was mapped to.
Mapped(p, i) == {a \in Area : area[p][a] = [id |-> i, mapped |-> TRUE]}
Exit(p) ==
  /\ Idle(p)
  /\ area[p] # [a \in Area |-> NoArea]
  /\ "exit" \in Uses \/ \A a \in Area : ~area[p][a].mapped
  /\ freed' = [i \in Id |-> freed[i] + Cardinality(Mapped(p, i))]
  /\ area' = [area EXCEPT ![p] = [a \in Area |-> NoArea]]
  /\ UNCHANGED <<naming, entry, nextId, deleting>>

Next ==
  \E p \in Proc :
    \/ \E n \in Name : OpenCreate(p, n) \/ Unlink(p, n)
    \/ \E a \in Area : Detach(p, a) \/ \E i \in Id : Attach(p, a, i)
    \/ Delete(p)
    \/ Exit(p)

Spec == Init /\ [][Next]_vars

-----------------------------------------------------------------------------
\* Tables, counters (64 bits, wrapping) and areas have their types.
TypeOK ==
  /\ naming \in [Name -> Id \cup {None}]
  /\ entry \in [Id -> [there : BOOLEAN, counter : 0 .. Wide - 1, unlinked : BOOLEAN]]
  /\ nextId \in 0 .. MaxId + 1
  /\ area \in [Proc -> [Area -> [id : Id \cup {None}, mapped : BOOLEAN]]]
  /\ deleting \in [Proc -> Id \cup {None}]
  /\ freed \in [Id -> Nat]

\* No process has frames mapped that delete, or the end of another process,
\* gave back to the allocator.
MappedNotFreed ==
  \A p \in Proc, i \in Id : Mapped(p, i) # {} => freed[i] = 0

\* The frames of a region are given back at most once, and exactly when its
\* entry is gone, whichever of several concurrent deleters comes first.
FreedOnce == \A i \in Id : freed[i] = IF i < nextId /\ ~entry[i].there THEN 1 ELSE 0

\* A name always leads to a region that exists and is not unlinked, and no two
\* names lead to the same.
NameNeverDangles ==
  \A n \in Name : naming[n] # None =>
    /\ entry[naming[n]].there /\ ~entry[naming[n]].unlinked
    /\ \A m \in Name \ {n} : naming[m] # naming[n]

\* The counter of a region is the number of areas attached to it.
CounterExact ==
  \A i \in Id : entry[i].there =>
    entry[i].counter =
      Cardinality({x \in Proc \X Area : area[x[1]][x[2]] = [id |-> i, mapped |-> TRUE]})

\* A region that is unlinked and that nobody has attached.
Garbage(i) == entry[i].unlinked /\ \A p \in Proc : Mapped(p, i) = {}
=============================================================================
