-------------------------------- MODULE Card --------------------------------
(***************************************************************************)
(* Bringing up the ConnectX-3 card and serving its events                  *)
(* (src/os/kernel/src/device/infiniband/mlx4: mod.rs, fw.rs, icm.rs,       *)
(* port.rs, event_queue.rs, profile.rs).  Mlx4Device::init is a plan of    *)
(* steps, most of them one command; any of them can fail.  An error before *)
(* INIT_HCA drops what was built so far, a later one runs abort_init, whose *)
(* commands can fail as well.  Objects that stand for something the card   *)
(* holds panic when they are dropped.  Once the device is up the card      *)
(* posts events into the event queue and the interrupt handler reports     *)
(* them.                                                                   *)
(***************************************************************************)
EXTENDS Integers, Sequences, FiniteSets, SequencesExt

CONSTANTS Ports,      \* num_ports
          RsvdEqs,    \* num_rsvd_eqs, after the reserved UARs were counted
          MaxFaults,  \* bound: how many steps fail
          Entries,    \* num_entries of the event queue, a power of two
          MaxEvents   \* bound: how many events the card posts

VARIABLES drv,   \* the driver
          card,  \* what the card holds
          eq     \* the event queue, its interrupt line and its handler

vars == <<drv, card, eq>>

CardAssumption ==
    /\ Ports \in 0 .. 2 /\ RsvdEqs \in Nat /\ MaxFaults \in Nat
    /\ Entries \in {1, 2, 4, 8} /\ MaxEvents \in Nat

\* ------------------------------------------------------------- the plan

Op(name) == [op |-> name, arg |-> 0]
Arg(name, n) == [op |-> name, arg |-> n]

\* One command each, unless a function executes several.
reset == <<Op("semaphore"), Op("reset")>>
Ownership == <<Op("ownership")>>
query_fw == <<Op("query_fw")>>
map_area == <<Op("map_fa")>>
run == <<Op("run_fw")>>
repeat_query_capabilities == <<Op("query_dev_cap")>>
profile_new == <<Op("profile")>>
set_icm == <<Op("set_icm_size")>>
map_icm_aux == <<Op("map_icm_aux")>>

\* map_icm_tables, in its order; each table is one chunk here.
map_icm_tables ==
    LET tables == <<"qp_cmpt", "srq_cmpt", "cq_cmpt", "eq_cmpt", "eq", "mtt", "dmpt", "qp", "auxc", "altc", "rdmarc", "cq",
                    "srq", "mcg">>
    IN  [i \in DOMAIN tables |-> Arg("map_icm", tables[i])]

init_hca == <<Op("init_hca")>>
query_adapter == <<Op("query_adapter")>>
map_uar == <<Op("map_uar"), Op("clr_int")>>
eq_new == <<Op("sw2hw_eq")>>
map_all_events == <<Op("map_eq")>>
init_eqs == eq_new \o map_all_events \o <<Op("ring_eq")>>
config_mad_demux == <<Op("mad_demux"), Op("mad_demux")>>

\* Port::new: the state is queried before, between and after the commands.
port_new(p) ==
    <<Arg("query_port", p)>> \o [i \in 1 .. 4 |-> Arg("set_port", p)] \o <<Arg("query_port", p), Arg("init_port", p), Arg("query_open", p)>>

init_ports == FlattenSeq([p \in 1 .. Ports |-> port_new(p)])

Plan ==
    reset \o Ownership \o query_fw \o map_area \o run \o repeat_query_capabilities \o profile_new \o set_icm
      \o map_icm_aux \o map_icm_tables \o init_hca \o query_adapter \o map_uar \o init_eqs \o config_mad_demux \o init_ports

\* How often a step is tried before it fails.
Attempts(step) == CASE step.op = "query_dev_cap" -> 3 [] step.op \in {"query_port", "query_open"} -> 5 [] OTHER -> 1

\* What the card holds after a command, and what the driver then owns.
Gained(step) ==
    CASE step.op = "map_fa" -> {<<"fa", 0>>} [] step.op = "run_fw" -> {<<"firmware", 0>>}
      [] step.op = "map_icm_aux" -> {<<"aux", 0>>} [] step.op = "map_icm" -> {<<"icm", step.arg>>}
      [] step.op = "init_hca" -> {<<"hca", 0>>} [] step.op = "sw2hw_eq" -> {<<"eq", 0>>}
      [] step.op = "map_eq" -> {<<"events", 0>>} [] step.op = "init_port" -> {<<"port", step.arg>>}
      [] OTHER -> {}

\* Dropping these panics: please unmap, close or destroy instead.
Guarded == {"aux", "icm", "hca", "port"}

\* ------------------------------------------------------ the event queue
\* alloc_eqn gives the first number that is not reserved; the doorbell page is
\* that of the first queue, doorbell_pages[i / 4].

EqNumber == RsvdEqs
DoorbellPage == 0
Rings == DoorbellPage = EqNumber \div 4

\* Mutant: the consumer index is written without the arm bit.
RingUnarmed(q) == IF ~Rings THEN q ELSE [q EXCEPT !.known = q.ci]

\* The card takes the consumer index, and fires at once if it is behind.
ring(q) ==
    IF ~Rings THEN q
    ELSE [q EXCEPT !.known = q.ci, !.armed = q.pi = q.ci, !.line = @ \/ q.pi # q.ci]

\* Mutant: the owner bit is read as if the queue never wrapped.
RoundFirst(index) == 0

Round(index) == (index \div Entries) % 2
Slot(index) == index % Entries

\* The card posts an event (external): it does not overrun the index it was told.
Post ==
    /\ <<"events", 0>> \in card /\ eq.pi < MaxEvents /\ eq.pi - eq.known < Entries
    /\ eq' = [eq EXCEPT !.pi = @ + 1, !.owner[Slot(eq.pi)] = 1 - Round(eq.pi), !.event[Slot(eq.pi)] = eq.pi + 1,
                        !.line = @ \/ eq.armed, !.armed = FALSE]
    /\ UNCHANGED <<drv, card>>

\* The write lock is held while map_all_events or destroy execute commands.
WriteLocked == drv.mode = "abort" /\ drv.todo # <<>> /\ drv.todo[1].op \in {"unmap_eq", "hw2sw_eq"}

\* EventQueueHandler::trigger: the line is cleared before the queue is read.
Trigger ==
    /\ eq.line /\ eq.pc = "idle"
    /\ eq' = [eq EXCEPT !.line = FALSE, !.pc = "try"]
    /\ UNCHANGED <<drv, card>>

TryRead ==
    /\ eq.pc = "try"
    /\ eq' = [eq EXCEPT !.pc = IF WriteLocked THEN "idle" ELSE "consume"]
    /\ UNCHANGED <<drv, card>>

consume_entry ==
    LET s == Slot(eq.ci)
    IN  /\ eq.pc = "consume" /\ eq.mem
        /\ eq' = IF eq.owner[s] = Round(eq.ci) THEN [eq EXCEPT !.pc = "ring"]
                 ELSE [eq EXCEPT !.ci = @ + 1, !.reported = Append(@, eq.event[s])]
        /\ UNCHANGED <<drv, card>>

\* The queue was destroyed in the meantime, and its memory is unwrapped.
ConsumeDestroyed ==
    /\ eq.pc = "consume" /\ ~eq.mem
    /\ eq' = [eq EXCEPT !.pc = "panic"]
    /\ UNCHANGED <<drv, card>>

RingDoorbell ==
    /\ eq.pc = "ring"
    /\ eq' = [ring(eq) EXCEPT !.pc = "idle"]
    /\ UNCHANGED <<drv, card>>

\* ------------------------------------------------------------ initialization

Step == Plan[drv.pc]

\* A step succeeds.
Succeeds ==
    /\ drv.mode = "init" /\ drv.pc <= Len(Plan)
    /\ card' = card \cup Gained(Step)
    /\ drv' = [drv EXCEPT !.pc = @ + 1, !.tries = 1, !.owned = @ \cup {g \in Gained(Step) : g[1] \in Guarded \cup {"fa", "eq"}},
                          !.mode = IF drv.pc = Len(Plan) THEN "up" ELSE "init"]
    /\ eq' = CASE Step.op = "sw2hw_eq" -> [eq EXCEPT !.mem = TRUE] [] Step.op = "ring_eq" -> ring(eq) [] OTHER -> eq

\* An attempt fails, and there is another one.
Retries ==
    /\ drv.mode = "init" /\ drv.pc <= Len(Plan) /\ drv.faults < MaxFaults /\ drv.tries < Attempts(Step)
    /\ drv' = [drv EXCEPT !.tries = @ + 1]
    /\ UNCHANGED <<card, eq>>

\* close of the ports that did come up, the failed one first.
ClosePorts ==
    LET open == {g[2] : g \in {o \in drv.owned : o[1] = "port"}}
        order == SetToSortSeq(open, >)
    IN  [i \in DOMAIN order |-> Arg("close_port", order[i])]

\* EventQueue::destroy; eqs still is the empty list when init_eqs failed.
destroy == IF \E i \in 1 .. drv.pc - 1 : Plan[i].op = "ring_eq" THEN <<Op("unmap_eq"), Op("hw2sw_eq")>> ELSE <<>>

close_hca == <<Op("close_hca")>>

\* Mutant: a table is forgotten.
UnmapForgets == [i \in 1 .. 2 |-> Arg("unmap_icm", <<"eq", "cq">>[i])]

\* MappedIcmTables::unmap, in its order.
unmap_icm_tables ==
    LET tables == <<"eq", "eq_cmpt", "cq", "cq_cmpt", "qp", "rdmarc", "altc", "auxc", "qp_cmpt", "dmpt", "mtt", "mcg", "srq",
                    "srq_cmpt">>
    IN  [i \in DOMAIN tables |-> Arg("unmap_icm", tables[i])]

unmap_area == <<Op("unmap_icm_aux"), Op("unmap_fa")>>

abort_init == ClosePorts \o destroy \o close_hca \o unmap_icm_tables \o unmap_area

\* The locals of init are dropped: the firmware area gives its frames back.
Dropped(d) ==
    IF \E o \in d.owned : o[1] \in Guarded THEN [d EXCEPT !.mode = "panic"]
    ELSE [d EXCEPT !.mode = "failed", !.owned = @ \ {<<"fa", 0>>},
                   !.freed = @ \cup {o \in d.owned : o[1] = "fa"}]

\* A step fails: `?` before INIT_HCA and of the mapping of the tables, else abort_init.
Fails ==
    /\ drv.mode = "init" /\ drv.pc <= Len(Plan) /\ drv.faults < MaxFaults /\ Step.op # "ring_eq"
    /\ drv.tries = Attempts(Step)
    /\ LET d == [drv EXCEPT !.faults = @ + 1]
       IN  drv' = IF <<"hca", 0>> \in card THEN [d EXCEPT !.mode = "abort", !.todo = abort_init] ELSE Dropped(d)
    /\ UNCHANGED <<card, eq>>

Lost(step) ==
    CASE step.op = "close_port" -> {<<"port", step.arg>>} [] step.op = "unmap_eq" -> {<<"events", 0>>}
      [] step.op = "hw2sw_eq" -> {<<"eq", 0>>}
      [] step.op = "close_hca" -> {<<"hca", 0>>, <<"eq", 0>>, <<"events", 0>>}
      [] step.op = "unmap_icm" -> {<<"icm", step.arg>>} [] step.op = "unmap_icm_aux" -> {<<"aux", 0>>}
      [] step.op = "unmap_fa" -> {<<"fa", 0>>, <<"firmware", 0>>}

\* One command of abort_init succeeds.
CleansUp ==
    /\ drv.mode = "abort" /\ drv.todo # <<>>
    /\ card' = card \ Lost(drv.todo[1])
    /\ drv' = [drv EXCEPT !.todo = Tail(@),
                          !.owned = @ \ {o \in Lost(drv.todo[1]) : o[1] # "fa"}]
    /\ eq' = IF drv.todo[1].op = "hw2sw_eq" THEN [eq EXCEPT !.mem = FALSE] ELSE eq

\* One command of abort_init fails.  A port, a chunk and the auxiliary area
\* are given away by value and panic; the rest is logged.  An event queue that
\* cannot unmap its events is not handed back.
CleanUpFails ==
    /\ drv.mode = "abort" /\ drv.todo # <<>> /\ drv.faults < MaxFaults
    /\ LET op == drv.todo[1].op
           d == [drv EXCEPT !.faults = @ + 1]
       IN  drv' = CASE op \in {"close_port", "unmap_icm", "unmap_icm_aux"} -> [d EXCEPT !.mode = "panic"]
                    [] op = "unmap_eq" -> [d EXCEPT !.todo = Tail(Tail(@))]
                    [] OTHER -> [d EXCEPT !.todo = Tail(@)]
    /\ UNCHANGED <<card, eq>>

Returns ==
    /\ drv.mode = "abort" /\ drv.todo = <<>>
    /\ drv' = Dropped(drv)
    /\ UNCHANGED <<card, eq>>

\* ------------------------------------------------------------ after that

\* The card fills its internal error buffer (external).
InternalError ==
    /\ drv.mode = "up" /\ ~drv.err
    /\ drv' = [drv EXCEPT !.err = TRUE]
    /\ UNCHANGED <<card, eq>>

check_internal_error(d) ==
    IF d.err /\ ~d.reported THEN [d EXCEPT !.reported = TRUE, !.dumps = @ + 1] ELSE d

query_port ==
    /\ drv.mode = "up"
    /\ drv' = check_internal_error(drv)
    /\ UNCHANGED <<card, eq>>

Init ==
    /\ drv = [mode |-> "init", pc |-> 1, tries |-> 1, err |-> FALSE, reported |-> FALSE, dumps |-> 0, faults |-> 0, todo |-> <<>>, owned |-> {}, freed |-> {}]
    /\ card = {}
    /\ eq = [pi |-> 0, ci |-> 0, known |-> 0, owner |-> [s \in 0 .. Entries - 1 |-> 0], event |-> [s \in 0 .. Entries - 1 |-> 0],
             armed |-> FALSE, line |-> FALSE, mem |-> FALSE, pc |-> "idle", reported |-> <<>>]

Next ==
    \/ Succeeds \/ Retries \/ Fails \/ CleansUp \/ CleanUpFails \/ Returns \/ InternalError \/ query_port
    \/ Post \/ Trigger \/ TryRead \/ consume_entry \/ ConsumeDestroyed \/ RingDoorbell

Spec == Init /\ [][Next]_vars

\* ----------------------------------------------------- profile and tables
\* Sizes are in pages.  The resources with the numbers of the default profile,
\* as exponents; esz gives log2 of the entry sizes the card reported.

Resources == <<"QP", "RDMARC", "ALTC", "AUXC", "SRQ", "CQ", "EQ", "DMPT", "CMPT", "MTT", "MCG">>
LogNum == <<17, 21, 17, 17, 16, 16, 9, 19, 26, 23, 13>>

Pages(lognum, logsize) == IF lognum + logsize < 12 THEN 1 ELSE 2 ^ (lognum + logsize - 12)

\* Sorted by decreasing size and packed from zero.
Profile(esz) ==
    LET size == [i \in DOMAIN Resources |-> Pages(LogNum[i], esz[i])]
        Before(i) == {j \in DOMAIN Resources : size[j] > size[i] \/ (size[j] = size[i] /\ j < i)}
        Sum(S) == MapThenSumSet(LAMBDA j : size[j], S)
    IN  [i \in DOMAIN Resources |-> [size |-> size[i], start |-> Sum(Before(i)), total |-> Sum(DOMAIN Resources)]]

\* tpt_cmpt_base + (type * entry size) << 24: the sum is shifted.
CmptBase(base, type, logsize) == (base * 2 ^ 12 + type * 2 ^ logsize) * 2 ^ 12

\* The packed fields of INIT_HCA: a base, and below it the log of a number.
\* The setters keep the other part.
SetLog(field, log, bits) == (field - (field % 32)) + (log % 2 ^ bits)
SetBase(field, base, bits) == (field % 2 ^ bits) + (base - (base % 32))

\* map_entries: chunks of a fixed size from the first byte on.
map_entries(count, esz, chunk) == [i \in 1 .. (count * esz + chunk - 1) \div chunk |-> (i - 1) * chunk]

\* host_bytes_mut: the first chunk that starts at or before the offset, of
\* those whose length, taken as an end, lies behind it.
host_bytes_mut(starts, chunk, offset) ==
    LET fits == {i \in DOMAIN starts : starts[i] <= offset /\ offset < chunk}
    IN  IF fits = {} THEN <<0, 0>> ELSE <<CHOOSE i \in fits : \A j \in fits : i <= j, offset % chunk>>

\* Reserved MTT entries end at a cache line (64 bytes).
reserved_mtts(lognum, esz) == (((2 ^ lognum * esz + 63) \div 64) * 64) \div esz

\* alloc_frames_in_chunks: chunks of 2^log frames.
alloc_frames_in_chunks(count, log) == (count + 2 ^ log - 1) \div 2 ^ log

\* Offsets::init: the special queue pairs are placed after the reserved
\* completion queues.
Offsets(rsvdCqs, rsvdQps) ==
    LET base == ((2 ^ rsvdCqs + 7) \div 8) * 8 IN [base_qpn |-> base, next_cqn |-> base + 8, next_qpn |-> 2 ^ rsvdQps]

\* ------------------------------------------------------------- properties

\* The driver is in one of its modes, and owns only what it once acquired.
TypeOK ==
    /\ drv.mode \in {"init", "up", "abort", "failed", "panic"} /\ drv.faults \in 0 .. MaxFaults
    /\ drv.pc \in 1 .. Len(Plan) + 1 /\ eq.ci <= eq.pi /\ eq.known <= eq.ci
    /\ eq.pc \in {"idle", "try", "consume", "ring", "panic"}

\* A device is handed out only when the card holds all of it.
UpIsComplete == drv.mode = "up" => card = UNION {Gained(Plan[i]) : i \in DOMAIN Plan}

\* If a single step fails after INIT_HCA, init returns its error: it does not
\* panic, nothing stays behind on the card, and no memory is given back that
\* the card could still reach.
AbortIsClean ==
    (drv.faults <= 1 /\ (\E i \in 1 .. drv.pc - 1 : Plan[i].op = "init_hca")) =>
        /\ drv.mode # "panic"
        /\ drv.mode = "failed" => card = {} /\ {o \in drv.owned : o[1] \in Guarded} = {}

\* While the firmware runs its auxiliary area and the tables are never freed;
\* only the firmware area can be, by an error before INIT_HCA or a failed
\* UNMAP_FA.
FreedOnlyFirmware == drv.freed \subseteq {<<"fa", 0>>} /\ (drv.freed \cap card # {} => drv.faults > 0)

\* Whatever the order of events, interrupts and doorbells, over several turns
\* of the queue each event is reported once and in order.
\* An internal error of the card is logged once, however often ports are
\* queried.
EventsInOrder == eq.reported = [i \in 1 .. eq.ci |-> i] /\ drv.dumps <= 1

\* No event waits without an interrupt: if events are pending while the
\* handler is idle and the device is up, the line is raised.
NoLostEvent ==
    (drv.mode = "up" /\ Rings /\ eq.pc = "idle" /\ eq.pi # eq.ci) => eq.line

\* The comment on DoorbellPage: the doorbell of event queue n is on page n / 4.
DoorbellOfQueue == drv.mode = "up" => DoorbellPage = EqNumber \div 4

\* abort_init's comment: failures while releasing are only logged.
ReleaseNeverPanics == [][drv.mode = "abort" => drv'.mode # "panic"]_vars

\* The card has posted its n-th event; the handler has reported it.
Posted(n) == drv.mode = "up" /\ eq.pi = n
Reported(n) == Len(eq.reported) >= n

EntrySizes == {[i \in 1 .. 11 |-> CASE i = 8 -> d [] i = 9 -> c [] i = 10 -> m [] i = 2 -> r [] i = 11 -> 10 [] OTHER -> q] :
                  q \in {5, 6, 8}, r \in {4, 5}, d \in {5, 6}, c \in {4, 6}, m \in {2, 3}}

\* The resources are aligned to their sizes and packed without gaps, whatever
\* entry sizes the card reports.  And because the cMPT is the largest of them
\* its tables lie in it although the sum is shifted.
ProfilePacked ==
    \A esz \in EntrySizes :
       LET p == Profile(esz)
       IN  /\ \A i \in DOMAIN p : p[i].start % p[i].size = 0
           /\ \A i, j \in DOMAIN p : i # j => p[i].start + p[i].size <= p[j].start \/ p[j].start + p[j].size <= p[i].start
           /\ \E i \in DOMAIN p : p[i].start + p[i].size = p[i].total
           /\ \A t \in 0 .. 3 : LET b == CmptBase(p[9].start, t, esz[9]) IN p[9].start <= b /\ b < p[9].start + p[9].size

\* The arithmetic of the tables: a packed field gives back what was set in
\* either order; a table offset is never resolved to the memory of another
\* chunk; reserved entries, chunks and numbers are rounded up to whole ones.
TablesRight ==
    /\ \A base \in {0, 32, 64, 4096}, log \in 0 .. 7, bits \in {3, 5} :
          LET f == SetLog(SetBase(0, base, bits), log, bits)
              g == SetBase(SetLog(0, log, bits), base, bits)
          IN  f = g /\ f - (f % 32) = base /\ f % 32 = log
    /\ \A chunk \in 1 .. 4, count \in 1 .. 6, esz \in {1, 2}, offset \in 0 .. 12 :
          LET starts == map_entries(count, esz, chunk)
              hit == host_bytes_mut(starts, chunk, offset)
          IN  /\ Len(starts) * chunk >= count * esz /\ (Len(starts) - 1) * chunk < count * esz
              /\ hit[1] # 0 => starts[hit[1]] + hit[2] = offset
    /\ \A lognum \in 0 .. 6, esz \in {8, 16, 64, 128} :
          LET n == reserved_mtts(lognum, esz) IN n >= 2 ^ lognum /\ (n * esz) % 64 = 0 /\ (n - 2 ^ lognum) * esz < 64
    /\ \A count \in 0 .. 20, log \in 0 .. 3 :
          LET n == alloc_frames_in_chunks(count, log) IN n * 2 ^ log >= count /\ (n = 0 \/ (n - 1) * 2 ^ log < count)
    /\ \A c, q \in 0 .. 8 : LET o == Offsets(c, q) IN o.base_qpn % 8 = 0 /\ o.next_cqn > 2 ^ c /\ o.next_qpn >= 2 ^ q

=============================================================================
