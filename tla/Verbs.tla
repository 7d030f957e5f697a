-------------------------------- MODULE Verbs --------------------------------
(***************************************************************************)
(* Contexts of the mlx4 kernel driver and what processes create in them:   *)
(* os/kernel/src/device/infiniband/mlx4/mod.rs with queue_pair.rs,         *)
(* completion_queue.rs and the memory regions of icm.rs, entered through   *)
(* uverbs.rs and uverbs_cmd.rs.                                            *)
(*                                                                         *)
(* The list of devices is locked for a whole verb.  A verb hands an object *)
(* to the card, or takes it back, with a command: the card obeys, refuses, *)
(* or is too slow, and then the verb fails but the command may still take  *)
(* effect (`late').  While it is outstanding every other command fails.    *)
(* The release of a process runs many commands and is one step for each.   *)
(***************************************************************************)
EXTENDS Integers, Sequences, FiniteSets

CONSTANTS Proc,       \* processes
          MaxCtx,     \* bound on the context handles given out
          MaxNum,     \* bound on the numbers given out for each kind of object
          Uars,       \* number of UAR pages
          Pds,        \* number of protection domains
          Blueflame,  \* does the card have BlueFlame pages?
          Faults,     \* "refuse": the card refuses a command for good
                      \* "late":   the card is slower than POLL_TIMEOUT
                      \* "query":  QUERY_MPT fails
          Uses        \* "early": a process may free a PD or a CQ in use

VerbsAssumption ==
  /\ MaxCtx \in Nat /\ MaxNum \in Nat /\ Uars \in Nat /\ Pds \in Nat
  /\ Blueflame \in BOOLEAN
  /\ Faults \subseteq {"refuse", "late", "query"} /\ Uses \subseteq {"early"}

Kind == {"qp", "cq", "mr"}
Handle == 1 .. MaxCtx
Key == Kind \X (1 .. MaxNum)
State == {"free", "Reset", "Init", "RTR", "RTS", "owned"}
NoObject == [state |-> "free", proc |-> "none", ctx |-> 0, pd |-> 0, cq |-> 0]
NoContext == [owner |-> "none", uar |-> 0, pds |-> {}]
NoCmd == [key |-> <<"none", 0>>, val |-> NoObject]

VARIABLES
  contexts,   \* open contexts: owner, UAR page, protection domains
  obj,        \* pds, cqs, qps, mrs of the contexts: what the driver tracks
  hw,         \* what the card has: state and the context it is for
  next,       \* next_context, next_cqn, next_qpn, next_dmpt
  uarList,    \* uar_list
  pdNumbers,  \* pd_numbers
  mapped,     \* UAR pages mapped into a process
  late,       \* a command that timed out and may still take effect
  busy,       \* the process being released, the contexts still to do, and
              \* whether all went well so far
  end         \* how a process ended

vars == <<contexts, obj, hw, next, uarList, pdNumbers, mapped, late, busy, end>>

NotBusy == [proc |-> "none", todo |-> {}, failed |-> {}]

Init ==
  /\ contexts = [h \in Handle |-> NoContext]
  /\ obj = [k \in Key |-> NoObject]
  /\ hw = [k \in Key |-> NoObject]
  /\ next = [k \in Kind \cup {"ctx"} |-> 1]
  /\ uarList = [i \in 1 .. Uars |-> i]
  /\ pdNumbers = {}
  /\ mapped = [p \in Proc |-> {}]
  /\ late = NoCmd
  /\ busy = NotBusy
  /\ end = [p \in Proc |-> "running"]

-----------------------------------------------------------------------------
\* execute_command: a command that makes k what val says.  `fits' tells whether
\* the card can obey in its present state; the answer o is "ok" or "error".
Exec(k, val, fits, o) ==
  \/ /\ o = "ok" /\ late = NoCmd /\ fits
     /\ hw' = [hw EXCEPT ![k] = val] /\ UNCHANGED late
  \/ /\ o = "error" /\ (late # NoCmd \/ ~fits \/ "refuse" \in Faults)
     /\ UNCHANGED <<hw, late>>
  \/ /\ o = "error" /\ late = NoCmd /\ fits /\ "late" \in Faults
     /\ late' = [key |-> k, val |-> val] /\ UNCHANGED hw

\* The card finishes the command that had timed out.
Late ==
  /\ late # NoCmd
  /\ hw' = [hw EXCEPT ![late.key] = late.val]
  /\ late' = NoCmd
  /\ UNCHANGED <<contexts, obj, next, uarList, pdNumbers, mapped, busy, end>>

\* A process that runs makes a verb on a context of its own.
Calls(p) == end[p] = "running" /\ busy = NotBusy
ContextOf(p, h) == Calls(p) /\ contexts[h] # NoContext /\ contexts[h].owner = p
Tracked(h, kind) == {k \in Key : k[1] = kind /\ obj[k].state # "free" /\ obj[k].ctx = h}

\* open: the last UAR page of the list, mapped for the process; without a
\* BlueFlame page the UAR page goes back, but stays mapped.
Open(p) ==
  /\ Calls(p)
  /\ next["ctx"] <= MaxCtx /\ uarList # <<>>
  /\ LET u == uarList[Len(uarList)] IN
       /\ mapped' = [mapped EXCEPT ![p] = @ \cup {u}]
       /\ IF Blueflame
          THEN /\ contexts' = [contexts EXCEPT ![next["ctx"]] =
                                 [owner |-> p, uar |-> u, pds |-> {}]]
               /\ next' = [next EXCEPT !["ctx"] = @ + 1]
               /\ uarList' = SubSeq(uarList, 1, Len(uarList) - 1)
          ELSE UNCHANGED <<contexts, next, uarList>>
  /\ UNCHANGED <<obj, hw, pdNumbers, late, busy, end>>

AllocPd(p, h) ==
  /\ ContextOf(p, h)
  /\ \E pd \in (1 .. Pds) \ pdNumbers :
       /\ \A q \in (1 .. Pds) \ pdNumbers : pd <= q
       /\ pdNumbers' = pdNumbers \cup {pd}
       /\ contexts' = [contexts EXCEPT ![h].pds = @ \cup {pd}]
  /\ UNCHANGED <<obj, hw, next, uarList, mapped, late, busy, end>>

DeallocPd(p, h, pd) ==
  /\ ContextOf(p, h) /\ pd \in contexts[h].pds
  /\ "early" \in Uses \/ \A k \in Key : obj[k].pd # pd
  /\ pdNumbers' = pdNumbers \ {pd}
  /\ contexts' = [contexts EXCEPT ![h].pds = @ \ {pd}]
  /\ UNCHANGED <<obj, hw, next, uarList, mapped, late, busy, end>>

\* What the three kinds of objects are handed over as.
NewCq(p, h) == [state |-> "owned", proc |-> p, ctx |-> h, pd |-> 0, cq |-> 0]
NewQp(p, h, pd, cq) == [state |-> "Reset", proc |-> p, ctx |-> h, pd |-> pd, cq |-> cq]
NewMr(p, h, pd) == [state |-> "owned", proc |-> p, ctx |-> h, pd |-> pd, cq |-> 0]

\* create_cq: the number is used up whatever the card answers.  The query that
\* follows is for the log only.
CreateCq(p, h) ==
  /\ ContextOf(p, h) /\ next["cq"] <= MaxNum
  /\ LET k == <<"cq", next["cq"]>>
         val == NewCq(p, h)
     IN \E o \in {"ok", "error"} :
          /\ Exec(k, val, TRUE, o)
          /\ obj' = IF o = "ok" THEN [obj EXCEPT ![k] = val] ELSE obj
  /\ next' = [next EXCEPT !["cq"] = @ + 1]
  /\ UNCHANGED <<contexts, uarList, pdNumbers, mapped, busy, end>>

\* create_qp: the card is told of a queue pair only when it leaves Reset.
CreateQp(p, h, pd, cq) ==
  /\ ContextOf(p, h) /\ next["qp"] <= MaxNum
  /\ pd \in contexts[h].pds /\ <<"cq", cq>> \in Tracked(h, "cq")
  /\ obj' = [obj EXCEPT ![<<"qp", next["qp"]>>] = NewQp(p, h, pd, cq)]
  /\ next' = [next EXCEPT !["qp"] = @ + 1]
  /\ UNCHANGED <<contexts, hw, uarList, pdNumbers, mapped, late, busy, end>>

\* create_mr: SW2HW_MPT and QUERY_MPT; the region is known to the driver only
\* when both succeed.
CreateMr(p, h, pd) ==
  /\ ContextOf(p, h) /\ next["mr"] <= MaxNum
  /\ pd \in contexts[h].pds
  /\ LET k == <<"mr", next["mr"]>>
         val == NewMr(p, h, pd)
     IN \E o \in {"ok", "error"}, query \in {"ok", "error"} :
          /\ Exec(k, val, TRUE, o)
          /\ query = "error" => "query" \in Faults
          /\ obj' = IF o = "ok" /\ query = "ok" THEN [obj EXCEPT ![k] = val] ELSE obj
  /\ next' = [next EXCEPT !["mr"] = @ + 1]
  /\ UNCHANGED <<contexts, uarList, pdNumbers, mapped, busy, end>>

\* The transitions modify_qp has a command for, and the state the card must be in.
Step(from, to) ==
  <<from, to>> \in {<<"Reset", "Init">>, <<"Init", "Init">>, <<"Init", "RTR">>,
                    <<"RTR", "RTS">>}
CardState(k) == IF hw[k].state = "free" THEN "Reset" ELSE hw[k].state

ModifyQp(p, h, k, to) ==
  /\ ContextOf(p, h) /\ k \in Tracked(h, "qp")
  /\ to = "Reset" \/ Step(obj[k].state, to)
  /\ LET new == [obj[k] EXCEPT !.state = to]
         val == IF to = "Reset" THEN NoObject ELSE new
     IN \E o \in {"ok", "error"} :
          /\ Exec(k, val, to = "Reset" \/ CardState(k) = obj[k].state, o)
          /\ obj' = IF o = "ok" THEN [obj EXCEPT ![k] = new] ELSE obj
  /\ UNCHANGED <<contexts, next, uarList, pdNumbers, mapped, busy, end>>

\* QueuePair::destroy resets a queue pair unless it is in Reset; the others are
\* handed back.  An object the card does not let go of stays tracked.
TakeBack(k, o) ==
  IF obj[k].state = "Reset" THEN o = "ok" /\ UNCHANGED <<hw, late>>
  ELSE Exec(k, NoObject, k[1] = "qp" \/ hw[k].state = "owned", o)

\* An object of the context is taken back and forgotten, or kept.
Destroyed(p, h, k) ==
  /\ ContextOf(p, h) /\ k \in Tracked(h, k[1])
  /\ \E o \in {"ok", "error"} :
       /\ TakeBack(k, o)
       /\ obj' = IF o = "ok" THEN [obj EXCEPT ![k] = NoObject] ELSE obj
  /\ UNCHANGED <<contexts, next, uarList, pdNumbers, mapped, busy, end>>

DestroyQp(p, h, n) == Destroyed(p, h, <<"qp", n>>)
DestroyMr(p, h, n) == Destroyed(p, h, <<"mr", n>>)
DestroyCq(p, h, n) ==
  /\ "early" \in Uses \/ \A q \in Tracked(h, "qp") : obj[q].cq # n
  /\ Destroyed(p, h, <<"cq", n>>)

-----------------------------------------------------------------------------
\* The process is about to be dropped: release goes through its contexts.
Release(p) ==
  /\ Calls(p)
  /\ busy' = [proc |-> p, todo |-> {h \in Handle : contexts[h].owner = p}, failed |-> {}]
  /\ UNCHANGED <<contexts, obj, hw, next, uarList, pdNumbers, mapped, late, end>>

\* UContext::destroy: queue pairs, then memory regions, then completion queues;
\* it goes on past failures.
Current(h) == h \in busy.todo /\ \A g \in busy.todo : h <= g
Left(h, kind) == Tracked(h, kind) \ busy.failed
\* Mutant of NextToGo: the memory regions are left out.
NextToGoSkips(h) ==
  IF Left(h, "qp") # {} THEN Left(h, "qp") ELSE Left(h, "cq")
NextToGo(h) ==
  IF Left(h, "qp") # {} THEN Left(h, "qp")
  ELSE IF Left(h, "mr") # {} THEN Left(h, "mr") ELSE Left(h, "cq")

ReleaseObject(h, k) ==
  /\ Current(h) /\ k \in NextToGo(h)
  /\ \E o \in {"ok", "error"} :
       /\ TakeBack(k, o)
       /\ obj' = IF o = "ok" THEN [obj EXCEPT ![k] = NoObject] ELSE obj
       /\ busy' = IF o = "ok" THEN busy ELSE [busy EXCEPT !.failed = @ \cup {k}]
  /\ UNCHANGED <<contexts, next, uarList, pdNumbers, mapped, end>>

\* A context that is empty goes, and its UAR page and PDs are free again; one
\* that is not stays.
\* Mutants of ReleaseContext: the UAR page, or the PDs, of a context that stays
\* are given back too.
ReleaseContextUar(h) ==
  /\ Current(h) /\ NextToGo(h) = {}
  /\ busy' = [busy EXCEPT !.todo = @ \ {h}]
  /\ uarList' = Append(uarList, contexts[h].uar)
  /\ UNCHANGED <<contexts, pdNumbers, obj, hw, next, mapped, late, end>>
ReleaseContext(h) ==
  /\ Current(h) /\ NextToGo(h) = {}
  /\ busy' = [busy EXCEPT !.todo = @ \ {h}]
  /\ IF \A kind \in Kind : Tracked(h, kind) = {}
     THEN /\ contexts' = [contexts EXCEPT ![h] = NoContext]
          /\ pdNumbers' = pdNumbers \ contexts[h].pds
          /\ uarList' = Append(uarList, contexts[h].uar)
     ELSE UNCHANGED <<contexts, pdNumbers, uarList>>
  /\ UNCHANGED <<obj, hw, next, mapped, late, end>>

\* The memory of the process is freed after this, whatever release returned.
ReleaseEnd ==
  /\ busy # NotBusy /\ busy.todo = {}
  /\ end' = [end EXCEPT ![busy.proc] = IF busy.failed = {} THEN "released" ELSE "refused"]
  /\ mapped' = [mapped EXCEPT ![busy.proc] = {}]
  /\ busy' = NotBusy
  /\ UNCHANGED <<contexts, obj, hw, next, uarList, pdNumbers, late>>

Next ==
  \/ \E p \in Proc :
       \/ Open(p) \/ Release(p)
       \/ \E h \in Handle :
            \/ AllocPd(p, h) \/ CreateCq(p, h)
            \/ \E pd \in 1 .. Pds :
                 \/ DeallocPd(p, h, pd) \/ CreateMr(p, h, pd)
                 \/ \E cq \in 1 .. MaxNum : CreateQp(p, h, pd, cq)
            \/ \E n \in 1 .. MaxNum :
                 \/ DestroyQp(p, h, n) \/ DestroyMr(p, h, n) \/ DestroyCq(p, h, n)
                 \/ \E to \in State : ModifyQp(p, h, <<"qp", n>>, to)
  \/ \E h \in Handle : ReleaseContext(h) \/ \E k \in Key : ReleaseObject(h, k)
  \/ ReleaseEnd
  \/ Late

Spec == Init /\ [][Next]_vars

-----------------------------------------------------------------------------
\* Contexts, objects and lists have their types.
TypeOK ==
  LET Object == [state : State, proc : Proc \cup {"none"}, ctx : 0 .. MaxCtx,
                 pd : 0 .. Pds, cq : 0 .. MaxNum]
  IN /\ contexts \in [Handle -> [owner : Proc \cup {"none"}, uar : 0 .. Uars,
                                  pds : SUBSET (1 .. Pds)]]
     /\ obj \in [Key -> Object] /\ hw \in [Key -> Object]
     /\ next \in [Kind \cup {"ctx"} -> Nat]
     /\ \A i \in DOMAIN uarList : uarList[i] \in 1 .. Uars
     /\ pdNumbers \subseteq 1 .. Pds
     /\ mapped \in [Proc -> SUBSET (1 .. Uars)]
     /\ end \in [Proc -> {"running", "released", "refused"}]

\* When release reports success the card has let go of everything the process
\* created, so that its memory may be freed.
ReleaseTellsTruth ==
  \A p \in Proc : end[p] = "released" => \A k \in Key : hw[k].proc # p

\* What the driver tracks is what the card has: nothing can be forgotten, and
\* what could not be destroyed can be destroyed again.
TrackedExact ==
  \A k \in Key : hw[k] = IF obj[k].state = "Reset" THEN NoObject ELSE obj[k]

\* The objects in a context are of the process that opened it, and a queue pair
\* uses a PD and a CQ of its own context.
SameContext ==
  \A k \in Key : obj[k].state # "free" =>
    /\ obj[k].proc = contexts[obj[k].ctx].owner
    /\ obj[k].pd # 0 => obj[k].pd \in contexts[obj[k].ctx].pds
    /\ k[1] = "qp" => obj[<<"cq", obj[k].cq>>].ctx \in {0, obj[k].ctx}

\* No UAR page is mapped into two processes.
UarNotShared == \A p, q \in Proc : p # q => mapped[p] \cap mapped[q] = {}

\* A UAR page is in the list or belongs to one context, so a page of a context
\* the card did not let go of is never handed out again; no two processes map it.
UarExclusive ==
  /\ UarNotShared
  /\ \A i, j \in DOMAIN uarList : uarList[i] = uarList[j] => i = j
  /\ \A h \in Handle : contexts[h] # NoContext =>
       /\ \A i \in DOMAIN uarList : uarList[i] # contexts[h].uar
       /\ \A g \in Handle : contexts[g].uar = contexts[h].uar => g = h

\* Objects of two contexts never share a protection domain on the card.
PdExclusive ==
  \A j, k \in Key :
    hw[j].pd # 0 /\ hw[j].pd = hw[k].pd => hw[j].ctx = hw[k].ctx
=============================================================================
