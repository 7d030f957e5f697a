---------------------------- MODULE CommandProofs ----------------------------
(***************************************************************************)
(* Proofs about CommandInterface for any number of commands.               *)
(*                                                                         *)
(* The invariants do not hold by themselves: they need how the toggle bit  *)
(* tells the three phases of a command apart (Phases), which command the   *)
(* two mailboxes belong to in each phase (Boxes), and what the card knows  *)
(* of its command (Progress).                                              *)
(***************************************************************************)
EXTENDS CommandInterface, SequenceTheorems, TLAPS

Number == 0 .. MaxCmd

\* The types of the variables TypeOK leaves open.
Types ==
  /\ TypeOK
  /\ card \in [step : {"fetch", "execute", "finish", "done"}, input : Number,
               status : {"none", "ok", "error"}]
  /\ effects \in Seq([cmd : Number, input : Number])
  /\ last \in [cmd : Number, status : {"none", "ok", "error", "timeout"},
               param : Param, out : Number]

\* The register shows the previous command, with the other toggle bit, until the
\* card sees the write; then it has the toggle bit of its command.
Phases ==
  /\ hcr.go <=> card.step # "done"
  /\ wire # NoWrite => hcr.t = toggle /\ wire.t = 1 - toggle /\ ~hcr.go /\ wire.cmd # 0
  /\ wire = NoWrite => hcr.t = 1 - toggle

\* The command the driver waits for is the one the card has, or will see.
Current == IF wire # NoWrite THEN wire.cmd ELSE hcr.cmd
Waits ==
  /\ pc = "poll" => Current = call /\ call # 0
  /\ card.step # "done" => hcr.cmd # 0
  /\ card.step = "done" /\ card.status = "none" => hcr.cmd = 0
  /\ card.step \in {"fetch", "execute"} => card.status = "none"
  /\ card.step = "finish" => card.status # "none"

\* Until the card has fetched it, the input mailbox holds its command's input;
\* until the next post, the output mailbox its output.
Boxes ==
  /\ wire # NoWrite /\ UsesIn(wire.param) => inBox = wire.cmd
  /\ card.step = "fetch" /\ UsesIn(hcr.param) => inBox = hcr.cmd
  /\ card.step = "execute" => card.input = hcr.cmd
  /\ card.status = "ok" /\ wire = NoWrite /\ UsesOut(hcr.param) => outBox = hcr.cmd

\* A command the card calls done took effect.
Progress ==
  card.status = "ok" => \E i \in DOMAIN effects : effects[i].cmd = hcr.cmd

IInv == Types /\ Phases /\ Waits /\ Boxes /\ Progress /\ InputIntact /\ AnswerIsMine

-----------------------------------------------------------------------------
\* The driver takes the interface for free exactly when no write is on its way
\* and the card is done: what is_pending reads off the register.
LEMMA PendingExact ==
  ASSUME Types, Phases
  PROVE  is_pending <=> wire # NoWrite \/ card.step # "done"
BY DEF Types, TypeOK, Phases, is_pending

\* No command is under way when the driver is initialised.
LEMMA InitIInv == Init => IInv
BY CommandAssumption
   DEF Init, IInv, Types, TypeOK, Phases, Waits, Boxes, Progress, InputIntact,
       AnswerIsMine, Current, Number, Param, UsesIn, UsesOut, NoWrite

\* Every step of the driver and of the card keeps the invariant.
LEMMA NextIInv == IInv /\ [Next]_vars => IInv'
<1> SUFFICES ASSUME IInv, [Next]_vars PROVE IInv'
  OBVIOUS
<1> USE CommandAssumption DEF Number
<1>0. is_pending <=> wire # NoWrite \/ card.step # "done"
  BY PendingExact DEF IInv
<1>1. CASE PostRefused
  BY <1>1 DEF PostRefused, IInv, Types, TypeOK, Phases, Waits, Boxes, Progress,
     InputIntact, AnswerIsMine, Current, Param, UsesIn, UsesOut
<1>2. ASSUME NEW p \in Param, Post(p) PROVE IInv'
  <2> USE <1>0, <1>2 DEF Post
  <2>1. wire = NoWrite /\ card.step = "done" /\ ~hcr.go /\ wire' # NoWrite
    BY DEF IInv, Types, TypeOK, Phases, NoWrite
  <2>2. Types'
    BY DEF IInv, Types, TypeOK
  <2>3. Phases'
    BY <2>1 DEF IInv, Phases, Types, TypeOK
  <2>4. Waits'
    BY <2>1 DEF IInv, Waits, Current, Types, TypeOK
  <2>5. Boxes'
    BY <2>1 DEF IInv, Boxes, UsesIn, UsesOut
  <2>6. Progress' /\ InputIntact' /\ AnswerIsMine'
    BY DEF IInv, Progress, InputIntact, AnswerIsMine, UsesOut
  <2> QED
    BY <2>2, <2>3, <2>4, <2>5, <2>6 DEF IInv
<1>3. CASE PollDone
  <2> USE <1>0, <1>3 DEF PollDone
  <2>1. wire = NoWrite /\ card.step = "done" /\ hcr.cmd = call
    BY DEF IInv, Waits, Current
  <2>2. Types' /\ Phases' /\ Waits' /\ Boxes' /\ Progress' /\ InputIntact'
    BY DEF IInv, Types, TypeOK, Phases, Waits, Boxes, Progress, InputIntact, Current
  <2>3. AnswerIsMine'
    BY <2>1 DEF IInv, AnswerIsMine, Progress, Boxes
  <2> QED
    BY <2>2, <2>3 DEF IInv
<1>4. CASE PollTimeout
  BY <1>4 DEF PollTimeout, IInv, Types, TypeOK, Phases, Waits, Boxes, Progress,
     InputIntact, AnswerIsMine, Current, Param, UsesIn, UsesOut
<1>5. CASE CardSees
  <2> USE <1>5 DEF CardSees
  <2>1. /\ hcr'.go /\ hcr'.t = wire.t /\ hcr'.cmd = wire.cmd /\ hcr'.param = wire.param
        /\ card'.step = "fetch" /\ card'.status = "none"
        /\ wire' = NoWrite
    OBVIOUS
  <2>2. Types'
    BY DEF IInv, Types, TypeOK, NoWrite, Param
  <2>3. Phases'
    BY <2>1 DEF IInv, Phases
  <2>4. Waits' /\ Boxes' /\ Progress'
    BY <2>1 DEF IInv, Phases, Waits, Boxes, Progress, Current
  <2>5. InputIntact' /\ AnswerIsMine'
    BY DEF IInv, InputIntact, AnswerIsMine
  <2> QED
    BY <2>2, <2>3, <2>4, <2>5 DEF IInv
<1>6. CASE CardFetches
  <2> USE <1>6 DEF CardFetches
  <2>1. Types' /\ Phases'
    BY Zenon DEF IInv, Types, TypeOK, Phases
  <2>2. Waits' /\ Boxes' /\ Progress'
    BY DEF IInv, Types, TypeOK, Phases, Waits, Boxes, Progress, Current
  <2>3. InputIntact' /\ AnswerIsMine'
    BY DEF IInv, InputIntact, AnswerIsMine
  <2> QED
    BY <2>1, <2>2, <2>3 DEF IInv
<1>7. CASE CardExecutes
  <2> DEFINE Done(status) == card' = [card EXCEPT !.step = "finish", !.status = status]
             e == [cmd |-> hcr.cmd, input |-> card.input]
  <2>0. /\ card.step = "execute" /\ UNCHANGED <<pc, call, toggle, inBox, wire, hcr, last>>
        /\ \/ /\ Done("ok") /\ effects' = Append(effects, e)
              /\ outBox' = IF UsesOut(hcr.param) THEN hcr.cmd ELSE outBox
           \/ Done("error") /\ UNCHANGED <<effects, outBox>>
    BY <1>7 DEF CardExecutes
  <2>1. /\ card \in [step : {"fetch", "execute", "finish", "done"}, input : Number,
                     status : {"none", "ok", "error"}]
        /\ effects \in Seq([cmd : Number, input : Number])
        /\ hcr.cmd \in Number /\ outBox \in Number
    BY DEF IInv, Types, TypeOK
  <2>2. wire = NoWrite /\ hcr.go
    BY <2>0 DEF IInv, Phases
  <2>3. \E status \in {"ok", "error"} :
          /\ card'.step = "finish" /\ card'.status = status /\ card'.input = card.input
          /\ card' \in [step : {"fetch", "execute", "finish", "done"}, input : Number,
                        status : {"none", "ok", "error"}]
    BY <2>0, <2>1, Zenon
  <2>4. outBox' \in Number
    BY <2>0, <2>1
  <2>5. effects' \in Seq([cmd : Number, input : Number])
    <3>1. e \in [cmd : Number, input : Number]
      BY <2>1
    <3>2. effects' = effects \/ effects' = Append(effects, e)
      BY <2>0, Zenon
    <3> HIDE DEF e
    <3>3. Append(effects, e) \in Seq([cmd : Number, input : Number])
      BY <2>1, <3>1, AppendProperties
    <3> QED
      BY <2>1, <3>2, <3>3, Zenon
  <2>6. Types'
    BY <2>0, <2>3, <2>4, <2>5, Zenon DEF IInv, Types, TypeOK
  <2>7. Phases'
    BY <2>0, <2>2, <2>3 DEF IInv, Phases
  <2>8. Waits'
    BY <2>0, <2>3 DEF IInv, Waits, Current
  <2>9. Boxes'
    BY <2>0, <2>1, <2>2, <2>3, Zenon DEF Boxes
  <2>10. CASE Done("error") /\ UNCHANGED <<effects, outBox>>
    <3>1. card'.status # "ok"
      BY <2>1, <2>10
    <3>2. Progress' /\ InputIntact' /\ AnswerIsMine'
      BY <2>0, <2>10, <3>1, Zenon DEF IInv, Progress, InputIntact, AnswerIsMine
    <3> QED
      BY <2>6, <2>7, <2>8, <2>9, <3>2, Zenon DEF IInv
  <2>11. CASE effects' = Append(effects, e)
    <3>1. e \in [cmd : Number, input : Number] /\ e.cmd = hcr.cmd /\ e.cmd = e.input
      BY <2>0, <2>1 DEF IInv, Boxes
    <3> HIDE DEF e
    <3>2. /\ Len(effects') = Len(effects) + 1
          /\ \A i \in DOMAIN effects : i \in DOMAIN effects' /\ effects'[i] = effects[i]
          /\ \A i \in DOMAIN effects' : i \in DOMAIN effects \/ effects'[i] = e
          /\ Len(effects') \in DOMAIN effects' /\ effects'[Len(effects')] = e
      BY <2>1, <2>11, <3>1
    <3>3. Progress'
      BY <2>0, <3>1, <3>2, Zenon DEF Progress
    <3>4. InputIntact'
      BY <3>1, <3>2, Zenon DEF IInv, InputIntact
    <3>5. AnswerIsMine'
      BY <2>0, <3>2, Zenon DEF IInv, AnswerIsMine
    <3> QED
      BY <2>6, <2>7, <2>8, <2>9, <3>3, <3>4, <3>5, Zenon DEF IInv
  <2> QED
    BY <2>0, <2>10, <2>11, Zenon
<1>8. CASE CardFinishes
  <2> USE <1>8 DEF CardFinishes
  <2>1. Types' /\ Phases'
    BY Zenon DEF IInv, Types, TypeOK, Phases
  <2>2. Waits' /\ Boxes' /\ Progress'
    BY DEF IInv, Types, TypeOK, Phases, Waits, Boxes, Progress, Current
  <2>3. InputIntact' /\ AnswerIsMine'
    BY DEF IInv, InputIntact, AnswerIsMine
  <2> QED
    BY <2>1, <2>2, <2>3 DEF IInv
<1>9. CASE UNCHANGED vars
  BY <1>9 DEF vars, IInv, Types, TypeOK, Phases, Waits, Boxes, Progress,
     InputIntact, AnswerIsMine, Current
<1> QED
  BY <1>1, <1>2, <1>3, <1>4, <1>5, <1>6, <1>7, <1>8, <1>9 DEF Next, Card

\* Register, mailboxes and answers keep their types, whatever MaxCmd.
THEOREM CommandTypes == Spec => []TypeOK
<1>1. IInv => TypeOK
  BY DEF IInv, Types
<1> QED
  BY <1>1, InitIInv, NextIInv, PTL DEF Spec

\* A caller of execute_command that is told Ok has the answer to its own command.
THEOREM AnswersMatch == Spec => []AnswerIsMine
<1>1. IInv => AnswerIsMine
  BY DEF IInv
<1> QED
  BY <1>1, InitIInv, NextIInv, PTL DEF Spec

\* No command is executed with the input of another, even after timeouts.
THEOREM InputsMatch == Spec => []InputIntact
<1>1. IInv => InputIntact
  BY DEF IInv
<1> QED
  BY <1>1, InitIInv, NextIInv, PTL DEF Spec

-----------------------------------------------------------------------------
\* The mapping of RefinesService, by name.
Open == IF Busy THEN Current ELSE 0
Outcome == IF Busy /\ wire = NoWrite THEN card.status ELSE "none"
Effects == [i \in DOMAIN effects |-> effects[i].cmd]
Answered == [cmd |-> last.cmd, status |-> last.status]

\* A command that takes effect is appended to the effects of the service.
LEMMA EffectsAppend ==
  ASSUME NEW s \in Seq([cmd : Number, input : Number]), NEW e \in [cmd : Number, input : Number]
  PROVE  [i \in DOMAIN Append(s, e) |-> Append(s, e)[i].cmd]
           = Append([i \in DOMAIN s |-> s[i].cmd], e.cmd)
<1> DEFINE n == Len(s)
           cmds == [i \in DOMAIN s |-> s[i].cmd]
           s2 == Append(s, e)
<1>1. n \in Nat /\ DOMAIN s = 1 .. n /\ DOMAIN s2 = 1 .. n + 1
  OBVIOUS
<1>2. \A i \in 1 .. n : s[i] \in [cmd : Number, input : Number]
  BY ElementOfSeq, Zenon
<1>3. cmds \in [1 .. n -> Number]
  BY <1>1, <1>2
<1>4. cmds \in Seq(Number) /\ Len(cmds) = n
  BY <1>1, <1>3
<1> HIDE DEF cmds
<1>5. Append(cmds, e.cmd) = [i \in 1 .. n + 1 |-> IF i = n + 1 THEN e.cmd ELSE cmds[i]]
  BY <1>4
<1>6. \A i \in 1 .. n + 1 : s2[i].cmd = IF i = n + 1 THEN e.cmd ELSE cmds[i]
  BY <1>1 DEF cmds
<1> QED
  BY <1>1, <1>5, <1>6 DEF cmds

\* Every step of the driver and of the card is one of the service, or none.
LEMMA StepRefines == IInv /\ IInv' /\ [Next]_vars => [Service!Next]_(Service!vars)
<1> SUFFICES ASSUME IInv, IInv', [Next]_vars PROVE [Service!Next]_(Service!vars)
  OBVIOUS
<1> USE CommandAssumption DEF Number
<1>a. is_pending <=> wire # NoWrite \/ card.step # "done"
  BY PendingExact DEF IInv
<1>b. is_pending' <=> wire' # NoWrite \/ card'.step # "done"
  <2>1. hcr'.go \in BOOLEAN /\ hcr'.t \in {0, 1} /\ toggle' \in {0, 1}
    BY DEF IInv, Types, TypeOK
  <2> QED
    BY <2>1 DEF IInv, Phases, is_pending
<1>1. CASE PostRefused
  <2>1. Service!Refuse
    BY <1>1, <1>a DEF PostRefused, Service!Refuse, IInv, Phases, Waits, Busy, is_pending
  <2> QED
    BY <2>1 DEF Service!Next
<1>2. ASSUME NEW p \in Param, Post(p) PROVE [Service!Next]_(Service!vars)
  <2>1. Service!Call
    BY <1>2, <1>a, <1>b DEF Post, Service!Call, IInv, Types, TypeOK, Busy, NoWrite
  <2> QED
    BY <2>1 DEF Service!Next
<1>3. CASE PollDone
  <2>1. Service!Answer
    BY <1>3, <1>a, <1>b DEF PollDone, Service!Answer, IInv, Waits, Current, Busy
  <2> QED
    BY <2>1 DEF Service!Next
<1>4. CASE PollTimeout
  <2>1. Service!GiveUp
    BY <1>4, <1>a, <1>b DEF PollTimeout, Service!GiveUp, IInv, Waits, Current, Busy
  <2> QED
    BY <2>1 DEF Service!Next
<1>5. CASE CardSees
  <2>1. UNCHANGED Service!vars
    BY <1>5, <1>a, <1>b DEF CardSees, Service!vars, IInv, Phases, Waits, Busy
  <2> QED
    BY <2>1
<1>6. CASE CardFetches
  <2>1. UNCHANGED Service!vars
    BY <1>6, <1>a, <1>b DEF CardFetches, Service!vars, IInv, Types, Waits, Busy
  <2> QED
    BY <2>1
<1>7. CASE CardExecutes
  <2>1. /\ Busy /\ Busy' /\ wire = NoWrite /\ wire' = NoWrite /\ hcr.cmd # 0
        /\ card.status = "none"
    BY <1>7, <1>a, <1>b DEF CardExecutes, IInv, Types, Phases, Waits, Busy
  <2>2. CASE effects' = effects /\ card'.status = "error"
    <3>1. Service!Effect
      BY <1>7, <2>1, <2>2 DEF CardExecutes, Service!Effect
    <3> QED
      BY <3>1 DEF Service!Next
  <2>3. CASE /\ effects' = Append(effects, [cmd |-> hcr.cmd, input |-> card.input])
             /\ card'.status = "ok"
    <3>1. Effects' = Append(Effects, hcr.cmd)
      <4> DEFINE e == [cmd |-> hcr.cmd, input |-> card.input]
      <4>1. e \in [cmd : Number, input : Number] /\ e.cmd = hcr.cmd
        BY DEF IInv, Types, TypeOK
      <4>2. effects \in Seq([cmd : Number, input : Number])
        BY DEF IInv, Types
      <4> HIDE DEF e
      <4>3. [i \in DOMAIN Append(effects, e) |-> Append(effects, e)[i].cmd]
              = Append([i \in DOMAIN effects |-> effects[i].cmd], e.cmd)
        BY <4>1, <4>2, EffectsAppend
      <4> QED
        BY <2>3, <4>1, <4>3 DEF Effects, e
    <3>2. Service!Effect
      BY <1>7, <2>1, <2>3, <3>1 DEF CardExecutes, Service!Effect, Effects
    <3> QED
      BY <3>2 DEF Service!Next
  <2> QED
    BY <1>7, <2>2, <2>3, Zenon DEF CardExecutes, IInv, Types
<1>8. CASE CardFinishes
  <2>1. CASE pc = "poll"
    <3>1. UNCHANGED Service!vars
      BY <1>8, <2>1, <1>a, <1>b DEF CardFinishes, Service!vars, IInv, Types, Phases, Busy
    <3> QED
      BY <3>1
  <2>2. CASE pc # "poll"
    <3>1. Service!Ready
      BY <1>8, <2>2, <1>a, <1>b DEF CardFinishes, Service!Ready, IInv, Types, Phases, Waits, Busy
    <3> QED
      BY <3>1 DEF Service!Next
  <2> QED
    BY <2>1, <2>2
<1>9. CASE UNCHANGED vars
  <2>1. UNCHANGED Service!vars
    BY <1>9 DEF vars, Service!vars, Busy, is_pending
  <2> QED
    BY <2>1
<1> QED
  BY <1>1, <1>2, <1>3, <1>4, <1>5, <1>6, <1>7, <1>8, <1>9 DEF Next, Card

\* The command interface implements the service its callers expect of it.
THEOREM ImplementsService == Spec => RefinesService
<1>1. Init => Service!Init
  BY DEF Init, Service!Init, Busy, is_pending, NoWrite
<1> QED
  BY <1>1, InitIInv, NextIInv, StepRefines, PTL DEF Spec, RefinesService, Service!Spec
=============================================================================
