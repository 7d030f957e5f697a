-------------------------- MODULE CommandInterface --------------------------
(***************************************************************************)
(* The command interface of the mlx4 driver (CommandInterface in           *)
(* os/kernel/src/device/infiniband/mlx4/cmd.rs) and the card behind it.    *)
(*                                                                         *)
(* A command is posted by filling the input mailbox and writing the host   *)
(* command register (HCR), whose last word hands it to the card (GO bit)   *)
(* with a toggle bit T.  The card sees the write some time later (`wire'): *)
(* until then the driver reads the old register.  The driver polls until   *)
(* the card clears GO, or gives up; the card then goes on all the same,    *)
(* with the same two mailboxes.                                            *)
(*                                                                         *)
(* Commands are numbered, and a mailbox is the number of the command whose *)
(* input or output it holds, 0 when it is cleared.                         *)
(***************************************************************************)
EXTENDS Naturals, Sequences

CONSTANT MaxCmd   \* bound on the number of calls

ASSUME CommandAssumption == MaxCmd \in Nat

Param == {"none", "in", "out", "both"}   \* the mailboxes a command uses
UsesIn(p) == p \in {"in", "both"}
UsesOut(p) == p \in {"out", "both"}
NoWrite == [cmd |-> 0, t |-> 0, param |-> "none"]

VARIABLES
  pc,       \* the driver: "idle" or "poll"
  call,     \* number of calls of execute_command so far
  toggle,   \* exp_toggle
  inBox,    \* input_mailbox
  outBox,   \* output_mailbox
  wire,     \* a write of the HCR the card has not seen
  hcr,      \* the register: GO, T, and the command last posted
  card,     \* the card: how far it is with hcr.cmd, the input it fetched
  effects,  \* commands executed, with the input the card used
  last      \* the call that returned last

vars == <<pc, call, toggle, inBox, outBox, wire, hcr, card, effects, last>>

Init ==
  /\ pc = "idle" /\ call = 0 /\ toggle = 1
  /\ inBox = 0 /\ outBox = 0
  /\ wire = NoWrite
  /\ hcr = [go |-> FALSE, t |-> 0, cmd |-> 0, param |-> "none"]
  /\ card = [step |-> "done", input |-> 0, status |-> "none"]
  /\ effects = <<>>
  /\ last = [cmd |-> 0, status |-> "none", param |-> "none", out |-> 0]

-----------------------------------------------------------------------------
is_pending == hcr.go \/ hcr.t = toggle

\* Mutant of PostRefused: the input mailbox is filled before the wait.
PostRefusedFills ==
  /\ pc = "idle" /\ call < MaxCmd /\ is_pending
  /\ call' = call + 1
  /\ inBox' = call + 1
  /\ last' = [cmd |-> call + 1, status |-> "timeout", param |-> "none", out |-> 0]
  /\ UNCHANGED <<pc, toggle, outBox, wire, hcr, card, effects>>

\* post when the previous command is still pending: the caller gets PrevTimeout.
PostRefused ==
  /\ pc = "idle" /\ call < MaxCmd /\ is_pending
  /\ call' = call + 1
  /\ last' = [cmd |-> call + 1, status |-> "timeout", param |-> "none", out |-> 0]
  /\ UNCHANGED <<pc, toggle, inBox, outBox, wire, hcr, card, effects>>

\* Mutant of Post: the toggle bit is counted up.
PostCounts(p) ==
  /\ pc = "idle" /\ call < MaxCmd /\ ~is_pending
  /\ call' = call + 1
  /\ inBox' = IF UsesIn(p) THEN call + 1 ELSE inBox
  /\ outBox' = IF UsesOut(p) THEN 0 ELSE outBox
  /\ wire' = [cmd |-> call + 1, t |-> toggle, param |-> p]
  /\ toggle' = toggle + 1
  /\ pc' = "poll"
  /\ UNCHANGED <<hcr, card, effects, last>>

\* Mutant of Post: it does not wait for the previous command.
PostAnyway(p) ==
  /\ pc = "idle" /\ call < MaxCmd /\ wire = NoWrite
  /\ call' = call + 1
  /\ inBox' = IF UsesIn(p) THEN call + 1 ELSE inBox
  /\ outBox' = IF UsesOut(p) THEN 0 ELSE outBox
  /\ wire' = [cmd |-> call + 1, t |-> toggle, param |-> p]
  /\ toggle' = 1 - toggle
  /\ pc' = "poll"
  /\ UNCHANGED <<hcr, card, effects, last>>

Post(p) ==
  /\ pc = "idle" /\ call < MaxCmd /\ ~is_pending
  /\ call' = call + 1
  /\ inBox' = IF UsesIn(p) THEN call + 1 ELSE inBox
  /\ outBox' = IF UsesOut(p) THEN 0 ELSE outBox
  /\ wire' = [cmd |-> call + 1, t |-> toggle, param |-> p]
  /\ toggle' = 1 - toggle
  /\ pc' = "poll"
  /\ UNCHANGED <<hcr, card, effects, last>>

\* Mutant of PollDone: the caller is given the input mailbox.
PollDoneInput ==
  /\ pc = "poll" /\ ~is_pending
  /\ pc' = "idle"
  /\ last' = [cmd |-> call, status |-> card.status, param |-> hcr.param, out |-> inBox]
  /\ UNCHANGED <<call, toggle, inBox, outBox, wire, hcr, card, effects>>

\* poll: the card is done; the caller has the status and reads the mailbox.
PollDone ==
  /\ pc = "poll" /\ ~is_pending
  /\ pc' = "idle"
  /\ last' = [cmd |-> call, status |-> card.status, param |-> hcr.param, out |-> outBox]
  /\ UNCHANGED <<call, toggle, inBox, outBox, wire, hcr, card, effects>>

\* Mutant of PollTimeout: the toggle bit of a command that was taken is given back.
PollTimeoutFlips ==
  /\ pc = "poll" /\ is_pending
  /\ pc' = "idle"
  /\ toggle' = IF hcr.go THEN 1 - toggle ELSE toggle
  /\ last' = [cmd |-> call, status |-> "timeout", param |-> "none", out |-> 0]
  /\ UNCHANGED <<call, inBox, outBox, wire, hcr, card, effects>>

\* poll: POLL_TIMEOUT has passed.
PollTimeout ==
  /\ pc = "poll" /\ is_pending
  /\ pc' = "idle"
  /\ last' = [cmd |-> call, status |-> "timeout", param |-> "none", out |-> 0]
  /\ UNCHANGED <<call, toggle, inBox, outBox, wire, hcr, card, effects>>

-----------------------------------------------------------------------------
\* The card.  It sees the write, fetches the input, executes the command and
\* stores its output, and clears the GO bit.
CardSees ==
  /\ wire # NoWrite
  /\ hcr' = [go |-> TRUE, t |-> wire.t, cmd |-> wire.cmd, param |-> wire.param]
  /\ card' = [step |-> "fetch", input |-> 0, status |-> "none"]
  /\ wire' = NoWrite
  /\ UNCHANGED <<pc, call, toggle, inBox, outBox, effects, last>>

CardFetches ==
  /\ card.step = "fetch"
  /\ card' = [card EXCEPT !.step = "execute",
                          !.input = IF UsesIn(hcr.param) THEN inBox ELSE hcr.cmd]
  /\ UNCHANGED <<pc, call, toggle, inBox, outBox, wire, hcr, effects, last>>

CardExecutes ==
  /\ card.step = "execute"
  /\ \/ /\ card' = [card EXCEPT !.step = "finish", !.status = "ok"]
        /\ effects' = Append(effects, [cmd |-> hcr.cmd, input |-> card.input])
        /\ outBox' = IF UsesOut(hcr.param) THEN hcr.cmd ELSE outBox
     \/ /\ card' = [card EXCEPT !.step = "finish", !.status = "error"]
        /\ UNCHANGED <<effects, outBox>>
  /\ UNCHANGED <<pc, call, toggle, inBox, wire, hcr, last>>

CardFinishes ==
  /\ card.step = "finish"
  /\ hcr' = [hcr EXCEPT !.go = FALSE]
  /\ card' = [card EXCEPT !.step = "done"]
  /\ UNCHANGED <<pc, call, toggle, inBox, outBox, wire, effects, last>>

Card == CardSees \/ CardFetches \/ CardExecutes \/ CardFinishes

Next ==
  \/ PostRefused \/ PollDone \/ PollTimeout
  \/ \E p \in Param : Post(p)
  \/ Card

\* The card finishes every command in the end, however late.
Spec == Init /\ [][Next]_vars /\ WF_vars(Card)

-----------------------------------------------------------------------------
\* Register, mailboxes and answers have their types.
TypeOK ==
  /\ pc \in {"idle", "poll"} /\ call \in 0 .. MaxCmd /\ toggle \in {0, 1}
  /\ inBox \in 0 .. MaxCmd /\ outBox \in 0 .. MaxCmd
  /\ wire \in [cmd : 0 .. MaxCmd, t : {0, 1}, param : Param]
  /\ hcr \in [go : BOOLEAN, t : {0, 1}, cmd : 0 .. MaxCmd, param : Param]
  /\ last.status \in {"none", "ok", "error", "timeout"}

\* A caller that is told Ok had its own command executed, and what it finds in
\* the output mailbox is the answer to it, not to an earlier or a late one.
AnswerIsMine ==
  last.status = "ok" =>
    /\ \E i \in DOMAIN effects : effects[i].cmd = last.cmd
    /\ UsesOut(last.param) => last.out = last.cmd

\* The card executes a command with the input that was posted with it: the input
\* mailbox is never filled again while a command that timed out is being executed.
InputIntact == \A i \in DOMAIN effects : effects[i].input = effects[i].cmd

\* Once the card is ready after a late command, the interface works again.
UsableAgain == is_pending ~> ~is_pending

\* The interface is the service its callers expect: a command that timed out takes
\* effect before every later one, or never.
Busy == is_pending \/ pc = "poll"
Service == INSTANCE CommandService WITH
  open <- IF Busy THEN (IF wire # NoWrite THEN wire.cmd ELSE hcr.cmd) ELSE 0,
  waiting <- pc = "poll",
  outcome <- IF Busy /\ wire = NoWrite THEN card.status ELSE "none",
  effects <- [i \in DOMAIN effects |-> effects[i].cmd],
  answer <- [cmd |-> last.cmd, status |-> last.status]
RefinesService == Service!Spec
=============================================================================
