--------------------------- MODULE CommandService ---------------------------
(***************************************************************************)
(* What execute_command promises its callers.  Commands take effect one at *)
(* a time, in the order they are made and at most once.  A caller that is  *)
(* told "ok" knows that its command took effect and has the answer to it;  *)
(* one that is told "timeout" knows nothing, but its command takes effect  *)
(* before any later one, or never.                                         *)
(***************************************************************************)
EXTENDS Naturals, Sequences

CONSTANT MaxCmd   \* bound on the number of calls

VARIABLES call,     \* number of calls so far
          open,     \* the command the card has, or 0
          waiting,  \* does its caller still wait?
          outcome,  \* "none", or what the card made of it: "ok", "error"
          effects,  \* the commands that took effect, in order
          answer    \* the answer to the last call that returned

vars == <<call, open, waiting, outcome, effects, answer>>

Init ==
  /\ call = 0 /\ open = 0 /\ waiting = FALSE /\ outcome = "none"
  /\ effects = <<>> /\ answer = [cmd |-> 0, status |-> "none"]

Call ==
  /\ call < MaxCmd /\ open = 0
  /\ call' = call + 1 /\ open' = call + 1 /\ waiting' = TRUE
  /\ UNCHANGED <<outcome, effects, answer>>

\* The card is still busy with a command nobody waits for.
Refuse ==
  /\ call < MaxCmd /\ open # 0 /\ ~waiting
  /\ call' = call + 1
  /\ answer' = [cmd |-> call + 1, status |-> "timeout"]
  /\ UNCHANGED <<open, waiting, outcome, effects>>

Effect ==
  /\ open # 0 /\ outcome = "none"
  /\ \/ outcome' = "ok" /\ effects' = Append(effects, open)
     \/ outcome' = "error" /\ UNCHANGED effects
  /\ UNCHANGED <<call, open, waiting, answer>>

Answer ==
  /\ waiting /\ outcome # "none"
  /\ answer' = [cmd |-> open, status |-> outcome]
  /\ open' = 0 /\ waiting' = FALSE /\ outcome' = "none"
  /\ UNCHANGED <<call, effects>>

GiveUp ==
  /\ waiting
  /\ answer' = [cmd |-> open, status |-> "timeout"] /\ waiting' = FALSE
  /\ UNCHANGED <<call, open, outcome, effects>>

\* The card is ready again after a command nobody waited for.
Ready ==
  /\ open # 0 /\ ~waiting /\ outcome # "none"
  /\ open' = 0 /\ outcome' = "none"
  /\ UNCHANGED <<call, waiting, effects, answer>>

Next == Call \/ Refuse \/ Effect \/ Answer \/ GiveUp \/ Ready

Spec == Init /\ [][Next]_vars
=============================================================================
