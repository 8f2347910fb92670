---------------------------- MODULE TaskContract ----------------------------
(***************************************************************************)
(* What the queue promises about a task, with no lease, worker or clock in *)
(* sight (DISTRIBUTED_TASK_EXECUTION.md, "Execution semantics"): execution *)
(* is at least once, the result is accepted at most once and comes from    *)
(* the newest attempt, and a settled or cancelled task is over for good.   *)
(***************************************************************************)
EXTENDS Naturals

CONSTANT Tasks

VARIABLES phase,      \* "open", "done" or "cancelled"
          attempts,   \* how many executions have been handed out
          accepted    \* the attempt whose result was accepted, 0 while none

vars == <<phase, attempts, accepted>>

Init == /\ phase = [t \in Tasks |-> "open"]
        /\ attempts = [t \in Tasks |-> 0]
        /\ accepted = [t \in Tasks |-> 0]

\* The task is handed to a worker, again or for the first time.
HandOut(t) == /\ phase[t] = "open"
              /\ attempts' = [attempts EXCEPT ![t] = @ + 1]
              /\ UNCHANGED <<phase, accepted>>

\* The newest attempt's result is accepted; an older one never is.
Accept(t) == /\ phase[t] = "open"
             /\ attempts[t] > 0
             /\ phase' = [phase EXCEPT ![t] = "done"]
             /\ accepted' = [accepted EXCEPT ![t] = attempts[t]]
             /\ UNCHANGED attempts

Abandon(t) == /\ phase[t] = "open"
              /\ phase' = [phase EXCEPT ![t] = "cancelled"]
              /\ UNCHANGED <<attempts, accepted>>

Next == \E t \in Tasks : HandOut(t) \/ Accept(t) \/ Abandon(t)

Spec == Init /\ [][Next]_vars
=============================================================================
