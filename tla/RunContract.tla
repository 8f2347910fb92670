---------------------------- MODULE RunContract ----------------------------
(***************************************************************************)
(* What run control promises about an agent run (the docstring of          *)
(* runtime/queue/run_control.py): one outcome, for good; a success only    *)
(* for a completion that was presented by the deadline, and together with  *)
(* its result; a timeout only after the deadline.                          *)
(***************************************************************************)
EXTENDS Naturals

VARIABLES outcome,   \* "open" until the run is over
          late,      \* the deadline has passed
          offered,   \* a completion presented by the deadline is being settled
          result     \* the attempt whose result stands, 0 while none

vars == <<outcome, late, offered, result>>

Init == outcome = "open" /\ late = FALSE /\ offered = FALSE /\ result = 0

DeadlinePasses == /\ ~late
                  /\ late' = TRUE
                  /\ UNCHANGED <<outcome, offered, result>>

\* A completion is presented, or one is withdrawn.
Offer == /\ offered' \in {FALSE, ~late}
         /\ UNCHANGED <<outcome, late, result>>

Complete == /\ outcome = "open" /\ offered
            /\ outcome' = "SUCCEEDED"
            /\ offered' \in BOOLEAN
            /\ result' \in Nat \ {0}
            /\ UNCHANGED late

TimeOut == /\ outcome = "open" /\ late
           /\ outcome' = "TIMED_OUT"
           /\ UNCHANGED <<late, offered, result>>

End == /\ outcome = "open"
       /\ outcome' \in {"FAILED", "CANCELLED"}
       /\ UNCHANGED <<late, offered, result>>

Next == DeadlinePasses \/ Offer \/ Complete \/ TimeOut \/ End

Spec == Init /\ [][Next]_vars
=============================================================================
