------------------------------ MODULE TaskRow ------------------------------
(***************************************************************************)
(* One row of the PostgreSQL table queue_tasks and what each guarded       *)
(* statement of runtime/queue does to it.  No variables: TaskQueue (the    *)
(* bare queue) and RunControl (the queue under the run lifecycle) build    *)
(* their transactions from these.                                          *)
(*                                                                         *)
(* Times are kept only as far as the statements tell them apart: the row's *)
(* lease_expires_at is "null", in the future ("live") or passed ("past")   *)
(* on the database clock.  A lease id is the number of the lease among     *)
(* those issued for the row (the code draws a uuid4); 0 stands for NULL.   *)
(* A result is named by the attempt whose execution produced it.           *)
(***************************************************************************)
EXTENDS Naturals

CONSTANT MaxAttempts    \* column max_attempts, the same for every task

ASSUME MaxAttemptsAssumption == MaxAttempts \in Nat \ {0}

----------------------------------------------------------------------------
NoLease  == 0
NoResult == 0

Statuses == {"PENDING", "LEASED", "RUNNING", "SUCCEEDED", "FAILED",
             "LEASE_EXPIRED", "CANCELLED"}
InFlight == {"LEASED", "RUNNING"}
TaskTerminal == {"SUCCEEDED", "CANCELLED"}
\* Mutant: an operator's cancel takes any task, a completed one too.
CancellableDone == {"PENDING", "LEASED", "RUNNING", "LEASE_EXPIRED", "FAILED",
                    "SUCCEEDED"}
Cancellable == {"PENDING", "LEASED", "RUNNING", "LEASE_EXPIRED", "FAILED"}

\* The states the table TRANSITIONS allows a row to move to.
Transitions ==
    [PENDING       |-> {"LEASED", "CANCELLED"},
     LEASED        |-> {"RUNNING", "PENDING", "LEASE_EXPIRED", "CANCELLED"},
     RUNNING       |-> {"SUCCEEDED", "FAILED", "PENDING", "LEASE_EXPIRED",
                        "CANCELLED"},
     FAILED        |-> {"PENDING"},
     LEASE_EXPIRED |-> {"PENDING", "CANCELLED"},
     SUCCEEDED     |-> {},
     CANCELLED     |-> {}]

\* What the code writes into retry_reason, by kind.
Reasons == {"none", "lease_expired", "error", "waiting", "deadline",
            "superseded", "budget", "run_terminal"}

\* "ABSENT": no row has been inserted for this task_id.
Rows == [status : Statuses \cup {"ABSENT"}, lease : Nat,
         expiry : {"null", "live", "past"}, attempt : Nat,
         reason : Reasons, result : Nat]

NoRow == [status |-> "ABSENT", lease |-> NoLease, expiry |-> "null",
          attempt |-> 0, reason |-> "none", result |-> NoResult]
NewRow == [NoRow EXCEPT !.status = "PENDING"]

----------------------------------------------------------------------------
(* The guards: a WHERE clause each, on the database clock.                 *)
(* A definition named after a slip is a mutant of the next one: the bug a  *)
(* property has to notice, used by nothing else.                           *)

\* Mutants: lease_expires_at < now() is forgotten; so is the second case.
ClaimableAnyTime(r) == r.status \in {"PENDING"} \cup InFlight
ClaimablePending(r) == r.status = "PENDING"
Claimable(r) ==
    r.status = "PENDING" \/ (r.status \in InFlight /\ r.expiry = "past")

\* The writer presents lease l, and the row carries it unexpired.
HoldsLease(r, l) == r.lease = l /\ r.expiry = "live"

CanStart(r, l)   == r.status = "LEASED" /\ HoldsLease(r, l)
\* Mutant: the heartbeat does not ask whether the lease is still valid.
CanBeatLate(r, l) == r.status \in InFlight /\ r.lease = l
CanBeat(r, l)    == r.status \in InFlight /\ HoldsLease(r, l)
CanRelease(r, l) == r.status \in InFlight /\ HoldsLease(r, l)
\* Mutant: the settle does not compare the lease ids.
CanSettleAnyLease(r, l) == r.status = "RUNNING" /\ r.expiry = "live"
CanSettle(r, l)  == r.status = "RUNNING" /\ HoldsLease(r, l)
LeaseLapsed(r)   == r.status \in InFlight /\ r.expiry = "past"

\* A write with lease l missed, and _reject finds neither a foreign nor a
\* passed lease: the caller gets IllegalTransition, not LeaseRejected.
StateRefuses(r, l) == r.lease = l /\ r.expiry # "past"

----------------------------------------------------------------------------
(* The assignments: a SET clause each.                                     *)

Leased(r, l) == [r EXCEPT !.status = "LEASED", !.lease = l, !.expiry = "live",
                          !.attempt = @ + 1, !.reason = "none"]
Started(r)   == [r EXCEPT !.status = "RUNNING"]
Extended(r)  == [r EXCEPT !.expiry = "live"]
Succeeded(r, a)   == [r EXCEPT !.status = "SUCCEEDED", !.result = a]
Failed(r, reason) == [r EXCEPT !.status = "FAILED", !.reason = reason]
\* Mutant: lease_id = NULL is forgotten.
RequeuedWithLease(r) == [r EXCEPT !.status = "PENDING", !.expiry = "null"]
Requeued(r)  == [r EXCEPT !.status = "PENDING", !.lease = NoLease,
                          !.expiry = "null"]
Recovered(r) == [Requeued(r) EXCEPT
                    !.reason = IF @ = "none" THEN "lease_expired" ELSE @]
\* Mutant: a status that is not in the state machine.
CancelledMisspelt(r) == [r EXCEPT !.status = "CANCELED"]
Cancelled(r) == [r EXCEPT !.status = "CANCELLED"]

\* fail(): FAILED, and in the same transaction PENDING again while the
\* attempt read before the write is below max_attempts.
FailedOrRequeued(r, reason, retry) ==
    IF retry /\ r.attempt < MaxAttempts
    THEN Requeued(Failed(r, reason))
    ELSE Failed(r, reason)
=============================================================================
