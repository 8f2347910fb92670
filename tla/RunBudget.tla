----------------------------- MODULE RunBudget -----------------------------
(***************************************************************************)
(* The hard budget of one run (runtime/queue/budget.py): the row of        *)
(* agent_run_budgets and the append-once ledger whose event keys make      *)
(* every operation idempotent.  LLM calls are reserved before and settled  *)
(* after they are made; tokens are known only when a call settles, and not *)
(* always then; RunControl settles one task attempt at a time.             *)
(*                                                                         *)
(* Two of the seven dimensions are kept apart, the only one with           *)
(* reservations (llm_calls) and one whose usage may be UNKNOWN (tokens);   *)
(* the plain counters are represented by task_attempts.                    *)
(***************************************************************************)
EXTENDS Naturals, FiniteSetsExt

CONSTANTS Calls,          \* the LLM calls the run would make
          Attempts,       \* the task attempts it may settle
          MaxLlmCalls,    \* hard limits, each a number or Unmetered
          MaxTokens,
          MaxTaskAttempts,
          Unmetered,      \* the limit NULL
          TokenCounts     \* what a provider may charge for one call

Limits == Nat \cup {Unmetered}
ASSUME LimitsAssumption == {MaxLlmCalls, MaxTokens, MaxTaskAttempts} \subseteq Limits
ASSUME TokenCountsAssumption == TokenCounts \subseteq Nat
\* The event keys of calls and of attempts differ.
ASSUME KeysAssumption == /\ IsFiniteSet(Calls) /\ IsFiniteSet(Attempts)
                         /\ Calls \cap Attempts = {}

VARIABLES configured,   \* the budget row exists
          budget,       \* its counters and its usage_unknown flag
          ledger,       \* event keys recorded: <<kind, call or attempt>>
          call,         \* how far the caller of each LLM call is
          spent         \* what the provider really charged for each call

vars == <<configured, budget, ledger, call, spent>>

CallStates == {"planned", "reserved", "made", "settled", "releasing",
               "released", "refused", "abandoned"}
Kinds == {"RESERVE", "SETTLE", "RELEASE"}

TypeOK ==
    /\ configured \in BOOLEAN
    /\ budget \in [used : Nat, reserved : Nat, tokens : Nat, unknown : BOOLEAN,
                   attempts : Nat]
    /\ ledger \subseteq Kinds \X (Calls \cup Attempts)
    /\ call \in [Calls -> CallStates]
    /\ spent \in [Calls -> Nat]

Within(amount, limit) == limit = Unmetered \/ amount <= limit
Minus(a, b) == IF a >= b THEN a - b ELSE 0     \* GREATEST(a - b, 0)

\* Mutant: an UNKNOWN usage counts as zero.
ExceededByKnown(extra) ==
    /\ configured
    /\ \/ ~Within(budget.used + budget.reserved, MaxLlmCalls)
       \/ ~Within(budget.tokens, MaxTokens)
       \/ ~Within(budget.attempts + extra, MaxTaskAttempts)

\* check(): BudgetExceeded, with so many task attempts more in view.
Exceeded(extra) ==
    /\ configured
    /\ \/ ~Within(budget.used + budget.reserved, MaxLlmCalls)
       \/ ~Within(budget.tokens, MaxTokens)
       \/ ~Within(budget.attempts + extra, MaxTaskAttempts)
       \/ budget.unknown /\ MaxTokens # Unmetered

----------------------------------------------------------------------------
Init == /\ configured = FALSE
        /\ budget = [used |-> 0, reserved |-> 0, tokens |-> 0,
                     unknown |-> FALSE, attempts |-> 0]
        /\ ledger = {}
        /\ call = [k \in Calls |-> "planned"]
        /\ spent = [k \in Calls |-> 0]

\* INSERT ... ON CONFLICT DO NOTHING: a second configure changes nothing.
Configure == /\ ~configured
             /\ configured' = TRUE
             /\ UNCHANGED <<budget, ledger, call, spent>>

\* One transaction: the ledger row and the guarded increment, or neither.
\* A key seen before is a DUPLICATE: no change, and no refusal.
ReserveTx(k) ==
    IF <<"RESERVE", k>> \in ledger
    THEN UNCHANGED <<budget, ledger>>
    ELSE /\ configured /\ Within(budget.reserved + 1, MaxLlmCalls)
         /\ budget' = [budget EXCEPT !.reserved = @ + 1]
         /\ ledger' = ledger \cup {<<"RESERVE", k>>}

Reserve(k) == /\ call[k] = "planned"
              /\ ReserveTx(k)
              /\ call' = [call EXCEPT ![k] = "reserved"]
              /\ UNCHANGED <<configured, spent>>

\* The reply is lost; the caller will ask again under the same key.
ReserveReplyLost(k) == /\ call[k] = "planned"
                       /\ ReserveTx(k)
                       /\ UNCHANGED <<configured, call, spent>>

\* BudgetExceeded: the ledger row is rolled back with the rest.
ReserveRefused(k) ==
    /\ call[k] = "planned"
    /\ <<"RESERVE", k>> \notin ledger
    /\ ~(configured /\ Within(budget.reserved + 1, MaxLlmCalls))
    /\ call' = [call EXCEPT ![k] = "refused"]
    /\ UNCHANGED <<configured, budget, ledger, spent>>

\* The provider answers, or fails, having charged something.
Make(k) == /\ call[k] = "reserved"
           /\ call' = [call EXCEPT ![k] = "made"]
           /\ \E n \in TokenCounts : spent' = [spent EXCEPT ![k] = n]
           /\ UNCHANGED <<configured, budget, ledger>>

\* settle(llm_calls=1): the usage the provider reported, or UNKNOWN, which
\* is a flag and never a zero.
\* Mutants: the event key is not looked at; the COALESCE is missing.
SettleTxAgain(k, known) ==
    /\ ledger' = ledger \cup {<<"SETTLE", k>>}
    /\ budget' = [budget EXCEPT
           !.used = @ + 1,
           !.reserved = Minus(@, 1),
           !.tokens = IF known THEN @ + spent[k] ELSE @,
           !.unknown = @ \/ ~known]
SettleTxNull(k, known) ==
    /\ ledger' = ledger \cup {<<"SETTLE", k>>}
    /\ budget' = [budget EXCEPT
           !.used = @ + 1,
           !.reserved = Minus(@, 1),
           !.tokens = IF known THEN @ + spent[k] ELSE Unmetered,
           !.unknown = @ \/ ~known]
SettleTx(k, known) ==
    IF <<"SETTLE", k>> \in ledger
    THEN UNCHANGED <<budget, ledger>>
    ELSE /\ ledger' = ledger \cup {<<"SETTLE", k>>}
         /\ budget' = [budget EXCEPT
                !.used = @ + 1,
                !.reserved = Minus(@, 1),
                !.tokens = IF known THEN @ + spent[k] ELSE @,
                !.unknown = @ \/ ~known]

Settle(k) == /\ call[k] = "made"
             /\ \E known \in BOOLEAN : SettleTx(k, known)
             /\ call' = [call EXCEPT ![k] = "settled"]
             /\ UNCHANGED <<configured, spent>>

\* The reply is lost, and the settlement will be replayed.
SettleReplyLost(k) == /\ call[k] = "made"
                      /\ \E known \in BOOLEAN : SettleTx(k, known)
                      /\ UNCHANGED <<configured, call, spent>>

\* release_reservation: the reserved call is not made after all.
\* Mutant: the event key is not looked at.
ReleaseTxAgain(k) == /\ ledger' = ledger \cup {<<"RELEASE", k>>}
                     /\ budget' = [budget EXCEPT !.reserved = Minus(@, 1)]
ReleaseTx(k) ==
    IF <<"RELEASE", k>> \in ledger
    THEN UNCHANGED <<budget, ledger>>
    ELSE /\ ledger' = ledger \cup {<<"RELEASE", k>>}
         /\ budget' = [budget EXCEPT !.reserved = Minus(@, 1)]

Release(k) == /\ call[k] \in {"reserved", "releasing"}
              /\ ReleaseTx(k)
              /\ call' = [call EXCEPT ![k] = "released"]
              /\ UNCHANGED <<configured, spent>>

\* The reply is lost, and the release will be replayed.
ReleaseReplyLost(k) == /\ call[k] \in {"reserved", "releasing"}
                       /\ ReleaseTx(k)
                       /\ call' = [call EXCEPT ![k] = "releasing"]
                       /\ UNCHANGED <<configured, spent>>

\* The caller dies; what it reserved stays counted until the run ends.
Abandon(k) == /\ call[k] \in {"reserved", "made"}
              /\ call' = [call EXCEPT ![k] = "abandoned"]
              /\ UNCHANGED <<configured, budget, ledger, spent>>

\* RunControl's settles: one attempt, no call, token usage left UNKNOWN.  The
\* key makes a repeated settle of an attempt a no-op; where the budget row is
\* not there yet, the key is recorded and the attempt is not.
SettleAttempt(a) ==
    /\ IF <<"SETTLE", a>> \in ledger
       THEN UNCHANGED <<budget, ledger>>
       ELSE /\ ledger' = ledger \cup {<<"SETTLE", a>>}
            /\ budget' = IF configured
                         THEN [budget EXCEPT !.attempts = @ + 1, !.unknown = TRUE]
                         ELSE budget
    /\ UNCHANGED <<configured, call, spent>>

Next == \/ Configure
        \/ \E k \in Calls : \/ Reserve(k) \/ ReserveReplyLost(k)
                            \/ ReserveRefused(k) \/ Make(k)
                            \/ Settle(k) \/ SettleReplyLost(k)
                            \/ Release(k) \/ ReleaseReplyLost(k)
                            \/ Abandon(k)
        \/ \E a \in Attempts : SettleAttempt(a)

Spec == Init /\ [][Next]_vars

----------------------------------------------------------------------------
(* Properties.                                                             *)

CallsIn(states) == {k \in Calls : call[k] \in states}

\* The budget accounts for every call that was or may have been made, under
\* any pattern of lost replies and replays: settled ones are used, those in
\* progress or abandoned are reserved or used.
NoCallUncounted ==
    budget.used + budget.reserved
        >= Cardinality(CallsIn({"reserved", "made", "settled", "abandoned"}))

\* A reservation, a release or a settlement counts once, however often it is
\* repeated (the ledger's UNIQUE event_key against every lost reply).
Recorded(kind, things) == Cardinality({x \in things : <<kind, x>> \in ledger})

LedgerMatchesCounters ==
    /\ budget.used = Recorded("SETTLE", Calls)
    /\ budget.attempts <= Recorded("SETTLE", Attempts)
    /\ budget.used + budget.reserved
          = Recorded("RESERVE", Calls) - Recorded("RELEASE", Calls)

\* A gate that lets the run go on is right to: what its settled calls really
\* cost together is within the token limit, an UNKNOWN usage included (it
\* "never counts as zero"), and so is the number of calls in hand.
GateIsSound ==
    configured /\ ~Exceeded(0) =>
        /\ Within(MapThenSumSet(LAMBDA k : spent[k], CallsIn({"settled"})),
                  MaxTokens)
        /\ Within(Cardinality(CallsIn({"reserved", "made", "settled",
                                       "abandoned"})), MaxLlmCalls)

\* budget.py:164: "concurrent workers can never oversubscribe max_llm_calls".
NeverOversubscribed ==
    Within(Cardinality(CallsIn({"made", "settled"})), MaxLlmCalls)
=============================================================================
