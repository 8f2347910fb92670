-------------------------- MODULE RunBudgetProofs ---------------------------
(***************************************************************************)
(* Theorems about RunBudget, for any calls, attempts and limits: type      *)
(* correctness, that the counters say what the ledger says, and that the   *)
(* gate is right to let a run go on.                                       *)
(*                                                                         *)
(* A step adds at most one key to the ledger and moves one counter; what   *)
(* has to be shown is that they stay in step although an operation may be  *)
(* repeated after its caller moved on.  The invariant says which keys the  *)
(* ledger can hold of a call, given how far its caller is; and, while no   *)
(* usage is unknown, that the tokens are the sum of what the calls with a  *)
(* settlement cost.                                                        *)
(***************************************************************************)
EXTENDS RunBudget, FiniteSetTheorems, TLAPS

Key(kind, x) == <<kind, x>> \in ledger
KeyOf(kind, things) == {x \in things : Key(kind, x)}

\* The calls whose reservation stands.
Open == {k \in Calls : Key("RESERVE", k) /\ ~Key("SETTLE", k) /\ ~Key("RELEASE", k)}

KeysInv ==
    \A k \in Calls :
        /\ Key("SETTLE", k) => call[k] \in {"made", "settled", "abandoned"}
        /\ Key("RELEASE", k) => call[k] \in {"releasing", "released"}
        /\ call[k] \notin {"planned", "refused"} => Key("RESERVE", k)

CountInv ==
    /\ budget.used = Cardinality(KeyOf("SETTLE", Calls))
    /\ budget.reserved = Cardinality(Open)
    /\ budget.attempts <= Cardinality(KeyOf("SETTLE", Attempts))

Inv == TypeOK /\ KeysInv /\ CountInv

-----------------------------------------------------------------------------
(* What a step does to the keys, and to the sets that are counted.         *)

\* The ledger gains the key of one call.
Gains(kind, k) == ledger' = ledger \cup {<<kind, k>>}

LEMMA KeysAfter ==
    ASSUME NEW kind \in Kinds, NEW x, Gains(kind, x), NEW other, NEW y
    PROVE  Key(other, y)' <=> (Key(other, y) \/ (other = kind /\ y = x))
BY DEF Gains, Key

LEMMA SameKeys ==
    ASSUME ledger' = ledger
    PROVE  /\ Open' = Open
           /\ \A kind, things : KeyOf(kind, things)' = KeyOf(kind, things)
           /\ \A kind, x : Key(kind, x)' = Key(kind, x)
BY DEF Open, KeyOf, Key

LEMMA Finite ==
    /\ IsFiniteSet(Open) /\ Cardinality(Open) \in Nat
    /\ \A kind : /\ IsFiniteSet(KeyOf(kind, Calls))
                 /\ Cardinality(KeyOf(kind, Calls)) \in Nat
    /\ \A kind : /\ IsFiniteSet(KeyOf(kind, Attempts))
                 /\ Cardinality(KeyOf(kind, Attempts)) \in Nat
<1>1. Open \in SUBSET Calls BY DEF Open
<1>2. \A kind, S : KeyOf(kind, S) \in SUBSET S BY DEF KeyOf
<1>3. QED BY <1>1, <1>2, FS_Subset, FS_CardinalityType, KeysAssumption

\* A reservation opens its call.
LEMMA Reserving ==
    ASSUME Inv, NEW k \in Calls, Gains("RESERVE", k), ~Key("RESERVE", k),
           budget' = [budget EXCEPT !.reserved = @ + 1]
    PROVE  CountInv'
<1>1. /\ Open' = Open \cup {k} /\ k \notin Open
      /\ KeyOf("SETTLE", Calls)' = KeyOf("SETTLE", Calls)
      /\ KeyOf("SETTLE", Attempts)' = KeyOf("SETTLE", Attempts)
  <2>1. ~Key("SETTLE", k) /\ ~Key("RELEASE", k)
    BY DEF Inv, KeysInv
  <2>2. \A other, y : Key(other, y)' <=> (Key(other, y) \/ (other = "RESERVE" /\ y = k))
    BY KeysAfter DEF Kinds
  <2>3. QED BY <2>1, <2>2 DEF Open, KeyOf
<1>2. Cardinality(Open') = Cardinality(Open) + 1
  BY <1>1, Finite, FS_AddElement
<1>3. QED BY <1>1, <1>2, Finite DEF Inv, CountInv, TypeOK

\* A settlement, or a release, closes a call that was open.
LEMMA Closing ==
    ASSUME Inv, NEW k \in Open
    PROVE  /\ Cardinality(Open \ {k}) = Cardinality(Open) - 1
           /\ Minus(budget.reserved, 1) = Cardinality(Open \ {k})
<1>1. Cardinality(Open \ {k}) = Cardinality(Open) - 1 /\ Cardinality(Open \ {k}) \in Nat
  BY Finite, FS_RemoveElement, FS_CardinalityType
<1>2. QED BY <1>1, Finite DEF Inv, CountInv, Minus

LEMMA Settling ==
    ASSUME Inv, NEW k \in Open, NEW known \in BOOLEAN, SettleTx(k, known)
    PROVE  CountInv'
<1>1. k \in Calls /\ ~Key("SETTLE", k) BY DEF Open
<1>2. Gains("SETTLE", k) BY <1>1 DEF SettleTx, Key, Gains
<1>3. \A other, y : Key(other, y)' <=> (Key(other, y) \/ (other = "SETTLE" /\ y = k))
  BY <1>2, KeysAfter DEF Kinds
<1>4. /\ Open' = Open \ {k}
      /\ KeyOf("SETTLE", Calls)' = KeyOf("SETTLE", Calls) \cup {k}
      /\ k \notin KeyOf("SETTLE", Calls)
      /\ KeyOf("SETTLE", Attempts)' = KeyOf("SETTLE", Attempts)
  BY <1>1, <1>3, KeysAssumption DEF Open, KeyOf
<1>5. /\ Cardinality(Open') = Minus(budget.reserved, 1)
      /\ Cardinality(KeyOf("SETTLE", Calls)') = Cardinality(KeyOf("SETTLE", Calls)) + 1
  BY <1>4, Closing, Finite, FS_AddElement
<1>6. /\ budget'.used = budget.used + 1
      /\ budget'.reserved = Minus(budget.reserved, 1)
      /\ budget'.attempts = budget.attempts
  BY <1>1 DEF SettleTx, Key, Inv, TypeOK
<1>7. QED BY <1>4, <1>5, <1>6, Finite DEF Inv, CountInv

LEMMA Releasing ==
    ASSUME Inv, NEW k \in Open, ReleaseTx(k)
    PROVE  CountInv'
<1>1. k \in Calls /\ ~Key("RELEASE", k) BY DEF Open
<1>2. Gains("RELEASE", k) BY <1>1 DEF ReleaseTx, Key, Gains
<1>3. \A other, y : Key(other, y)' <=> (Key(other, y) \/ (other = "RELEASE" /\ y = k))
  BY <1>2, KeysAfter DEF Kinds
<1>4. /\ Open' = Open \ {k}
      /\ KeyOf("SETTLE", Calls)' = KeyOf("SETTLE", Calls)
      /\ KeyOf("SETTLE", Attempts)' = KeyOf("SETTLE", Attempts)
  BY <1>1, <1>3 DEF Open, KeyOf
<1>5. Cardinality(Open') = Minus(budget.reserved, 1)
  BY <1>4, Closing
<1>6. /\ budget'.used = budget.used
      /\ budget'.reserved = Minus(budget.reserved, 1)
      /\ budget'.attempts = budget.attempts
  BY <1>1 DEF ReleaseTx, Key, Inv, TypeOK
<1>7. QED BY <1>4, <1>5, <1>6, Finite DEF Inv, CountInv

LEMMA Charging ==
    ASSUME Inv, NEW a \in Attempts, SettleAttempt(a)
    PROVE  CountInv'
<1>1. CASE Key("SETTLE", a)
  BY <1>1, SameKeys DEF SettleAttempt, Key, Inv, CountInv
<1>2. CASE ~Key("SETTLE", a)
  <2>1. Gains("SETTLE", a) BY <1>2 DEF SettleAttempt, Key, Gains
  <2>2. \A other, y : Key(other, y)' <=> (Key(other, y) \/ (other = "SETTLE" /\ y = a))
    BY <2>1, KeysAfter DEF Kinds
  <2>3. /\ Open' = Open
        /\ KeyOf("SETTLE", Calls)' = KeyOf("SETTLE", Calls)
        /\ KeyOf("SETTLE", Attempts)' = KeyOf("SETTLE", Attempts) \cup {a}
        /\ a \notin KeyOf("SETTLE", Attempts)
    BY <1>2, <2>2, KeysAssumption DEF Open, KeyOf
  <2>4. Cardinality(KeyOf("SETTLE", Attempts)') = Cardinality(KeyOf("SETTLE", Attempts)) + 1
    BY <2>3, Finite, FS_AddElement
  <2>5. /\ budget'.used = budget.used
        /\ budget'.reserved = budget.reserved
        /\ budget'.attempts \in {budget.attempts, budget.attempts + 1}
    BY <1>2 DEF SettleAttempt, Key, Inv, TypeOK
  <2>6. QED BY <2>3, <2>4, <2>5, Finite DEF Inv, CountInv, TypeOK
<1>3. QED BY <1>1, <1>2

LEMMA Counting ==
    ASSUME Inv, [Next]_vars
    PROVE  CountInv'
<1>0. CASE ledger' = ledger /\ budget' = budget
  BY <1>0, SameKeys DEF Inv, CountInv
<1>1. ASSUME NEW k \in Calls, ReserveTx(k) PROVE CountInv'
  BY <1>0, <1>1, Reserving DEF ReserveTx, Gains, Key
<1>2. ASSUME NEW k \in Calls, call[k] = "made", NEW known \in BOOLEAN, SettleTx(k, known)
      PROVE  CountInv'
  <2>1. CASE Key("SETTLE", k) BY <1>0, <1>2, <2>1 DEF SettleTx, Key
  <2>2. CASE ~Key("SETTLE", k)
    <3>1. k \in Open BY <1>2, <2>2 DEF Inv, KeysInv, Open
    <3>2. QED BY <1>2, <3>1, Settling
  <2>3. QED BY <2>1, <2>2
<1>3. ASSUME NEW k \in Calls, call[k] \in {"reserved", "releasing"}, ReleaseTx(k)
      PROVE  CountInv'
  <2>1. CASE Key("RELEASE", k) BY <1>0, <1>3, <2>1 DEF ReleaseTx, Key
  <2>2. CASE ~Key("RELEASE", k)
    <3>1. k \in Open BY <1>3, <2>2 DEF Inv, KeysInv, Open
    <3>2. QED BY <1>3, <3>1, Releasing
  <2>3. QED BY <2>1, <2>2
<1>4. CASE Configure \/ UNCHANGED vars BY <1>0, <1>4 DEF Configure, vars
<1>5. ASSUME NEW k \in Calls,
             \/ Reserve(k) \/ ReserveReplyLost(k) \/ ReserveRefused(k) \/ Make(k)
             \/ Settle(k) \/ SettleReplyLost(k) \/ Release(k)
             \/ ReleaseReplyLost(k) \/ Abandon(k)
      PROVE  CountInv'
  BY <1>0, <1>1, <1>2, <1>3, <1>5
  DEF Reserve, ReserveReplyLost, ReserveRefused, Make, Settle,
      SettleReplyLost, Release, ReleaseReplyLost, Abandon
<1>6. ASSUME NEW a \in Attempts, SettleAttempt(a) PROVE CountInv'
  BY <1>6, Charging
<1>7. QED BY <1>4, <1>5, <1>6 DEF Next

-----------------------------------------------------------------------------
(* Types and keys.                                                         *)

Budgets == [used : Nat, reserved : Nat, tokens : Nat, unknown : BOOLEAN,
            attempts : Nat]

LEMMA LastField ==
    ASSUME NEW b \in Budgets, NEW u \in BOOLEAN
    PROVE  [b EXCEPT !.unknown = u] \in Budgets
BY DEF Budgets

LEMMA Counters ==
    ASSUME NEW b \in Budgets, NEW i \in Nat, NEW j \in Nat, NEW n \in Nat
    PROVE  [b EXCEPT !.used = i, !.reserved = j, !.tokens = n] \in Budgets
BY DEF Budgets

LEMMA Typing ==
    ASSUME TypeOK, [Next]_vars
    PROVE  TypeOK'
<1> USE DEF TypeOK, CallStates, Kinds, Budgets
<1>0. \A a \in Nat : Minus(a, 1) \in Nat BY DEF Minus
<1>1. CASE Configure \/ UNCHANGED vars BY <1>1 DEF Configure, vars
<1>2. ASSUME NEW k \in Calls, Reserve(k) \/ ReserveReplyLost(k) PROVE TypeOK'
  BY <1>2 DEF Reserve, ReserveReplyLost, ReserveTx
<1>3. ASSUME NEW k \in Calls, ReserveRefused(k) \/ Make(k) \/ Abandon(k) PROVE TypeOK'
  BY <1>3, TokenCountsAssumption DEF ReserveRefused, Make, Abandon
<1>4. ASSUME NEW k \in Calls, Settle(k) \/ SettleReplyLost(k) PROVE TypeOK'
  <2>1. PICK known \in BOOLEAN : SettleTx(k, known)
    BY <1>4 DEF Settle, SettleReplyLost
  <2> DEFINE u == budget.unknown \/ ~known
             n == IF known THEN budget.tokens + spent[k] ELSE budget.tokens
  <2>2. budget' \in Budgets
    <3>1. u \in BOOLEAN /\ n \in Nat OBVIOUS
    <3> DEFINE b == [budget EXCEPT !.used = @ + 1, !.reserved = Minus(@, 1),
                                   !.tokens = n]
    <3>2. budget' = budget \/ budget' = [b EXCEPT !.unknown = u]
      BY <2>1, Zenon DEF SettleTx
    <3> HIDE DEF u, n
    <3>3. b \in Budgets
      <4>1. budget.used + 1 \in Nat /\ Minus(budget.reserved, 1) \in Nat
        BY <1>0
      <4>2. QED BY <3>1, <4>1, Counters
    <3> HIDE DEF b
    <3>4. QED BY <3>1, <3>2, <3>3, LastField, Zenon
  <2>3. ledger' \subseteq Kinds \X (Calls \cup Attempts) BY <2>1 DEF SettleTx
  <2>4. QED BY <1>4, <2>2, <2>3 DEF Settle, SettleReplyLost
<1>5. ASSUME NEW k \in Calls, Release(k) \/ ReleaseReplyLost(k) PROVE TypeOK'
  BY <1>0, <1>5 DEF Release, ReleaseReplyLost, ReleaseTx
<1>6. ASSUME NEW a \in Attempts, SettleAttempt(a) PROVE TypeOK'
  <2> DEFINE b == [budget EXCEPT !.attempts = @ + 1]
  <2>1. budget' = budget \/ budget' = [b EXCEPT !.unknown = TRUE]
    BY <1>6, Zenon DEF SettleAttempt
  <2>2. b \in Budgets BY DEF Budgets
  <2> HIDE DEF b
  <2>3. budget' \in Budgets BY <2>1, <2>2, LastField, Zenon
  <2>4. QED BY <1>6, <2>3 DEF SettleAttempt
<1>7. QED BY <1>1, <1>2, <1>3, <1>4, <1>5, <1>6 DEF Next

LEMMA Keys ==
    ASSUME Inv, [Next]_vars
    PROVE  KeysInv'
<1> USE DEF KeysInv
<1>0. call \in [Calls -> CallStates] BY DEF Inv, TypeOK
<1>1. CASE Configure \/ UNCHANGED vars
  BY <1>1, SameKeys DEF Configure, vars, Inv
<1>2. ASSUME NEW k \in Calls, Reserve(k) \/ ReserveReplyLost(k) PROVE KeysInv'
  <2>1. Key("RESERVE", k)' /\ (ledger' = ledger \/ Gains("RESERVE", k))
    BY <1>2 DEF Reserve, ReserveReplyLost, ReserveTx, Key, Gains
  <2>2. \A kind, x : Key(kind, x)' <=>
                        \/ Key(kind, x)
                        \/ kind = "RESERVE" /\ x = k /\ Key(kind, x)'
    BY <2>1, SameKeys, KeysAfter DEF Kinds
  <2>3. call' \in {call, [call EXCEPT ![k] = "reserved"]} /\ call[k] = "planned"
    BY <1>2 DEF Reserve, ReserveReplyLost
  <2>4. QED BY <1>0, <2>1, <2>2, <2>3 DEF Inv
<1>3. ASSUME NEW k \in Calls, ReserveRefused(k) \/ Make(k) \/ Abandon(k) PROVE KeysInv'
  <2>1. \A kind, x : Key(kind, x)' = Key(kind, x)
    BY <1>3, SameKeys DEF ReserveRefused, Make, Abandon
  <2>2. QED BY <1>0, <1>3, <2>1 DEF ReserveRefused, Make, Abandon, Inv
<1>4. ASSUME NEW k \in Calls, Settle(k) \/ SettleReplyLost(k) PROVE KeysInv'
  <2>1. ledger' = ledger \/ Gains("SETTLE", k)
    BY <1>4 DEF Settle, SettleReplyLost, SettleTx, Gains
  <2>2. \A kind, x : Key(kind, x)' => Key(kind, x) \/ (kind = "SETTLE" /\ x = k)
    BY <2>1, SameKeys, KeysAfter DEF Kinds
  <2>3. \A kind, x : Key(kind, x) => Key(kind, x)'
    BY <2>1, SameKeys, KeysAfter DEF Kinds
  <2>4. call' \in {call, [call EXCEPT ![k] = "settled"]} /\ call[k] = "made"
    BY <1>4 DEF Settle, SettleReplyLost
  <2>5. QED BY <1>0, <2>2, <2>3, <2>4 DEF Inv
<1>5. ASSUME NEW k \in Calls, Release(k) \/ ReleaseReplyLost(k) PROVE KeysInv'
  <2>1. ledger' = ledger \/ Gains("RELEASE", k)
    BY <1>5 DEF Release, ReleaseReplyLost, ReleaseTx, Gains
  <2>2. \A kind, x : Key(kind, x)' => Key(kind, x) \/ (kind = "RELEASE" /\ x = k)
    BY <2>1, SameKeys, KeysAfter DEF Kinds
  <2>3. \A kind, x : Key(kind, x) => Key(kind, x)'
    BY <2>1, SameKeys, KeysAfter DEF Kinds
  <2>4. /\ call' \in {[call EXCEPT ![k] = "releasing"], [call EXCEPT ![k] = "released"]}
        /\ call[k] \in {"reserved", "releasing"}
    BY <1>5 DEF Release, ReleaseReplyLost
  <2>5. QED BY <1>0, <2>2, <2>3, <2>4 DEF Inv
<1>6. ASSUME NEW a \in Attempts, SettleAttempt(a) PROVE KeysInv'
  <2>1. ledger' = ledger \/ Gains("SETTLE", a)
    BY <1>6 DEF SettleAttempt, Gains
  <2>2. \A kind : \A x \in Calls : Key(kind, x)' <=> Key(kind, x)
    <3>1. a \notin Calls BY KeysAssumption
    <3>2. CASE ledger' = ledger BY <3>2, SameKeys
    <3>3. CASE Gains("SETTLE", a) BY <3>1, <3>3, KeysAfter DEF Kinds
    <3>4. QED BY <2>1, <3>2, <3>3
  <2>3. QED BY <1>6, <2>2 DEF SettleAttempt, Inv
<1>7. QED BY <1>1, <1>2, <1>3, <1>4, <1>5, <1>6 DEF Next

LEMMA InitInv == Init => Inv
<1> SUFFICES ASSUME Init PROVE Inv OBVIOUS
<1>1. TypeOK BY DEF Init, TypeOK, CallStates, Kinds
<1>2. KeysInv BY DEF Init, KeysInv, Key
<1>3. Open = {} /\ KeyOf("SETTLE", Calls) = {} /\ KeyOf("SETTLE", Attempts) = {}
  BY DEF Init, Open, KeyOf, Key
<1>4. QED BY <1>1, <1>2, <1>3, FS_EmptySet DEF Inv, CountInv, Init

THEOREM Invariance == Spec => []Inv
<1>1. Inv /\ [Next]_vars => Inv'
  BY Typing, Keys, Counting DEF Inv
<1>2. QED BY InitInv, <1>1, PTL DEF Spec

-----------------------------------------------------------------------------
\* Every reachable state of the budget is well typed: in particular no
\* counter goes below zero, whatever is released or settled late.
THEOREM TypeCorrect == Spec => []TypeOK
BY Invariance, PTL DEF Inv

\* The ledger accounts for each counter: the calls with a standing
\* reservation and the settled ones are those that were reserved and not
\* released, each counted once.
LEMMA Accounted ==
    ASSUME Inv
    PROVE  /\ LedgerMatchesCounters
           /\ budget.used + budget.reserved
                 = Cardinality(KeyOf("RESERVE", Calls) \ KeyOf("RELEASE", Calls))
<1> DEFINE R == KeyOf("RESERVE", Calls)
           L == KeyOf("RELEASE", Calls)
           S == KeyOf("SETTLE", Calls)
<1>1. /\ S \subseteq R \ L /\ L \subseteq R
      /\ R \ L = S \cup Open /\ S \cap Open = {}
  BY DEF Inv, KeysInv, KeyOf, Key, Open
<1>2. R \cap L = L BY <1>1
<1> HIDE DEF R, L, S
<1>3. /\ IsFiniteSet(R) /\ IsFiniteSet(L) /\ IsFiniteSet(S)
      /\ Cardinality(R) \in Nat /\ Cardinality(L) \in Nat /\ Cardinality(S) \in Nat
  BY Finite DEF R, L, S
<1>4. Cardinality(R \ L) = Cardinality(R) - Cardinality(L)
  BY <1>2, <1>3, FS_Difference
<1>5. Cardinality(S \cap Open) = 0 BY <1>1, FS_EmptySet
<1>6. Cardinality(R \ L) = Cardinality(S) + Cardinality(Open)
  <2>1. Cardinality(S \cup Open)
           = Cardinality(S) + Cardinality(Open) - Cardinality(S \cap Open)
    BY <1>3, Finite, FS_Union
  <2>2. QED BY <1>1, <1>3, <1>5, <2>1, Finite
<1>7. /\ Recorded("SETTLE", Calls) = Cardinality(S)
      /\ Recorded("RESERVE", Calls) = Cardinality(R)
      /\ Recorded("RELEASE", Calls) = Cardinality(L)
      /\ Recorded("SETTLE", Attempts) = Cardinality(KeyOf("SETTLE", Attempts))
  BY DEF Recorded, KeyOf, Key, R, L, S
<1>8. budget.used = Cardinality(S) /\ budget.reserved = Cardinality(Open)
  BY DEF Inv, CountInv, S
<1>9. QED
  BY <1>4, <1>6, <1>7, <1>8 DEF LedgerMatchesCounters, Inv, CountInv, R, L

\* A reservation, a release or a settlement counts once, however often it is
\* repeated after a lost reply.
THEOREM LedgerCorrect == Spec => []LedgerMatchesCounters
<1>1. Inv => LedgerMatchesCounters BY Accounted
<1>2. QED BY Invariance, <1>1, PTL

LEMMA InHand ==
    ASSUME Inv
    PROVE  /\ NoCallUncounted
           /\ Cardinality(CallsIn({"reserved", "made", "settled", "abandoned"})) \in Nat
<1> DEFINE C == CallsIn({"reserved", "made", "settled", "abandoned"})
           A == KeyOf("RESERVE", Calls) \ KeyOf("RELEASE", Calls)
<1>1. C \in SUBSET A BY DEF Inv, KeysInv, CallsIn, KeyOf
<1>2. IsFiniteSet(A) BY Finite, FS_Difference
<1>3. Cardinality(C) <= Cardinality(A) BY <1>1, <1>2, FS_Subset
<1>4. Cardinality(C) \in Nat /\ Cardinality(A) \in Nat
  BY <1>1, <1>2, FS_Subset, FS_CardinalityType
<1> HIDE DEF A
<1>5. budget.used + budget.reserved = Cardinality(A) BY Accounted DEF A
<1>6. QED BY <1>3, <1>4, <1>5 DEF NoCallUncounted

\* Every call that was or may have been made is accounted for, as used or as
\* reserved, under any pattern of lost replies, replays and deaths.
THEOREM NothingUncounted == Spec => []NoCallUncounted
<1>1. Inv => NoCallUncounted BY InHand
<1>2. QED BY Invariance, <1>1, PTL

-----------------------------------------------------------------------------
(* Sums over finite sets, by the definition of MapThenSumSet: a function on  *)
(* the subsets of U takes out one element after the other.                   *)

TakenFrom(s) == CHOOSE x \in s : TRUE
Without(s) == s \ {TakenFrom(s)}
Sums(g, f, D) == g = [s \in D |-> IF s = {} THEN 0 ELSE f[TakenFrom(s)] + g[Without(s)]]

\* Of some subsets of a finite set one has no other below it.
LEMMA SmallestOf ==
    ASSUME NEW U, IsFiniteSet(U), NEW X \in SUBSET SUBSET U, X # {}
    PROVE  \E s \in X : \A t \in X : t \subseteq s => t = s
<1> DEFINE R == StrictSubsetOrdering(U)
<1>1. IsWellFoundedOn(R, SUBSET U)
  BY FS_StrictSubsetOrderingWellFounded, FS_FiniteSubsetsOfFinite
<1>2. \A s, t \in SUBSET U : t \subseteq s /\ t # s => <<t, s>> \in R
  BY DEF StrictSubsetOrdering
<1> HIDE DEF R
<1>3. PICK s \in X : \A t \in X : ~ (<<t, s>> \in R) BY <1>1, WFMin
<1>4. \A t \in X : ~(t \subseteq s /\ t # s) BY <1>2, <1>3
<1>5. QED BY <1>4

LEMMA TakenOut ==
    ASSUME NEW s, s # {}
    PROVE  TakenFrom(s) \in s /\ Without(s) \subseteq s /\ Without(s) # s
BY DEF TakenFrom, Without

\* There is such a function: one for the sets of n elements, for each n.
SetsTo(U, n) == {s \in SUBSET U : Cardinality(s) <= n}

LEMMA SumsExist ==
    ASSUME NEW U, IsFiniteSet(U), NEW f
    PROVE  \E g : Sums(g, f, SUBSET U)
<1> DEFINE N == {n \in Nat : ~ \E g : Sums(g, f, SetsTo(U, n))}
<1>1. \A s \in SUBSET U : IsFiniteSet(s) /\ Cardinality(s) \in Nat
  BY FS_Subset, FS_CardinalityType
<1>2. ASSUME NEW n \in Nat PROVE \E g : Sums(g, f, SetsTo(U, n))
  <2>1. SUFFICES ASSUME N # {} PROVE FALSE BY <1>2
  <2> DEFINE R == OpToRel(<, Nat)
  <2>2. IsWellFoundedOn(R, Nat) BY NatLessThanWellFounded
  <2>3. \A i, j \in Nat : j < i => <<j, i>> \in R BY DEF OpToRel
  <2> HIDE DEF R
  <2>4. N \subseteq Nat OBVIOUS
  <2> HIDE DEF N
  <2>5. PICK m \in N : \A j \in N : ~ (<<j, m>> \in R) BY <2>1, <2>2, <2>4, WFMin
  <2> USE DEF N
  <2>6. m \in Nat /\ \A j \in Nat : j < m => \E g : Sums(g, f, SetsTo(U, j))
    BY <2>3, <2>5
  <2>7. SUFFICES \E g : Sums(g, f, SetsTo(U, m)) BY <2>5
  <2> HIDE DEF N
  <2>8. CASE m = 0
    <3> DEFINE g == [s \in SetsTo(U, m) |-> 0]
    <3>1. \A s \in SetsTo(U, m) : s = {}
      BY <1>1, <2>8, FS_EmptySet DEF SetsTo
    <3>2. Sums(g, f, SetsTo(U, m)) BY <3>1 DEF Sums
    <3>3. QED BY <3>2
  <2>9. CASE m # 0
    <3>1. PICK h : Sums(h, f, SetsTo(U, m - 1)) BY <2>6, <2>9
    <3> DEFINE D == SetsTo(U, m)
               E == SetsTo(U, m - 1)
               g == [s \in D |-> IF s = {} THEN 0 ELSE f[TakenFrom(s)] + h[Without(s)]]
    <3>2. ASSUME NEW s \in D, s # {} PROVE Without(s) \in E /\ Without(s) \in D
      <4>1. Cardinality(Without(s)) = Cardinality(s) - 1 /\ Cardinality(s) \in Nat
        BY <1>1, <3>2, TakenOut, FS_RemoveElement DEF SetsTo, Without
      <4>2. Without(s) \in SUBSET U BY <3>2, TakenOut DEF SetsTo
      <4>3. Cardinality(s) <= m BY <3>2 DEF SetsTo
      <4>4. QED BY <2>6, <2>9, <4>1, <4>2, <4>3 DEF SetsTo
    <3>3. E \subseteq D BY <1>1, <2>6, <2>9 DEF SetsTo
    <3>4. \A t \in E : h[t] = IF t = {} THEN 0 ELSE f[TakenFrom(t)] + h[Without(t)]
      BY <3>1 DEF Sums
    <3>5. \A t \in E : g[t] = h[t] BY <3>3, <3>4
    <3>6. \A s \in D : s # {} => g[Without(s)] = h[Without(s)] BY <3>2, <3>5
    <3>7. Sums(g, f, D) BY <3>6 DEF Sums
    <3>8. QED BY <3>7
  <2>10. QED BY <2>8, <2>9
<1>3. Cardinality(U) \in Nat /\ SetsTo(U, Cardinality(U)) = SUBSET U
  BY FS_Subset, FS_CardinalityType DEF SetsTo
<1>4. QED BY <1>2, <1>3

\* What MapThenSumSet computes.
SumOf(f, U) == MapThenSumSet(LAMBDA k : f[k], U)

LEMMA SumIs ==
    ASSUME NEW U, IsFiniteSet(U), NEW f
    PROVE  \E g : Sums(g, f, SUBSET U) /\ SumOf(f, U) = g[U]
<1> DEFINE it == CHOOSE g : Sums(g, f, SUBSET U)
<1>1. Sums(it, f, SUBSET U) BY SumsExist
<1>2. SumOf(f, U) = it[U]
  BY DEF SumOf, MapThenSumSet, MapThenFoldSet, Sums, TakenFrom, Without
<1>3. QED BY <1>1, <1>2

\* Its equations.
LEMMA SumsEach ==
    ASSUME NEW U, NEW f, NEW g, Sums(g, f, SUBSET U)
    PROVE  /\ g[{}] = 0
           /\ \A s \in SUBSET U : s # {} => g[s] = f[TakenFrom(s)] + g[Without(s)]
BY DEF Sums

LEMMA SumsNat ==
    ASSUME NEW U, IsFiniteSet(U), NEW f, \A x \in U : f[x] \in Nat,
           NEW g, Sums(g, f, SUBSET U)
    PROVE  \A s \in SUBSET U : g[s] \in Nat
<1> DEFINE X == {s \in SUBSET U : g[s] \notin Nat}
<1>1. SUFFICES ASSUME X # {} PROVE FALSE OBVIOUS
<1>2. X \in SUBSET SUBSET U OBVIOUS
<1> HIDE DEF X
<1>3. PICK s \in X : \A t \in X : t \subseteq s => t = s BY <1>1, <1>2, SmallestOf
<1> USE DEF X
<1>4. s # {}
  <2>1. g[{}] = 0 BY SumsEach
  <2>2. g[s] \notin Nat /\ 0 \in Nat BY <1>3
  <2> HIDE DEF X
  <2>3. QED BY <2>1, <2>2, Zenon
<1>5. Without(s) \in SUBSET U /\ Without(s) # s /\ Without(s) \subseteq s /\ TakenFrom(s) \in U
  BY <1>3, <1>4, TakenOut
<1>6. g[Without(s)] \in Nat BY <1>3, <1>5
<1>7. QED BY <1>3, <1>4, <1>5, <1>6, SumsEach

\* Any element may be taken out first.
LEMMA SumsAny ==
    ASSUME NEW U, IsFiniteSet(U), NEW f, \A x \in U : f[x] \in Nat,
           NEW g, Sums(g, f, SUBSET U)
    PROVE  \A s \in SUBSET U : \A x \in s : g[s] = f[x] + g[s \ {x}]
<1> DEFINE X == {s \in SUBSET U : ~ \A x \in s : g[s] = f[x] + g[s \ {x}]}
<1>1. SUFFICES ASSUME X # {} PROVE FALSE OBVIOUS
<1>2. X \in SUBSET SUBSET U OBVIOUS
<1> HIDE DEF X
<1>3. PICK s \in X : \A t \in X : t \subseteq s => t = s BY <1>1, <1>2, SmallestOf
<1> USE DEF X
<1>4. s \in SUBSET U BY <1>3
<1>5. PICK x \in s : g[s] # f[x] + g[s \ {x}] BY <1>3
<1> DEFINE c == TakenFrom(s)
<1>6. c \in s /\ Without(s) = s \ {c} BY <1>5, TakenOut DEF Without
<1>7. g[s] = f[c] + g[s \ {c}]
  <2>1. g[s] = f[TakenFrom(s)] + g[Without(s)] BY <1>4, <1>5, SumsEach
  <2>2. QED BY <1>6, <2>1
<1> HIDE DEF c
<1>8. x # c BY <1>5, <1>7
<1>9. \A t \in SUBSET s : t # s => \A y \in t : g[t] = f[y] + g[t \ {y}]
  BY <1>3, <1>4
<1>10. g[s \ {c}] = f[x] + g[(s \ {c}) \ {x}]
  <2>1. s \ {c} \in SUBSET s /\ s \ {c} # s /\ x \in s \ {c} BY <1>5, <1>6, <1>8
  <2>2. QED BY <1>9, <2>1
<1>11. g[s \ {x}] = f[c] + g[(s \ {x}) \ {c}]
  <2>1. s \ {x} \in SUBSET s /\ s \ {x} # s /\ c \in s \ {x} BY <1>5, <1>6, <1>8
  <2>2. QED BY <1>9, <2>1
<1>12. (s \ {c}) \ {x} = (s \ {x}) \ {c} OBVIOUS
<1> DEFINE w == (s \ {x}) \ {c}
<1>13. g[w] \in Nat /\ f[x] \in Nat /\ f[c] \in Nat
  BY <1>4, <1>5, <1>6, SumsNat
<1>14. g[s] = f[c] + (f[x] + g[w]) /\ g[s \ {x}] = f[c] + g[w]
  BY <1>7, <1>10, <1>11, <1>12
<1> HIDE DEF w
<1>15. g[s] = f[x] + g[s \ {x}] BY <1>13, <1>14
<1>16. QED BY <1>5, <1>15

\* Two sums over the same elements agree.
LEMMA SumsAgree ==
    ASSUME NEW U, NEW V, IsFiniteSet(U), NEW f, NEW e, NEW g, NEW h,
           Sums(g, f, SUBSET U), Sums(h, e, SUBSET V),
           NEW W \in SUBSET U, W \subseteq V, \A x \in W : f[x] = e[x]
    PROVE  g[W] = h[W]
<1> DEFINE X == {s \in SUBSET W : g[s] # h[s]}
<1>1. SUFFICES ASSUME X # {} PROVE FALSE OBVIOUS
<1>2. X \in SUBSET SUBSET W /\ IsFiniteSet(W) BY FS_Subset
<1> HIDE DEF X
<1>3. PICK s \in X : \A t \in X : t \subseteq s => t = s BY <1>1, <1>2, SmallestOf
<1> USE DEF X
<1>4. s \in SUBSET W /\ s \in SUBSET U /\ s \in SUBSET V /\ g[s] # h[s] BY <1>3
<1>5. s # {} BY <1>4, SumsEach
<1>6. /\ TakenFrom(s) \in W /\ Without(s) \in SUBSET W
      /\ Without(s) \subseteq s /\ Without(s) # s
  BY <1>4, <1>5, TakenOut
<1>7. g[Without(s)] = h[Without(s)] BY <1>3, <1>6
<1>8. g[s] = f[TakenFrom(s)] + g[Without(s)] BY <1>4, <1>5, SumsEach
<1>9. h[s] = e[TakenFrom(s)] + h[Without(s)] BY <1>4, <1>5, SumsEach
<1>10. QED BY <1>4, <1>6, <1>7, <1>8, <1>9

\* Less is summed up to less.
LEMMA SumsLess ==
    ASSUME NEW U, IsFiniteSet(U), NEW f, \A x \in U : f[x] \in Nat,
           NEW g, Sums(g, f, SUBSET U), NEW W \in SUBSET U
    PROVE  g[W] <= g[U]
<1> DEFINE X == {s \in SUBSET U : W \subseteq s /\ ~(g[W] <= g[s])}
<1>1. SUFFICES ASSUME X # {} PROVE FALSE OBVIOUS
<1>2. X \in SUBSET SUBSET U OBVIOUS
<1> HIDE DEF X
<1>3. PICK s \in X : \A t \in X : t \subseteq s => t = s BY <1>1, <1>2, SmallestOf
<1> USE DEF X
<1>4. s \in SUBSET U /\ W \subseteq s /\ ~(g[W] <= g[s]) BY <1>3
<1>5. \A t \in SUBSET U : g[t] \in Nat BY SumsNat
<1>6. s # W BY <1>4, <1>5
<1>7. PICK x \in s : x \notin W BY <1>4, <1>6
<1>8. s \ {x} \in SUBSET U /\ W \subseteq s \ {x} /\ s \ {x} # s BY <1>4, <1>7
<1>9. g[W] <= g[s \ {x}] BY <1>3, <1>8
<1>10. g[s] = f[x] + g[s \ {x}] BY <1>4, <1>7, SumsAny
<1>11. QED BY <1>4, <1>5, <1>7, <1>8, <1>9, <1>10

-----------------------------------------------------------------------------
\* The three facts about sums that the budget needs: they are numbers, an
\* element more adds its own, and a part is not more than the whole.
LEMMA SumNat ==
    ASSUME NEW U, IsFiniteSet(U), NEW f, \A x \in U : f[x] \in Nat
    PROVE  SumOf(f, U) \in Nat
<1>1. PICK g : Sums(g, f, SUBSET U) /\ SumOf(f, U) = g[U] BY SumIs
<1>2. QED BY <1>1, SumsNat

LEMMA SumAdd ==
    ASSUME NEW U, IsFiniteSet(U), NEW f, \A x \in U : f[x] \in Nat,
           NEW y, y \notin U, f[y] \in Nat
    PROVE  SumOf(f, U \cup {y}) = SumOf(f, U) + f[y]
<1> DEFINE V == U \cup {y}
<1>1. IsFiniteSet(V) /\ \A x \in V : f[x] \in Nat BY FS_AddElement
<1>2. PICK g : Sums(g, f, SUBSET U) /\ SumOf(f, U) = g[U] BY SumIs
<1>3. PICK h : Sums(h, f, SUBSET V) /\ SumOf(f, V) = h[V] BY <1>1, SumIs
<1>4. V \in SUBSET V /\ y \in V /\ V \ {y} = U /\ U \in SUBSET V OBVIOUS
<1> HIDE DEF V
<1>5. h[V] = f[y] + h[U]
  <2>1. V \in SUBSET V OBVIOUS
  <2>2. IsFiniteSet(V) /\ (\A x \in V : f[x] \in Nat) /\ Sums(h, f, SUBSET V)
    BY <1>1, <1>3
  <2>3. h[V] = f[y] + h[V \ {y}] BY <1>4, <2>1, <2>2, SumsAny
  <2>4. QED BY <1>4, <2>3
<1>6. g[U] = h[U] BY <1>2, <1>3, <1>4, SumsAgree
<1>7. h[U] \in Nat BY <1>1, <1>3, <1>4, SumsNat
<1>8. QED BY <1>2, <1>3, <1>5, <1>6, <1>7 DEF V

LEMMA SumSame ==
    ASSUME NEW U, IsFiniteSet(U), NEW f, NEW e, \A x \in U : f[x] = e[x]
    PROVE  SumOf(f, U) = SumOf(e, U)
<1>1. PICK g : Sums(g, f, SUBSET U) /\ SumOf(f, U) = g[U] BY SumIs
<1>2. PICK h : Sums(h, e, SUBSET U) /\ SumOf(e, U) = h[U] BY SumIs
<1>3. QED BY <1>1, <1>2, SumsAgree

LEMMA SumPart ==
    ASSUME NEW U, IsFiniteSet(U), NEW f, \A x \in U : f[x] \in Nat,
           NEW W \in SUBSET U
    PROVE  SumOf(f, W) <= SumOf(f, U)
<1>1. IsFiniteSet(W) BY FS_Subset
<1>2. PICK g : Sums(g, f, SUBSET U) /\ SumOf(f, U) = g[U] BY SumIs
<1>3. PICK h : Sums(h, f, SUBSET W) /\ SumOf(f, W) = h[W] BY <1>1, SumIs
<1>4. h[W] = g[W] BY <1>1, <1>2, <1>3, SumsAgree
<1>5. QED BY <1>2, <1>3, <1>4, SumsLess

LEMMA SumNone == ASSUME NEW f PROVE SumOf(f, {}) = 0
<1>1. PICK g : Sums(g, f, SUBSET {}) /\ SumOf(f, {}) = g[{}] BY SumIs, FS_EmptySet
<1>2. QED BY <1>1, SumsEach

-----------------------------------------------------------------------------
(* What the settled calls cost, while the provider told it every time.      *)

SettledInv == \A k \in Calls : call[k] = "settled" => Key("SETTLE", k)
TokensInv ==
    ~budget.unknown => budget.tokens = SumOf(spent, KeyOf("SETTLE", Calls))

CostInv == SettledInv /\ TokensInv

\* A step that leaves the counters, the keys of calls and what was spent alone.
LEMMA CostStays ==
    ASSUME CostInv,
           \/ budget'.tokens = budget.tokens /\ budget'.unknown = budget.unknown
           \/ budget'.unknown = TRUE,
           \A k \in Calls : Key("SETTLE", k)' <=> Key("SETTLE", k),
           \A k \in Calls : Key("SETTLE", k) => spent'[k] = spent[k],
           \A k \in Calls : call'[k] = "settled" => call[k] = "settled"
    PROVE  CostInv'
<1> DEFINE K == KeyOf("SETTLE", Calls)
<1>1. SettledInv' BY DEF CostInv, SettledInv
<1>2. K' = K BY DEF KeyOf
<1>3. \A k \in K : spent'[k] = spent[k] BY DEF KeyOf
<1>4. IsFiniteSet(K) BY Finite
<1> HIDE DEF K
<1>5. SumOf(spent', K) = SumOf(spent, K) BY <1>3, <1>4, SumSame
<1>6. TokensInv'
  BY <1>2, <1>5 DEF CostInv, TokensInv, K
<1>7. QED BY <1>1, <1>6 DEF CostInv

\* A settlement counts what its call cost, or leaves the usage unknown.
LEMMA CostSettled ==
    ASSUME Inv, CostInv, NEW k \in Calls, call[k] = "made",
           Settle(k) \/ SettleReplyLost(k)
    PROVE  CostInv'
<1>1. /\ spent' = spent /\ call' \in {call, [call EXCEPT ![k] = "settled"]}
      /\ call \in [Calls -> CallStates] /\ spent \in [Calls -> Nat]
      /\ budget.tokens \in Nat
  BY DEF Settle, SettleReplyLost, Inv, TypeOK
<1>2. PICK known \in BOOLEAN : SettleTx(k, known)
  BY DEF Settle, SettleReplyLost
<1>3. ledger' = ledger \cup {<<"SETTLE", k>>} BY <1>2 DEF SettleTx
<1>4. \A y : Key("SETTLE", y)' <=> (Key("SETTLE", y) \/ y = k)
  BY <1>3 DEF Key
<1>5. SettledInv' BY <1>1, <1>4 DEF CostInv, SettledInv
<1>6. TokensInv'
  <2>1. CASE Key("SETTLE", k)
    <3>1. KeyOf("SETTLE", Calls)' = KeyOf("SETTLE", Calls) BY <1>4, <2>1 DEF KeyOf
    <3>2. budget' = budget BY <1>2, <2>1 DEF SettleTx, Key
    <3>3. QED BY <1>1, <3>1, <3>2 DEF CostInv, TokensInv
  <2>2. CASE ~Key("SETTLE", k)
    <3> DEFINE K == KeyOf("SETTLE", Calls)
    <3>1. K' = K \cup {k} /\ k \notin K BY <1>4, <2>2 DEF KeyOf
    <3>2. /\ budget'.unknown = (budget.unknown \/ ~known)
          /\ known => budget'.tokens = budget.tokens + spent[k]
      BY <1>2, <2>2 DEF SettleTx, Key, Inv, TypeOK
    <3>3. IsFiniteSet(K) /\ (\A x \in K : spent[x] \in Nat) /\ spent[k] \in Nat
      BY <1>1, Finite DEF KeyOf
    <3> HIDE DEF K
    <3>4. SumOf(spent, K \cup {k}) = SumOf(spent, K) + spent[k]
      BY <3>1, <3>3, SumAdd
    <3>5. SUFFICES ASSUME ~(budget'.unknown)
                   PROVE  budget'.tokens = SumOf(spent', KeyOf("SETTLE", Calls)')
      BY DEF TokensInv
    <3>6. ~budget.unknown /\ known BY <3>2, <3>5
    <3>7. budget.tokens = SumOf(spent, K) BY <3>6 DEF CostInv, TokensInv, K
    <3>8. budget'.tokens = SumOf(spent, K \cup {k}) BY <3>2, <3>4, <3>6, <3>7
    <3>9. QED BY <1>1, <3>1, <3>8 DEF K
  <2>3. QED BY <2>1, <2>2
<1>7. QED BY <1>5, <1>6 DEF CostInv

LEMMA CostKept ==
    ASSUME Inv, CostInv, [Next]_vars
    PROVE  CostInv'
<1>0. call \in [Calls -> CallStates] /\ spent \in [Calls -> Nat] BY DEF Inv, TypeOK
<1>1. CASE Configure \/ UNCHANGED vars
  BY <1>1, SameKeys, CostStays DEF Configure, vars
<1>2. ASSUME NEW k \in Calls, Reserve(k) \/ ReserveReplyLost(k) PROVE CostInv'
  <2>1. /\ spent' = spent /\ call' \in {call, [call EXCEPT ![k] = "reserved"]}
        /\ ledger' \in {ledger, ledger \cup {<<"RESERVE", k>>}}
        /\ budget' \in {budget, [budget EXCEPT !.reserved = @ + 1]}
    BY <1>2 DEF Reserve, ReserveReplyLost, ReserveTx
  <2>2. \A y : Key("SETTLE", y)' <=> Key("SETTLE", y) BY <2>1 DEF Key
  <2>3. \A y \in Calls : call'[y] = "settled" => call[y] = "settled" BY <1>0, <2>1
  <2>4. budget'.tokens = budget.tokens /\ budget'.unknown = budget.unknown
    BY <2>1 DEF Inv, TypeOK
  <2>5. QED BY <2>1, <2>2, <2>3, <2>4, CostStays
<1>3. ASSUME NEW k \in Calls, ReserveRefused(k) \/ Abandon(k) \/ Make(k) PROVE CostInv'
  <2>1. budget' = budget /\ ledger' = ledger
    BY <1>3 DEF ReserveRefused, Abandon, Make
  <2>2. \A y \in Calls : call'[y] = "settled" => call[y] = "settled"
    BY <1>0, <1>3 DEF ReserveRefused, Abandon, Make
  <2>3. ~Key("SETTLE", k) \/ spent' = spent
    BY <1>3 DEF ReserveRefused, Abandon, Make, Inv, KeysInv
  <2>4. \A y \in Calls : Key("SETTLE", y) => spent'[y] = spent[y]
    BY <1>0, <1>3, <2>3 DEF ReserveRefused, Abandon, Make
  <2>5. QED BY <2>1, <2>2, <2>4, SameKeys, CostStays
<1>4. ASSUME NEW k \in Calls, Settle(k) \/ SettleReplyLost(k) PROVE CostInv'
  BY <1>4, CostSettled DEF Settle, SettleReplyLost
<1>5. ASSUME NEW k \in Calls, Release(k) \/ ReleaseReplyLost(k) PROVE CostInv'
  <2>1. /\ spent' = spent
        /\ call' \in {[call EXCEPT ![k] = "released"], [call EXCEPT ![k] = "releasing"]}
        /\ ledger' \in {ledger, ledger \cup {<<"RELEASE", k>>}}
        /\ budget' \in {budget, [budget EXCEPT !.reserved = Minus(@, 1)]}
    BY <1>5 DEF Release, ReleaseReplyLost, ReleaseTx
  <2>2. \A y : Key("SETTLE", y)' <=> Key("SETTLE", y) BY <2>1 DEF Key
  <2>3. \A y \in Calls : call'[y] = "settled" => call[y] = "settled" BY <1>0, <2>1
  <2>4. budget'.tokens = budget.tokens /\ budget'.unknown = budget.unknown
    BY <2>1 DEF Inv, TypeOK
  <2>5. QED BY <2>1, <2>2, <2>3, <2>4, CostStays
<1>6. ASSUME NEW a \in Attempts, SettleAttempt(a) PROVE CostInv'
  <2>1. /\ spent' = spent /\ call' = call
        /\ ledger' \in {ledger, ledger \cup {<<"SETTLE", a>>}}
        /\ budget' = budget \/ budget'.unknown = TRUE
    BY <1>6 DEF SettleAttempt, Inv, TypeOK
  <2>2. \A y \in Calls : y # a BY KeysAssumption
  <2>3. \A y \in Calls : Key("SETTLE", y)' <=> Key("SETTLE", y)
    BY <2>1, <2>2 DEF Key
  <2>4. QED BY <2>1, <2>3, CostStays
<1>7. QED BY <1>1, <1>2, <1>3, <1>4, <1>5, <1>6 DEF Next

LEMMA AlwaysCosted == Spec => []CostInv
<1>1. Init => CostInv
  <2> SUFFICES ASSUME Init PROVE CostInv OBVIOUS
  <2>1. SettledInv BY DEF Init, SettledInv
  <2>2. KeyOf("SETTLE", Calls) = {} BY DEF Init, KeyOf, Key
  <2>3. SumOf(spent, {}) = 0 BY SumNone
  <2>4. QED BY <2>1, <2>2, <2>3 DEF CostInv, TokensInv, Init
<1>2. Inv /\ CostInv /\ [Next]_vars => CostInv' BY CostKept
<1>3. QED BY <1>1, <1>2, Invariance, PTL DEF Spec

-----------------------------------------------------------------------------
\* The gate knows of every call in hand, those of dead callers included.
LEMMA GateCountsCalls ==
    ASSUME Inv, configured, ~Exceeded(0)
    PROVE  Within(Cardinality(CallsIn({"reserved", "made", "settled",
                                       "abandoned"})), MaxLlmCalls)
<1>1. Within(budget.used + budget.reserved, MaxLlmCalls) BY DEF Exceeded
<1>2. QED
  BY <1>1, InHand, LimitsAssumption
  DEF NoCallUncounted, Within, Limits, Inv, TypeOK

\* It knows what they cost, or it knows that it does not.
LEMMA GateKnowsCost ==
    ASSUME Inv, CostInv, configured, ~Exceeded(0)
    PROVE  Within(SumOf(spent, CallsIn({"settled"})), MaxTokens)
<1>1. CASE MaxTokens = Unmetered BY <1>1 DEF Within
<1>2. CASE MaxTokens # Unmetered
  <2> DEFINE K == KeyOf("SETTLE", Calls)
             C == CallsIn({"settled"})
  <2>1. ~budget.unknown /\ budget.tokens <= MaxTokens
    BY <1>2 DEF Exceeded, Within
  <2>2. budget.tokens = SumOf(spent, K) BY <2>1 DEF CostInv, TokensInv
  <2>3. C \in SUBSET K BY DEF CostInv, SettledInv, CallsIn, KeyOf
  <2>4. IsFiniteSet(K) /\ IsFiniteSet(C) BY <2>3, Finite, FS_Subset
  <2>5. (\A x \in K : spent[x] \in Nat) /\ (\A x \in C : spent[x] \in Nat)
    BY DEF KeyOf, CallsIn, Inv, TypeOK
  <2> HIDE DEF K, C
  <2>6. SumOf(spent, C) <= SumOf(spent, K) BY <2>3, <2>4, <2>5, SumPart
  <2>7. SumOf(spent, C) \in Nat /\ SumOf(spent, K) \in Nat
    BY <2>4, <2>5, SumNat
  <2>8. MaxTokens \in Nat BY <1>2, LimitsAssumption DEF Limits
  <2>9. SumOf(spent, C) <= MaxTokens BY <2>1, <2>2, <2>6, <2>7, <2>8
  <2>10. QED BY <2>9 DEF Within, C
<1>3. QED BY <1>1, <1>2

\* A gate that lets the run go on is right to: what its settled calls really
\* cost together is within the token limit (an UNKNOWN usage stops it, and is
\* never a zero), and so is the number of calls in hand.
THEOREM GateSound == Spec => []GateIsSound
<1>1. ASSUME Inv, CostInv PROVE GateIsSound
  <2>1. SUFFICES ASSUME configured, ~Exceeded(0)
                 PROVE  /\ Within(SumOf(spent, CallsIn({"settled"})), MaxTokens)
                        /\ Within(Cardinality(CallsIn({"reserved", "made", "settled",
                                                       "abandoned"})), MaxLlmCalls)
    BY DEF GateIsSound, SumOf
  <2>2. QED BY <1>1, <2>1, GateCountsCalls, GateKnowsCost
<1>2. Inv /\ CostInv => GateIsSound BY <1>1
<1>3. QED BY <1>2, Invariance, AlwaysCosted, PTL
=============================================================================
