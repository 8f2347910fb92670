----------------------------- MODULE MCHarness ------------------------------
\* c depends on a and b; the planner may put d between a and c, or drop b.
EXTENDS Replanning
MCGraphs ==
    <<[order |-> <<"a", "b", "c">>,
       needs |-> [t \in Tasks |-> IF t = "c" THEN {"a", "b"} ELSE {}]],
      [order |-> <<"a", "d", "c">>,
       needs |-> [t \in Tasks |-> CASE t = "d" -> {"a"} [] t = "c" -> {"d"} [] OTHER -> {}]],
      [order |-> <<"a", "c">>,
       needs |-> [t \in Tasks |-> IF t = "c" THEN {"a"} ELSE {}]]>>
=============================================================================
