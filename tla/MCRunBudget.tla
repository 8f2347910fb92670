---- MODULE MCRunBudget ----
(* RunBudget on small instances. *)
EXTENDS RunBudget
=============================
