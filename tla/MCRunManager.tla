---------------------------- MODULE MCRunManager ----------------------------
\* RunManager for TLC: two turns in one chat.
EXTENDS RunManager

MCThreads == {"worker", "deadline"} \X Runs
RunSymmetry == Permutations(Runs)
=============================================================================
