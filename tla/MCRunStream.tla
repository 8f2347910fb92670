---------------------------- MODULE MCRunStream -----------------------------
\* RunStream for TLC: one run, that of a chat or of a case, and one page.
EXTENDS RunStream

MCThreads == {"worker", "deadline"} \X Runs
=============================================================================
