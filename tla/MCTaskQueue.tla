---- MODULE MCTaskQueue ----
(* TaskQueue on small instances.  Slots and tasks are interchangeable, but *)
(* the liveness property rules symmetry out.                               *)
EXTENDS TaskQueue
============================
