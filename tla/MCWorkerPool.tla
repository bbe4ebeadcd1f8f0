---------------------------- MODULE MCWorkerPool ----------------------------
(***************************************************************************)
(* Two workers, channels of one, and more tasks than a channel holds.  The  *)
(* second call dispatches one of the first one's ids again.                 *)
(***************************************************************************)
EXTENDS WorkerPool

MCBatch == [d \in {"a", "b"} |-> IF d = "a" THEN <<1, 2>> ELSE <<1>>]
=============================================================================
