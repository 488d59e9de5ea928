--------------------------- MODULE MCWorkerDrain ----------------------------
(***************************************************************************)
(* Two pods, two actions, the two containers an action needs.              *)
(***************************************************************************)
EXTENDS WorkerDrain

Containers == {"worker", "runner"}
AnyFaults == {{}, {"lost", "down"}}
Lost == {{"lost"}}
=============================================================================
