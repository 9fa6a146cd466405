---------------------------- MODULE MCWorkerNode ----------------------------
(* Small instances of WorkerNode for TLC. *)
EXTENDS WorkerNode

CONSTANTS x1, x2
=============================================================================
