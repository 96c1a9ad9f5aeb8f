---------------------------- MODULE MCNetSuspend ----------------------------
(* Instances of NetSuspend for TLC. *)
EXTENDS NetSuspend, TLC

\* Sending tasks are interchangeable (safety runs only).
TxSymmetry == Permutations(TxTasks)
=============================================================================
