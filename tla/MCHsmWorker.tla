---------------------------- MODULE MCHsmWorker ----------------------------
(* HsmWorker for TLC. *)
EXTENDS HsmWorker
=============================================================================
