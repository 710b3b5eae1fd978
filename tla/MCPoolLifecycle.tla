-------------------------- MODULE MCPoolLifecycle --------------------------
(* PoolLifecycle for TLC. *)
EXTENDS PoolLifecycle
=============================================================================
