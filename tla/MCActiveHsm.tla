---------------------------- MODULE MCActiveHsm ----------------------------
(* Instances of ActiveHsm for TLC. *)
EXTENDS ActiveHsm, TLC

\* Machines and timers are interchangeable in every safety property.
Symmetric == Permutations(Hsms) \cup Permutations(Timers)
=============================================================================
