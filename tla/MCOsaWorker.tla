---------------------------- MODULE MCOsaWorker ----------------------------
(* Instances of OsaWorker for TLC. *)
EXTENDS OsaWorker, TLC

\* Workers, jobs and waiting threads are interchangeable in every safety
\* property.
Symmetric ==
    Permutations(Workers) \cup Permutations(Jobs) \cup Permutations(Waiters)
=============================================================================
