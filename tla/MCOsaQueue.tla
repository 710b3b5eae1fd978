----------------------------- MODULE MCOsaQueue -----------------------------
(* OsaQueue for TLC. *)
EXTENDS OsaQueue
=============================================================================
