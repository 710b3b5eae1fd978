------------------------------- MODULE MCHsm -------------------------------
(* Instances of Hsm for TLC. *)
EXTENDS Hsm

CONSTANTS top, mid, leaf, other

\* A hierarchy of three levels and a state beside it.
MCStates == {top, mid, leaf, other}
MCParent == [s \in MCStates |-> CASE s = leaf -> mid
                                  [] s = mid -> top
                                  [] OTHER -> NULL]
=============================================================================
