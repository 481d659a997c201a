------------------------------- MODULE MCTmr --------------------------------
(* Four integers, so that all copies can differ from each other and from    *)
(* the value written, and a count that saturates at 2.                      *)
EXTENDS Tmr, TLC

CONSTANTS v1, v2, v3, v4

Symmetry == Permutations({v1, v2, v3, v4})
=============================================================================
