--------------------------- MODULE MCControlFlow ----------------------------
(* Three-bit words: the six phases, two words that are no phase, and a      *)
(* signature that takes the word of another phase.                          *)
EXTENDS ControlFlow

MCWord == 0 .. 7
MCSignature == [p \in MCWord |-> (5 * p + 3) % 8]
=============================================================================
