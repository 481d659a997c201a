-------------------------- MODULE MCSampleUpdate ---------------------------
(* The code's own constants but for the word, which is just wide enough for *)
(* them: all residues, and inputs beyond the modulus on both sides of a     *)
(* reduction.                                                               *)
EXTENDS SampleUpdate

MCSamples == 0 .. 700 \cup {1399, 1400, 32767}
=============================================================================
