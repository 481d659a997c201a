---------------------------- MODULE MCCheckpoint ----------------------------
(* Two-bit words: every round of the checksum is the code's xor, multiply   *)
(* by an odd number and rotate, at that width.                              *)
EXTENDS Checkpoint, Bitwise

MCWord == 0 .. 3
RotateLeft(x) == ((2 * x) % 4) + (x \div 2)
MCMix == [hw \in MCWord \X MCWord |-> RotateLeft(((hw[1] ^^ hw[2]) * 3) % 4)]
=============================================================================
