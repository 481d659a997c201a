-------------------------- MODULE MCRecoveryBlock --------------------------
(* Two-bit words, with the code's checksum round at that width.  Low is 1   *)
(* so that a value can also be below the range.                             *)
EXTENDS RecoveryBlock, Bitwise

MCWord == 0 .. 3
RotateLeft(x) == ((2 * x) % 4) + (x \div 2)
MCMix == [hw \in MCWord \X MCWord |-> RotateLeft(((hw[1] ^^ hw[2]) * 3) % 4)]
MCUpdate == [s \in 0 .. 1 |-> 2 - s]
MCFlips == {<<"value", 0>>, <<"value", 1>>, <<"max", 3>>, <<"checksum", 0>>}
MCFlip == [w \in MCWord |-> w ^^ 2]
=============================================================================
