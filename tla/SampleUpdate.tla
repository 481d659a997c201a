---------------------------- MODULE SampleUpdate ----------------------------
(***************************************************************************)
(* The two operations of the sample recovery block compute the same value  *)
(* in different ways: the primary multiplies once, the alternate adds      *)
(* Factor times and reduces as it goes.  The machine is the alternate's    *)
(* loop; every step stays within an unsigned word.                         *)
(***************************************************************************)
EXTENDS Naturals

CONSTANTS
  Modulus, Factor, Offset, Base,   \* 700, 37, 17 and 100 in the code
  WordSize,                        \* 2^32 in the code
  Samples                          \* the inputs considered

ASSUME OperandAssumption ==
  /\ Modulus \in Nat \ {0} /\ Factor \in Nat /\ Offset \in 0 .. Modulus - 1
  /\ Base \in Nat /\ WordSize \in Nat \ {0}
  /\ Modulus * Factor + Offset < WordSize
  /\ Base + Modulus < WordSize /\ Modulus + Modulus < WordSize
  /\ Samples \subseteq 0 .. WordSize - 1

VARIABLES
  sample,   \* the operations' input
  acc, i    \* the alternate's accumulator and loop counter

alternateVars == <<sample, acc, i>>

Word32(n) == n % WordSize

Reduced(s) == s % Modulus

(* recovery_block_sample_primary_value *)
PrimaryValue(s) ==
  Word32(Base + (Word32(Word32(Reduced(s) * Factor) + Offset) % Modulus))

(* recovery_block_sample_alternate_value *)
AlternateInit == sample \in Samples /\ acc = Offset /\ i = 0

AddUnreduced ==
  /\ i < Factor
  /\ acc' = Word32(acc + Reduced(sample))
  /\ i' = i + 1
  /\ UNCHANGED sample

Add ==
  /\ i < Factor
  /\ acc' = Word32(acc + Reduced(sample)) % Modulus
  /\ i' = i + 1
  /\ UNCHANGED sample

AlternateNext == Add

AlternateSpec == AlternateInit /\ [][AlternateNext]_alternateVars

AlternateValue == Word32(Base + acc)

-----------------------------------------------------------------------------
AlternateTypeOK == sample \in Samples /\ acc \in 0 .. Modulus - 1 /\ i \in 0 .. Factor

(* When the loop ends the alternate has computed the primary's value: the  *)
(* second version is a substitute for the first on every input, not only   *)
(* on those a test tries.                                                  *)
OperationsAgree == i = Factor => AlternateValue = PrimaryValue(sample)
=============================================================================
