SPECIFICATION Spec
CONSTANTS
  Word <- MCWord
  Signature <- MCSignature
  MaxFaults = 3
INVARIANTS TypeOK CompletedInOrder StrayWorkIsOneBlock DiagnosisIsRight
