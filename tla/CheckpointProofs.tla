-------------------------- MODULE CheckpointProofs --------------------------
(***************************************************************************)
(* Theorems of Checkpoint for every word size, every checksum round that   *)
(* meets MixAssumption, every set of program values and any number of      *)
(* upsets.                                                                  *)
(***************************************************************************)
EXTENDS Checkpoint, CheckerProofs

USE DEF Passed

(* The initial record is sealed and holds the value it was made with.      *)
LEMMA SampleHolds ==
  ASSUME NEW v \in Values
  PROVE  Sample(v) \in Record /\ Sample(v)["value"] = v
<1>1. /\ Tag \in Word /\ v \in Word /\ Low \in Word
      /\ High \in Word /\ Length \in Word /\ Capacity \in Word
  BY SampleAssumption
<1>2. /\ RecordInit(Tag, v, Low, High, Length, Capacity) \in Record
      /\ RecordInit(Tag, v, Low, High, Length, Capacity)["value"] = v
  BY ONLY <1>1, InitSeals
<1> QED
  BY <1>2 DEF Sample

(* Every variable stays in its type: in particular the records stay made   *)
(* of words, whatever is copied, resealed or hit.                          *)
THEOREM TypeCorrect == Spec => []TypeOK
<1>1. Init => TypeOK
  <2> SUFFICES ASSUME Init PROVE TypeOK
    OBVIOUS
  <2>1. PICK v \in Values : active = Sample(v)
    BY DEF Init
  <2>2. active \in Record
    BY <2>1, SampleHolds
  <2>3. checkpoint \in Record /\ upsets \in 0 .. MaxUpsets
    BY <2>2, SampleAssumption DEF Init
  <2> QED
    BY <2>2, <2>3 DEF Init, TypeOK, Points, Copies, Result, NoResult,
                      CheckStatus
<1>2. TypeOK /\ [Next]_vars => TypeOK'
  <2> SUFFICES ASSUME TypeOK, [Next]_vars PROVE TypeOK'
    OBVIOUS
  <2> USE DEF TypeOK
  <2>0. /\ Validate(active) \in CheckStatus
        /\ Validate(checkpoint) \in CheckStatus
    BY DEF Validate, CheckStatus, RequireSampleTag, RequireRange,
           RequireLength, RequireChecksum
  <2>1. ASSUME NEW v \in Values, Update(v) PROVE TypeOK'
    <3>1. [active EXCEPT !["value"] = v] \in Record
      BY SampleAssumption DEF Record, Fields
    <3>2. active' \in Record
      BY <2>1, <3>1, RefreshSeals DEF Update
    <3> QED
      BY <2>1, <3>2 DEF Update, Copies
  <2>r. ASSUME NEW call \in {"capture", "restore", "commit"},
               NEW check \in CheckStatus
        PROVE  /\ [NoResult(call) EXCEPT !.active_check = check] \in Result
               /\ [NoResult(call) EXCEPT !.checkpoint_check = check] \in Result
    BY DEF NoResult, Result, CheckStatus
  <2>2. CASE Capture
    BY <2>0, <2>2, <2>r DEF Capture, Begin, Points, Copies
  <2>3. CASE Restore
    BY <2>0, <2>3, <2>r DEF Restore, Begin, Points, Copies
  <2>4. CASE CommitOrRestart
    BY <2>0, <2>4, <2>r DEF CommitOrRestart, Begin, Points, Copies
  <2>5. CASE CaptureCopy
    BY <2>5 DEF CaptureCopy, CopyToCheckpoint, Points
  <2>6. CASE RestoreCopy
    BY <2>6 DEF RestoreCopy, CopyToActive, Points
  <2>7. CASE CommitCopy
    BY <2>7 DEF CommitCopy, CopyToCheckpoint, Return, Points, Result
  <2>8. CASE RollbackCheck
    BY <2>0, <2>8 DEF RollbackCheck, Points, Result
  <2>9. CASE RollbackCopy
    BY <2>9 DEF RollbackCopy, CopyToActive, Return, Points, Result
  <2>10. ASSUME NEW copy \in Copies, NEW f \in Fields, NEW w \in Word,
                Upset(copy, f, w)
         PROVE  TypeOK'
    <3>1. /\ [active EXCEPT ![f] = w] \in Record
          /\ [checkpoint EXCEPT ![f] = w] \in Record
      BY DEF Record
    <3>2. upsets' \in 0 .. MaxUpsets
      BY <2>10, SampleAssumption DEF Upset
    <3> QED
      BY <2>10, <3>1, <3>2 DEF Upset, Copies
  <2>11. CASE UNCHANGED vars
    BY <2>11 DEF vars
  <2> QED
    BY <2>1, <2>2, <2>3, <2>4, <2>5, <2>6, <2>7, <2>8, <2>9, <2>10, <2>11
       DEF Next
<1> QED
  BY <1>1, <1>2, PTL DEF Spec

-----------------------------------------------------------------------------
(* An upset of an undamaged copy always leaves a copy that fails.          *)
LEMMA UpsetIsDetected ==
  ASSUME NEW r \in Record, NEW f \in Fields, NEW w \in Word,
         Sealed(r), w # r[f]
  PROVE  ~Valid([r EXCEPT ![f] = w])
<1> DEFINE s == [r EXCEPT ![f] = w]
<1>1. s \in Record /\ DifferOnlyIn(r, s, f)
  BY DEF Record, DifferOnlyIn
<1> HIDE DEF s
<1>2. ~Valid(s)
  BY <1>1, OneWordDetected
<1> QED
  BY <1>2 DEF s

(* The inductive strengthening: at the copy step of a capture or a commit, *)
(* the active record is still the one that passed unless it was hit.       *)
CopySourcePassed ==
  (pc \in {"capture_copy", "commit_copy"} /\ "active" \notin touched)
    => Valid(active)

LossInv == TypeOK /\ CheckpointLostOnlyByUpset /\ CopySourcePassed

(* A checkpoint is lost only to an upset: no sequence of calls, failures   *)
(* and retries makes the library replace a good checkpoint by a record     *)
(* that did not pass validation.                                           *)
THEOREM LossOnlyByUpset == Spec => []CheckpointLostOnlyByUpset
<1>1. Init => CheckpointLostOnlyByUpset /\ CopySourcePassed
  <2> SUFFICES ASSUME Init
               PROVE  CheckpointLostOnlyByUpset /\ CopySourcePassed
    OBVIOUS
  <2>1. Valid(checkpoint)
    BY SampleAssumption DEF Init
  <2> QED
    BY <2>1 DEF Init, CheckpointLostOnlyByUpset, CopySourcePassed
<1>2. LossInv /\ [Next]_vars
        => CheckpointLostOnlyByUpset' /\ CopySourcePassed'
  <2> SUFFICES ASSUME LossInv, [Next]_vars
               PROVE  CheckpointLostOnlyByUpset' /\ CopySourcePassed'
    OBVIOUS
  <2> USE DEF LossInv, CheckpointLostOnlyByUpset, CopySourcePassed
  <2>1. ASSUME NEW v \in Values, Update(v)
        PROVE  CheckpointLostOnlyByUpset' /\ CopySourcePassed'
    BY <2>1 DEF Update, Valid
  <2>2. CASE Capture
    BY <2>2 DEF Capture, Begin, Valid
  <2>3. CASE Restore
    BY <2>3 DEF Restore, Begin, Valid
  <2>4. CASE CommitOrRestart
    BY <2>4 DEF CommitOrRestart, Begin, Valid
  <2>5. CASE CaptureCopy
    BY <2>5 DEF CaptureCopy, CopyToCheckpoint
  <2>6. CASE RestoreCopy
    BY <2>6 DEF RestoreCopy, CopyToActive
  <2>7. CASE CommitCopy
    BY <2>7 DEF CommitCopy, CopyToCheckpoint, Return
  <2>8. CASE RollbackCheck
    BY <2>8 DEF RollbackCheck, Valid
  <2>9. CASE RollbackCopy
    BY <2>9 DEF RollbackCopy, CopyToActive, Return
  <2>10. ASSUME NEW copy \in Copies, NEW f \in Fields, NEW w \in Word,
                Upset(copy, f, w)
         PROVE  CheckpointLostOnlyByUpset' /\ CopySourcePassed'
    BY <2>10 DEF Upset, Copies
  <2>11. CASE UNCHANGED vars
    BY <2>11 DEF vars
  <2> QED
    BY <2>1, <2>2, <2>3, <2>4, <2>5, <2>6, <2>7, <2>8, <2>9, <2>10, <2>11
       DEF Next
<1> QED
  BY <1>1, <1>2, TypeCorrect, PTL DEF Spec, LossInv

-----------------------------------------------------------------------------
(* The inductive strengthening: what the call under way has recorded, and  *)
(* the copy it is about to read is still the one it validated unless that  *)
(* copy was touched.                                                       *)
PendingReport ==
  /\ pc = "capture_copy" => result.call = "capture" /\ Passed(result.active_check)
  /\ pc = "restore_copy" => result.call = "restore" /\ Passed(result.checkpoint_check)
  /\ pc \in {"commit_copy", "rollback_check", "rollback_copy"} => result.call = "commit"
  /\ touched = {} =>
       /\ pc \in {"capture_copy", "commit_copy"} => Valid(active)
       /\ pc \in {"restore_copy", "rollback_copy"} => Valid(checkpoint)
       /\ pc = "rollback_check"
            => result.active_check = Validate(active) /\ ~Valid(active)

ReportInv == TypeOK /\ ReportIsTruthful /\ PendingReport

(* The status and checks a call returns describe the two copies as they    *)
(* are, until somebody else writes one of them.                            *)
THEOREM ReportsAreTruthful == Spec => []ReportIsTruthful
<1> USE DEF CopiesAgree, Valid
<1>1. Init => ReportIsTruthful /\ PendingReport
  <2> SUFFICES ASSUME Init PROVE ReportIsTruthful /\ PendingReport
    OBVIOUS
  <2>1. Valid(active) /\ active = checkpoint
    BY SampleAssumption DEF Init
  <2>2. result.call = "none" /\ pc = "idle"
    BY DEF Init, NoResult
  <2> QED
    BY <2>1, <2>2 DEF ReportIsTruthful, PendingReport
<1>2. ReportInv /\ [Next]_vars => ReportIsTruthful' /\ PendingReport'
  <2> SUFFICES ASSUME ReportInv, [Next]_vars
               PROVE  ReportIsTruthful' /\ PendingReport'
    OBVIOUS
  <2> USE DEF ReportInv
  <2>t. result \in Result
    BY DEF TypeOK
  <2>n. ASSUME NEW call, NEW check
        PROVE  LET a == [NoResult(call) EXCEPT !.active_check = check]
                   c == [NoResult(call) EXCEPT !.checkpoint_check = check]
               IN  /\ a.call = call /\ a.active_check = check
                   /\ c.call = call /\ c.checkpoint_check = check
    BY DEF NoResult
  <2>1. ASSUME NEW v \in Values, Update(v)
        PROVE  ReportIsTruthful' /\ PendingReport'
    BY <2>1 DEF Update, ReportIsTruthful, PendingReport
  <2>2. CASE Capture
    <3>1. /\ result'.call = "capture"
          /\ result'.active_check = Validate(active)
          /\ pc' = IF Valid(active) THEN "capture_copy" ELSE "idle"
          /\ active' = active /\ checkpoint' = checkpoint
      BY <2>2, <2>n DEF Capture, Begin
    <3> QED
      BY <3>1 DEF ReportIsTruthful, PendingReport
  <2>3. CASE Restore
    <3>1. /\ result'.call = "restore"
          /\ result'.checkpoint_check = Validate(checkpoint)
          /\ pc' = IF Valid(checkpoint) THEN "restore_copy" ELSE "idle"
          /\ active' = active /\ checkpoint' = checkpoint
      BY <2>3, <2>n DEF Restore, Begin
    <3> QED
      BY <3>1 DEF ReportIsTruthful, PendingReport
  <2>4. CASE CommitOrRestart
    <3>1. /\ result'.call = "commit"
          /\ result'.active_check = Validate(active)
          /\ pc' = IF Valid(active) THEN "commit_copy" ELSE "rollback_check"
          /\ active' = active /\ checkpoint' = checkpoint
      BY <2>4, <2>n DEF CommitOrRestart, Begin
    <3> QED
      BY <3>1 DEF ReportIsTruthful, PendingReport
  <2>5. CASE CaptureCopy
    BY <2>5 DEF CaptureCopy, CopyToCheckpoint, ReportIsTruthful, PendingReport
  <2>6. CASE RestoreCopy
    BY <2>6 DEF RestoreCopy, CopyToActive, ReportIsTruthful, PendingReport
  <2>7. CASE CommitCopy
    BY <2>7, <2>t DEF CommitCopy, CopyToCheckpoint, Return, Result,
                      ReportIsTruthful, PendingReport
  <2>8. CASE RollbackCheck
    BY <2>8, <2>t DEF RollbackCheck, Result, ReportIsTruthful, PendingReport
  <2>9. CASE RollbackCopy
    BY <2>9, <2>t DEF RollbackCopy, CopyToActive, Return, Result,
                      ReportIsTruthful, PendingReport
  <2>10. ASSUME NEW copy \in Copies, NEW f \in Fields, NEW w \in Word,
                Upset(copy, f, w)
         PROVE  ReportIsTruthful' /\ PendingReport'
    BY <2>10 DEF Upset, ReportIsTruthful, PendingReport
  <2>11. CASE UNCHANGED vars
    BY <2>11 DEF vars, ReportIsTruthful, PendingReport
  <2> QED
    BY <2>1, <2>2, <2>3, <2>4, <2>5, <2>6, <2>7, <2>8, <2>9, <2>10, <2>11
       DEF Next
<1> QED
  BY <1>1, <1>2, TypeCorrect, PTL DEF Spec, ReportInv

-----------------------------------------------------------------------------
(* The double record implements the stable store: read through validation, *)
(* no interleaving of calls, updates and single-word upsets ever makes     *)
(* either copy hold a value nobody wrote there.                            *)
THEOREM ImplementsStableStore == Spec => NeverLies
<1> USE DEF Store!storeVars, Store!StoreNext, Store!Write, Store!Commit,
            Store!Rollback, Store!LoseWork, Store!LoseSaved
<1>1. Init => Store!StoreInit
  <2> SUFFICES ASSUME Init PROVE Store!StoreInit
    OBVIOUS
  <2>1. PICK v \in Values : active = Sample(v)
    BY DEF Init
  <2>2. Valid(active)
    BY <2>1, SampleAssumption
  <2>3. active["value"] = v
    BY <2>1, SampleHolds
  <2> QED
    BY <2>2, <2>3 DEF Init, Store!StoreInit, Read
<1>2. TypeOK /\ [Next]_vars => [Store!StoreNext]_Store!storeVars
  <2> SUFFICES ASSUME TypeOK, [Next]_vars
               PROVE  [Store!StoreNext]_Store!storeVars
    OBVIOUS
  <2>1. ASSUME NEW v \in Values, Update(v) PROVE Store!StoreNext
    <3>1. /\ [active EXCEPT !["value"] = v] \in Record
          /\ [active EXCEPT !["value"] = v]["value"] = v
      BY SampleAssumption DEF TypeOK, Record, Fields
    <3>2. active'["value"] = v
      BY <2>1, <3>1, RefreshSeals DEF Update, Fields
    <3>3. Read(active)' \in {v, Lost} /\ Read(checkpoint)' = Read(checkpoint)
      BY <2>1, <3>2 DEF Update, Read
    <3> QED
      BY <3>3
  <2>2. CASE UNCHANGED <<active, checkpoint>>
    BY <2>2 DEF Read
  <2>3. CASE CopyToCheckpoint
    BY <2>3 DEF CopyToCheckpoint, Read
  <2>4. CASE CopyToActive
    BY <2>4 DEF CopyToActive, Read
  <2>5. ASSUME NEW copy \in Copies, NEW f \in Fields, NEW w \in Word,
               Upset(copy, f, w)
        PROVE  Store!StoreNext
    <3>1. CASE copy = "active"
      <4>1. ~Valid(active') /\ checkpoint' = checkpoint
        BY <2>5, <3>1, UpsetIsDetected DEF Upset, TypeOK
      <4> QED
        BY <4>1 DEF Read
    <3>2. CASE copy = "checkpoint"
      <4>1. ~Valid(checkpoint') /\ active' = active
        BY <2>5, <3>2, UpsetIsDetected DEF Upset, TypeOK
      <4> QED
        BY <4>1 DEF Read
    <3> QED
      BY <3>1, <3>2 DEF Copies
  <2> QED
    BY <2>1, <2>2, <2>3, <2>4, <2>5
       DEF Next, vars, Capture, Restore, CommitOrRestart, Begin, CaptureCopy,
           RestoreCopy, CommitCopy, RollbackCheck, RollbackCopy
<1> QED
  BY <1>1, <1>2, TypeCorrect, PTL DEF Spec, NeverLies, Store!StoreSpec
=============================================================================
