------------------------ MODULE RecoveryBlockProofs ------------------------
(***************************************************************************)
(* Theorems of RecoveryBlock for every word size, checksum round, update   *)
(* function, set of upsets and number of them.                             *)
(***************************************************************************)
EXTENDS RecoveryBlock, CheckerProofs

(* Validation returns one of the checker's statuses. *)
LEMMA ValidateType == ASSUME NEW r \in Record PROVE Validate(r) \in CheckStatus
  BY DEF Validate, RequireSampleTag, RequireRange, RequireLength,
         RequireChecksum, Passed, CheckStatus

(* The program's records are records. *)
LEMMA SampleType == ASSUME NEW s \in Samples PROVE Sample(Update[s]) \in Record
<1>1. Update[s] \in Word
  BY RecoveryAssumption
<1> QED
  BY <1>1, InitSeals, RecoveryAssumption DEF Sample

(* What an operation stores and seals is a record, whatever is injected.   *)
LEMMA StoreType ==
  ASSUME NEW r \in Record, NEW w \in Word, NEW f \in Fields
  PROVE  [r EXCEPT ![f] = w] \in Record
  BY DEF Record

LEMMA SuccessorType == ASSUME NEW w \in Word PROVE Successor(w) \in Word
  BY WordAssumption DEF Successor

(* The variables stay in their types. *)
THEOREM RecoveryTypeCorrect == Spec => []TypeOK
<1>1. Init => TypeOK
  <2> SUFFICES ASSUME Init PROVE TypeOK
    OBVIOUS
  <2>1. active \in Record /\ checkpoint \in Record /\ sample \in Samples
    BY SampleType DEF Init
  <2>2. result \in Result
    BY DEF Init, NoResult, Result, Statuses, Checks, CheckStatus
  <2>3. entry \in [Copies -> Record]
    BY <2>1 DEF Init, Copies
  <2>4. upsets \in 0 .. MaxUpsets
    BY RecoveryAssumption DEF Init
  <2> QED
    BY <2>1, <2>2, <2>3, <2>4 DEF Init, TypeOK, Points, Operations
<1>2. TypeOK /\ [Next]_vars => TypeOK'
  <2> SUFFICES ASSUME TypeOK, [Next]_vars PROVE TypeOK'
    OBVIOUS
  <2>r. \A r \in Record : Validate(r) \in CheckStatus
    BY ValidateType
  <2>c. \A res \in Result, c \in Checks, check \in CheckStatus :
          [res EXCEPT !.checks[c] = check] \in Result
    BY DEF Result
  <2>s. \A res \in Result, s \in Statuses : [res EXCEPT !.status = s] \in Result
    BY DEF Result
  <2>1. ASSUME NEW s \in Samples, NEW fs \in SUBSET Faults, Call(s, fs)
        PROVE  TypeOK'
    <3> DEFINE check == Validate(active)
               started == [NoResult EXCEPT !.checks["checkpoint"] = check]
    <3>1. NoResult \in Result
      BY DEF NoResult, Result, Statuses, Checks, CheckStatus
    <3>2. check \in CheckStatus
      BY <2>r DEF TypeOK
    <3> HIDE DEF check
    <3>7. started \in Result
      BY <3>1, <3>2, <2>c DEF Checks
    <3>3. /\ started \in Result
          /\ [started EXCEPT !.status = "CHECKPOINT_FAILED"] \in Result
      BY <3>7, <2>s DEF Statuses
    <3> HIDE DEF started
    <3>4. result' \in Result
      BY <2>1, <3>3 DEF Call, check, started
    <3>5. entry' \in [Copies -> Record]
      BY <2>1 DEF Call, TypeOK, Copies
    <3>6. /\ active' \in Record /\ checkpoint' \in Record
          /\ pc' \in Points /\ op' \in Operations
          /\ sample' \in Samples /\ faults' \subseteq Faults
          /\ upsets' \in 0 .. MaxUpsets
          /\ hits' \subseteq Copies \X Operations \X Points
      BY <2>1 DEF Call, TypeOK, Points, Operations
    <3> QED
      BY <3>4, <3>5, <3>6 DEF TypeOK
  <2>2. CASE EntryCopy
    BY <2>2 DEF EntryCopy, TypeOK, Points
  <2>3. CASE Store \/ Seal \/ Exceed \/ Reseal \/ Break
    <3>1. /\ Update[sample] \in Word /\ active \in Record
          /\ Successor(active["max"]) \in Word /\ Flip[active["checksum"]] \in Word
      BY RecoveryAssumption, SuccessorType DEF TypeOK, Record, Fields
    <3>2. active' \in {Refresh(active), [active EXCEPT !["value"] = Update[sample]],
                      [active EXCEPT !["value"] = Successor(active["max"])],
                      [active EXCEPT !["checksum"] = Flip[active["checksum"]]]}
      BY <2>3 DEF Store, Seal, Exceed, Reseal, Break, Rewrite
    <3> DEFINE v == Update[sample]
               above == Successor(active["max"])
               broken == Flip[active["checksum"]]
    <3> HIDE DEF v, above, broken
    <3>5. /\ [active EXCEPT !["value"] = v] \in Record
          /\ [active EXCEPT !["value"] = above] \in Record
          /\ [active EXCEPT !["checksum"] = broken] \in Record
      BY <3>1, StoreType DEF v, above, broken, Fields
    <3>6. Refresh(active) \in Record
      BY <3>1, RefreshSeals
    <3>3. active' \in Record
      BY <3>2, <3>5, <3>6 DEF v, above, broken
    <3>4. /\ pc' \in Points
          /\ UNCHANGED <<checkpoint, op, sample, faults, result, upsets, entry, hits>>
      BY <2>3 DEF Store, Seal, Exceed, Reseal, Break, Rewrite, Sealing, Points
    <3> QED
      BY <3>3, <3>4 DEF TypeOK
  <2>4. CASE Check
    <3>0. op \in Checks /\ Validate(active) \in CheckStatus /\ result \in Result
      BY <2>r DEF TypeOK, Operations, Checks
    <3>1. result' \in Result
      BY <2>4, <3>0, <2>c DEF Check
    <3> QED
      BY <2>4, <3>1 DEF Check, TypeOK, Points
  <2>5. CASE Accept \/ AcceptCopy
    <3>0. Accepted \in Statuses /\ result \in Result
      BY DEF TypeOK, Accepted, Statuses
    <3>1. result' \in Result
      BY <2>5, <3>0, <2>s DEF Accept, AcceptCopy, Return
    <3>2. active' \in Record /\ checkpoint' \in Record /\ pc' \in Points
      BY <2>5 DEF Accept, AcceptCopy, Return, TypeOK, Points
    <3> QED
      BY <2>5, <3>1, <3>2 DEF Accept, AcceptCopy, TypeOK
  <2>6. CASE Recover
    <3> DEFINE checked == [result EXCEPT !.checks["restore"] = Validate(checkpoint)]
    <3>0. checked \in Result
      BY <2>r, <2>c DEF TypeOK, Checks
    <3>s. result' \in {checked, [checked EXCEPT !.status = "RESTORE_FAILED"]}
      BY <2>6 DEF Recover
    <3> HIDE DEF checked
    <3>1. result' \in Result
      BY <3>0, <3>s, <2>s DEF Statuses
    <3> QED
      BY <2>6, <3>1 DEF Recover, TypeOK, Points
  <2>9. CASE RecoverCopy
    <3>1. result' \in Result
      BY <2>9, <2>s DEF RecoverCopy, Resume, Return, Statuses, TypeOK
    <3>2. pc' \in Points /\ op' \in Operations
      BY <2>9 DEF RecoverCopy, Resume, Return, Points, Operations, TypeOK
    <3> QED
      BY <2>9, <3>1, <3>2 DEF RecoverCopy, TypeOK
  <2>7. ASSUME NEW copy \in Copies, NEW fw \in Flips, Upset(copy, fw[1], fw[2])
        PROVE  TypeOK'
    <3>1. fw[1] \in Fields /\ fw[2] \in Word
      <4>1. fw \in Fields \X Word
        BY RecoveryAssumption
      <4> QED
        BY <4>1
    <3>2. active' \in Record /\ checkpoint' \in Record
      <4>1. /\ active' = active \/ active' = [active EXCEPT ![fw[1]] = fw[2]]
            /\ checkpoint' = checkpoint \/ checkpoint' = [checkpoint EXCEPT ![fw[1]] = fw[2]]
        BY <2>7 DEF Upset
      <4>2. active \in Record /\ checkpoint \in Record
        BY DEF TypeOK
      <4> QED
        BY <3>1, <4>1, <4>2, StoreType
    <3>3. upsets' \in 0 .. MaxUpsets
      BY <2>7, RecoveryAssumption DEF Upset, TypeOK
    <3>4. <<copy, op, pc>> \in Copies \X Operations \X Points
      BY DEF TypeOK
    <3> QED
      BY <2>7, <3>2, <3>3, <3>4 DEF Upset, TypeOK
  <2>8. CASE UNCHANGED vars
    BY <2>8 DEF vars, TypeOK
  <2> QED
    BY <2>1, <2>2, <2>3, <2>4, <2>5, <2>6, <2>7, <2>8, <2>9 DEF Next
<1> QED
  BY <1>1, <1>2, PTL DEF Spec

-----------------------------------------------------------------------------
(* One upset of a sealed record is always noticed. *)
LEMMA UpsetIsNoticed ==
  ASSUME NEW r \in Record, NEW f \in Fields, NEW w \in Word,
         Sealed(r), w # r[f]
  PROVE  ~Sealed([r EXCEPT ![f] = w]) /\ ~Valid([r EXCEPT ![f] = w])
<1> DEFINE s == [r EXCEPT ![f] = w]
<1>1. s \in Record /\ DifferOnlyIn(r, s, f)
  BY DEF Record, DifferOnlyIn
<1> HIDE DEF s
<1>2. ~Sealed(s)
  BY <1>1, OneWordBreaksSeal
<1>3. ~Valid(s)
  BY <1>1, <1>2, ValidMeans
<1> QED
  BY <1>2, <1>3 DEF s

LEMMA ValidIsSealed == ASSUME NEW r \in Record, Valid(r) PROVE Sealed(r)
  BY ValidMeans

(* Each injected fault leaves a record that fails the acceptance test: a   *)
(* value above the range, as long as the maximum is not the largest word,  *)
(* and a seal that does not fit.                                           *)
LEMMA AboveFails ==
  ASSUME NEW r \in Record, r["max"] + 1 \in Word
  PROVE  LET above == [r EXCEPT !["value"] = Successor(r["max"])]
         IN  /\ above \in Record /\ Refresh(above) \in Record
             /\ Sealed(Refresh(above)) /\ ~Valid(Refresh(above))
<1> DEFINE above == [r EXCEPT !["value"] = Successor(r["max"])]
<1>1. above \in Record /\ above["value"] = r["max"] + 1 /\ above["max"] = r["max"]
  BY DEF Successor, Record, Fields
<1>2. /\ Refresh(above) \in Record /\ Sealed(Refresh(above))
      /\ Refresh(above)["value"] = r["max"] + 1
      /\ Refresh(above)["max"] = r["max"]
  BY <1>1, RefreshSeals DEF Fields
<1>3. r["max"] \in Nat
  BY WordAssumption DEF Record, Fields
<1>4. ~Valid(Refresh(above))
  BY <1>2, <1>3, ValidMeans
<1> QED
  BY <1>1, <1>2, <1>4

LEMMA BrokenSealFails ==
  ASSUME NEW r \in Record, Sealed(r)
  PROVE  ~Valid([r EXCEPT !["checksum"] = Flip[r["checksum"]]])
<1>1. /\ Flip[r["checksum"]] \in Word /\ Flip[r["checksum"]] # r["checksum"]
      /\ "checksum" \in Fields
  BY RecoveryAssumption DEF Record, Fields
<1> QED
  BY <1>1, UpsetIsNoticed

-----------------------------------------------------------------------------
(* The inductive invariant.  While a call is under way the checkpoint is   *)
(* the record the call began with, or was hit and no longer validates.     *)
CheckpointHit ==
  \/ \E o \in Operations : Hit("checkpoint", o, Points)
  \/ Hit("active", "primary", {"entry_copy"})

CheckpointKept ==
  pc # "idle" =>
    /\ result.status = "UNRECOVERABLE"
    /\ Valid(entry["active"])
    /\ \/ pc = "entry_copy"
       \/ checkpoint = entry["active"]
       \/ ~Sealed(checkpoint) /\ CheckpointHit

(* So is what a capture or a restore is about to copy. *)
Captured ==
  pc = "entry_copy" =>
    /\ op = "primary"
    /\ \/ active = entry["active"]
       \/ ~Sealed(active) /\ Hit("active", "primary", {"entry_copy"})

Restored ==
  pc = "recover_copy" =>
    \/ checkpoint = entry["active"]
    \/ ~Sealed(checkpoint) /\ Hit("checkpoint", op, {"recover_copy"})

(* An operation starts from the record the call began with, or from what a *)
(* hit made of that before the copy.                                       *)
StartHit ==
  IF op = "primary" THEN Hit("active", op, {"entry_copy", "store"})
  ELSE Hit("active", op, {"store"}) \/ Hit("checkpoint", "primary", {"recover_copy"})

StartsFresh ==
  pc = "store" => active = entry["active"] \/ (~Sealed(active) /\ StartHit)

(* It then makes the wanted record, unless it is exposed, and spoils that  *)
(* as the faults say.                                                      *)
Exceeded == [Wanted EXCEPT !["value"] = Successor(Wanted["max"])]

Rewrites ==
  ~Exposed =>
    /\ pc = "seal" => active = [entry["active"] EXCEPT !["value"] = Update[sample]]
    /\ pc = "exceed" => active = Wanted
    /\ pc = "reseal" => active = Exceeded
    /\ pc = "break" => active \in {Wanted, Refresh(Exceeded)}

(* The acceptance test passes nothing but the wanted record. *)
EntryBelowTop == entry["active"]["max"] + 1 \in Word

Sifted ==
  (pc = "check" /\ EntryBelowTop /\ ~Exposed) => active = Wanted \/ ~Valid(active)

Passes ==
  (pc \in {"accept", "accept_copy"} /\ EntryBelowTop /\ ~Exposed)
    => active = Wanted /\ Valid(active)

CopiesKept == CheckpointKept /\ Captured /\ Restored

ActiveKept == StartsFresh /\ Rewrites /\ Sifted /\ Passes

Outcome == AcceptedIsExpected /\ FailureKeepsEntry

RecoveryInv == TypeOK /\ CopiesKept /\ ActiveKept /\ Outcome

LEMMA RecoveryInit == Init => CopiesKept /\ ActiveKept /\ Outcome
<1> SUFFICES ASSUME Init PROVE CopiesKept /\ ActiveKept /\ Outcome
  OBVIOUS
<1>1. CopiesKept /\ ActiveKept
  BY DEF Init, CopiesKept, CheckpointKept, Captured, Restored, ActiveKept, StartsFresh,
     Rewrites, Sifted, Passes
<1>2. result.status = "UNRECOVERABLE" /\ Accepted # "UNRECOVERABLE"
  BY DEF Init, NoResult, Accepted
<1>3. active = entry["active"] /\ checkpoint = entry["active"]
  BY DEF Init
<1> QED
  BY <1>1, <1>2, <1>3 DEF Outcome, AcceptedIsExpected, FailureKeepsEntry

(* The parts that speak of other steps than the one the call gets to hold. *)
LEMMA OtherSteps ==
  /\ pc' # "entry_copy" => Captured'
  /\ pc' # "recover_copy" => Restored'
  /\ pc' # "store" => StartsFresh'
  /\ pc' \notin {"seal", "exceed", "reseal", "break"} => Rewrites'
  /\ pc' # "check" => Sifted'
  /\ pc' \notin {"accept", "accept_copy"} => Passes'
  /\ pc' # "idle" => Outcome'
  BY DEF Captured, Restored, StartsFresh, Rewrites, Sifted, Passes, Outcome,
     AcceptedIsExpected, FailureKeepsEntry, Returned

(* The invariant is kept by every action. *)
LEMMA CallKeeps ==
  ASSUME RecoveryInv, NEW s \in Samples, NEW fs \in SUBSET Faults, Call(s, fs)
  PROVE  CopiesKept' /\ ActiveKept' /\ Outcome'
<1>1. entry'["active"] = active /\ entry'["checkpoint"] = checkpoint
  BY DEF Call
<1>2. hits' = {} /\ active' = active /\ checkpoint' = checkpoint /\ op' = "primary"
  BY DEF Call
<1>3. CASE Passed(Validate(active))
  <2>1. pc' = "entry_copy" /\ Valid(active)
    BY <1>3 DEF Call, Valid
  <2>2. result'.status = "UNRECOVERABLE"
    BY <1>3 DEF Call, NoResult
  <2>3. CheckpointKept' /\ Captured'
    BY <1>1, <1>2, <2>1, <2>2 DEF CheckpointKept, Captured, Valid
  <2> QED
    BY <2>1, <2>3, OtherSteps DEF CopiesKept, ActiveKept
<1>4. CASE ~Passed(Validate(active))
  <2>1. pc' = "idle" /\ ~Valid(active)
    BY <1>4 DEF Call, Valid
  <2>2. result'.status = "CHECKPOINT_FAILED"
    BY <1>4 DEF Call, NoResult
  <2>3. AcceptedIsExpected'
    BY <2>2 DEF AcceptedIsExpected, Accepted
  <2>4. FailureKeepsEntry'
    BY <1>1, <1>2, <2>1, <2>2 DEF FailureKeepsEntry, Valid
  <2>5. CheckpointKept'
    BY <2>1 DEF CheckpointKept
  <2> QED
    BY <2>1, <2>3, <2>4, <2>5, OtherSteps DEF Outcome, CopiesKept, ActiveKept
<1> QED
  BY <1>3, <1>4

LEMMA EntryCopyKeeps ==
  ASSUME RecoveryInv, EntryCopy
  PROVE  CopiesKept' /\ ActiveKept' /\ Outcome'
<1>1. /\ pc = "entry_copy" /\ pc' = "store" /\ checkpoint' = active /\ active' = active
      /\ op' = op /\ entry' = entry /\ hits' = hits /\ result' = result
  BY DEF EntryCopy
<1>2. CheckpointKept /\ Captured
  BY DEF RecoveryInv, CopiesKept
<1>3. CheckpointKept'
  BY <1>1, <1>2 DEF CheckpointKept, CheckpointHit, Captured, Hit, Sealed, Checksum
<1>4. StartsFresh'
  BY <1>1, <1>2 DEF Captured, StartsFresh, StartHit, Hit, Sealed, Checksum
<1> QED
  BY <1>1, <1>3, <1>4, OtherSteps DEF CopiesKept, ActiveKept

(* What every step of an operation leaves alone. *)
LEMMA RewriteKeeps ==
  ASSUME RecoveryInv,
         NEW at \in {"store", "seal", "exceed", "reseal", "break"},
         NEW next \in {"seal", "exceed", "reseal", "break", "check"},
         NEW record, Rewrite(at, next, record)
  PROVE  /\ CopiesKept' /\ StartsFresh' /\ Passes' /\ Outcome'
         /\ pc = at /\ pc' = next /\ active' = record
         /\ Exposed' = Exposed /\ Wanted' = Wanted /\ EntryBelowTop' = EntryBelowTop
         /\ sample' = sample /\ entry' = entry /\ op' = op /\ faults' = faults
<1>1. /\ pc = at /\ pc' = next /\ active' = record
      /\ UNCHANGED <<checkpoint, op, sample, faults, result, upsets, entry, hits>>
  BY DEF Rewrite
<1>2. CheckpointKept'
  BY <1>1 DEF RecoveryInv, CopiesKept, CheckpointKept, CheckpointHit, Hit, Sealed, Checksum
<1>3. Captured' /\ Restored' /\ StartsFresh' /\ Passes' /\ Outcome'
  BY <1>1, OtherSteps
<1>4. Exposed' = Exposed /\ Wanted' = Wanted /\ EntryBelowTop' = EntryBelowTop
  BY <1>1 DEF Exposed, Hit, Wanted, EntryBelowTop
<1> QED
  BY <1>1, <1>2, <1>3, <1>4 DEF CopiesKept

LEMMA WantedType ==
  ASSUME RecoveryInv
  PROVE  /\ Wanted \in Record /\ Sealed(Wanted)
         /\ Wanted["max"] = entry["active"]["max"]
         /\ Exceeded \in Record
<1> DEFINE stored == [entry["active"] EXCEPT !["value"] = Update[sample]]
<1>1. entry["active"] \in Record /\ Update[sample] \in Word
  BY RecoveryAssumption DEF RecoveryInv, TypeOK, Copies
<1>2. stored \in Record /\ stored["max"] = entry["active"]["max"]
  BY <1>1 DEF Record, Fields
<1>3. Wanted = Refresh(stored)
  BY DEF Wanted
<1> HIDE DEF stored
<1>4. Wanted \in Record /\ Sealed(Wanted) /\ Wanted["max"] = stored["max"]
  BY <1>2, <1>3, RefreshSeals DEF Fields
<1>5. Successor(Wanted["max"]) \in Word
  BY <1>4, SuccessorType DEF Record, Fields
<1> QED
  BY <1>2, <1>4, <1>5, StoreType DEF Exceeded, Fields

LEMMA StoreKeeps ==
  ASSUME RecoveryInv, Store
  PROVE  CopiesKept' /\ ActiveKept' /\ Outcome'
<1> DEFINE stored == [active EXCEPT !["value"] = Update[sample]]
<1>1. Rewrite("store", "seal", stored) /\ pc = "store"
  BY DEF Store, Rewrite
<1> HIDE DEF stored
<1>2. /\ CopiesKept' /\ StartsFresh' /\ Passes' /\ Outcome'
      /\ pc' = "seal" /\ active' = stored /\ Exposed' = Exposed
      /\ sample' = sample /\ entry' = entry
  BY <1>1, RewriteKeeps
<1>3. ~Exposed => active = entry["active"]
  BY <1>1 DEF RecoveryInv, TypeOK, Operations, ActiveKept, StartsFresh, StartHit, Exposed, Hit, Points
<1>4. Rewrites'
  BY <1>2, <1>3 DEF Rewrites, stored
<1> QED
  BY <1>2, <1>4, OtherSteps DEF ActiveKept

LEMMA SealKeeps ==
  ASSUME RecoveryInv, Seal
  PROVE  CopiesKept' /\ ActiveKept' /\ Outcome'
<1>1. PICK next \in {"exceed", "break", "check"} :
        Rewrite("seal", next, Refresh(active)) /\ pc = "seal"
  BY DEF Seal, Sealing, Rewrite
<1> DEFINE sealed == Refresh(active)
<1>r. Rewrite("seal", next, sealed)
  BY <1>1
<1>3. ~Exposed => sealed = Wanted
  BY <1>1 DEF RecoveryInv, ActiveKept, Rewrites, Wanted
<1> HIDE DEF sealed
<1>2. /\ CopiesKept' /\ StartsFresh' /\ Passes' /\ Outcome'
      /\ pc' = next /\ active' = sealed /\ Exposed' = Exposed /\ Wanted' = Wanted
  BY <1>r, RewriteKeeps
<1>4. Rewrites' /\ Sifted'
  BY <1>1, <1>2, <1>3 DEF Rewrites, Sifted
<1> QED
  BY <1>2, <1>4 DEF ActiveKept

LEMMA ExceedKeeps ==
  ASSUME RecoveryInv, Exceed
  PROVE  CopiesKept' /\ ActiveKept' /\ Outcome'
<1> DEFINE above == [active EXCEPT !["value"] = Successor(active["max"])]
<1>1. Rewrite("exceed", "reseal", above) /\ pc = "exceed"
  BY DEF Exceed, Rewrite
<1>3. ~Exposed => above = Exceeded
  BY <1>1 DEF RecoveryInv, ActiveKept, Rewrites, Exceeded
<1> HIDE DEF above
<1>2. /\ CopiesKept' /\ StartsFresh' /\ Passes' /\ Outcome'
      /\ pc' = "reseal" /\ active' = above /\ Exposed' = Exposed /\ Wanted' = Wanted
  BY <1>1, RewriteKeeps
<1>4. Rewrites'
  BY <1>2, <1>3 DEF Rewrites, Exceeded
<1> QED
  BY <1>2, <1>4, OtherSteps DEF ActiveKept

LEMMA ResealKeeps ==
  ASSUME RecoveryInv, Reseal
  PROVE  CopiesKept' /\ ActiveKept' /\ Outcome'
<1>1. PICK next \in {"break", "check"} :
        Rewrite("reseal", next, Refresh(active)) /\ pc = "reseal"
  BY DEF Reseal, Sealing, Rewrite
<1> DEFINE sealed == Refresh(active)
<1>r. Rewrite("reseal", next, sealed)
  BY <1>1
<1>3. ~Exposed => sealed = Refresh(Exceeded)
  BY <1>1 DEF RecoveryInv, ActiveKept, Rewrites
<1> HIDE DEF sealed
<1>2. /\ CopiesKept' /\ StartsFresh' /\ Passes' /\ Outcome'
      /\ pc' = next /\ active' = sealed /\ Exposed' = Exposed
      /\ Wanted' = Wanted /\ EntryBelowTop' = EntryBelowTop
  BY <1>r, RewriteKeeps
<1>4. EntryBelowTop => ~Valid(Refresh(Exceeded))
  BY WantedType, AboveFails DEF Exceeded, EntryBelowTop
<1>5. Exceeded' = Exceeded
  BY <1>2 DEF Exceeded
<1>6. Rewrites'
  BY <1>1, <1>2, <1>3, <1>5 DEF Rewrites
<1>7. Sifted'
  BY <1>2, <1>3, <1>4 DEF Sifted, Valid
<1> QED
  BY <1>2, <1>6, <1>7 DEF ActiveKept

LEMMA BreakKeeps ==
  ASSUME RecoveryInv, Break
  PROVE  CopiesKept' /\ ActiveKept' /\ Outcome'
<1> DEFINE broken == [active EXCEPT !["checksum"] = Flip[active["checksum"]]]
<1>1. Rewrite("break", "check", broken) /\ pc = "break"
  BY DEF Break, Rewrite
<1>3. ~Exposed => ~Valid(broken)
  <2> SUFFICES ASSUME ~Exposed PROVE ~Valid(broken)
    OBVIOUS
  <2>1. active = Wanted \/ active = Refresh(Exceeded)
    BY <1>1 DEF RecoveryInv, ActiveKept, Rewrites
  <2>2. active \in Record /\ Sealed(active)
    BY <2>1, WantedType, RefreshSeals
  <2> QED
    BY <2>2, BrokenSealFails
<1> HIDE DEF broken
<1>2. /\ CopiesKept' /\ StartsFresh' /\ Passes' /\ Outcome'
      /\ pc' = "check" /\ active' = broken /\ Exposed' = Exposed
  BY <1>1, RewriteKeeps
<1>4. Sifted'
  BY <1>2, <1>3 DEF Sifted, Valid
<1> QED
  BY <1>2, <1>4, OtherSteps DEF ActiveKept

LEMMA CheckKeeps ==
  ASSUME RecoveryInv, Check
  PROVE  CopiesKept' /\ ActiveKept' /\ Outcome'
<1>1. /\ result'.status = result.status /\ pc = "check" /\ pc' \in {"accept", "recover"}
      /\ UNCHANGED <<active, checkpoint, op, sample, faults, upsets, entry, hits>>
  BY DEF RecoveryInv, TypeOK, Result, Check
<1>2. CheckpointKept'
  BY <1>1 DEF RecoveryInv, CopiesKept, CheckpointKept, CheckpointHit, Hit, Sealed, Checksum
<1>3. Passes'
  <2> SUFFICES ASSUME pc' = "accept", EntryBelowTop, ~Exposed
               PROVE  active = Wanted /\ Valid(active)
    BY <1>1 DEF Passes, Exposed, Hit, Valid, EntryBelowTop, Wanted
  <2>1. Valid(active)
    BY DEF Check, Valid
  <2> QED
    BY <1>1, <2>1 DEF RecoveryInv, ActiveKept, Sifted
<1> QED
  BY <1>1, <1>2, <1>3, OtherSteps DEF CopiesKept, ActiveKept

LEMMA AcceptKeeps ==
  ASSUME RecoveryInv, Accept
  PROVE  CopiesKept' /\ ActiveKept' /\ Outcome'
<1>1. /\ pc = "accept"
      /\ UNCHANGED <<active, checkpoint, op, sample, faults, upsets, entry, hits>>
  BY DEF Accept
<1>2. Wanted' = Wanted /\ Exposed' = Exposed /\ EntryBelowTop' = EntryBelowTop
  BY <1>1 DEF Wanted, Exposed, Hit, EntryBelowTop
<1>p. Passes /\ CheckpointKept
  BY DEF RecoveryInv, ActiveKept, CopiesKept
<1>3. CASE Valid(active)
  <2>1. pc' = "accept_copy" /\ result' = result
    BY <1>3 DEF Accept
  <2>2. CheckpointKept'
    BY <1>1, <1>p, <2>1 DEF CheckpointKept, CheckpointHit, Hit, Sealed, Checksum
  <2>3. Passes'
    BY <1>1, <1>2, <1>p, <2>1 DEF Passes, Valid
  <2> QED
    BY <2>1, <2>2, <2>3, OtherSteps DEF CopiesKept, ActiveKept
<1>4. CASE ~Valid(active)
  <2>1. pc' = "idle" /\ result'.status = Accepted /\ Accepted' = Accepted
        /\ Accepted \in {"PRIMARY_ACCEPTED", "ALTERNATE_ACCEPTED"}
    BY <1>1, <1>4 DEF Accept, Return, RecoveryInv, TypeOK, Result, Accepted
  <2>2. ~EntryBelowTop' \/ Exposed'
    BY <1>1, <1>2, <1>4, <1>p DEF Passes
  <2>3. Outcome'
    BY <2>1, <2>2 DEF Outcome, AcceptedIsExpected, FailureKeepsEntry, EntryBelowTop
  <2>4. CheckpointKept'
    BY <2>1 DEF CheckpointKept
  <2> QED
    BY <2>1, <2>3, <2>4, OtherSteps DEF CopiesKept, ActiveKept
<1> QED
  BY <1>3, <1>4

LEMMA AcceptCopyKeeps ==
  ASSUME RecoveryInv, AcceptCopy
  PROVE  CopiesKept' /\ ActiveKept' /\ Outcome'
<1>1. /\ pc = "accept_copy" /\ pc' = "idle" /\ checkpoint' = active
      /\ UNCHANGED <<active, op, sample, faults, upsets, entry, hits>>
  BY DEF AcceptCopy, Return
<1>2. Wanted' = Wanted /\ Exposed' = Exposed /\ EntryBelowTop' = EntryBelowTop
  BY <1>1 DEF Wanted, Exposed, Hit, EntryBelowTop
<1>3. /\ result'.status = Accepted /\ Accepted' = Accepted
      /\ Accepted \in {"PRIMARY_ACCEPTED", "ALTERNATE_ACCEPTED"}
  BY <1>1 DEF AcceptCopy, Return, RecoveryInv, TypeOK, Result, Accepted
<1>4. (EntryBelowTop /\ ~Exposed) => active = Wanted
  BY <1>1 DEF RecoveryInv, ActiveKept, Passes
<1>5. AcceptedIsExpected'
  BY <1>1, <1>2, <1>4 DEF AcceptedIsExpected, EntryBelowTop
<1>6. FailureKeepsEntry'
  BY <1>3 DEF FailureKeepsEntry
<1>7. CheckpointKept'
  BY <1>1 DEF CheckpointKept
<1> QED
  BY <1>1, <1>5, <1>6, <1>7, OtherSteps DEF Outcome, CopiesKept, ActiveKept

LEMMA RecoverKeeps ==
  ASSUME RecoveryInv, Recover
  PROVE  CopiesKept' /\ ActiveKept' /\ Outcome'
<1>1. /\ pc = "recover"
      /\ UNCHANGED <<active, checkpoint, op, sample, faults, upsets, entry, hits>>
  BY DEF Recover
<1>c. CheckpointKept /\ checkpoint \in Record
  BY DEF RecoveryInv, CopiesKept, TypeOK
<1>2. CASE Passed(Validate(checkpoint))
  <2>1. checkpoint = entry["active"]
    BY <1>1, <1>2, <1>c, ValidIsSealed DEF CheckpointKept, Valid
  <2>2. pc' = "recover_copy" /\ result'.status = result.status
    BY <1>2 DEF Recover, RecoveryInv, TypeOK, Result
  <2>3. CheckpointKept' /\ Restored'
    BY <1>1, <1>c, <2>1, <2>2 DEF CheckpointKept, Restored
  <2> QED
    BY <2>2, <2>3, OtherSteps DEF CopiesKept, ActiveKept
<1>3. CASE ~Passed(Validate(checkpoint))
  <2>1. pc' = "idle" /\ result'.status = "RESTORE_FAILED"
    BY <1>3 DEF Recover, RecoveryInv, TypeOK, Result
  <2>2. CheckpointHit
    BY <1>1, <1>3, <1>c DEF CheckpointKept, Valid
  <2>3. AcceptedIsExpected'
    BY <2>1 DEF AcceptedIsExpected, Accepted
  <2>4. FailureKeepsEntry'
    BY <1>1, <2>1, <2>2 DEF FailureKeepsEntry, CheckpointHit, Hit
  <2>5. CheckpointKept'
    BY <2>1 DEF CheckpointKept
  <2> QED
    BY <2>1, <2>3, <2>4, <2>5, OtherSteps DEF Outcome, CopiesKept, ActiveKept
<1> QED
  BY <1>2, <1>3

LEMMA RecoverCopyKeeps ==
  ASSUME RecoveryInv, RecoverCopy
  PROVE  CopiesKept' /\ ActiveKept' /\ Outcome'
<1>1. /\ pc = "recover_copy" /\ active' = checkpoint
      /\ UNCHANGED <<checkpoint, sample, faults, upsets, entry, hits>>
  BY DEF RecoverCopy
<1>c. /\ CheckpointKept /\ checkpoint \in Record
      /\ checkpoint = entry["active"] \/ (~Sealed(checkpoint) /\ Hit("checkpoint", op, {"recover_copy"}))
  BY <1>1 DEF RecoveryInv, CopiesKept, TypeOK, Restored
<1>2. CASE op = "primary"
  <2>1. op' = "alternate" /\ pc' = "store" /\ result' = result
    BY <1>2 DEF RecoverCopy, Resume
  <2>2. CheckpointKept'
    BY <1>1, <1>c, <2>1 DEF CheckpointKept, CheckpointHit, Hit, Sealed, Checksum
  <2>3. StartsFresh'
    BY <1>1, <1>2, <1>c, <2>1 DEF StartsFresh, StartHit, Hit, Sealed, Checksum
  <2> QED
    BY <2>1, <2>2, <2>3, OtherSteps DEF CopiesKept, ActiveKept
<1>3. CASE op = "alternate"
  <2>1. pc' = "idle" /\ result'.status = "UNRECOVERABLE"
    BY <1>3 DEF RecoverCopy, Resume, Return, RecoveryInv, TypeOK, Result
  <2>2. ~Sealed(checkpoint) => ~Valid(checkpoint)
    BY <1>c, ValidIsSealed
  <2>3. AcceptedIsExpected'
    BY <2>1 DEF AcceptedIsExpected, Accepted
  <2>4. FailureKeepsEntry'
    BY <1>1, <1>3, <1>c, <2>1, <2>2 DEF FailureKeepsEntry, Hit, Valid
  <2>5. CheckpointKept'
    BY <2>1 DEF CheckpointKept
  <2> QED
    BY <2>1, <2>3, <2>4, <2>5, OtherSteps DEF Outcome, CopiesKept, ActiveKept
<1> QED
  BY <1>2, <1>3 DEF RecoveryInv, TypeOK, Operations

LEMMA UpsetKeeps ==
  ASSUME RecoveryInv, NEW copy \in Copies, NEW fw \in Flips,
         Upset(copy, fw[1], fw[2])
  PROVE  CopiesKept' /\ ActiveKept' /\ Outcome'
<1>1. fw[1] \in Fields /\ fw[2] \in Word
  BY RecoveryAssumption
<1>2. /\ pc' = pc /\ op' = op /\ result' = result /\ entry' = entry
      /\ Wanted' = Wanted /\ EntryBelowTop' = EntryBelowTop
      /\ Exceeded' = Exceeded /\ sample' = sample
      /\ hits' = hits \union {<<copy, op, pc>>}
  BY DEF Upset, Wanted, EntryBelowTop, Exceeded
<1>3. op \in Operations /\ pc \in Points /\ active \in Record /\ checkpoint \in Record
  BY DEF RecoveryInv, TypeOK
<1>4. /\ \A c \in Copies, o \in Operations : \A points \in SUBSET Points :
           Hit(c, o, points) => Hit(c, o, points)'
      /\ Exposed => Exposed'
      /\ CheckpointHit => CheckpointHit'
      /\ StartHit => StartHit'
  BY <1>2 DEF Hit, Exposed, CheckpointHit, StartHit
<1>6. Outcome'
  <2>1. ~Returned'
    BY <1>2, <1>3 DEF Returned, Hit
  <2> QED
    BY <2>1 DEF Outcome, AcceptedIsExpected, FailureKeepsEntry
<1>5. CASE copy = "checkpoint"
  <2>1. /\ active' = active /\ Sealed(checkpoint) /\ ~Sealed(checkpoint')
        /\ <<"checkpoint", op, pc>> \in hits'
    BY <1>1, <1>2, <1>3, <1>5, UpsetIsNoticed DEF Upset
  <2>2. CheckpointHit' /\ (pc = "recover_copy" => Hit("checkpoint", op, {"recover_copy"})')
    <3>1. Hit("checkpoint", op, Points)'
      BY <1>2, <1>3, <2>1 DEF Hit
    <3>2. CheckpointHit'
      BY <1>2, <1>3, <3>1 DEF CheckpointHit
    <3>3. pc = "recover_copy" => Hit("checkpoint", op, {"recover_copy"})'
      BY <1>2, <2>1 DEF Hit
    <3> QED
      BY <3>2, <3>3
  <2>3. CheckpointKept'
    BY <1>2, <2>1, <2>2 DEF RecoveryInv, CopiesKept, CheckpointKept, Sealed, Checksum
  <2>4. Captured'
    <3>1. Hit("active", "primary", {"entry_copy"}) => Hit("active", "primary", {"entry_copy"})'
      BY <1>2 DEF Hit
    <3> QED
      BY <1>2, <2>1, <3>1 DEF RecoveryInv, CopiesKept, Captured, Sealed, Checksum
  <2>5. Restored'
    BY <1>2, <2>1, <2>2 DEF Restored, Sealed, Checksum
  <2>6. StartsFresh'
    BY <1>2, <1>4, <2>1 DEF RecoveryInv, ActiveKept, StartsFresh, Sealed, Checksum
  <2>7. Rewrites'
    BY <1>2, <1>4, <2>1 DEF RecoveryInv, ActiveKept, Rewrites
  <2>8. Sifted' /\ Passes'
    BY <1>2, <1>4, <2>1 DEF RecoveryInv, ActiveKept, Sifted, Passes, Valid
  <2> QED
    BY <2>3, <2>4, <2>5, <2>6, <2>7, <2>8, <1>6 DEF CopiesKept, ActiveKept
<1>7. CASE copy = "active"
  <2>1. /\ checkpoint' = checkpoint /\ <<"active", op, pc>> \in hits'
        /\ active' = [active EXCEPT ![fw[1]] = fw[2]] /\ fw[2] # active[fw[1]]
        /\ Sealed(active) \/ pc \in {"seal", "reseal"}
    BY <1>2, <1>7 DEF Upset
  <2>2. pc \notin {"seal", "reseal"} => ~Sealed(active') /\ ~Valid(active')
    BY <1>1, <1>3, <2>1, UpsetIsNoticed
  <2>3. pc # "check" => Exposed'
    <3>1. pc # "check" => Hit("active", op, Points \ {"check"})'
      BY <1>2, <1>3, <2>1 DEF Hit
    <3> QED
      BY <1>2, <3>1 DEF Exposed
  <2>4. CheckpointKept'
    BY <1>2, <1>4, <2>1 DEF RecoveryInv, CopiesKept, CheckpointKept, Sealed, Checksum
  <2>5. Captured'
    <3>1. pc = "entry_copy" => /\ op' = "primary" /\ ~Sealed(active')
                               /\ Hit("active", "primary", {"entry_copy"})'
      BY <1>2, <2>1, <2>2 DEF RecoveryInv, CopiesKept, Captured, Hit
    <3> QED
      BY <1>2, <3>1 DEF Captured, Sealed, Checksum
  <2>6. Restored'
    <3>1. Hit("checkpoint", op, {"recover_copy"}) => Hit("checkpoint", op, {"recover_copy"})'
      BY <1>2 DEF Hit
    <3> QED
      BY <1>2, <2>1, <3>1 DEF RecoveryInv, CopiesKept, Restored, Sealed, Checksum
  <2>7. StartsFresh'
    <3>1. pc = "store" => StartHit' /\ ~Sealed(active')
      BY <1>2, <1>3, <2>1, <2>2 DEF StartHit, Hit, Operations
    <3> QED
      BY <1>2, <3>1 DEF StartsFresh, Sealed, Checksum
  <2>8. Rewrites' /\ Passes'
    BY <1>2, <2>3 DEF Rewrites, Passes
  <2>9. Sifted'
    BY <1>2, <2>2 DEF Sifted, Valid
  <2> QED
    BY <2>4, <2>5, <2>6, <2>7, <2>8, <2>9, <1>6 DEF CopiesKept, ActiveKept
<1> QED
  BY <1>5, <1>7 DEF Copies

LEMMA RecoveryInvariant == Spec => [](CopiesKept /\ ActiveKept /\ Outcome)
<1>1. RecoveryInv /\ [Next]_vars => CopiesKept' /\ ActiveKept' /\ Outcome'
  <2> SUFFICES ASSUME RecoveryInv, [Next]_vars
               PROVE  CopiesKept' /\ ActiveKept' /\ Outcome'
    OBVIOUS
  <2>1. ASSUME UNCHANGED vars PROVE CopiesKept' /\ ActiveKept' /\ Outcome'
    <3>1. CopiesKept'
      BY <2>1 DEF RecoveryInv, vars, CopiesKept, CheckpointKept, CheckpointHit, Captured,
         Restored, Hit, Sealed, Checksum
    <3>2. ActiveKept'
      BY <2>1 DEF RecoveryInv, vars, ActiveKept, StartsFresh, StartHit, Rewrites, Exceeded,
         Sifted, Passes, EntryBelowTop, Exposed, Wanted, Hit, Valid, Sealed, Checksum
    <3>3. Outcome'
      BY <2>1 DEF RecoveryInv, vars, Outcome, AcceptedIsExpected, FailureKeepsEntry,
         Returned, Exposed, Accepted, Wanted, Hit, Valid
    <3> QED
      BY <3>1, <3>2, <3>3
  <2> QED
    BY <2>1, CallKeeps, EntryCopyKeeps, StoreKeeps, SealKeeps, ExceedKeeps, ResealKeeps,
       BreakKeeps, CheckKeeps, AcceptKeeps, AcceptCopyKeeps, RecoverKeeps,
       RecoverCopyKeeps, UpsetKeeps DEF Next
<1> QED
  BY RecoveryInit, <1>1, RecoveryTypeCorrect, PTL DEF Spec, RecoveryInv

-----------------------------------------------------------------------------
(* An accepted update leaves the wanted record in both copies, for every   *)
(* order of steps and upsets that keeps out of the named windows.          *)
THEOREM AcceptedUpdatesAreRight == Spec => []AcceptedIsExpected
<1>1. Outcome => AcceptedIsExpected
  BY DEF Outcome
<1> QED
  BY <1>1, RecoveryInvariant, PTL

(* A failed block leaves both copies as the call found the active record,  *)
(* but for what is hit under a copy, and a failed rollback names a hit.    *)
THEOREM FailuresKeepEntry == Spec => []FailureKeepsEntry
<1>1. Outcome => FailureKeepsEntry
  BY DEF Outcome
<1> QED
  BY <1>1, RecoveryInvariant, PTL

(* The alternate starts from the record the call started from: nothing of  *)
(* what the primary did to it is left.                                     *)
THEOREM AlternatesStartFresh == Spec => []AlternateStartsFresh
<1>1. ActiveKept => AlternateStartsFresh
  BY DEF ActiveKept, StartsFresh, StartHit, AlternateStartsFresh
<1> QED
  BY <1>1, RecoveryInvariant, PTL

-----------------------------------------------------------------------------
(* Without upsets the injected faults decide where each operation ends.    *)
Undisturbed == hits = {} /\ IntactEntry

FaultsSteer ==
  (pc # "idle" /\ Undisturbed) =>
    /\ op = "alternate" => Faulty("primary")
    /\ pc = "check" => IF Faulty(op) THEN ~Valid(active) ELSE Valid(active)
    /\ pc \in {"exceed", "reseal", "break", "recover", "recover_copy"} => Faulty(op)
    /\ pc \in {"accept", "accept_copy"} => ~Faulty(op)

(* The words of the program's records. *)
LEMMA SampleWords ==
  ASSUME NEW v \in Word
  PROVE  /\ Sample(v) \in Record /\ Sealed(Sample(v))
         /\ Sample(v)["tag"] = Tag /\ Sample(v)["value"] = v
         /\ Sample(v)["min"] = Low /\ Sample(v)["max"] = High
         /\ Sample(v)["length"] = Length /\ Sample(v)["capacity"] = Capacity
<1> DEFINE raw == [f \in Fields |->
             CASE f = "tag"      -> Tag
               [] f = "value"    -> v
               [] f = "min"      -> Low
               [] f = "max"      -> High
               [] f = "length"   -> Length
               [] f = "capacity" -> Capacity
               [] f = "checksum" -> 0]
<1>1. {Tag, Low, High, Length, Capacity, 0} \subseteq Word
  BY RecoveryAssumption, WordAssumption
<1>2. /\ raw["tag"] = Tag /\ raw["value"] = v /\ raw["min"] = Low
      /\ raw["max"] = High /\ raw["length"] = Length /\ raw["capacity"] = Capacity
  BY DEF Fields
<1>3. raw \in Record
  BY <1>1 DEF Record, Fields
<1>4. Sample(v) = Refresh(raw)
  BY DEF Sample, RecordInit
<1> HIDE DEF raw
<1> QED
  BY <1>2, <1>3, <1>4, RefreshSeals DEF Fields

(* In a record with the program's bounds the wanted value is valid. *)
LEMMA WantedIsValid ==
  ASSUME RecoveryInv, IntactEntry
  PROVE  Wanted \in Record /\ Sealed(Wanted) /\ Valid(Wanted) /\ Wanted["max"] = High
<1> DEFINE stored == [entry["active"] EXCEPT !["value"] = Update[sample]]
<1>1. entry["active"] \in Record /\ Update[sample] \in Word
  BY RecoveryAssumption DEF RecoveryInv, TypeOK, Copies
<1>2. entry["active"]["value"] \in Word
  BY <1>1 DEF Record, Fields
<1>3. /\ entry["active"]["tag"] = Tag /\ entry["active"]["min"] = Low
      /\ entry["active"]["max"] = High /\ entry["active"]["length"] = Length
      /\ entry["active"]["capacity"] = Capacity
  BY <1>2, SampleWords DEF IntactEntry
<1>4. /\ stored \in Record /\ stored["tag"] = Tag /\ stored["value"] = Update[sample]
      /\ stored["min"] = Low /\ stored["max"] = High
      /\ stored["length"] = Length /\ stored["capacity"] = Capacity
  BY <1>1, <1>3 DEF Record, Fields
<1>5. Wanted = Refresh(stored)
  BY DEF Wanted
<1> HIDE DEF stored
<1>6. /\ Wanted \in Record /\ Sealed(Wanted)
      /\ Wanted["tag"] = Tag /\ Wanted["value"] = Update[sample]
      /\ Wanted["min"] = Low /\ Wanted["max"] = High
      /\ Wanted["length"] = Length /\ Wanted["capacity"] = Capacity
  BY <1>4, <1>5, RefreshSeals DEF Fields
<1>7. Valid(Sample(Update[sample]))
  BY RecoveryAssumption DEF RecoveryInv, TypeOK
<1>8. Tag \in Tags /\ Low <= Update[sample] /\ Update[sample] <= High /\ Length <= Capacity
  BY <1>1, <1>7, SampleWords, ValidMeans
<1> QED
  BY <1>6, <1>8, ValidMeans

(* Without a hit on it the checkpoint validates.  *)
LEMMA RollsBack ==
  ASSUME RecoveryInv, pc \notin {"idle", "entry_copy"}, Undisturbed
  PROVE  Passed(Validate(checkpoint))
  BY DEF RecoveryInv, CopiesKept, CheckpointKept, CheckpointHit, Undisturbed, Hit, Valid

(* Without a hit the operation makes the wanted record, which is valid, and *)
(* each of its faults spoils that.                                          *)
LEMMA RewritesSteer ==
  ASSUME RecoveryInv, Undisturbed, Sealing = "check" \/ pc # "seal"
  PROVE  /\ ~Exposed /\ Wanted["max"] + 1 \in Word
         /\ Seal => Valid(active')
         /\ Reseal => ~Valid(active')
         /\ Break => ~Valid(active')
<1>1. ~Exposed
  BY DEF Undisturbed, Exposed, Hit
<1>2. Wanted \in Record /\ Sealed(Wanted) /\ Valid(Wanted) /\ Wanted["max"] + 1 \in Word
  BY WantedIsValid, RecoveryAssumption DEF Undisturbed
<1>r. Rewrites
  BY DEF RecoveryInv, ActiveKept
<1>3. ASSUME Seal PROVE Valid(active')
  <2>1. active' = Wanted
    BY <1>1, <1>3, <1>r DEF Seal, Rewrite, Rewrites, Wanted
  <2> QED
    BY <1>2, <2>1
<1>4. ASSUME Reseal PROVE ~Valid(active')
  <2>1. active' = Refresh(Exceeded)
    BY <1>1, <1>4, <1>r DEF Reseal, Rewrite, Rewrites
  <2> QED
    BY <1>2, <2>1, AboveFails DEF Exceeded
<1>5. ASSUME Break PROVE ~Valid(active')
  <2>1. active = Wanted \/ active = Refresh(Exceeded)
    BY <1>1, <1>5, <1>r DEF Break, Rewrite, Rewrites
  <2>2. active \in Record /\ Sealed(active)
    BY <1>2, <2>1, WantedType, RefreshSeals
  <2>3. active' = [active EXCEPT !["checksum"] = Flip[active["checksum"]]]
    BY <1>5 DEF Break, Rewrite
  <2> QED
    BY <2>2, <2>3, BrokenSealFails
<1> QED
  BY <1>1, <1>2, <1>3, <1>4, <1>5

(* Every step keeps the course the faults set; a hit ends it. *)
LEMMA FaultsSteerKept ==
  ASSUME RecoveryInv, FaultsSteer, [Next]_vars
  PROVE  FaultsSteer'
<1> DEFINE Steered ==
      /\ op' = "alternate" => Faulty("primary")'
      /\ pc' = "check" => IF Faulty(op)' THEN ~Valid(active') ELSE Valid(active')
      /\ pc' \in {"exceed", "reseal", "break", "recover", "recover_copy"} => Faulty(op)'
      /\ pc' \in {"accept", "accept_copy"} => ~Faulty(op)'
<1> SUFFICES ASSUME pc' # "idle", Undisturbed' PROVE Steered
  BY DEF FaultsSteer, Valid
<1>1. ASSUME NEW s \in Samples, NEW fs \in SUBSET Faults, Call(s, fs)
      PROVE  Steered
  <2>1. op' = "primary" /\ pc' = "entry_copy"
    BY <1>1 DEF Call
  <2> QED
    BY <2>1
<1>2. ASSUME NEW copy \in Copies, NEW fw \in Flips, Upset(copy, fw[1], fw[2])
      PROVE  FALSE
  BY <1>2 DEF Upset, Undisturbed
<1>3. ASSUME pc # "idle", UNCHANGED <<op, faults, entry, hits>>
      PROVE  /\ Undisturbed /\ op' = op /\ Faulty(op)' = Faulty(op)
             /\ Faulty("primary")' = Faulty("primary")
             /\ op' = "alternate" => Faulty("primary")'
  <2>1. Undisturbed
    BY <1>3 DEF Undisturbed, IntactEntry
  <2>2. Faulty(op)' = Faulty(op) /\ Faulty("primary")' = Faulty("primary")
    BY <1>3 DEF Faulty
  <2> QED
    BY <1>3, <2>1, <2>2 DEF FaultsSteer
<1>4. CASE EntryCopy \/ Store
  <2>1. pc # "idle" /\ UNCHANGED <<op, faults, entry, hits>> /\ pc' \in {"store", "seal"}
    BY <1>4 DEF EntryCopy, Store, Rewrite
  <2> QED
    BY <1>3, <2>1
<1>5. CASE Seal
  <2>1. /\ pc # "idle" /\ UNCHANGED <<op, faults, entry, hits>>
        /\ pc' = IF Injected("range") THEN "exceed" ELSE Sealing
    BY <1>5 DEF Seal, Rewrite
  <2>2. /\ Undisturbed /\ Faulty(op)' = Faulty(op)
        /\ op' = "alternate" => Faulty("primary")'
    BY <1>3, <2>1
  <2>3. CASE Faulty(op)
    <3>1. pc' \in {"exceed", "break"}
      BY <2>1, <2>3 DEF Sealing, Injected, Faulty
    <3> QED
      BY <2>2, <2>3, <3>1
  <2>4. CASE ~Faulty(op)
    <3>1. pc' = "check" /\ Sealing = "check"
      BY <2>1, <2>4 DEF Sealing, Injected, Faulty
    <3>2. Valid(active')
      BY <1>5, <2>2, <3>1, RewritesSteer
    <3> QED
      BY <2>2, <2>4, <3>1, <3>2
  <2> QED
    BY <2>3, <2>4
<1>6. CASE Exceed \/ Reseal \/ Break
  <2>1. /\ pc \in {"exceed", "reseal", "break"} /\ UNCHANGED <<op, faults, entry, hits>>
        /\ pc' \in {"reseal", "break", "check"}
        /\ Exceed => pc' = "reseal"
    BY <1>6 DEF Exceed, Reseal, Break, Rewrite, Sealing
  <2>2. /\ Undisturbed /\ Faulty(op)' = Faulty(op)
        /\ op' = "alternate" => Faulty("primary")'
    BY <1>3, <2>1
  <2>3. Faulty(op)
    BY <2>1, <2>2 DEF FaultsSteer
  <2>4. pc' = "check" => ~Valid(active')
    BY <1>6, <2>1, <2>2, RewritesSteer
  <2> QED
    BY <2>1, <2>2, <2>3, <2>4
<1>7. CASE Check
  <2>1. /\ pc = "check" /\ UNCHANGED <<active, op, faults, entry, hits>>
        /\ pc' = IF Valid(active) THEN "accept" ELSE "recover"
    BY <1>7 DEF Check, Valid
  <2>2. /\ Undisturbed /\ Faulty(op)' = Faulty(op)
        /\ op' = "alternate" => Faulty("primary")'
    BY <1>3, <2>1
  <2>3. IF Faulty(op) THEN ~Valid(active) ELSE Valid(active)
    BY <2>1, <2>2 DEF FaultsSteer
  <2> QED
    BY <2>1, <2>2, <2>3
<1>8. CASE Accept \/ AcceptCopy
  <2>1. pc = "accept" /\ pc' = "accept_copy" /\ UNCHANGED <<op, faults, entry, hits>>
    BY <1>8 DEF Accept, AcceptCopy, Return
  <2>2. /\ Undisturbed /\ Faulty(op)' = Faulty(op)
        /\ op' = "alternate" => Faulty("primary")'
    BY <1>3, <2>1
  <2>3. ~Faulty(op)
    BY <2>1, <2>2 DEF FaultsSteer
  <2> QED
    BY <2>1, <2>2, <2>3
<1>9. CASE Recover
  <2>1. pc = "recover" /\ pc' = "recover_copy" /\ UNCHANGED <<op, faults, entry, hits>>
    BY <1>9 DEF Recover
  <2>2. /\ Undisturbed /\ Faulty(op)' = Faulty(op)
        /\ op' = "alternate" => Faulty("primary")'
    BY <1>3, <2>1
  <2>3. Faulty(op)
    BY <2>1, <2>2 DEF FaultsSteer
  <2> QED
    BY <2>1, <2>2, <2>3
<1>10. CASE RecoverCopy
  <2>1. /\ pc = "recover_copy" /\ op = "primary" /\ pc' = "store"
        /\ faults' = faults /\ entry' = entry /\ hits' = hits
    BY <1>10 DEF RecoverCopy, Resume, Return
  <2>2. Undisturbed
    BY <2>1 DEF Undisturbed, IntactEntry
  <2>3. Faulty("primary")
    BY <2>1, <2>2 DEF FaultsSteer
  <2> QED
    BY <2>1, <2>3 DEF Faulty
<1>11. CASE UNCHANGED vars
  <2>1. /\ pc # "idle" /\ pc' = pc /\ active' = active
        /\ UNCHANGED <<op, faults, entry, hits>>
    BY <1>11 DEF vars
  <2>2. /\ Undisturbed /\ Faulty(op)' = Faulty(op)
        /\ op' = "alternate" => Faulty("primary")'
    BY <1>3, <2>1
  <2> QED
    BY <2>1, <2>2 DEF FaultsSteer
<1> QED
  BY <1>1, <1>2, <1>4, <1>5, <1>6, <1>7, <1>8, <1>9, <1>10, <1>11 DEF Next

(* Where that course ends. *)
LEMMA OutcomeIsDecided ==
  ASSUME RecoveryInv, FaultsSteer, [Next]_vars,
         pc # "idle", pc' = "idle", hits = {}, IntactEntry
  PROVE  result'.status = IF ~Faulty("primary") THEN "PRIMARY_ACCEPTED"
                          ELSE IF ~Faulty("alternate") THEN "ALTERNATE_ACCEPTED"
                          ELSE "UNRECOVERABLE"
<1>0. /\ result \in Result /\ op \in Operations /\ Undisturbed
      /\ op = "alternate" => Faulty("primary")
  BY DEF RecoveryInv, TypeOK, FaultsSteer, Undisturbed
<1>1. CASE Accept \/ AcceptCopy
  <2>1. ~Faulty(op)
    BY <1>0, <1>1 DEF FaultsSteer, Accept, AcceptCopy
  <2>2. result'.status = Accepted
    BY <1>0, <1>1 DEF Accept, AcceptCopy, Return, Result
  <2> QED
    BY <1>0, <2>1, <2>2 DEF Accepted, Operations
<1>2. CASE Recover
  <2>1. Passed(Validate(checkpoint))
    BY <1>0, <1>2, RollsBack DEF Recover
  <2> QED
    BY <1>2, <2>1 DEF Recover
<1>3. CASE RecoverCopy
  <2>1. Faulty(op)
    BY <1>0, <1>3 DEF FaultsSteer, RecoverCopy
  <2>2. op = "alternate" /\ result'.status = "UNRECOVERABLE"
    BY <1>0, <1>3 DEF RecoverCopy, Resume, Return, Result
  <2> QED
    BY <1>0, <2>1, <2>2
<1>4. Accept \/ AcceptCopy \/ Recover \/ RecoverCopy
  <2>1. ~(Store \/ Seal \/ Exceed \/ Reseal \/ Break)
    BY DEF Store, Seal, Exceed, Reseal, Break, Rewrite, Sealing
  <2>2. ~EntryCopy /\ ~Check /\ ~UNCHANGED vars
    BY DEF EntryCopy, Check, vars
  <2>3. /\ \A s \in Samples, fs \in SUBSET Faults : ~Call(s, fs)
        /\ \A copy \in Copies, fw \in Flips : ~Upset(copy, fw[1], fw[2])
    BY DEF Call, Upset
  <2> QED
    BY <2>1, <2>2, <2>3 DEF Next
<1> QED
  BY <1>1, <1>2, <1>3, <1>4

(* Without upsets in the call the injected faults alone decide what it     *)
(* returns, whatever they are: the alternate covers a faulty primary, and  *)
(* two faulty operations roll back.                                        *)
THEOREM FaultsAloneDecide == Spec => FaultsDecideOutcome
<1>1. Init => FaultsSteer
  BY DEF Init, FaultsSteer
<1>2. RecoveryInv /\ FaultsSteer /\ [Next]_vars => FaultsSteer'
  BY FaultsSteerKept
<1>3. RecoveryInv /\ FaultsSteer /\ [Next]_vars =>
        [(pc # "idle" /\ pc' = "idle" /\ hits = {} /\ IntactEntry) =>
           result'.status = IF ~Faulty("primary") THEN "PRIMARY_ACCEPTED"
                            ELSE IF ~Faulty("alternate") THEN "ALTERNATE_ACCEPTED"
                            ELSE "UNRECOVERABLE"]_vars
  BY OutcomeIsDecided
<1> QED
  BY <1>1, <1>2, <1>3, RecoveryTypeCorrect, RecoveryInvariant, PTL
     DEF Spec, RecoveryInv, FaultsDecideOutcome
=============================================================================
