-------------------------- MODULE TechniqueProofs --------------------------
(***************************************************************************)
(* Theorems about the techniques that keep no record in memory: the        *)
(* control-flow monitor, for every word size, every choice of distinct     *)
(* signatures and any number of faults; three copies of a value under a    *)
(* vote, for every set of integers and every saturation point; and two     *)
(* versions of a computation, for every input and every modulus, factor    *)
(* and offset whose intermediate results fit the word.  The three machines *)
(* share no variable: each theorem is about one of them.                   *)
(***************************************************************************)
EXTENDS ControlFlow, Tmr, SampleUpdate, Integers, FiniteSetTheorems, SequenceTheorems,
        TLAPS

-----------------------------------------------------------------------------
(* The monitor *)

LEMMA HitFinite ==
  ASSUME NEW S \in SUBSET MonitorFields PROVE Cardinality(S) \in Nat
<1>1. IsFiniteSet(MonitorFields)
  <2>1. IsFiniteSet({} \union {"phase"})
    BY FS_EmptySet, FS_AddElement
  <2>2. IsFiniteSet(({} \union {"phase"}) \union {"signature"})
    BY <2>1, FS_AddElement
  <2>3. IsFiniteSet((({} \union {"phase"}) \union {"signature"}) \union {"transitions"})
    BY <2>2, FS_AddElement
  <2>4. MonitorFields = (({} \union {"phase"}) \union {"signature"}) \union {"transitions"}
    BY DEF MonitorFields
  <2> QED
    BY <2>3, <2>4
<1> QED
  BY <1>1, FS_Subset, FS_CardinalityType

LEMMA PhaseWords ==
  /\ Phases = 0 .. 5 /\ Phases \subseteq Word
  /\ \A p \in Phases : Signature[p] \in Word
  /\ \A w \in Word : Successor(w) \in Word
  BY ControlAssumption DEF Phases, START, DONE, Successor

(* The variables stay in their types. *)
THEOREM ControlTypeCorrect == Spec => []TypeOK
<1> USE DEF START, READ_INPUT, COMPUTE, VALIDATE, COMMIT, DONE
<1>1. Init => TypeOK
  <2> SUFFICES ASSUME Init PROVE TypeOK
    OBVIOUS
  <2>1. monitor \in [MonitorFields -> Word]
    BY PhaseWords DEF Init, MonitorInit, MonitorFields
  <2>2. jumps \in 0 .. MaxFaults
    BY ControlAssumption DEF Init
  <2>3. <<at, block>> \in Places /\ status \in Statuses
    BY DEF Init, Places, Statuses
  <2>4. done \in Seq(Blocks)
    BY EmptySeq DEF Init
  <2>5. slipped \in BOOLEAN /\ hit \subseteq MonitorFields
    BY DEF Init
  <2> QED
    BY <2>1, <2>2, <2>3, <2>4, <2>5 DEF TypeOK
<1>2. TypeOK /\ [Next]_vars => TypeOK'
  <2> SUFFICES ASSUME TypeOK, [Next]_vars PROVE TypeOK'
    OBVIOUS
  <2>1. CASE Advance
    <3>1. block \in 0 .. 4
      BY <2>1 DEF Advance, TypeOK, Places
    <3>2. status' \in Statuses
      BY <2>1 DEF Advance, ValidateCurrent, Statuses
    <3>3. monitor' \in [MonitorFields -> Word]
      <4>1. block + 1 \in Phases
        BY <3>1 DEF Phases
      <4>2. block + 1 \in Word /\ Signature[block + 1] \in Word
        BY <4>1, PhaseWords
      <4>3. Successor(monitor.transitions) \in Word
        BY PhaseWords DEF TypeOK, MonitorFields
      <4> QED
        BY <2>1, <4>2, <4>3 DEF Advance, TypeOK, MonitorFields
    <3>4. <<at', block'>> \in Places \/ (at' = "stopped" /\ block' \in Phases)
      BY <2>1, <3>1 DEF Advance, Places, Blocks, Phases
    <3> QED
      BY <2>1, <3>2, <3>3, <3>4 DEF Advance, TypeOK
  <2>2. CASE Work
    <3>1. block \in Blocks
      BY <2>2 DEF Work, TypeOK, Places
    <3>2. done' \in Seq(Blocks)
      BY <2>2, <3>1 DEF Work, TypeOK
    <3>3. <<at', block'>> \in Places
      BY <2>2, <3>1 DEF Work, Places, Blocks
    <3> QED
      BY <2>2, <3>2, <3>3 DEF Work, TypeOK
  <2>3. CASE Finish
    <3>1. block' = DONE /\ at' \in {"completed", "stopped"}
      BY <2>3 DEF Finish, TypeOK, Places
    <3>2. status' \in Statuses
      BY <2>3 DEF Finish, FinishCheck, Statuses
    <3> QED
      BY <2>3, <3>1, <3>2 DEF Finish, TypeOK, Phases
  <2>4. CASE Restart
    <3>1. monitor' \in [MonitorFields -> Word]
      BY <2>4, PhaseWords DEF Restart, MonitorInit, MonitorFields
    <3>2. jumps' \in 0 .. MaxFaults
      BY <2>4, ControlAssumption DEF Restart
    <3>3. <<at', block'>> \in Places /\ status' \in Statuses
      BY <2>4 DEF Restart, Places, Statuses
    <3>4. done' \in Seq(Blocks)
      BY <2>4, EmptySeq DEF Restart
    <3>5. slipped' \in BOOLEAN /\ hit' \subseteq MonitorFields
      BY <2>4 DEF Restart
    <3> QED
      BY <3>1, <3>2, <3>3, <3>4, <3>5 DEF TypeOK
  <2>5. ASSUME NEW place \in Places, Jump(place) PROVE TypeOK'
    <3>1. <<at', block'>> = place
      BY <2>5 DEF Jump, Places
    <3>2. Cardinality(hit) \in Nat
      BY HitFinite DEF TypeOK
    <3>3. jumps' \in 0 .. MaxFaults
      BY <2>5, <3>2, ControlAssumption DEF Jump, FaultsLeft, TypeOK
    <3>4. slipped' \in BOOLEAN
      BY <2>5 DEF Jump, TypeOK
    <3> QED
      BY <2>5, <3>1, <3>3, <3>4 DEF Jump, TypeOK
  <2>6. ASSUME NEW f \in MonitorFields, NEW w \in Word, MonitorUpset(f, w)
        PROVE  TypeOK'
    BY <2>6 DEF MonitorUpset, TypeOK
  <2>7. CASE UNCHANGED vars
    BY <2>7 DEF vars, TypeOK
  <2> QED
    BY <2>1, <2>2, <2>3, <2>4, <2>5, <2>6, <2>7 DEF Next
<1> QED
  BY <1>1, <1>2, PTL DEF Spec

-----------------------------------------------------------------------------
(* What the monitor's words are, unless they were hit, when the last       *)
(* transition entered phase p.                                             *)
MonitorAt(p) ==
  /\ "phase" \in hit \/ monitor.phase = p
  /\ "signature" \in hit \/ monitor.signature = Signature[p]

(* The blocks a program without jumps has done where it now is. *)
DoneUpTo ==
  IF at = "work" THEN block - 1 ELSE IF block = DONE THEN COMMIT ELSE block

(* The inductive invariant: the monitor is at some phase; without a jump   *)
(* that is the program's and the work was done in order; after one covered *)
(* jump it is another phase than the program's, so that the next call of   *)
(* the monitor stops it.                                                   *)
MonitorSomewhere == \E p \in Phases : MonitorAt(p)

OnPath ==
  jumps = 0 =>
    /\ MonitorAt(block)
    /\ done = InOrderUpTo(DoneUpTo)
    /\ "transitions" \in hit \/ monitor.transitions = block
    /\ at = "completed" => block = DONE

OffPath ==
  (Covered /\ jumps = 1) =>
    /\ at # "completed"
    /\ \E p \in Phases : p # block /\ MonitorAt(p)
    /\ \E n \in 0 .. COMMIT :
          \/ done = InOrderUpTo(n)
          \/ at # "work" /\ \E b \in Blocks : done = Append(InOrderUpTo(n), b)

PathInv == MonitorSomewhere /\ OnPath /\ OffPath /\ DiagnosisIsRight

LEMMA InOrderGrows ==
  ASSUME NEW b \in 1 .. 4
  PROVE  Append(InOrderUpTo(b - 1), b) = InOrderUpTo(b)
<1> DEFINE s == InOrderUpTo(b - 1)
<1>1. s \in Seq(1 .. 4) /\ Len(s) = b - 1 /\ \A n \in 1 .. b - 1 : s[n] = n
  BY DEF InOrderUpTo
<1> HIDE DEF s
<1>2. Append(s, b) \in Seq(1 .. 4) /\ Len(Append(s, b)) = b
  BY <1>1
<1>3. \A n \in 1 .. b : Append(s, b)[n] = n
  BY <1>1
<1>4. /\ InOrderUpTo(b) \in Seq(1 .. 4) /\ Len(InOrderUpTo(b)) = b
      /\ \A n \in 1 .. b : InOrderUpTo(b)[n] = n
  BY DEF InOrderUpTo
<1>5. Append(s, b) = InOrderUpTo(b)
  BY <1>2, <1>3, <1>4, SeqEqual
<1> QED
  BY <1>5 DEF s

(* A call of the monitor that names another phase than the monitor's fails *)
(* unless both its words were hit.                                         *)
LEMMA WrongPhaseFails ==
  ASSUME Covered, NEW p \in Phases, NEW q \in Phases, p # q, MonitorAt(p)
  PROVE  /\ ValidateCurrent(q) # "OK"
         /\ q = DONE => FinishCheck # "OK"
<1>1. Signature[p] # Signature[q]
  BY ControlAssumption
<1>2. monitor.phase # q \/ monitor.signature # Signature[q]
  BY <1>1 DEF Covered, MonitorAt
<1> QED
  BY <1>2 DEF ValidateCurrent, FinishCheck

LEMMA AdvanceKeeps ==
  ASSUME TypeOK, PathInv, Advance
  PROVE  MonitorSomewhere' /\ OnPath' /\ OffPath'
<1> USE DEF START, READ_INPUT, COMPUTE, VALIDATE, COMMIT, DONE
<1>0. block \in 0 .. 4 /\ block \in Phases /\ block + 1 \in Phases
  BY DEF Advance, TypeOK, Places, Phases
<1>1. CASE ValidateCurrent(block) = "OK"
  <2>1. /\ monitor'.phase = block + 1
        /\ monitor'.signature = Signature[block + 1]
        /\ monitor'.transitions = Successor(monitor.transitions)
        /\ block' = block + 1
    BY <1>1 DEF Advance
  <2>2. MonitorAt(block)'
    BY <2>1 DEF MonitorAt
  <2>3. MonitorSomewhere'
    BY <1>0, <2>1, <2>2 DEF MonitorSomewhere
  <2>4. ASSUME jumps = 0
        PROVE  /\ done' = InOrderUpTo(DoneUpTo)'
               /\ "transitions" \in hit' \/ monitor'.transitions = block'
    <3>1. done = InOrderUpTo(block)
      BY <1>0, <2>4 DEF PathInv, OnPath, DoneUpTo, Advance
    <3>2. DoneUpTo' = block
      BY <1>0, <1>1, <2>1 DEF DoneUpTo, Advance
    <3>3. done' = InOrderUpTo(DoneUpTo)'
      BY <3>1, <3>2 DEF Advance, InOrderUpTo
    <3>4. "transitions" \in hit \/ monitor.transitions = block
      BY <2>4 DEF PathInv, OnPath
    <3>5. Successor(block) = block + 1
      BY <1>0, PhaseWords DEF Successor
    <3> QED
      BY <2>1, <3>3, <3>4, <3>5 DEF Advance
  <2>a. at' # "completed"
    BY <1>1 DEF Advance
  <2>5. OnPath'
    BY <2>2, <2>4, <2>a DEF OnPath, Advance, MonitorAt
  <2>6. ~(Covered /\ jumps = 1)
    BY <1>0, <1>1, WrongPhaseFails DEF PathInv, OffPath
  <2>7. OffPath'
    BY <2>6 DEF OffPath, Covered, Advance
  <2> QED
    BY <2>3, <2>5, <2>7
<1>2. CASE ValidateCurrent(block) # "OK"
  <2>1. /\ at' = "stopped" /\ at = "advance"
        /\ UNCHANGED <<monitor, block, done, jumps, slipped, hit>>
    BY <1>2 DEF Advance
  <2>2. MonitorSomewhere'
    BY <2>1 DEF PathInv, MonitorSomewhere, MonitorAt
  <2>3. OnPath'
    BY <2>1 DEF PathInv, OnPath, MonitorAt, DoneUpTo, InOrderUpTo
  <2>4. OffPath'
    BY <2>1 DEF PathInv, OffPath, MonitorAt, Covered, InOrderUpTo
  <2> QED
    BY <2>2, <2>3, <2>4
<1> QED
  BY <1>1, <1>2

LEMMA WorkKeeps ==
  ASSUME TypeOK, PathInv, Work
  PROVE  MonitorSomewhere' /\ OnPath' /\ OffPath'
<1> USE DEF START, READ_INPUT, COMPUTE, VALIDATE, COMMIT, DONE
<1>0. block \in 1 .. 4 /\ block \in Blocks
  BY DEF Work, TypeOK, Places, Blocks
<1>1. /\ at = "work" /\ at' = "advance" /\ done' = Append(done, block)
      /\ UNCHANGED <<monitor, block, jumps, slipped, hit>>
  BY DEF Work
<1>2. MonitorSomewhere'
  BY <1>1 DEF PathInv, MonitorSomewhere, MonitorAt
<1>3. ASSUME jumps = 0 PROVE done' = InOrderUpTo(DoneUpTo)'
  <2>1. done = InOrderUpTo(block - 1)
    BY <1>1, <1>3 DEF PathInv, OnPath, DoneUpTo
  <2>2. done' = InOrderUpTo(block)
    BY <1>0, <1>1, <2>1, InOrderGrows
  <2>3. DoneUpTo' = block
    BY <1>0, <1>1 DEF DoneUpTo
  <2> QED
    BY <2>2, <2>3 DEF InOrderUpTo
<1>4. OnPath'
  BY <1>1, <1>3 DEF PathInv, OnPath, MonitorAt
<1>5. OffPath'
  BY <1>0, <1>1 DEF PathInv, OffPath, MonitorAt, Covered, InOrderUpTo
<1> QED
  BY <1>2, <1>4, <1>5

LEMMA FinishKeeps ==
  ASSUME TypeOK, PathInv, Finish
  PROVE  MonitorSomewhere' /\ OnPath' /\ OffPath'
<1> USE DEF START, READ_INPUT, COMPUTE, VALIDATE, COMMIT, DONE
<1>0. block = DONE /\ block \in Phases
  BY DEF Finish, TypeOK, Places, Phases
<1>1. /\ at = "finish" /\ at' \in {"completed", "stopped"}
      /\ UNCHANGED <<monitor, block, done, jumps, slipped, hit>>
  BY DEF Finish
<1>2. MonitorSomewhere'
  BY <1>1 DEF PathInv, MonitorSomewhere, MonitorAt
<1>3. OnPath'
  BY <1>0, <1>1 DEF PathInv, OnPath, MonitorAt, DoneUpTo, InOrderUpTo
<1>4. (Covered /\ jumps = 1) => at' = "stopped"
  BY <1>0, WrongPhaseFails DEF PathInv, OffPath, Finish
<1>5. OffPath'
  BY <1>1, <1>4 DEF PathInv, OffPath, MonitorAt, Covered, InOrderUpTo
<1> QED
  BY <1>2, <1>3, <1>5

LEMMA JumpKeeps ==
  ASSUME TypeOK, PathInv, NEW place \in Places, Jump(place)
  PROVE  MonitorSomewhere' /\ OnPath' /\ OffPath'
<1> USE DEF START, READ_INPUT, COMPUTE, VALIDATE, COMMIT, DONE
<1>1. /\ at \in {"work", "advance", "finish"} /\ at' # "completed"
      /\ jumps' = jumps + 1 /\ jumps \in Nat
      /\ slipped' = (slipped \/ block' = block)
      /\ UNCHANGED <<monitor, done, hit>>
  BY ControlAssumption DEF Jump, Running, Places, TypeOK
<1>2. MonitorSomewhere'
  BY <1>1 DEF PathInv, MonitorSomewhere, MonitorAt
<1>3. OnPath'
  BY <1>1 DEF OnPath
<1>4. ASSUME Covered', jumps' = 1
      PROVE  /\ \E p \in Phases : p # block' /\ MonitorAt(p)'
             /\ \E n \in 0 .. 4 : done' = InOrderUpTo(n)
  <2>0. block \in Phases
    BY DEF TypeOK, Places, Blocks, Phases
  <2>s. ~slipped'
    BY <1>4 DEF Covered
  <2>n. block' # block
    BY <1>1, <2>s
  <2>j. jumps = 0
    BY <1>1, <1>4
  <2>1. jumps = 0 /\ block' # block /\ block \in Phases
    BY <2>0, <2>j, <2>n
  <2>2. MonitorAt(block) /\ done = InOrderUpTo(DoneUpTo)
    BY <2>1 DEF PathInv, OnPath
  <2>3. DoneUpTo \in 0 .. 4
    BY <1>1 DEF DoneUpTo, TypeOK, Places, Blocks
  <2>4. MonitorAt(block) => \E p \in Phases : p # block' /\ MonitorAt(p)'
    BY <1>1, <2>1 DEF MonitorAt
  <2> QED
    BY <1>1, <2>2, <2>3, <2>4
<1>5. OffPath'
  BY <1>1, <1>4 DEF OffPath, InOrderUpTo
<1> QED
  BY <1>2, <1>3, <1>5

LEMMA UpsetKeeps ==
  ASSUME TypeOK, PathInv, NEW f \in MonitorFields, NEW w \in Word, MonitorUpset(f, w)
  PROVE  MonitorSomewhere' /\ OnPath' /\ OffPath'
<1>1. /\ at' = at /\ block' = block /\ done' = done /\ jumps' = jumps
      /\ slipped' = slipped /\ hit' = hit \union {f}
      /\ monitor' = [monitor EXCEPT ![f] = w]
  BY DEF MonitorUpset
<1>2. \A g \in MonitorFields : g \in hit' \/ monitor'[g] = monitor[g]
  BY <1>1 DEF TypeOK
<1>3. /\ "phase" \in hit' \/ monitor'.phase = monitor.phase
      /\ "signature" \in hit' \/ monitor'.signature = monitor.signature
      /\ "transitions" \in hit' \/ monitor'.transitions = monitor.transitions
  BY <1>2 DEF MonitorFields
<1>4. hit \subseteq hit' /\ (Covered' => Covered)
  BY <1>1 DEF Covered
<1>5. \A p \in Phases : MonitorAt(p) => MonitorAt(p)'
  BY <1>3, <1>4 DEF MonitorAt
<1>6. MonitorSomewhere'
  BY <1>5 DEF PathInv, MonitorSomewhere
<1>7. block \in Phases
  BY DEF TypeOK, Places, Blocks, Phases, START, READ_INPUT, COMMIT, DONE
<1>8. MonitorAt(block) => MonitorAt(block)'
  BY <1>1, <1>3, <1>4 DEF MonitorAt
<1>9. OnPath'
  BY <1>1, <1>3, <1>4, <1>8 DEF PathInv, OnPath, DoneUpTo, InOrderUpTo
<1>10. OffPath'
  BY <1>1, <1>4, <1>5 DEF PathInv, OffPath, InOrderUpTo
<1> QED
  BY <1>6, <1>9, <1>10

LEMMA StartKeeps == Init => MonitorSomewhere /\ OnPath /\ OffPath
<1> SUFFICES ASSUME Init PROVE MonitorSomewhere /\ OnPath /\ OffPath
  OBVIOUS
<1>1. MonitorAt(START) /\ START \in Phases /\ monitor.transitions = START
  BY DEF Init, MonitorAt, MonitorInit, Phases, START, DONE
<1>2. done = InOrderUpTo(DoneUpTo)
  BY DEF Init, InOrderUpTo, DoneUpTo, START, DONE
<1>3. block = START /\ jumps = 0 /\ at # "completed"
  BY DEF Init
<1> QED
  BY <1>1, <1>2, <1>3 DEF MonitorSomewhere, OnPath, OffPath

LEMMA RestartKeeps ==
  ASSUME Restart PROVE MonitorSomewhere' /\ OnPath' /\ OffPath'
<1>1. MonitorAt(START)' /\ START \in Phases /\ monitor'.transitions = START
  BY DEF Restart, MonitorAt, MonitorInit, Phases, START, DONE
<1>2. done' = InOrderUpTo(DoneUpTo)'
  BY DEF Restart, InOrderUpTo, DoneUpTo, START, DONE
<1>3. block' = START /\ jumps' = 0 /\ at' # "completed"
  BY DEF Restart
<1>4. MonitorAt(block)'
  BY <1>1, <1>3 DEF MonitorAt
<1> QED
  BY <1>1, <1>2, <1>3, <1>4 DEF MonitorSomewhere, OnPath, OffPath

(* What a call of the monitor answers names a fault that happened. *)
LEMMA DiagnosisKept ==
  ASSUME TypeOK, PathInv, [Next]_vars PROVE DiagnosisIsRight'
<1>1. PICK p \in Phases : MonitorAt(p)
  BY DEF PathInv, MonitorSomewhere
<1>2. jumps = 0 => MonitorAt(block)
  BY DEF PathInv, OnPath
<1>3. jumps \in Nat
  BY ControlAssumption DEF TypeOK
<1>4. CASE Advance
  <2>1. status' = ValidateCurrent(block) /\ jumps' = jumps /\ hit' = hit
    BY <1>4 DEF Advance
  <2> QED
    BY <1>1, <1>2, <1>3, <2>1 DEF ValidateCurrent, MonitorAt, DiagnosisIsRight
<1>5. CASE Finish
  <2>1. status' = FinishCheck /\ jumps' = jumps /\ hit' = hit /\ block = DONE
    BY <1>5 DEF Finish, TypeOK, Places, Blocks, START, READ_INPUT, COMMIT, DONE
  <2> QED
    BY <1>1, <1>2, <1>3, <2>1 DEF FinishCheck, MonitorAt, DiagnosisIsRight
<1>6. CASE Restart
  BY <1>6 DEF Restart, DiagnosisIsRight
<1>7. CASE Work \/ UNCHANGED vars
  BY <1>7 DEF Work, vars, PathInv, DiagnosisIsRight
<1>8. ASSUME NEW place \in Places, Jump(place) PROVE DiagnosisIsRight'
  BY <1>3, <1>8 DEF Jump, PathInv, DiagnosisIsRight
<1>9. ASSUME NEW f \in MonitorFields, NEW w \in Word, MonitorUpset(f, w)
      PROVE  DiagnosisIsRight'
  BY <1>9 DEF MonitorUpset, PathInv, DiagnosisIsRight
<1> QED
  BY <1>4, <1>5, <1>6, <1>7, <1>8, <1>9 DEF Next

LEMMA PathInvariant == Spec => []PathInv
<1>1. Init => PathInv
  BY StartKeeps DEF PathInv, Init, DiagnosisIsRight
<1>2. TypeOK /\ PathInv /\ [Next]_vars => PathInv'
  <2> SUFFICES ASSUME TypeOK, PathInv, [Next]_vars PROVE PathInv'
    OBVIOUS
  <2>1. CASE UNCHANGED vars
    BY <2>1 DEF vars, PathInv, MonitorSomewhere, OnPath, OffPath, MonitorAt,
       DoneUpTo, InOrderUpTo, Covered, DiagnosisIsRight
  <2>2. CASE Next
    <3>1. MonitorSomewhere' /\ OnPath' /\ OffPath'
      BY <2>2, AdvanceKeeps, WorkKeeps, FinishKeeps, RestartKeeps, JumpKeeps,
         UpsetKeeps DEF Next
    <3> QED
      BY <3>1, DiagnosisKept DEF PathInv
  <2> QED
    BY <2>1, <2>2
<1> QED
  BY <1>1, <1>2, ControlTypeCorrect, PTL DEF Spec

-----------------------------------------------------------------------------
(* A program that completes, within the monitor's promise, never jumped    *)
(* and did its work in order.                                              *)
THEOREM CompletionsAreInOrder == Spec => []CompletedInOrder
<1>1. TypeOK /\ PathInv => CompletedInOrder
  <2> SUFFICES ASSUME TypeOK, PathInv, at = "completed", Covered
               PROVE  /\ jumps = 0
                      /\ done = <<READ_INPUT, COMPUTE, VALIDATE, COMMIT>>
                      /\ "transitions" \in hit \/ monitor.transitions = 5
    BY DEF CompletedInOrder
  <2>1. jumps = 0
    BY ControlAssumption DEF TypeOK, PathInv, OffPath, Covered
  <2>2. /\ done = InOrderUpTo(4)
        /\ "transitions" \in hit \/ monitor.transitions = 5
    BY <2>1 DEF PathInv, OnPath, DoneUpTo, COMMIT, DONE
  <2>3. InOrderUpTo(4) = <<1, 2, 3, 4>>
    BY DEF InOrderUpTo
  <2> QED
    BY <2>1, <2>2, <2>3 DEF READ_INPUT, COMPUTE, VALIDATE, COMMIT
<1> QED
  BY <1>1, ControlTypeCorrect, PathInvariant, PTL

(* At most one stray block is done before the monitor stops the program. *)
THEOREM StrayWorkIsBounded == Spec => []StrayWorkIsOneBlock
<1>1. TypeOK /\ PathInv => StrayWorkIsOneBlock
  <2> SUFFICES ASSUME TypeOK, PathInv, Covered
               PROVE  \E n \in 0 .. COMMIT :
                         \/ done = InOrderUpTo(n)
                         \/ \E b \in Blocks : done = Append(InOrderUpTo(n), b)
    BY DEF StrayWorkIsOneBlock
  <2>1. jumps = 0 \/ jumps = 1
    BY ControlAssumption DEF TypeOK, Covered
  <2>2. CASE jumps = 0
    <3>1. DoneUpTo \in 0 .. COMMIT
      BY DEF DoneUpTo, TypeOK, Places, Blocks, Phases, START, READ_INPUT, COMMIT, DONE
    <3>2. done = InOrderUpTo(DoneUpTo)
      BY <2>2 DEF PathInv, OnPath
    <3> QED
      BY <3>1, <3>2
  <2>3. CASE jumps = 1
    BY <2>3 DEF PathInv, OffPath
  <2> QED
    BY <2>1, <2>2, <2>3
<1> QED
  BY <1>1, ControlTypeCorrect, PathInvariant, PTL

(* The monitor raises no false alarm. *)
THEOREM NoFalseAlarm == Spec => []DiagnosisIsRight
<1>1. PathInv => DiagnosisIsRight
  BY DEF PathInv
<1> QED
  BY <1>1, PathInvariant, PTL

-----------------------------------------------------------------------------
(* Three copies *)

(* The variables stay in their types: the count never passes its maximum. *)
THEOREM TmrTypeCorrect == TmrSpec => []TmrTypeOK
<1> USE DEF TmrTypeOK
<1>1. TmrInit => TmrTypeOK
  <2> SUFFICES ASSUME TmrInit PROVE TmrTypeOK
    OBVIOUS
  <2>1. copy \in [Copies -> Values] /\ source \in Copies
    BY DEF TmrInit, Copies
  <2>2. fault_count \in 0 .. MaxCount
    BY TmrAssumption DEF TmrInit
  <2>3. intended \in Values /\ out \in Values /\ hit_copies \subseteq Copies
    BY DEF TmrInit
  <2>4. pc \in {"idle", "deliver"} /\ read_status \in {"OK", "NO_MAJORITY"} /\ late \in BOOLEAN
    BY DEF TmrInit
  <2> QED
    BY <2>1, <2>2, <2>3, <2>4
<1>2. TmrTypeOK /\ [TmrNext]_tmrVars => TmrTypeOK'
  <2> SUFFICES ASSUME TmrTypeOK, [TmrNext]_tmrVars PROVE TmrTypeOK'
    OBVIOUS
  <2>1. ASSUME NEW v \in Values, Reinit(v) PROVE TmrTypeOK'
    BY <2>1, TmrAssumption DEF Reinit
  <2>2. ASSUME NEW v \in Values, Write(v) PROVE TmrTypeOK'
    BY <2>2 DEF Write
  <2>3. CASE Vote
    <3>1. Bump(fault_count) \in 0 .. MaxCount
      BY TmrAssumption DEF Bump
    <3> QED
      BY <2>3, <3>1 DEF Vote
  <2>4. CASE Deliver
    BY <2>4 DEF Deliver
  <2>5. ASSUME NEW x \in Copies, NEW v \in Values, Upset(x, v) PROVE TmrTypeOK'
    BY <2>5 DEF Upset
  <2>6. CASE UNCHANGED tmrVars
    BY <2>6 DEF tmrVars
  <2> QED
    BY <2>1, <2>2, <2>3, <2>4, <2>5, <2>6 DEF TmrNext
<1> QED
  BY <1>1, <1>2, PTL DEF TmrSpec

-----------------------------------------------------------------------------
(* The inductive invariant: a copy that was not hit holds the value last   *)
(* written, and a read that will deliver a hit copy as its source saw that *)
(* copy agree with another one, unless it was hit after the vote.          *)
UnhitHolds == \A x \in Copies \ hit_copies : copy[x] = intended

SourceAgreed ==
  (pc = "deliver" /\ ~late /\ AtMostOneHit) => copy[source] = intended

(* Enough copies are left to outvote one. *)
LEMMA MajorityHolds ==
  ASSUME TmrTypeOK, UnhitHolds, AtMostOneHit
  PROVE  /\ \E x \in Copies : Majority(x)
         /\ \A x \in Copies : Majority(x) => copy[x] = intended
<1>1. PICK x \in Copies : hit_copies \subseteq {x}
  BY DEF AtMostOneHit
<1>2. \A y \in Copies : y # x => copy[y] = intended
  BY <1>1 DEF UnhitHolds
<1>3. \/ copy["b"] = intended /\ copy["c"] = intended
      \/ copy["a"] = intended /\ copy["c"] = intended
      \/ copy["a"] = intended /\ copy["b"] = intended
  BY <1>2 DEF Copies
<1> QED
  BY <1>3 DEF Majority, Copies

LEMMA HitsStay ==
  ASSUME NEW x \in Copies, NEW v \in Values, Upset(x, v), AtMostOneHit'
  PROVE  AtMostOneHit
  BY DEF Upset, AtMostOneHit

LEMMA MaskInv == TmrSpec => [](UnhitHolds /\ SourceAgreed)
<1>1. TmrInit => UnhitHolds /\ SourceAgreed
  BY DEF TmrInit, UnhitHolds, SourceAgreed
<1>2. TmrTypeOK /\ UnhitHolds /\ SourceAgreed /\ [TmrNext]_tmrVars
        => UnhitHolds' /\ SourceAgreed'
  <2> SUFFICES ASSUME TmrTypeOK, UnhitHolds, SourceAgreed, [TmrNext]_tmrVars
               PROVE  UnhitHolds' /\ SourceAgreed'
    OBVIOUS
  <2>1. ASSUME NEW v \in Values, Reinit(v) PROVE UnhitHolds' /\ SourceAgreed'
    BY <2>1 DEF Reinit, UnhitHolds, SourceAgreed
  <2>2. ASSUME NEW v \in Values, Write(v) PROVE UnhitHolds' /\ SourceAgreed'
    BY <2>2 DEF Write, UnhitHolds, SourceAgreed
  <2>3. CASE Vote
    <3>1. UnhitHolds'
      BY <2>3 DEF Vote, UnhitHolds
    <3>2. ASSUME pc' = "deliver", AtMostOneHit PROVE copy[source'] = intended
      <4>1. Majority(source') /\ source' \in Copies
        BY <2>3, <3>2 DEF Vote
      <4> QED
        BY <3>2, <4>1, MajorityHolds
    <3> QED
      BY <2>3, <3>1, <3>2 DEF Vote, SourceAgreed, AtMostOneHit
  <2>4. CASE Deliver
    BY <2>4 DEF Deliver, UnhitHolds, SourceAgreed
  <2>5. ASSUME NEW x \in Copies, NEW v \in Values, Upset(x, v)
        PROVE  UnhitHolds' /\ SourceAgreed'
    <3>1. UnhitHolds'
      BY <2>5 DEF Upset, UnhitHolds, TmrTypeOK
    <3>2. SourceAgreed'
      BY <2>5, HitsStay DEF Upset, SourceAgreed, TmrTypeOK
    <3> QED
      BY <3>1, <3>2
  <2>6. CASE UNCHANGED tmrVars
    BY <2>6 DEF tmrVars, UnhitHolds, SourceAgreed, AtMostOneHit
  <2> QED
    BY <2>1, <2>2, <2>3, <2>4, <2>5, <2>6 DEF TmrNext
<1> QED
  BY <1>1, <1>2, TmrTypeCorrect, PTL DEF TmrSpec

(* While at most one copy is hit between two writes, no read ever fails or *)
(* returns anything but the value written.                                 *)
THEOREM OneFaultIsMasked == TmrSpec => MasksOneFault
<1>1. TmrTypeOK /\ UnhitHolds /\ SourceAgreed /\ [TmrNext]_tmrVars
        => [AtMostOneHit =>
              /\ (Deliver /\ ~late) => out' = intended
              /\ Vote => pc' = "deliver"]_tmrVars
  <2> SUFFICES ASSUME TmrTypeOK, UnhitHolds, SourceAgreed, AtMostOneHit
               PROVE  /\ (Deliver /\ ~late) => out' = intended
                      /\ Vote => pc' = "deliver"
    OBVIOUS
  <2>1. ASSUME Deliver, ~late PROVE out' = intended
    BY <2>1 DEF Deliver, SourceAgreed
  <2>2. ASSUME Vote PROVE pc' = "deliver"
    BY <2>2, MajorityHolds DEF Vote
  <2> QED
    BY <2>1, <2>2
<1> QED
  BY <1>1, TmrTypeCorrect, MaskInv, PTL DEF TmrSpec, MasksOneFault
-----------------------------------------------------------------------------
LEMMA BumpLeavesTrace == ASSUME TmrTypeOK PROVE Bump(fault_count) > 0
  BY TmrAssumption DEF TmrTypeOK, Bump

(* The inductive invariant: a read about to deliver a wrong value has      *)
(* already been counted.                                                   *)
WrongReadCounted ==
  (pc = "deliver" /\ ~late /\ hit_copies # Copies /\ copy[source] # intended)
    => fault_count > 0

LEMMA TraceInv == TmrSpec => []WrongReadCounted
<1>1. TmrInit => WrongReadCounted
  BY DEF TmrInit, WrongReadCounted
<1>2. TmrTypeOK /\ UnhitHolds /\ WrongReadCounted /\ [TmrNext]_tmrVars => WrongReadCounted'
  <2> SUFFICES ASSUME TmrTypeOK, UnhitHolds, WrongReadCounted, [TmrNext]_tmrVars
               PROVE  WrongReadCounted'
    OBVIOUS
  <2>1. ASSUME NEW v \in Values, Reinit(v) PROVE WrongReadCounted'
    BY <2>1 DEF Reinit, WrongReadCounted
  <2>2. ASSUME NEW v \in Values, Write(v) PROVE WrongReadCounted'
    BY <2>2 DEF Write, WrongReadCounted
  <2>3. CASE Vote
    <3> SUFFICES ASSUME pc' = "deliver", hit_copies # Copies, copy[source'] # intended
                 PROVE  fault_count' > 0
      BY <2>3 DEF Vote, WrongReadCounted
    <3>1. Majority(source') /\ source' \in Copies
      BY <2>3 DEF Vote
    <3>2. PICK x \in Copies : copy[x] = intended
      BY DEF TmrTypeOK, UnhitHolds
    <3>3. ~Unanimous
      BY <3>1, <3>2 DEF Unanimous, Copies
    <3> QED
      BY <2>3, <3>3, BumpLeavesTrace DEF Vote
  <2>4. CASE Deliver
    BY <2>4 DEF Deliver, WrongReadCounted
  <2>5. ASSUME NEW x \in Copies, NEW v \in Values, Upset(x, v)
        PROVE  WrongReadCounted'
    <3> SUFFICES ASSUME pc = "deliver", ~late', hit_copies' # Copies,
                        copy'[source] # intended
                 PROVE  fault_count > 0
      BY <2>5 DEF Upset, WrongReadCounted
    <3>1. ~late /\ x # source /\ hit_copies # Copies
      BY <2>5 DEF Upset, TmrTypeOK
    <3>2. copy'[source] = copy[source]
      BY <2>5, <3>1 DEF Upset, TmrTypeOK
    <3> QED
      BY <3>1, <3>2 DEF WrongReadCounted
  <2>6. CASE UNCHANGED tmrVars
    BY <2>6 DEF tmrVars, WrongReadCounted
  <2> QED
    BY <2>1, <2>2, <2>3, <2>4, <2>5, <2>6 DEF TmrNext
<1> QED
  BY <1>1, <1>2, TmrTypeCorrect, MaskInv, PTL DEF TmrSpec

(* A read that fails, or delivers a wrong value while one copy is intact,  *)
(* leaves the fault count above zero, however long it has been counting.   *)
THEOREM FailureIsCounted == TmrSpec => FailureLeavesTrace
<1>1. TmrTypeOK /\ WrongReadCounted /\ [TmrNext]_tmrVars
        => [/\ (Deliver /\ ~late /\ hit_copies # Copies /\ out' # intended)
                 => fault_count' > 0
            /\ (Vote /\ pc' = "idle") => fault_count' > 0]_tmrVars
  <2> SUFFICES ASSUME TmrTypeOK, WrongReadCounted
               PROVE  /\ (Deliver /\ ~late /\ hit_copies # Copies /\ out' # intended)
                           => fault_count' > 0
                      /\ (Vote /\ pc' = "idle") => fault_count' > 0
    OBVIOUS
  <2>1. ASSUME Deliver, ~late, hit_copies # Copies, out' # intended
        PROVE  fault_count' > 0
    BY <2>1 DEF Deliver, WrongReadCounted
  <2>2. ASSUME Vote, pc' = "idle" PROVE fault_count' > 0
    <3>1. \A x \in Copies : ~Majority(x)
      BY <2>2 DEF Vote
    <3>2. ~Unanimous
      BY <3>1 DEF Majority, Unanimous, Copies
    <3> QED
      BY <2>2, <3>2, BumpLeavesTrace DEF Vote
  <2> QED
    BY <2>1, <2>2
<1> QED
  BY <1>1, TmrTypeCorrect, TraceInv, PTL DEF TmrSpec, FailureLeavesTrace

-----------------------------------------------------------------------------
(* Two versions *)

(* A larger quotient gives a larger multiple. *)
LEMMA Multiples ==
  ASSUME NEW m \in Nat \ {0}, NEW p \in Nat, NEW q \in Nat, p < q
  PROVE  m * p + m <= m * q
<1>1. p + 1 <= q
  OBVIOUS
<1>2. PICK d \in Nat : q = p + 1 + d
  <2>1. q - (p + 1) \in Nat
    BY <1>1
  <2> QED
    BY <2>1
<1>3. m * q = m * p + m + m * d
  BY <1>2
<1>4. m * d \in Nat /\ m * p \in Nat
  OBVIOUS
<1> QED
  BY <1>3, <1>4

(* Quotient and remainder are unique. *)
LEMMA Remainder ==
  ASSUME NEW m \in Nat \ {0}, NEW q \in Nat, NEW r \in 0 .. m - 1,
         NEW n \in Nat, n = m * q + r
  PROVE  n % m = r
<1> DEFINE p == n \div m
           s == n % m
<1>1. p \in Nat /\ s \in 0 .. m - 1 /\ n = m * p + s
  OBVIOUS
<1> HIDE DEF p, s
<1>2. m * p \in Nat /\ m * q \in Nat
  BY <1>1
<1>3. ~(p < q)
  BY <1>1, <1>2, Multiples
<1>4. ~(q < p)
  BY <1>1, <1>2, Multiples
<1>5. p = q
  BY <1>1, <1>3, <1>4
<1>6. s = r
  BY <1>1, <1>2, <1>5
<1> QED
  BY <1>6 DEF s

(* A number that fits the word is not changed by storing it in one. *)
LEMMA Fits ==
  ASSUME NEW n \in Nat, n < WordSize
  PROVE  Word32(n) = n
<1>1. WordSize \in Nat \ {0} /\ n \in 0 .. WordSize - 1
      /\ n = WordSize * 0 + n
  BY OperandAssumption
<1> QED
  BY <1>1, Remainder DEF Word32

LEMMA ReducedType ==
  ASSUME NEW s \in Samples
  PROVE  Reduced(s) \in 0 .. Modulus - 1
  BY OperandAssumption DEF Reduced

-----------------------------------------------------------------------------
(* The loop invariant: after i rounds the accumulator is the remainder of  *)
(* the sum that was never reduced.                                         *)
Accumulated ==
  \E q \in Nat : Offset + i * Reduced(sample) = Modulus * q + acc

(* The primary's value is the base plus that remainder after all rounds. *)
LEMMA PrimaryIsRemainder ==
  ASSUME NEW s \in Samples, NEW q \in Nat, NEW r \in 0 .. Modulus - 1,
         Offset + Factor * Reduced(s) = Modulus * q + r
  PROVE  PrimaryValue(s) = Word32(Base + r)
<1> DEFINE red == Reduced(s)
<1>1. red \in 0 .. Modulus - 1
  BY ReducedType
<1> HIDE DEF red
<1>2. red * Factor \in Nat /\ red * Factor = Factor * red
  BY <1>1, OperandAssumption
<1>3. red * Factor <= Modulus * Factor
  <2> DEFINE d == Modulus - red
  <2>1. d \in Nat /\ Modulus = red + d
    BY <1>1, OperandAssumption
  <2> HIDE DEF d
  <2>2. Modulus * Factor = red * Factor + d * Factor /\ d * Factor \in Nat
    BY <2>1, <1>1, OperandAssumption
  <2> QED
    BY <2>2, <1>2
<1>4. Modulus * Factor \in Nat
  BY OperandAssumption
<1>5. Word32(red * Factor) = red * Factor
  BY <1>2, <1>3, <1>4, Fits, OperandAssumption
<1>6. Word32(red * Factor + Offset) = red * Factor + Offset
  BY <1>2, <1>3, <1>4, Fits, OperandAssumption
<1>7. (red * Factor + Offset) % Modulus = r
  <2> DEFINE n == red * Factor + Offset
  <2>1. n = Modulus * q + r /\ n \in Nat
    BY <1>2, OperandAssumption DEF red
  <2>2. Modulus \in Nat \ {0}
    BY OperandAssumption
  <2> HIDE DEF n
  <2>3. n % Modulus = r
    BY ONLY <2>1, <2>2, Remainder, q \in Nat, r \in 0 .. Modulus - 1
  <2> QED
    BY <2>3 DEF n
<1> QED
  BY <1>5, <1>6, <1>7 DEF PrimaryValue, red

(* The loop's variables stay in range, whatever the input. *)
THEOREM LoopTypeCorrect == AlternateSpec => []AlternateTypeOK
<1>1. AlternateInit => AlternateTypeOK
  BY OperandAssumption DEF AlternateInit, AlternateTypeOK
<1>2. AlternateTypeOK /\ [AlternateNext]_alternateVars => AlternateTypeOK'
  <2> SUFFICES ASSUME AlternateTypeOK, [AlternateNext]_alternateVars PROVE AlternateTypeOK'
    OBVIOUS
  <2>1. CASE Add
    <3>1. Word32(acc + Reduced(sample)) \in Nat
      BY ReducedType, OperandAssumption DEF AlternateTypeOK, Word32
    <3> QED
      BY <2>1, <3>1, OperandAssumption DEF Add, AlternateTypeOK
  <2>2. CASE UNCHANGED alternateVars
    BY <2>2 DEF AlternateTypeOK, alternateVars
  <2> QED
    BY <2>1, <2>2 DEF AlternateNext
<1> QED
  BY <1>1, <1>2, PTL DEF AlternateSpec

(* Whatever the input, the alternate computes what the primary computes.   *)
THEOREM AlternateIsPrimary == AlternateSpec => []OperationsAgree
<1>1. AlternateInit => Accumulated
  <2> SUFFICES ASSUME AlternateInit PROVE Accumulated
    OBVIOUS
  <2>1. Reduced(sample) \in 0 .. Modulus - 1
    BY ReducedType DEF AlternateInit
  <2>2. Offset + i * Reduced(sample) = Modulus * 0 + acc
    BY <2>1, OperandAssumption DEF AlternateInit
  <2> QED
    BY <2>2 DEF Accumulated
<1>2. AlternateTypeOK /\ Accumulated /\ [AlternateNext]_alternateVars => Accumulated'
  <2> SUFFICES ASSUME AlternateTypeOK, Accumulated, [AlternateNext]_alternateVars PROVE Accumulated'
    OBVIOUS
  <2>1. CASE Add
    <3> DEFINE red == Reduced(sample)
               sum == acc + red
    <3>1. red \in 0 .. Modulus - 1 /\ acc \in 0 .. Modulus - 1 /\ i \in Nat
      BY ReducedType DEF AlternateTypeOK
    <3>2. PICK q \in Nat : Offset + i * red = Modulus * q + acc
      BY DEF Accumulated
    <3>3. Reduced(sample)' = red
      BY <2>1 DEF Add, Reduced
    <3> HIDE DEF red
    <3>4. Word32(sum) = sum
      BY <3>1, Fits, OperandAssumption
    <3>5. acc' = sum % Modulus /\ i' = i + 1
      BY <2>1, <3>4 DEF Add, red
    <3>6. i' * red = i * red + red /\ i * red \in Nat
      BY <3>1, <3>5, OperandAssumption
    <3>7. CASE sum < Modulus
      <4>1. acc' = sum
        BY <3>1, <3>5, <3>7, Remainder, OperandAssumption
      <4>2. Offset + i' * red = Modulus * q + acc'
        BY <3>1, <3>2, <3>6, <4>1, OperandAssumption
      <4> QED
        BY <3>3, <4>2 DEF Accumulated
    <3>8. CASE sum >= Modulus
      <4> DEFINE rest == sum - Modulus
      <4>1. rest \in 0 .. Modulus - 1 /\ sum = Modulus * 1 + rest /\ sum \in Nat
        BY <3>1, <3>8, OperandAssumption
      <4>2. acc' = rest
        BY ONLY <3>5, <4>1, Remainder, OperandAssumption
      <4>3. Modulus * (q + 1) = Modulus * q + Modulus /\ Modulus * q \in Nat
        BY OperandAssumption
      <4>4. Offset + i' * red = Modulus * (q + 1) + acc'
        BY <3>1, <3>2, <3>6, <4>2, <4>3, OperandAssumption
      <4>5. q + 1 \in Nat
        OBVIOUS
      <4> QED
        BY <3>3, <4>4, <4>5 DEF Accumulated
    <3> QED
      BY <3>1, <3>7, <3>8, OperandAssumption
  <2>2. CASE UNCHANGED alternateVars
    BY <2>2 DEF alternateVars, Accumulated, Reduced
  <2> QED
    BY <2>1, <2>2 DEF AlternateNext
<1>3. AlternateTypeOK /\ Accumulated => OperationsAgree
  <2> SUFFICES ASSUME AlternateTypeOK, Accumulated, i = Factor
               PROVE  AlternateValue = PrimaryValue(sample)
    BY DEF OperationsAgree
  <2>1. PICK q \in Nat : Offset + Factor * Reduced(sample) = Modulus * q + acc
    BY DEF Accumulated
  <2>2. PrimaryValue(sample) = Word32(Base + acc)
    BY <2>1, PrimaryIsRemainder DEF AlternateTypeOK
  <2> QED
    BY <2>2 DEF AlternateValue
<1> QED
  BY <1>1, <1>2, <1>3, LoopTypeCorrect, PTL DEF AlternateSpec
=============================================================================
