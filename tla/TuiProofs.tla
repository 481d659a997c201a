----------------------------- MODULE TuiProofs ------------------------------
(***************************************************************************)
(* Theorems of Tui for every length of a campaign, any number of runs,     *)
(* every capacity of a channel and every length of the build's tail.       *)
(*                                                                         *)
(* The argument: number the messages of a run as its goroutine sends them. *)
(* What is in the channel are the messages from the first one not taken    *)
(* yet to the last one sent, and the number of those taken determines what *)
(* the interface holds, unless it was cleared meanwhile.                   *)
(***************************************************************************)
EXTENDS Tui, FiniteSetTheorems, SequenceTheorems, TLAPS

Results == {"running", "none", "cancelled", "failed"}

Phases == {"working", "row", "progress", "output", "finished", "ended"}

RowRecord ==
  [run : Runs, id : 1 .. Count, class : RunClasses, passes : Nat, failures : Nat]

Line == Runs \X (1 .. Count)

Message ==
  [type : {"row"}, row : RowRecord]
    \cup [type : {"progress"}, cur : 1 .. Count, class : RunClasses]
    \cup [type : {"output"}, line : Line]
    \cup [type : {"finished"}, error : Results, success : BOOLEAN]

UiTypes ==
  /\ mode \in Modes /\ state \in {"idle", "running", "building"}
  /\ started \in 0 .. MaxRuns /\ events \in 0 .. started /\ cancel = events
  /\ exporting \in BOOLEAN /\ quit \in BOOLEAN
  /\ rows \in Seq(RowRecord)
  /\ histogram \in [RunClasses -> Nat]
  /\ progressCur \in 0 .. Count /\ progressTot \in {0, Count}
  /\ buildTail \in Seq(Line) /\ Len(buildTail) <= TailLength

RunTypes ==
  /\ kind \in [Runs -> Modes \cup {"build"}]
  /\ phase \in [Runs -> Phases]
  /\ done \in [Runs -> 0 .. Count] /\ failed \in [Runs -> 0 .. Count]
  /\ class \in [Runs -> RunClasses]
  /\ result \in [Runs -> Results]
  /\ cancelled \in [Runs -> BOOLEAN]
  /\ chan \in [Runs -> Seq(Message)]
  /\ listeners \in [Runs -> Nat]
  /\ \A r \in Runs : Len(chan[r]) <= Capacity

-----------------------------------------------------------------------------
(* The inductive invariant *)

(* A run that has not started yet. *)
Fresh(r) ==
  /\ phase[r] = "ended" /\ done[r] = 0 /\ failed[r] = 0 /\ result[r] = "running"
  /\ chan[r] = <<>> /\ listeners[r] = 0

Campaigning(r) == kind[r] # "build"

(* Where a goroutine is tells what it has done. *)
Sound(r) ==
  /\ failed[r] <= done[r]
  /\ phase[r] \in {"row", "progress"} => Campaigning(r) /\ done[r] >= 1
  /\ phase[r] = "output" => ~Campaigning(r) /\ done[r] >= 1
  /\ phase[r] \in {"working", "row", "progress", "output"} <=> result[r] = "running"
  /\ result[r] = "none" /\ Campaigning(r) => done[r] = Count

(* The number of messages a run has sent, and of those that were taken. *)
Sent(r) ==
  IF Campaigning(r)
  THEN CASE phase[r] = "row"      -> 2 * done[r] - 2
         [] phase[r] = "progress" -> 2 * done[r] - 1
         [] phase[r] = "ended"    -> 2 * done[r] + 1
         [] OTHER                 -> 2 * done[r]
  ELSE CASE phase[r] = "output"   -> done[r] - 1
         [] phase[r] = "ended"    -> done[r] + 1
         [] OTHER                 -> done[r]

Taken(r) == Sent(r) - Len(chan[r])

(* The message m is the p-th of the run r. *)
MessageAt(r, m, p) ==
  \/ /\ m.type = "row" /\ Campaigning(r)
     /\ m.row.run = r /\ m.row.id <= done[r] /\ p = 2 * m.row.id - 1
  \/ /\ m.type = "progress" /\ Campaigning(r) /\ m.cur <= done[r] /\ p = 2 * m.cur
  \/ /\ m.type = "output" /\ ~Campaigning(r) /\ p <= done[r] /\ m.line = <<r, p>>
  \/ /\ m.type = "finished" /\ phase[r] = "ended" /\ p = Sent(r)
     /\ m.error = result[r] /\ m.success = (failed[r] = 0)

(* No message is lost, repeated or out of order. *)
Stream(r) ==
  /\ Taken(r) >= 0
  /\ \A i \in 1 .. Len(chan[r]) : MessageAt(r, chan[r][i], Taken(r) + i)

(* The progress that follows a row is counted in the class of that row. *)
PairsAgree(r) ==
  \A i \in 1 .. Len(chan[r]) :
    chan[r][i].type = "row" =>
      IF i = Len(chan[r]) THEN class[r] = chan[r][i].row.class
      ELSE chan[r][i + 1].class = chan[r][i].row.class

Busy ==
  /\ events # 0 => events = started
  /\ state = "running" <=> events # 0 /\ Campaigning(events)
  /\ state = "running" => kind[events] = mode

LastRow == rows[Len(rows)]

RowsInOrder ==
  \A i \in 1 .. Len(rows) :
    /\ LastCampaign(rows[i].run) /\ rows[i].run <= started
    /\ kind[rows[i].run] = mode
    /\ rows[i].id = rows[1].id + i - 1

(* The rows reach to the last one taken, or in the end to the last one.    *)
RowsReach ==
  rows # <<>> =>
    IF state = "running" THEN Taken(events) \in {2 * LastRow.id - 1, 2 * LastRow.id}
                         ELSE LastRow.id = done[LastRow.run]

(* The last row has arrived and the progress that belongs to it has not. *)
AwaitsProgress ==
  state = "running" /\ rows # <<>> /\ Taken(events) = 2 * LastRow.id - 1

AwaitedAgrees ==
  AwaitsProgress =>
    LastRow.class = IF chan[events] = <<>> THEN class[events] ELSE chan[events][1].class

Totals ==
  /\ Uncut =>
       /\ progressCur = IF AwaitsProgress THEN Len(rows) - 1 ELSE Len(rows)
       /\ mode = "fuzz" =>
            \A c \in RunClasses :
              OfClass(c) = histogram[c]
                             + IF AwaitsProgress /\ LastRow.class = c THEN 1 ELSE 0
  /\ state = "running" /\ Taken(events) = 0 => progressCur = 0 /\ histogram = NoCounts

TailReaches ==
  buildTail # <<>> =>
    /\ buildTail[1][1] <= started /\ ~Campaigning(buildTail[1][1])
    /\ state = "building" => buildTail[Len(buildTail)] = <<events, Taken(events)>>

Streams ==
  /\ \A r \in Runs : r > started => Fresh(r)
  /\ \A r \in 1 .. started : Sound(r) /\ Stream(r) /\ PairsAgree(r)

Held ==
  /\ RowsInOrder /\ RowsReach /\ AwaitedAgrees /\ Totals
  /\ TailReaches /\ TailIsOfTheLastBuild

TuiInv ==
  /\ UiTypes /\ RunTypes
  /\ Streams /\ Busy /\ OneRunAtATime
  /\ Held
  /\ TableIsOfTheRows /\ DoneMeansComplete

-----------------------------------------------------------------------------
(* Sequences and counts *)

(* Where the elements of the class c are. *)
OfClassIn(s, c) == {i \in DOMAIN s : s[i].class = c}

(* One more element is one more of its class. *)
LEMMA OneMoreOfItsClass ==
  ASSUME NEW s \in Seq(RowRecord), NEW e \in RowRecord, NEW c
  PROVE  /\ Cardinality(OfClassIn(s, c)) \in Nat
         /\ Cardinality(OfClassIn(Append(s, e), c))
              = Cardinality(OfClassIn(s, c)) + IF e.class = c THEN 1 ELSE 0
<1>1. /\ DOMAIN s = 1 .. Len(s) /\ Len(s) \in Nat
      /\ DOMAIN Append(s, e) = 1 .. Len(s) + 1
      /\ Append(s, e)[Len(s) + 1] = e
      /\ \A i \in 1 .. Len(s) : Append(s, e)[i] = s[i]
  BY AppendProperties, LenProperties
<1>2. IsFiniteSet(OfClassIn(s, c))
  <2>1. IsFiniteSet(1 .. Len(s))
    BY <1>1, FS_Interval
  <2>2. OfClassIn(s, c) \subseteq 1 .. Len(s)
    BY <1>1 DEF OfClassIn
  <2> QED
    BY <2>1, <2>2, FS_Subset
<1>3. Cardinality(OfClassIn(s, c)) \in Nat /\ Len(s) + 1 \notin OfClassIn(s, c)
  BY <1>1, <1>2, FS_CardinalityType DEF OfClassIn
<1>4. OfClassIn(Append(s, e), c) =
        IF e.class = c THEN OfClassIn(s, c) \cup {Len(s) + 1} ELSE OfClassIn(s, c)
  BY <1>1 DEF OfClassIn
<1>5. Cardinality(OfClassIn(s, c) \cup {Len(s) + 1}) = Cardinality(OfClassIn(s, c)) + 1
  BY <1>2, <1>3, FS_AddElement
<1> QED
  BY <1>3, <1>4, <1>5

LEMMA NoneOfAnyClass == ASSUME NEW c PROVE Cardinality(OfClassIn(<<>>, c)) = 0
<1>1. OfClassIn(<<>>, c) = {}
  BY DEF OfClassIn
<1> QED
  BY <1>1, FS_EmptySet

-----------------------------------------------------------------------------
(* The goroutines *)

(* A goroutine that has not ended is the one the interface holds. *)
LEMMA ActiveRun ==
  ASSUME TuiInv, NEW r \in 1 .. started, phase[r] # "ended"
  PROVE  r \in Runs /\ r = events /\ events = started
<1>1. r \in Runs /\ r # 0
  BY TuiAssumption DEF TuiInv, UiTypes, Runs
<1>2. r = events
  BY DEF TuiInv, OneRunAtATime
<1>3. events = started
  BY <1>1, <1>2 DEF TuiInv, Busy
<1> QED
  BY <1>1, <1>2, <1>3

(* What any step of a goroutine does: it sends its next message, or it     *)
(* only moves on; the messages taken stay the ones they were.              *)
Sends(r, m) ==
  /\ chan' = [chan EXCEPT ![r] = Append(@, m)]
  /\ Sent(r)' = Sent(r) + 1 /\ MessageAt(r, m, Sent(r))'
  /\ class' = class /\ done' = done
  /\ m.type = "row" => m.row.class = class[r]
  /\ phase[r] = "progress" => m.class = class[r]

MovesOn(r) ==
  /\ chan' = chan /\ Sent(r)' = Sent(r)
  /\ phase[r] = "working" /\ phase'[r] # "ended"

Works(r) ==
  /\ r = events /\ r = started /\ r \in Runs /\ phase[r] # "ended"
  /\ UNCHANGED <<uiVars, cancelled, listeners, started, kind>>
  /\ \A x \in Runs \ {r} :
       /\ phase'[x] = phase[x] /\ done'[x] = done[x] /\ failed'[x] = failed[x]
       /\ class'[x] = class[x] /\ result'[x] = result[x] /\ chan'[x] = chan[x]
  /\ done[r] <= done'[r] /\ (done[r] = Count => failed'[r] = failed[r])
  /\ RunTypes' /\ Sound(r)'
  /\ MovesOn(r) \/ \E m \in Message : Sends(r, m)

LEMMA CompleteOneWorks ==
  ASSUME TuiInv, NEW r \in Runs, Goroutine(r), CompleteOne(r) PROVE Works(r)
<1>1. /\ phase[r] = "working" /\ done[r] < Count /\ r \in 1 .. started
      /\ chan' = chan /\ UNCHANGED <<uiVars, cancelled, listeners, started, kind, result>>
      /\ done' = [done EXCEPT ![r] = @ + 1]
  BY DEF Goroutine, CompleteOne, Runs, TuiInv, UiTypes
<1>2. r = events /\ r = started
  BY <1>1, ActiveRun
<1>3. RunTypes /\ Sound(r)
  BY <1>1 DEF TuiInv, Streams
<1>6. done[r] <= done'[r] /\ done[r] # Count
  BY <1>1, <1>3, TuiAssumption DEF RunTypes
<1>4. CASE kind[r] = "build"
  <2>1. phase' = [phase EXCEPT ![r] = "output"] /\ UNCHANGED <<failed, class>>
    BY <1>4 DEF CompleteOne, Goto
  <2>2. RunTypes'
    <3>1. done' \in [Runs -> 0 .. Count] /\ phase' \in [Runs -> Phases]
      BY <1>1, <1>3, <2>1, TuiAssumption DEF RunTypes, Phases
    <3> QED
      BY <1>1, <1>3, <2>1, <3>1 DEF RunTypes
  <2>3. Sound(r)' /\ MovesOn(r)
    BY <1>1, <1>3, <1>4, <2>1, TuiAssumption DEF RunTypes, Sound, MovesOn, Sent, Campaigning
  <2>4. \A x \in Runs \ {r} : phase'[x] = phase[x] /\ done'[x] = done[x]
    BY <1>1, <1>3, <2>1 DEF RunTypes
  <2> QED
    BY <1>1, <1>2, <1>6, <2>1, <2>2, <2>3, <2>4 DEF Works
<1>5. CASE kind[r] # "build"
  <2>1. PICK c \in RunClasses :
          /\ phase' = [phase EXCEPT ![r] = "row"]
          /\ class' = [class EXCEPT ![r] = c]
          /\ failed' = [failed EXCEPT ![r] = IF c = "fail" THEN @ + 1 ELSE @]
    BY <1>5 DEF CompleteOne, Goto
  <2>2. failed'[r] \in 0 .. done'[r] /\ done'[r] \in 0 .. Count
    BY <1>1, <1>3, <2>1, TuiAssumption DEF RunTypes, Sound
  <2>3. RunTypes'
    <3>1. done' \in [Runs -> 0 .. Count] /\ phase' \in [Runs -> Phases]
      BY <1>1, <1>3, <2>1, TuiAssumption DEF RunTypes, Phases
    <3>2. failed'[r] \in 0 .. Count
      BY <2>2, TuiAssumption
    <3>3. failed' \in [Runs -> 0 .. Count] /\ class' \in [Runs -> RunClasses]
      BY <1>3, <2>1, <3>2 DEF RunTypes
    <3> QED
      BY <1>1, <1>3, <3>1, <3>3 DEF RunTypes
  <2>4. Sound(r)' /\ MovesOn(r)
    <3>1. phase'[r] = "row" /\ done'[r] = done[r] + 1 /\ done[r] \in Nat
      BY <1>1, <1>3, <2>1, TuiAssumption DEF RunTypes
    <3>2. Sound(r)'
      BY <1>1, <1>3, <1>5, <2>2, <3>1 DEF Sound, Campaigning
    <3>3. Sent(r)' = Sent(r)
      BY <1>1, <1>5, <3>1 DEF Sent, Campaigning
    <3> QED
      BY <1>1, <3>1, <3>2, <3>3 DEF MovesOn
  <2>5. \A x \in Runs \ {r} : /\ phase'[x] = phase[x] /\ done'[x] = done[x]
                              /\ class'[x] = class[x] /\ failed'[x] = failed[x]
    BY <1>1, <1>3, <2>1 DEF RunTypes
  <2> QED
    BY <1>1, <1>2, <1>6, <2>1, <2>3, <2>4, <2>5 DEF Works
<1> QED
  BY <1>4, <1>5

LEMMA EndWorks ==
  ASSUME TuiInv, NEW r \in Runs, Goroutine(r), EndCampaign(r) \/ EndBuild(r)
  PROVE  Works(r)
<1>1. PICK error \in {"none", "cancelled", "failed"} :
        /\ error = "none" => kind[r] = "build" \/ done[r] = Count
        /\ result' = [result EXCEPT ![r] = error]
  BY DEF EndCampaign, EndBuild, Return
<1>2. /\ phase[r] = "working" /\ r \in 1 .. started
      /\ phase' = [phase EXCEPT ![r] = "finished"]
      /\ UNCHANGED <<uiVars, cancelled, listeners, started, kind, done, failed, class, chan>>
  BY DEF Goroutine, EndCampaign, EndBuild, Return, Goto, Runs, TuiInv, UiTypes
<1>3. r = events /\ r = started
  BY <1>2, ActiveRun
<1>4. RunTypes /\ Sound(r)
  BY <1>2 DEF TuiInv, Streams
<1>5. RunTypes'
  BY <1>1, <1>2, <1>4 DEF RunTypes, Phases, Results
<1>6. Sound(r)' /\ MovesOn(r)
  BY <1>1, <1>2, <1>4 DEF RunTypes, Sound, MovesOn, Sent, Campaigning
<1> QED
  <2>1. \A x \in Runs \ {r} : phase'[x] = phase[x] /\ result'[x] = result[x]
    BY <1>1, <1>2, <1>4 DEF RunTypes
  <2>2. done[r] <= done[r]
    BY <1>4, TuiAssumption DEF RunTypes
  <2> QED
    BY <1>2, <1>3, <1>5, <1>6, <2>1, <2>2 DEF Works

(* Sending a message of the right type keeps the types of the channels.    *)
LEMMA SendKeepsTypes ==
  ASSUME RunTypes, NEW r \in Runs, NEW m \in Message, Send(r, m)
  PROVE  chan' \in [Runs -> Seq(Message)] /\ \A x \in Runs : Len(chan'[x]) <= Capacity
<1>1. /\ Append(chan[r], m) \in Seq(Message)
      /\ Len(Append(chan[r], m)) = Len(chan[r]) + 1 /\ Len(chan[r]) \in Nat
  BY AppendProperties, LenProperties DEF RunTypes
<1> QED
  BY <1>1, TuiAssumption DEF Send, RunTypes

LEMMA SendRowWorks ==
  ASSUME TuiInv, NEW r \in Runs, Goroutine(r), SendRow(r) PROVE Works(r)
<1> DEFINE m == [type |-> "row", row |-> Row(r)]
<1>1. /\ phase[r] = "row" /\ r \in 1 .. started /\ Send(r, m)
      /\ phase' = [phase EXCEPT ![r] = "progress"]
      /\ UNCHANGED <<uiVars, cancelled, listeners, started, kind, done, failed, class, result>>
  BY DEF Goroutine, SendRow, Goto, Runs, TuiInv, UiTypes
<1>2. r = events /\ r = started
  BY <1>1, ActiveRun
<1>3. RunTypes /\ Sound(r)
  BY <1>1 DEF TuiInv, Streams
<1>4. m \in Message
  <2>1. Row(r) \in RowRecord
    BY <1>1, <1>3, TuiAssumption DEF Row, RowRecord, RunTypes, Sound
  <2> QED
    BY <2>1 DEF Message
<1>5. RunTypes'
  BY <1>1, <1>3, <1>4, SendKeepsTypes DEF RunTypes, Phases
<1>6. Sound(r)'
  BY <1>1, <1>3 DEF RunTypes, Sound, Campaigning
<1>7. Sends(r, m)
  BY <1>1, <1>3, TuiAssumption
  DEF Sends, Send, Sent, MessageAt, Campaigning, Row, RunTypes, Sound
<1>8. \E n \in Message : Sends(r, n)
  BY <1>4, <1>7
<1>9. \A x \in Runs \ {r} : phase'[x] = phase[x] /\ chan'[x] = chan[x]
  BY <1>1, <1>3 DEF RunTypes, Send
<1>10. done[r] <= done[r]
  BY <1>3, TuiAssumption DEF RunTypes
<1> QED
  BY <1>1, <1>2, <1>5, <1>6, <1>8, <1>9, <1>10 DEF Works

LEMMA SendProgressWorks ==
  ASSUME TuiInv, NEW r \in Runs, Goroutine(r), SendProgress(r) PROVE Works(r)
<1> DEFINE m == [type |-> "progress", cur |-> done[r], class |-> class[r]]
<1>1. /\ phase[r] = "progress" /\ r \in 1 .. started /\ Send(r, m)
      /\ phase' = [phase EXCEPT ![r] = "working"]
      /\ UNCHANGED <<uiVars, cancelled, listeners, started, kind, done, failed, class, result>>
  BY DEF Goroutine, SendProgress, Goto, Runs, TuiInv, UiTypes
<1>2. r = events /\ r = started
  BY <1>1, ActiveRun
<1>3. RunTypes /\ Sound(r)
  BY <1>1 DEF TuiInv, Streams
<1>4. m \in Message
  BY <1>1, <1>3, TuiAssumption DEF Message, RunTypes, Sound
<1>5. RunTypes'
  BY <1>1, <1>3, <1>4, SendKeepsTypes DEF RunTypes, Phases
<1>6. Sound(r)'
  BY <1>1, <1>3 DEF RunTypes, Sound, Campaigning
<1>7. Sends(r, m)
  BY <1>1, <1>3, TuiAssumption
  DEF Sends, Send, Sent, MessageAt, Campaigning, RunTypes, Sound
<1>8. \E n \in Message : Sends(r, n)
  BY <1>4, <1>7
<1>9. \A x \in Runs \ {r} : phase'[x] = phase[x] /\ chan'[x] = chan[x]
  BY <1>1, <1>3 DEF RunTypes, Send
<1>10. done[r] <= done[r]
  BY <1>3, TuiAssumption DEF RunTypes
<1> QED
  BY <1>1, <1>2, <1>5, <1>6, <1>8, <1>9, <1>10 DEF Works

LEMMA SendOutputWorks ==
  ASSUME TuiInv, NEW r \in Runs, Goroutine(r), SendOutput(r) PROVE Works(r)
<1> DEFINE m == [type |-> "output", line |-> <<r, done[r]>>]
<1>1. /\ phase[r] = "output" /\ r \in 1 .. started /\ Send(r, m)
      /\ phase' = [phase EXCEPT ![r] = "working"]
      /\ UNCHANGED <<uiVars, cancelled, listeners, started, kind, done, failed, class, result>>
  BY DEF Goroutine, SendOutput, Goto, Runs, TuiInv, UiTypes
<1>2. r = events /\ r = started
  BY <1>1, ActiveRun
<1>3. RunTypes /\ Sound(r)
  BY <1>1 DEF TuiInv, Streams
<1>4. m \in Message
  BY <1>1, <1>3, TuiAssumption DEF Message, Line, RunTypes, Sound
<1>5. RunTypes'
  BY <1>1, <1>3, <1>4, SendKeepsTypes DEF RunTypes, Phases
<1>6. Sound(r)'
  BY <1>1, <1>3 DEF RunTypes, Sound, Campaigning
<1>7. Sends(r, m)
  BY <1>1, <1>3, TuiAssumption
  DEF Sends, Send, Sent, MessageAt, Campaigning, RunTypes, Sound
<1>8. \E n \in Message : Sends(r, n)
  BY <1>4, <1>7
<1>9. \A x \in Runs \ {r} : phase'[x] = phase[x] /\ chan'[x] = chan[x]
  BY <1>1, <1>3 DEF RunTypes, Send
<1>10. done[r] <= done[r]
  BY <1>3, TuiAssumption DEF RunTypes
<1> QED
  BY <1>1, <1>2, <1>5, <1>6, <1>8, <1>9, <1>10 DEF Works

LEMMA SendFinishedWorks ==
  ASSUME TuiInv, NEW r \in Runs, Goroutine(r), SendFinished(r) PROVE Works(r)
<1> DEFINE m == [type |-> "finished", error |-> result[r], success |-> failed[r] = 0]
<1>1. /\ phase[r] = "finished" /\ r \in 1 .. started /\ Send(r, m)
      /\ phase' = [phase EXCEPT ![r] = "ended"]
      /\ UNCHANGED <<uiVars, cancelled, listeners, started, kind, done, failed, class, result>>
  BY DEF Goroutine, SendFinished, Goto, Runs, TuiInv, UiTypes
<1>2. r = events /\ r = started
  BY <1>1, ActiveRun
<1>3. RunTypes /\ Sound(r)
  BY <1>1 DEF TuiInv, Streams
<1>4. m \in Message
  BY <1>1, <1>3, TuiAssumption DEF Message, RunTypes, Sound
<1>5. RunTypes'
  BY <1>1, <1>3, <1>4, SendKeepsTypes DEF RunTypes, Phases
<1>6. Sound(r)'
  BY <1>1, <1>3 DEF RunTypes, Sound, Campaigning
<1>7. Sends(r, m)
  BY <1>1, <1>3, TuiAssumption
  DEF Sends, Send, Sent, MessageAt, Campaigning, RunTypes, Sound
<1>8. \E n \in Message : Sends(r, n)
  BY <1>4, <1>7
<1>9. \A x \in Runs \ {r} : phase'[x] = phase[x] /\ chan'[x] = chan[x]
  BY <1>1, <1>3 DEF RunTypes, Send
<1>10. done[r] <= done[r]
  BY <1>3, TuiAssumption DEF RunTypes
<1> QED
  BY <1>1, <1>2, <1>5, <1>6, <1>8, <1>9, <1>10 DEF Works

LEMMA GoroutineWorks ==
  ASSUME TuiInv, NEW r \in Runs, Goroutine(r) PROVE Works(r)
  BY CompleteOneWorks, SendRowWorks, SendProgressWorks, SendOutputWorks,
     EndWorks, SendFinishedWorks DEF Goroutine

-----------------------------------------------------------------------------
(* A step of a goroutine keeps the invariant *)

(* In a run that awaits the progress of its last row, that progress is the *)
(* next message to be sent.                                                *)
LEMMA RowIsFollowedByProgress ==
  ASSUME RunTypes, NEW r \in Runs, Campaigning(r), NEW n \in Nat, Sent(r) = 2 * n - 1,
         phase[r] # "ended"
  PROVE  phase[r] = "progress"
  BY DEF RunTypes, Phases, Sent, Campaigning

LEMMA SentIsInteger == ASSUME RunTypes, NEW r \in Runs PROVE Sent(r) \in Int
<1>1. done[r] \in Int
  BY TuiAssumption DEF RunTypes
<1>2. CASE Campaigning(r)
  BY <1>1, <1>2 DEF Sent
<1>3. CASE ~Campaigning(r)
  BY <1>1, <1>3 DEF Sent
<1> QED
  BY <1>2, <1>3

(* A message in the channel stays the one it was while the run goes on.    *)
LEMMA MessageStays ==
  ASSUME RunTypes, RunTypes', NEW r \in Runs, NEW m \in Message, NEW p \in Int,
         MessageAt(r, m, p), kind'[r] = kind[r], done[r] <= done'[r], phase[r] # "ended"
  PROVE  MessageAt(r, m, p)'
<1>1. done[r] \in Nat /\ done'[r] \in Nat
  BY TuiAssumption DEF RunTypes
<1>2. CASE m.type = "row"
  <2>1. m.row.id \in Nat
    BY <1>2, TuiAssumption DEF Message, RowRecord
  <2> QED
    BY <1>1, <1>2, <2>1 DEF MessageAt, Campaigning
<1>3. CASE m.type = "progress"
  <2>1. m.cur \in Nat
    BY <1>3, TuiAssumption DEF Message
  <2> QED
    BY <1>1, <1>3, <2>1 DEF MessageAt, Campaigning
<1>4. CASE m.type = "output"
  BY <1>1, <1>4 DEF MessageAt, Campaigning
<1> QED
  BY <1>2, <1>3, <1>4 DEF MessageAt

(* A row that was sent last is an odd message. *)
LEMMA LastIsRow ==
  ASSUME RunTypes, NEW r \in Runs, Stream(r), chan[r] # <<>>,
         chan[r][Len(chan[r])].type = "row"
  PROVE  \E n \in Nat : Sent(r) = 2 * n - 1 /\ Campaigning(r)
<1>1. /\ Len(chan[r]) \in 1 .. Len(chan[r]) /\ Len(chan[r]) \in Nat
      /\ chan[r][Len(chan[r])] \in Message
  BY EmptySeq, ElementOfSeq, LenProperties DEF RunTypes
<1>2. PICK m \in Message : m = chan[r][Len(chan[r])]
  BY <1>1
<1>3. MessageAt(r, m, Taken(r) + Len(chan[r])) /\ m.type = "row"
  BY <1>1, <1>2 DEF Stream
<1>4. Taken(r) + Len(chan[r]) = Sent(r)
  BY <1>1, SentIsInteger DEF Taken
<1>5. m.row.id \in Nat
  BY <1>3, TuiAssumption DEF Message, RowRecord
<1> QED
  BY <1>3, <1>4, <1>5 DEF MessageAt

LEMMA WorkKeepsStreams ==
  ASSUME TuiInv, NEW r \in Runs, Works(r)
  PROVE  Streams' /\ Taken(r)' = Taken(r) /\ (chan[r] # <<>> => chan'[r] # <<>> /\ chan'[r][1] = chan[r][1])
<1> USE TuiAssumption
<1>1. /\ RunTypes /\ RunTypes' /\ Sound(r) /\ Stream(r) /\ PairsAgree(r) /\ Sound(r)'
      /\ r \in 1 .. started /\ kind' = kind /\ started' = started /\ listeners' = listeners
      /\ \A x \in Runs \ {r} :
           /\ phase'[x] = phase[x] /\ done'[x] = done[x] /\ failed'[x] = failed[x]
           /\ class'[x] = class[x] /\ result'[x] = result[x] /\ chan'[x] = chan[x]
      /\ done[r] <= done'[r] /\ started \in 0 .. MaxRuns
  BY DEF TuiInv, Streams, Works, UiTypes, Runs
<1>2. /\ chan[r] \in Seq(Message) /\ Len(chan[r]) \in Nat
      /\ Sent(r) \in Int /\ Taken(r) \in Int
  <2>1. chan[r] \in Seq(Message)
    BY <1>1 DEF RunTypes
  <2>2. Len(chan[r]) \in Nat
    BY <2>1, LenProperties
  <2>3. Sent(r) \in Int
    BY <1>1, SentIsInteger
  <2> QED
    BY <2>1, <2>2, <2>3 DEF Taken
<1>3. \A x \in 1 .. started : x # r => Sound(x)' /\ Stream(x)' /\ PairsAgree(x)'
  <2> SUFFICES ASSUME NEW x \in 1 .. started, x # r
               PROVE  Sound(x)' /\ Stream(x)' /\ PairsAgree(x)'
    OBVIOUS
  <2>1. x \in Runs \ {r} /\ Sound(x) /\ Stream(x) /\ PairsAgree(x)
    BY <1>1 DEF TuiInv, Streams, Runs
  <2> QED
    <3>1. /\ phase'[x] = phase[x] /\ done'[x] = done[x] /\ failed'[x] = failed[x]
          /\ class'[x] = class[x] /\ result'[x] = result[x] /\ chan'[x] = chan[x]
          /\ kind'[x] = kind[x]
      BY <1>1, <2>1
    <3>2. Sent(x)' = Sent(x)
      BY <3>1 DEF Sent, Campaigning
    <3>3. Taken(x)' = Taken(x)
      BY <3>1, <3>2 DEF Taken
    <3>4. PairsAgree(x)'
      BY <2>1, <3>1 DEF PairsAgree
    <3>5. Sound(x)'
      BY <2>1, <3>1 DEF Sound, Campaigning
    <3>6. ASSUME NEW m, NEW p, MessageAt(x, m, p) PROVE MessageAt(x, m, p)'
      BY <3>1, <3>2, <3>6 DEF MessageAt, Campaigning
    <3>7. Stream(x)'
      BY <2>1, <3>1, <3>3, <3>6 DEF Stream
    <3> QED
      BY <3>4, <3>5, <3>7
<1>4. \A x \in Runs : x > started => Fresh(x)'
  <2> SUFFICES ASSUME NEW x \in Runs, x > started PROVE Fresh(x)'
    OBVIOUS
  <2>1. Fresh(x)
    BY DEF TuiInv, Streams
  <2>2. x # r
    BY <1>1
  <2> QED
    BY <1>1, <2>1, <2>2 DEF Fresh
<1>5. CASE MovesOn(r)
  <2>1. /\ chan'[r] = chan[r] /\ Sent(r)' = Sent(r) /\ Taken(r)' = Taken(r)
        /\ phase[r] = "working" /\ phase'[r] # "ended"
    BY <1>5 DEF MovesOn, Taken
  <2>2. Stream(r)'
    <3>1. ASSUME NEW i \in 1 .. Len(chan[r]) PROVE MessageAt(r, chan[r][i], Taken(r) + i)'
      <4>1. PICK m \in Message, p \in Int : m = chan[r][i] /\ p = Taken(r) + i
        BY <1>2, ElementOfSeq
      <4>2. MessageAt(r, m, p)
        BY <1>1, <4>1 DEF Stream
      <4>3. MessageAt(r, m, p)'
        BY <1>1, <4>2, MessageStays DEF Works
      <4>4. m = chan'[r][i] /\ p = Taken(r)' + i
        BY <2>1, <4>1
      <4> QED
        BY <4>3, <4>4
    <3> QED
      BY <1>1, <2>1, <3>1 DEF Stream
  <2>3. PairsAgree(r)'
    <3>1. ASSUME NEW i \in 1 .. Len(chan[r]), chan[r][i].type = "row" PROVE i # Len(chan[r])
      <4> SUFFICES ASSUME i = Len(chan[r]) PROVE FALSE
        OBVIOUS
      <4>1. PICK n \in Nat : Sent(r) = 2 * n - 1 /\ Campaigning(r)
        BY <1>1, <1>2, <3>1, LastIsRow
      <4> QED
        BY <1>1, <2>1, <4>1, RowIsFollowedByProgress
    <3> QED
      BY <2>1, <3>1, <1>1 DEF PairsAgree
  <2> QED
    BY <1>1, <1>3, <1>4, <2>1, <2>2, <2>3 DEF Streams
<1>6. ASSUME NEW m \in Message, Sends(r, m)
      PROVE  Streams' /\ Taken(r)' = Taken(r) /\ (chan[r] # <<>> => chan'[r] # <<>> /\ chan'[r][1] = chan[r][1])
  <2>1. /\ chan'[r] = Append(chan[r], m)
        /\ Len(chan'[r]) = Len(chan[r]) + 1
        /\ \A i \in 1 .. Len(chan[r]) : chan'[r][i] = chan[r][i]
        /\ chan'[r][Len(chan[r]) + 1] = m
    BY <1>1, <1>2, <1>6, AppendProperties DEF Sends, RunTypes
  <2>2. Taken(r)' = Taken(r) /\ Sent(r)' = Sent(r) + 1
    BY <1>2, <1>6, <2>1 DEF Sends, Taken
  <2>3. Stream(r)'
    <3>1. ASSUME NEW i \in 1 .. Len(chan[r]) PROVE MessageAt(r, chan[r][i], Taken(r) + i)'
      <4>1. PICK n \in Message, p \in Int : n = chan[r][i] /\ p = Taken(r) + i
        BY <1>2, ElementOfSeq
      <4>2. MessageAt(r, n, p)
        BY <1>1, <4>1 DEF Stream
      <4>3. MessageAt(r, n, p)'
        BY <1>1, <4>2, MessageStays DEF Works
      <4>4. n = chan'[r][i] /\ p = Taken(r)' + i
        BY <2>1, <2>2, <4>1
      <4> QED
        BY <4>3, <4>4
    <3>2. MessageAt(r, m, Taken(r) + Len(chan[r]))'
      <4>1. MessageAt(r, m, Sent(r))' /\ Sent(r)' = Taken(r)' + Len(chan'[r])
        BY <1>2, <1>6, <2>1, <2>2 DEF Sends, Taken
      <4> QED
        BY <4>1
    <3>3. ASSUME NEW i \in 1 .. Len(chan'[r])
          PROVE  MessageAt(r, chan[r][i], Taken(r) + i)'
      <4>1. CASE i \in 1 .. Len(chan[r])
        BY <3>1, <4>1
      <4>2. CASE i = Len(chan'[r])
        BY <2>1, <3>2, <4>2
      <4> QED
        BY <1>2, <2>1, <4>1, <4>2
    <3>4. Taken(r)' >= 0
      BY <1>1, <2>2 DEF Stream
    <3> QED
      BY <3>3, <3>4 DEF Stream
  <2>4. PairsAgree(r)'
    <3> SUFFICES ASSUME NEW i \in 1 .. Len(chan'[r]), chan'[r][i].type = "row"
                 PROVE  IF i = Len(chan'[r]) THEN class'[r] = chan'[r][i].row.class
                        ELSE chan'[r][i + 1].class = chan'[r][i].row.class
      BY DEF PairsAgree
    <3>1. CASE i = Len(chan[r]) + 1
      BY <3>1, <2>1, <1>6, <1>2 DEF Sends
    <3>2. CASE i = Len(chan[r])
      <4>1. chan[r][i].type = "row" /\ i \in 1 .. Len(chan[r])
        BY <1>2, <2>1, <3>2
      <4>2. PICK n \in Nat : Sent(r) = 2 * n - 1 /\ Campaigning(r)
        BY <1>1, <1>2, <3>2, <4>1, LastIsRow
      <4>4. phase[r] = "progress"
        BY <4>2, <1>1, RowIsFollowedByProgress DEF Works
      <4>5. chan[r][i].row.class = class[r]
        BY <1>1, <3>2, <4>1 DEF PairsAgree
      <4> QED
        BY <1>2, <1>6, <2>1, <3>2, <4>1, <4>4, <4>5 DEF Sends
    <3>3. CASE i < Len(chan[r])
      BY <1>1, <1>2, <2>1, <3>3 DEF PairsAgree
    <3> QED
      BY <1>2, <2>1, <3>1, <3>2, <3>3
  <2>5. chan[r] # <<>> => chan'[r] # <<>> /\ chan'[r][1] = chan[r][1]
    BY <1>2, <2>1, EmptySeq
  <2> QED
    BY <1>1, <1>3, <1>4, <2>2, <2>3, <2>4, <2>5 DEF Streams
<1> QED
  BY <1>5, <1>6 DEF Works

(* The last row is one of the last campaign. *)
LEMMA LastRowHeld ==
  ASSUME TuiInv, rows # <<>>
  PROVE  /\ LastRow \in RowRecord /\ LastRow.run <= started
         /\ LastCampaign(LastRow.run)
         /\ LastRow.id = rows[1].id + Len(rows) - 1
         /\ Len(rows) \in Nat \ {0} /\ rows[1] \in RowRecord
<1>1. Len(rows) \in 1 .. Len(rows) /\ 1 \in 1 .. Len(rows) /\ rows \in Seq(RowRecord)
  BY EmptySeq DEF TuiInv, UiTypes
<1> QED
  BY <1>1, ElementOfSeq DEF LastRow, TuiInv, Held, RowsInOrder

(* What the interface holds depends on the messages taken, and a goroutine *)
(* takes none.                                                             *)
LEMMA WorkKeepsHeld ==
  ASSUME TuiInv, NEW r \in Runs, Works(r)
  PROVE  Held'
<1> USE TuiAssumption
<1>1. /\ UNCHANGED <<uiVars, started, kind>> /\ r = events /\ r = started
      /\ Taken(r)' = Taken(r)
      /\ chan[r] # <<>> => chan'[r] # <<>> /\ chan'[r][1] = chan[r][1]
      /\ \A x \in Runs \ {r} : done'[x] = done[x]
  BY WorkKeepsStreams DEF Works
<1>2. UNCHANGED <<mode, state, events, rows, histogram, progressCur, buildTail>>
  BY <1>1 DEF uiVars
<1>3. RowsInOrder'
  BY <1>1, <1>2 DEF TuiInv, Held, RowsInOrder, LastCampaign
<1>4. rows # <<>> => LastRow \in RowRecord /\ LastRow.run <= started
                       /\ LastCampaign(LastRow.run)
  BY LastRowHeld
<1>5. RowsReach'
  <2> SUFFICES ASSUME rows # <<>> PROVE RowsReach'
    BY <1>2 DEF RowsReach
  <2>1. CASE state = "running"
    BY <1>1, <1>2, <2>1 DEF TuiInv, Held, RowsReach, LastRow
  <2>2. CASE state # "running"
    <3>1. ~Campaigning(r)
      BY <1>1, <2>2 DEF TuiInv, Busy, UiTypes, Runs
    <3>2. LastRow.run # r
      BY <1>4, <3>1 DEF LastCampaign, Campaigning
    <3>3. done'[LastRow.run] = done[LastRow.run]
      BY <1>1, <1>4, <3>2 DEF RowRecord
    <3> QED
      BY <1>1, <1>2, <2>2, <3>3 DEF TuiInv, Held, RowsReach, LastRow
  <2> QED
    BY <2>1, <2>2
<1>6. AwaitsProgress' = AwaitsProgress
  BY <1>1, <1>2 DEF AwaitsProgress, LastRow
<1>7. AwaitedAgrees'
  <2> SUFFICES ASSUME AwaitsProgress
               PROVE  LastRow.class
                        = IF chan'[r] = <<>> THEN class'[r] ELSE chan'[r][1].class
    BY <1>1, <1>2, <1>6 DEF AwaitedAgrees, LastRow
  <2>1. LastRow.class = IF chan[r] = <<>> THEN class[r] ELSE chan[r][1].class
    BY <1>1 DEF TuiInv, Held, AwaitedAgrees
  <2>2. CASE chan[r] # <<>>
    BY <1>1, <2>1, <2>2
  <2>3. CASE chan[r] = <<>>
    <3>1. Sent(r) = 2 * LastRow.id - 1 /\ Campaigning(r) /\ LastRow.id \in Nat
      <4>1. Len(chan[r]) = 0 /\ Taken(r) = 2 * LastRow.id - 1 /\ Sent(r) \in Int
        BY <1>1, <2>3, EmptySeq, SentIsInteger DEF AwaitsProgress, TuiInv
      <4>2. LastRow.id \in Nat /\ Campaigning(r)
        BY <1>1, <1>4 DEF AwaitsProgress, RowRecord, TuiInv, Busy
      <4> QED
        BY <4>1, <4>2 DEF Taken
    <3>2. phase[r] = "progress"
      BY <3>1, RowIsFollowedByProgress DEF Works, TuiInv
    <3>3. PICK m \in Message : Sends(r, m)
      BY <3>2 DEF Works, MovesOn
    <3>4. chan'[r] = Append(<<>>, m) /\ m.class = class[r]
      BY <2>3, <3>2, <3>3 DEF Sends, TuiInv, RunTypes
    <3>5. chan'[r] # <<>> /\ chan'[r][1] = m
      BY <3>4
    <3> QED
      BY <2>1, <2>3, <3>4, <3>5
  <2> QED
    BY <2>2, <2>3
<1>8. Totals'
  BY <1>1, <1>2, <1>6 DEF TuiInv, Held, Totals, Uncut, OfClass, LastRow
<1>9. TailReaches' /\ TailIsOfTheLastBuild'
  BY <1>1, <1>2 DEF TuiInv, Held, TailReaches, TailIsOfTheLastBuild, Campaigning
<1> QED
  BY <1>3, <1>5, <1>7, <1>8, <1>9 DEF Held

LEMMA WorkKeepsInv ==
  ASSUME TuiInv, NEW r \in Runs, Works(r)
  PROVE  TuiInv'
<1>1. UNCHANGED <<uiVars, started, kind, listeners>> /\ r = events /\ r = started
  BY DEF Works
<1>2. UiTypes'
  BY <1>1 DEF TuiInv, UiTypes, uiVars
<1>3. Busy'
  BY <1>1 DEF TuiInv, Busy, Campaigning, uiVars
<1>4. OneRunAtATime'
  <2>1. phase'[r] # "ended" \/ chan'[r] # <<>>
    <3>1. CASE MovesOn(r)
      BY <3>1 DEF MovesOn
    <3>2. ASSUME NEW m \in Message, Sends(r, m) PROVE chan'[r] # <<>>
      <4>1. chan'[r] = Append(chan[r], m) /\ chan[r] \in Seq(Message)
        BY <3>2 DEF Sends, TuiInv, RunTypes
      <4> QED
        BY <4>1, AppendProperties
    <3> QED
      BY <3>1, <3>2 DEF Works
  <2>2. \A x \in 1 .. started : x # r => x \in Runs \ {r}
    BY TuiAssumption DEF TuiInv, UiTypes, Runs
  <2> QED
    BY <1>1, <2>1, <2>2 DEF TuiInv, OneRunAtATime, uiVars, Works
<1>5. TableIsOfTheRows'
  BY <1>1 DEF TuiInv, TableIsOfTheRows, uiVars
<1>6. DoneMeansComplete'
  <2> SUFFICES ASSUME status = "done" PROVE DoneMeansComplete'
    BY <1>1 DEF DoneMeansComplete, uiVars
  <2>1. PICK x \in 1 .. started :
          LastCampaign(x) /\ done[x] = Count /\ (mode = "e2e" => failed[x] = 0)
    BY DEF TuiInv, DoneMeansComplete
  <2>2. done'[x] = Count /\ failed'[x] = failed[x]
    <3>1. CASE x # r
      BY <2>1, <3>1, TuiAssumption DEF Works, Runs, TuiInv, UiTypes
    <3>2. CASE x = r
      BY <2>1, <3>2, TuiAssumption DEF Works, RunTypes, TuiInv
    <3> QED
      BY <3>1, <3>2
  <2> QED
    BY <1>1, <2>1, <2>2 DEF DoneMeansComplete, LastCampaign, uiVars
<1> QED
  BY <1>2, <1>3, <1>4, <1>5, <1>6, WorkKeepsStreams, WorkKeepsHeld DEF TuiInv, Works

-----------------------------------------------------------------------------
(* Taking a message *)

(* Whoever receives, receives the next message of the run it holds, and    *)
(* the rest of the channel stays as it was sent.                           *)
LEMMA Taking ==
  ASSUME TuiInv, NEW r \in Runs, Receive(r)
  PROVE  /\ r = events /\ r = started /\ r \in 1 .. started /\ listeners[r] = 1
         /\ chan[r] # <<>> /\ Len(chan[r]) \in Nat \ {0}
         /\ Head(chan[r]) \in Message /\ Head(chan[r]) = chan[r][1]
         /\ Taken(r) \in Nat /\ Taken(r)' = Taken(r) + 1
         /\ chan' \in [Runs -> Seq(Message)]
         /\ \A x \in Runs : Len(chan'[x]) <= Capacity
         /\ \A x \in Runs \ {r} : chan'[x] = chan[x]
         /\ chan'[r] = <<>> <=> Len(chan[r]) = 1
         /\ chan'[r] # <<>> => chan'[r][1] = chan[r][2]
         /\ \A x \in 1 .. started : Sound(x)' /\ Stream(x)' /\ PairsAgree(x)'
<1> USE TuiAssumption
<1>1. /\ listeners[r] > 0 /\ chan[r] # <<>> /\ chan' = [chan EXCEPT ![r] = Tail(@)]
      /\ UNCHANGED <<started, kind, phase, done, failed, class, result>>
      /\ RunTypes /\ listeners[r] \in Nat
  BY DEF Receive, TuiInv, RunTypes
<1>2. r = events /\ r = started /\ r \in 1 .. started /\ listeners[r] = 1
  <2>1. r <= started
    BY <1>1 DEF TuiInv, Streams, Fresh, UiTypes, Runs
  <2> QED
    BY <1>1, <2>1 DEF TuiInv, OneRunAtATime, Busy, Runs, UiTypes
<1>3. Stream(r) /\ PairsAgree(r) /\ Sound(r)
  BY <1>2 DEF TuiInv, Streams
<1>4. chan[r] \in Seq(Message) /\ Len(chan[r]) \in Nat \ {0}
  BY <1>1, EmptySeq DEF RunTypes
<1>5. /\ Tail(chan[r]) \in Seq(Message) /\ Head(chan[r]) \in Message
      /\ Head(chan[r]) = chan[r][1]
      /\ Len(Tail(chan[r])) = Len(chan[r]) - 1
      /\ \A i \in 1 .. Len(chan[r]) - 1 : Tail(chan[r])[i] = chan[r][i + 1]
  BY <1>1, <1>4, HeadTailProperties
<1>6. chan'[r] = Tail(chan[r]) /\ \A x \in Runs \ {r} : chan'[x] = chan[x]
  BY <1>1 DEF RunTypes
<1>7. chan' \in [Runs -> Seq(Message)] /\ \A x \in Runs : Len(chan'[x]) <= Capacity
  BY <1>1, <1>4, <1>5, <1>6 DEF RunTypes
<1>8. /\ chan'[r] = <<>> <=> Len(chan[r]) = 1
      /\ chan'[r] # <<>> => chan'[r][1] = chan[r][2]
  <2>1. chan'[r] \in Seq(Message) /\ Len(chan'[r]) = Len(chan[r]) - 1
    BY <1>5, <1>6
  <2>2. chan'[r] = <<>> <=> Len(chan'[r]) = 0
    BY <2>1, EmptySeq
  <2>3. chan'[r] # <<>> => chan'[r][1] = chan[r][2]
    BY <1>4, <1>5, <1>6, <2>1, <2>2
  <2> QED
    BY <1>4, <2>1, <2>2, <2>3
<1>9. ASSUME NEW x \in Runs PROVE Sent(x)' = Sent(x)
  <2>1. kind'[x] = kind[x] /\ phase'[x] = phase[x] /\ done'[x] = done[x]
    BY <1>1
  <2> QED
    BY <2>1 DEF Sent, Campaigning
<1>10. Sent(r) \in Int
  BY <1>1, SentIsInteger
<1>11. Taken(r) \in Nat /\ Taken(r)' = Taken(r) + 1
  BY <1>3, <1>4, <1>5, <1>6, <1>9, <1>10 DEF Taken, Stream
<1>12. \A x \in 1 .. started : Sound(x)'
  BY <1>1 DEF TuiInv, Streams, Sound, Campaigning
<1>13. ASSUME NEW x \in 1 .. started PROVE Stream(x)' /\ PairsAgree(x)'
  <2>1. x \in Runs /\ Stream(x) /\ PairsAgree(x)
    BY DEF TuiInv, Streams, UiTypes, Runs
  <2>2. CASE x # r
    <3>1. chan'[x] = chan[x] /\ Taken(x)' = Taken(x)
      BY <1>6, <1>9, <2>1, <2>2 DEF Taken
    <3>2. PairsAgree(x)'
      BY <1>1, <2>1, <3>1 DEF PairsAgree
    <3>3. Sent(x)' = Sent(x)
      BY <1>9, <2>1
    <3>4. Stream(x)'
      <4>1. ASSUME NEW m, NEW p, MessageAt(x, m, p) PROVE MessageAt(x, m, p)'
        BY <1>1, <2>1, <3>3, <4>1 DEF MessageAt, Campaigning
      <4> QED
        BY <2>1, <3>1, <4>1 DEF Stream
    <3> QED
      BY <3>2, <3>4
  <2>3. CASE x = r
    <3>1. ASSUME NEW i \in 1 .. Len(chan'[r]) PROVE MessageAt(r, chan[r][i], Taken(r) + i)'
      <4>1. i + 1 \in 1 .. Len(chan[r]) /\ chan'[r][i] = chan[r][i + 1]
        BY <1>4, <1>5, <1>6
      <4>2. PICK m \in Message, p \in Int : m = chan'[r][i] /\ p = Taken(r)' + i
        BY <1>4, <1>11, <4>1, ElementOfSeq
      <4>3. MessageAt(r, m, p)
        <5>1. MessageAt(r, chan[r][i + 1], Taken(r) + (i + 1))
          BY <1>3, <4>1 DEF Stream
        <5> QED
          BY <1>11, <4>1, <4>2, <5>1
      <4>4. MessageAt(r, m, p)'
        BY <1>1, <1>9, <4>3 DEF MessageAt, Campaigning
      <4> QED
        BY <4>2, <4>4
    <3>2. PairsAgree(r)'
      <4> SUFFICES ASSUME NEW i \in 1 .. Len(chan'[r]), chan'[r][i].type = "row"
                   PROVE  IF i = Len(chan'[r]) THEN class'[r] = chan'[r][i].row.class
                          ELSE chan'[r][i + 1].class = chan'[r][i].row.class
        BY DEF PairsAgree
      <4>1. i + 1 \in 1 .. Len(chan[r]) /\ chan'[r][i] = chan[r][i + 1]
        BY <1>4, <1>5, <1>6
      <4>2. CASE i = Len(chan'[r])
        BY <1>1, <1>3, <1>4, <1>5, <1>6, <4>1, <4>2 DEF PairsAgree
      <4>3. CASE i # Len(chan'[r])
        <5>1. chan'[r][i + 1] = chan[r][(i + 1) + 1] /\ i + 1 # Len(chan[r])
          BY <1>4, <1>5, <1>6, <4>3
        <5> QED
          BY <1>3, <4>1, <4>3, <5>1 DEF PairsAgree
      <4> QED
        BY <4>2, <4>3
    <3> QED
      BY <2>3, <1>11, <3>1, <3>2 DEF Stream
  <2> QED
    BY <2>2, <2>3
<1> QED
  BY <1>1, <1>2, <1>4, <1>5, <1>6, <1>7, <1>8, <1>11, <1>12, <1>13

(* The message taken is the first of those not taken yet. *)
LEMMA TakenMessage ==
  ASSUME TuiInv, NEW r \in Runs, Receive(r)
  PROVE  MessageAt(r, Head(chan[r]), Taken(r) + 1)
<1>1. r \in 1 .. started /\ Len(chan[r]) \in Nat \ {0} /\ Head(chan[r]) = chan[r][1]
  BY Taking
<1> QED
  BY <1>1 DEF TuiInv, Streams, Stream

(* A message that is not the last one leaves the interface with its run,   *)
(* listening once.                                                         *)
LEMMA StillListening ==
  ASSUME TuiInv, NEW r \in Runs, Receive(r), UNCHANGED <<state, cancel, events, quit>>,
         listeners' = Listen([listeners EXCEPT ![r] = @ - 1], r),
         phase[r] = "ended" => Taken(r) + 1 < Sent(r)
  PROVE  RunTypes' /\ Streams' /\ OneRunAtATime' /\ Busy'
<1>1. /\ UNCHANGED <<mode, started, kind, phase, done, failed, class, result, cancelled>>
      /\ listeners' = listeners /\ events # 0
  <2>1. events = r /\ r \in 1 .. started /\ listeners[r] = 1
    BY Taking
  <2> QED
    BY <2>1 DEF Receive, Listen, TuiInv, RunTypes, UiTypes
<1>2. RunTypes'
  BY <1>1, Taking DEF RunTypes, TuiInv
<1>3. Streams'
  <2>1. \A x \in Runs : x > started => Fresh(x)'
    <3> SUFFICES ASSUME NEW x \in Runs, x > started PROVE Fresh(x)'
      OBVIOUS
    <3>1. Fresh(x) /\ x \in Runs \ {r}
      BY Taking DEF TuiInv, Streams
    <3> QED
      BY <1>1, <3>1, Taking DEF Fresh
  <2> QED
    BY <1>1, <2>1, Taking DEF Streams
<1>4. OneRunAtATime'
  <2>1. phase[r] = "ended" => chan'[r] # <<>>
    <3> SUFFICES ASSUME phase[r] = "ended", Len(chan[r]) = 1 PROVE FALSE
      BY Taking
    <3>1. Taken(r) + 1 < Sent(r) /\ Sent(r) \in Int
      BY SentIsInteger DEF TuiInv
    <3>2. Taken(r) = Sent(r) - 1
      BY DEF Taken
    <3> QED
      BY <3>1, <3>2
  <2>2. \A x \in 1 .. started : x # r => x \in Runs \ {r}
    BY TuiAssumption DEF TuiInv, UiTypes, Runs
  <2> QED
    BY <1>1, <2>1, <2>2, Taking DEF OneRunAtATime, TuiInv
<1>5. Busy'
  BY <1>1 DEF TuiInv, Busy, Campaigning
<1> QED
  BY <1>2, <1>3, <1>4, <1>5

-----------------------------------------------------------------------------
(* The messages of a campaign *)

LEMMA RowTaken ==
  ASSUME TuiInv, NEW r \in Runs, Receive(r), Head(chan[r]).type = "row"
  PROVE  TuiInv'
<1>1. PICK row \in RowRecord :
        /\ row = Head(chan[r]).row /\ row.run = r
        /\ row.id \in Nat \ {0} /\ row.id <= done[r]
        /\ Taken(r) + 1 = 2 * row.id - 1 /\ Campaigning(r)
  <2>1. PICK m \in Message : m = Head(chan[r])
    BY Taking
  <2>2. MessageAt(r, m, Taken(r) + 1) /\ m.type = "row"
    BY <2>1, TakenMessage
  <2>3. m.row \in RowRecord /\ m.row.id \in Nat \ {0}
    BY <2>2, TuiAssumption DEF Message, RowRecord
  <2>4. /\ m.row.run = r /\ m.row.id <= done[r]
        /\ Taken(r) + 1 = 2 * m.row.id - 1 /\ Campaigning(r)
    BY <2>2 DEF MessageAt
  <2> QED
    BY <2>1, <2>3, <2>4
<1>2. /\ rows' = Append(rows, row)
      /\ UNCHANGED <<histogram, progressCur, progressTot, table, buildTail, status>>
      /\ UNCHANGED <<state, cancel, events>>
      /\ listeners' = Listen([listeners EXCEPT ![r] = @ - 1], r)
      /\ UNCHANGED <<mode, exporting, quit, started, kind, phase, done, failed, class, result>>
  BY <1>1 DEF Receive, HandleRow, SameRun
<1>3. /\ r = events /\ r = started /\ state = "running" /\ kind[r] = mode
      /\ Taken(r)' = Taken(r) + 1 /\ Taken(r) \in Nat /\ rows \in Seq(RowRecord)
  BY <1>1, Taking DEF TuiInv, Busy, UiTypes, Runs
<1>4. RunTypes' /\ Streams' /\ OneRunAtATime' /\ Busy'
  <2>1. phase[r] = "ended" => Sent(r) = 2 * done[r] + 1
    BY <1>1 DEF Sent
  <2>2. row.id \in Nat /\ row.id <= done[r] /\ Taken(r) + 1 = 2 * row.id - 1
    BY <1>1
  <2>3. done[r] \in Nat /\ Taken(r) \in Nat
    BY <1>3, TuiAssumption DEF TuiInv, RunTypes
  <2>4. phase[r] = "ended" => Taken(r) + 1 < Sent(r)
    BY <2>1, <2>2, <2>3
  <2> QED
    BY <1>2, <2>4, StillListening
<1>5. /\ rows' \in Seq(RowRecord) /\ rows' # <<>> /\ Len(rows) \in Nat
      /\ Len(rows') = Len(rows) + 1 /\ rows'[Len(rows) + 1] = row
      /\ \A i \in 1 .. Len(rows) : rows'[i] = rows[i]
  BY <1>2, <1>1, <1>3, AppendProperties, LenProperties
<1>6. LastRow' = row
  BY <1>5 DEF LastRow
<1>7. rows # <<>> => LastRow.id = row.id - 1 /\ ~AwaitsProgress /\ LastRow.id \in Nat
  <2> SUFFICES ASSUME rows # <<>>
               PROVE  LastRow.id = row.id - 1 /\ ~AwaitsProgress /\ LastRow.id \in Nat
    OBVIOUS
  <2>1. LastRow.id \in Nat
    BY LastRowHeld, TuiAssumption DEF RowRecord
  <2>2. Taken(r) = 2 * LastRow.id - 1 \/ Taken(r) = 2 * LastRow.id
    BY <1>3 DEF TuiInv, Held, RowsReach
  <2>3. Taken(r) = 2 * row.id - 2 /\ row.id \in Nat /\ row.id # 0
    <3>1. row.id \in Nat /\ row.id # 0 /\ Taken(r) + 1 = 2 * row.id - 1
      BY <1>1
    <3>2. Taken(r) \in Nat
      BY <1>3
    <3> QED
      BY <3>1, <3>2
  <2>4. LastRow.id = row.id - 1 /\ Taken(r) # 2 * LastRow.id - 1
    BY <2>1, <2>2, <2>3
  <2> QED
    BY <1>3, <2>1, <2>4 DEF AwaitsProgress
<1>8. UiTypes'
  BY <1>2, <1>5 DEF TuiInv, UiTypes
<1>9. RowsInOrder'
  <2>1. LastCampaign(r)' /\ kind'[r] = mode' /\ started' = r
    BY <1>2, <1>1, <1>3 DEF LastCampaign, Campaigning, Runs
  <2>2. ASSUME NEW i \in 1 .. Len(rows)
        PROVE  /\ LastCampaign(rows[i].run)' /\ rows'[i].run <= started'
               /\ kind'[rows'[i].run] = mode' /\ rows'[i].id = rows'[1].id + i - 1
    <3>1. rows'[i] = rows[i] /\ rows'[1] = rows[1]
      BY <1>5
    <3>2. /\ LastCampaign(rows[i].run) /\ rows[i].run <= started
          /\ kind[rows[i].run] = mode /\ rows[i].id = rows[1].id + i - 1
      BY DEF TuiInv, Held, RowsInOrder
    <3> QED
      BY <1>2, <3>1, <3>2 DEF LastCampaign
  <2>3. row.id = rows'[1].id + (Len(rows) + 1) - 1
    <3>1. CASE rows = <<>>
      BY <1>1, <1>5, <3>1
    <3>2. CASE rows # <<>>
      <4>1. /\ LastRow.id = rows[1].id + Len(rows) - 1 /\ rows'[1] = rows[1]
            /\ rows[1].id \in Nat
        <5>1. /\ LastRow.id = rows[1].id + Len(rows) - 1 /\ rows[1] \in RowRecord
              /\ 1 \in 1 .. Len(rows)
          BY <3>2, LastRowHeld
        <5>2. rows[1].id \in Nat
          BY <5>1, TuiAssumption DEF RowRecord
        <5> QED
          BY <1>5, <5>1, <5>2
      <4>2. LastRow.id = row.id - 1 /\ row.id \in Nat /\ Len(rows) \in Nat
        BY <1>1, <1>5, <1>7, <3>2
      <4> QED
        BY <4>1, <4>2
    <3> QED
      BY <3>1, <3>2
  <2> SUFFICES ASSUME NEW i \in 1 .. Len(rows')
               PROVE  /\ LastCampaign(rows[i].run)' /\ rows'[i].run <= started'
                      /\ kind'[rows'[i].run] = mode' /\ rows'[i].id = rows'[1].id + i - 1
    BY DEF RowsInOrder
  <2>4. CASE i = Len(rows) + 1
    <3>1. rows'[i] = row /\ started \in Nat
      BY <1>5, <2>4 DEF TuiInv, UiTypes
    <3> QED
      BY <1>2, <1>1, <1>3, <2>1, <2>3, <2>4, <3>1
  <2>5. CASE i # Len(rows) + 1
    BY <1>5, <2>2, <2>5
  <2> QED
    BY <2>4, <2>5
<1>10. RowsReach' /\ AwaitsProgress'
  BY <1>2, <1>1, <1>3, <1>5, <1>6 DEF RowsReach, AwaitsProgress
<1>11. AwaitedAgrees'
  <2>1. chan[r][1].type = "row" /\ chan[r][1].row = row /\ 1 \in 1 .. Len(chan[r])
    BY <1>1, Taking
  <2>2. row.class = IF Len(chan[r]) = 1 THEN class[r] ELSE chan[r][2].class
    <3>1. PairsAgree(r)
      BY Taking DEF TuiInv, Streams
    <3> QED
      <4>1. IF 1 = Len(chan[r]) THEN class[r] = chan[r][1].row.class
            ELSE chan[r][1 + 1].class = chan[r][1].row.class
        BY <2>1, <3>1 DEF PairsAgree
      <4> QED
        BY <2>1, <4>1
  <2>3. row.class = IF chan'[r] = <<>> THEN class[r] ELSE chan'[r][1].class
    <3>1. /\ chan'[r] = <<>> <=> Len(chan[r]) = 1
          /\ chan'[r] # <<>> => chan'[r][1] = chan[r][2]
      BY Taking
    <3> QED
      BY <2>2, <3>1
  <2> QED
    BY <1>2, <1>3, <1>6, <2>3 DEF AwaitedAgrees
<1>12. Totals'
  <2>1. ASSUME Uncut' PROVE progressCur' = Len(rows)
    <3>1. CASE rows = <<>>
      BY <1>2, <1>1, <1>3, <1>5, <2>1, <3>1 DEF TuiInv, Held, Totals, Uncut
    <3>2. CASE rows # <<>>
      BY <1>2, <1>5, <1>7, <2>1, <3>2 DEF TuiInv, Held, Totals, Uncut
    <3> QED
      BY <3>1, <3>2
  <2>2. ASSUME Uncut', mode' = "fuzz", NEW c \in RunClasses
        PROVE  OfClass(c)' = histogram'[c] + IF AwaitsProgress' /\ LastRow'.class = c THEN 1 ELSE 0
    <3>1. /\ OfClass(c) \in Nat
          /\ OfClass(c)' = OfClass(c) + IF row.class = c THEN 1 ELSE 0
      <4>1. OfClass(c) = Cardinality(OfClassIn(rows, c))
        BY DEF OfClass, OfClassIn
      <4>2. OfClass(c)' = Cardinality(OfClassIn(Append(rows, row), c))
        BY <1>2 DEF OfClass, OfClassIn
      <4> QED
        BY <1>1, <1>3, <4>1, <4>2, OneMoreOfItsClass
    <3>2. OfClass(c) = histogram[c]
      <4>1. CASE rows = <<>>
        <5>1. histogram = NoCounts
          BY <1>1, <1>3, <1>5, <2>2, <4>1 DEF TuiInv, Held, Totals, Uncut
        <5> QED
          BY <4>1, <5>1, NoneOfAnyClass DEF OfClass, OfClassIn, NoCounts
      <4>2. CASE rows # <<>>
        BY <1>2, <1>5, <1>7, <2>2, <3>1, <4>2 DEF TuiInv, Held, Totals, Uncut, UiTypes
      <4> QED
        BY <4>1, <4>2
    <3> QED
      BY <1>2, <1>6, <1>10, <3>1, <3>2
  <2>3. Taken(r)' # 0 /\ events' = r
    BY <1>2, <1>3
  <2> QED
    BY <1>5, <1>10, <2>1, <2>2, <2>3 DEF Totals
<1>13. TailReaches' /\ TailIsOfTheLastBuild'
  BY <1>2, <1>3 DEF TuiInv, Held, TailReaches, TailIsOfTheLastBuild, Campaigning
<1>14. TableIsOfTheRows' /\ DoneMeansComplete'
  BY <1>2, <1>3 DEF TuiInv, TableIsOfTheRows, DoneMeansComplete, LastCampaign
<1> QED
  BY <1>4, <1>8, <1>9, <1>10, <1>11, <1>12, <1>13, <1>14 DEF TuiInv, Held

LEMMA ProgressTaken ==
  ASSUME TuiInv, NEW r \in Runs, Receive(r), Head(chan[r]).type = "progress"
  PROVE  TuiInv'
<1>1. PICK m \in Message :
        /\ m = Head(chan[r]) /\ m.class \in RunClasses /\ m.cur \in Nat \ {0}
        /\ m.cur <= Count /\ m.cur <= done[r]
        /\ Taken(r) + 1 = 2 * m.cur /\ Campaigning(r)
  <2>1. PICK m \in Message : m = Head(chan[r])
    BY Taking
  <2>2. MessageAt(r, m, Taken(r) + 1) /\ m.type = "progress"
    BY <2>1, TakenMessage
  <2>3. m.class \in RunClasses /\ m.cur \in Nat \ {0} /\ m.cur <= Count
    BY <2>2, TuiAssumption DEF Message
  <2>4. m.cur <= done[r] /\ Taken(r) + 1 = 2 * m.cur /\ Campaigning(r)
    BY <2>2 DEF MessageAt
  <2> QED
    BY <2>1, <2>3, <2>4
<1>2. /\ progressCur' = m.cur /\ progressTot' = Count
      /\ histogram' = IF mode = "fuzz" THEN [histogram EXCEPT ![m.class] = @ + 1] ELSE histogram
      /\ UNCHANGED <<rows, table, buildTail, status>>
      /\ UNCHANGED <<state, cancel, events>>
      /\ listeners' = Listen([listeners EXCEPT ![r] = @ - 1], r)
      /\ UNCHANGED <<mode, exporting, quit, started, kind, phase, done, failed, class, result>>
  BY <1>1 DEF Receive, HandleProgress, SameRun
<1>3. /\ r = events /\ r = started /\ state = "running" /\ kind[r] = mode
      /\ Taken(r)' = Taken(r) + 1 /\ Taken(r) \in Nat
  <2>1. r = events /\ r = started /\ r # 0 /\ Taken(r)' = Taken(r) + 1 /\ Taken(r) \in Nat
    BY <1>1, Taking DEF TuiInv, UiTypes, Runs
  <2> QED
    BY <1>1, <2>1 DEF TuiInv, Busy
<1>4. RunTypes' /\ Streams' /\ OneRunAtATime' /\ Busy'
  <2>1. phase[r] = "ended" => Sent(r) = 2 * done[r] + 1
    BY <1>1 DEF Sent
  <2>2. PICK t \in Nat, d \in Nat : t = Taken(r) /\ d = done[r]
    BY <1>3, TuiAssumption DEF TuiInv, RunTypes
  <2>3. t + 1 < 2 * d + 1
    BY <1>1, <2>2
  <2>4. phase[r] = "ended" => Taken(r) + 1 < Sent(r)
    BY <2>1, <2>2, <2>3
  <2> QED
    BY <1>2, <2>4, StillListening
<1>5. UiTypes'
  <2>1. histogram' \in [RunClasses -> Nat]
    <3>1. histogram \in [RunClasses -> Nat] /\ m.class \in RunClasses
      BY <1>1 DEF TuiInv, UiTypes
    <3>2. histogram[m.class] + 1 \in Nat
      BY <3>1
    <3> QED
      BY <1>2, <3>1, <3>2
  <2> QED
    BY <1>2, <1>1, <2>1, TuiAssumption DEF TuiInv, UiTypes
<1>6. LastRow' = LastRow
  BY <1>2 DEF LastRow
<1>7. rows # <<>> => LastRow.id = m.cur /\ AwaitsProgress /\ ~AwaitsProgress'
  <2> SUFFICES ASSUME rows # <<>>
               PROVE  LastRow.id = m.cur /\ AwaitsProgress /\ ~AwaitsProgress'
    OBVIOUS
  <2>1. LastRow.id \in Nat
    BY LastRowHeld, TuiAssumption DEF RowRecord
  <2>2. Taken(r) = 2 * LastRow.id - 1 \/ Taken(r) = 2 * LastRow.id
    BY <1>3 DEF TuiInv, Held, RowsReach
  <2>3. Taken(r) = 2 * LastRow.id - 1 /\ LastRow.id = m.cur
    <3>1. PICK l \in Nat, c \in Nat, k \in Nat : l = LastRow.id /\ c = m.cur /\ k = Taken(r)
      BY <1>1, <1>3, <2>1
    <3>2. k + 1 = 2 * c /\ (k = 2 * l - 1 \/ k = 2 * l)
      BY <1>1, <2>2, <3>1
    <3>3. k = 2 * l - 1 /\ l = c
      BY <3>2
    <3> QED
      BY <3>1, <3>3
  <2>4. Taken(events)' = 2 * LastRow.id
    BY <1>2, <1>3, <2>1, <2>3
  <2> QED
    BY <1>2, <1>3, <1>6, <2>1, <2>3, <2>4 DEF AwaitsProgress
<1>8. RowsInOrder'
  BY <1>2 DEF TuiInv, Held, RowsInOrder, LastCampaign
<1>9. RowsReach' /\ AwaitedAgrees'
  <2> SUFFICES ASSUME rows # <<>> PROVE RowsReach' /\ AwaitedAgrees'
    BY <1>2 DEF RowsReach, AwaitedAgrees, AwaitsProgress
  <2>1. Taken(events)' = 2 * LastRow'.id
    BY <1>2, <1>1, <1>3, <1>6, <1>7
  <2> QED
    BY <1>2, <1>3, <1>7, <2>1 DEF RowsReach, AwaitedAgrees
<1>10. Totals'
  <2>1. ASSUME Uncut'
        PROVE  /\ progressCur' = Len(rows') /\ ~AwaitsProgress'
               /\ mode' = "fuzz" => \A c \in RunClasses : OfClass(c)' = histogram'[c]
    <3>1. rows # <<>> /\ rows[1].id = 1 /\ Uncut
      BY <1>2, <2>1 DEF Uncut
    <3>2. LastRow.id = Len(rows) /\ Len(rows) \in Nat
      BY <3>1, LastRowHeld
    <3>3. LastRow.class = m.class
      BY <1>1, <1>3, <1>7, <3>1, Taking DEF TuiInv, Held, AwaitedAgrees
    <3>4. ASSUME mode = "fuzz", NEW c \in RunClasses PROVE OfClass(c) = histogram'[c]
      <4>1. OfClass(c) = histogram[c] + IF LastRow.class = c THEN 1 ELSE 0
        BY <1>7, <3>1, <3>4 DEF TuiInv, Held, Totals
      <4>2. histogram \in [RunClasses -> Nat]
        BY DEF TuiInv, UiTypes
      <4> QED
        BY <1>2, <1>1, <3>3, <3>4, <4>1, <4>2
    <3>5. \A c : OfClass(c)' = OfClass(c)
      BY <1>2 DEF OfClass
    <3> QED
      BY <1>2, <1>7, <3>1, <3>2, <3>4, <3>5
  <2>2. Taken(events)' # 0
    BY <1>2, <1>3
  <2>3. \A c \in RunClasses : histogram'[c] \in Nat
    BY <1>5 DEF UiTypes
  <2> QED
    BY <2>1, <2>2, <2>3 DEF Totals
<1>11. TailReaches' /\ TailIsOfTheLastBuild'
  BY <1>2, <1>3 DEF TuiInv, Held, TailReaches, TailIsOfTheLastBuild, Campaigning
<1>12. TableIsOfTheRows' /\ DoneMeansComplete'
  BY <1>2, <1>3 DEF TuiInv, TableIsOfTheRows, DoneMeansComplete, LastCampaign
<1> QED
  BY <1>4, <1>5, <1>8, <1>9, <1>10, <1>11, <1>12 DEF TuiInv, Held

-----------------------------------------------------------------------------
(* The messages of a build *)

(* The last lines are a suffix, not empty and not too long. *)
LEMMA LastLinesAreTheLast ==
  ASSUME NEW s \in Seq(Line), NEW n \in Nat, n = Len(s), n > 0
  PROVE  \E k \in Nat, l \in Nat :
           /\ LastLines(s) \in Seq(Line) /\ Len(LastLines(s)) = l
           /\ l \in 1 .. TailLength /\ l + k = n
           /\ \A i \in 1 .. l : LastLines(s)[i] = s[i + k]
<1>1. PICK k \in Nat : k < n /\ k = IF n > TailLength THEN n - TailLength ELSE 0
  BY TuiAssumption
<1>2. LastLines(s) = SubSeq(s, k + 1, n)
  BY <1>1, TuiAssumption DEF LastLines
<1>3. \A i \in k + 1 .. n : s[i] \in Line
  <2>1. \A i \in k + 1 .. n : i \in 1 .. n
    BY <1>1
  <2> QED
    BY <2>1, ElementOfSeq
<1>4. /\ LastLines(s) \in Seq(Line)
      /\ Len(LastLines(s)) = IF k + 1 <= n THEN n - (k + 1) + 1 ELSE 0
      /\ \A i \in 1 .. n - (k + 1) + 1 : LastLines(s)[i] = s[(k + 1) + i - 1]
  <2>1. PICK first \in Int : first = k + 1
    OBVIOUS
  <2>2. \A i \in first .. n : s[i] \in Line
    BY <1>3, <2>1
  <2>3. n \in Int
    OBVIOUS
  <2>4. /\ SubSeq(s, first, n) \in Seq(Line)
        /\ Len(SubSeq(s, first, n)) = IF first <= n THEN n - first + 1 ELSE 0
        /\ \A i \in 1 .. n - first + 1 : SubSeq(s, first, n)[i] = s[first + i - 1]
    BY <2>2, <2>3, SubSeqProperties
  <2> QED
    BY <1>2, <2>1, <2>4
<1>5. PICK l \in Nat : l = n - k
  BY <1>1
<1>6. l \in 1 .. TailLength /\ l + k = n /\ n - (k + 1) + 1 = l /\ k + 1 <= n
  BY <1>1, <1>5, TuiAssumption
<1>7. Len(LastLines(s)) = l
  BY <1>4, <1>6
<1>8. ASSUME NEW i \in 1 .. l PROVE LastLines(s)[i] = s[i + k]
  <2>1. (k + 1) + i - 1 = i + k
    BY <1>1
  <2> QED
    BY <1>4, <1>6, <2>1
<1> QED
  BY <1>4, <1>6, <1>7, <1>8

LEMMA OutputTaken ==
  ASSUME TuiInv, NEW r \in Runs, Receive(r), Head(chan[r]).type = "output"
  PROVE  TuiInv'
<1>1. PICK line \in Line :
        /\ line = Head(chan[r]).line /\ line = <<r, Taken(r) + 1>>
        /\ Taken(r) + 1 <= done[r] /\ ~Campaigning(r)
  <2>1. PICK m \in Message : m = Head(chan[r])
    BY Taking
  <2>2. MessageAt(r, m, Taken(r) + 1) /\ m.type = "output"
    BY <2>1, TakenMessage
  <2>3. m.line \in Line
    BY <2>2 DEF Message
  <2>4. m.line = <<r, Taken(r) + 1>> /\ Taken(r) + 1 <= done[r] /\ ~Campaigning(r)
    BY <2>2 DEF MessageAt
  <2> QED
    BY <2>1, <2>3, <2>4
<1>2. /\ buildTail' = LastLines(Append(buildTail, line))
      /\ UNCHANGED <<rows, histogram, progressCur, progressTot, table, status>>
      /\ UNCHANGED <<state, cancel, events>>
      /\ listeners' = Listen([listeners EXCEPT ![r] = @ - 1], r)
      /\ UNCHANGED <<mode, exporting, quit, started, kind, phase, done, failed, class, result>>
  BY <1>1 DEF Receive, HandleOutput, SameRun, SameResults
<1>3. /\ r = events /\ r = started /\ state = "building"
      /\ Taken(r)' = Taken(r) + 1 /\ Taken(r) \in Nat /\ buildTail \in Seq(Line)
  BY <1>1, Taking DEF TuiInv, Busy, UiTypes, OneRunAtATime, Runs
<1>4. RunTypes' /\ Streams' /\ OneRunAtATime' /\ Busy'
  <2>1. phase[r] = "ended" => Sent(r) = done[r] + 1
    BY <1>1 DEF Sent
  <2>2. done[r] \in Nat
    BY TuiAssumption DEF TuiInv, RunTypes
  <2>3. phase[r] = "ended" => Taken(r) + 1 < Sent(r)
    BY <1>1, <1>3, <2>1, <2>2
  <2> QED
    BY <1>2, <2>3, StillListening
<1>5. PICK n \in Nat : n = Len(buildTail)
  BY <1>3, LenProperties
<1>6. /\ Append(buildTail, line) \in Seq(Line) /\ Len(Append(buildTail, line)) = n + 1
      /\ \A i \in 1 .. n : Append(buildTail, line)[i] = buildTail[i]
      /\ Append(buildTail, line)[n + 1] = line
  BY <1>3, <1>5, AppendProperties
<1>7. PICK k \in Nat, l \in Nat :
        /\ buildTail' \in Seq(Line) /\ Len(buildTail') = l
        /\ l \in 1 .. TailLength /\ l + k = n + 1
        /\ \A i \in 1 .. l : buildTail'[i] = Append(buildTail, line)[i + k]
  <2>1. PICK s \in Seq(Line) : s = Append(buildTail, line)
    BY <1>6
  <2>2. PICK m \in Nat : m = n + 1 /\ m > 0
    BY <1>5
  <2>3. m = Len(s)
    BY <1>6, <2>1, <2>2
  <2>4. PICK k \in Nat, l \in Nat :
          /\ LastLines(s) \in Seq(Line) /\ Len(LastLines(s)) = l
          /\ l \in 1 .. TailLength /\ l + k = m
          /\ \A i \in 1 .. l : LastLines(s)[i] = s[i + k]
    BY <2>2, <2>3, LastLinesAreTheLast
  <2>5. buildTail' = LastLines(s)
    BY <1>2, <2>1
  <2> QED
    BY <2>1, <2>2, <2>4, <2>5
<1>8. UiTypes'
  <2>1. Len(buildTail') <= TailLength
    BY <1>7, TuiAssumption
  <2> QED
    BY <1>2, <1>7, <2>1 DEF TuiInv, UiTypes
<1>9. \A i \in 1 .. n + 1 : Append(buildTail, line)[i] = <<r, Taken(r) + i - n>>
  <2> SUFFICES ASSUME NEW i \in 1 .. n
               PROVE  buildTail[i] = <<r, Taken(r) + i - n>>
    BY <1>1, <1>3, <1>6
  <2>1. buildTail # <<>> /\ 1 \in 1 .. n /\ n \in 1 .. n
    BY <1>5
  <2>2. buildTail[n] = <<r, Taken(r)>>
    BY <1>3, <1>5, <2>1 DEF TuiInv, Held, TailReaches
  <2>3. \A j \in 1 .. n : /\ buildTail[j][1] = buildTail[1][1]
                          /\ buildTail[j][2] = buildTail[1][2] + j - 1
    BY <1>3, <1>5, LenProperties DEF TuiInv, Held, TailIsOfTheLastBuild
  <2>4. \A j \in 1 .. n : buildTail[j] \in Line
    BY <1>3, <1>5, ElementOfSeq
  <2>5. buildTail[1] \in Line /\ buildTail[1][2] \in Nat
    BY <2>1, <2>4, TuiAssumption DEF Line
  <2>6. buildTail[i][1] = r /\ buildTail[1][2] + n - 1 = Taken(r)
    BY <2>1, <2>2, <2>3
  <2>7. buildTail[i][2] = Taken(r) + i - n
    <3>1. buildTail[i][2] = buildTail[1][2] + i - 1
      BY <2>3
    <3>2. PICK b \in Nat, t \in Nat : b = buildTail[1][2] /\ t = Taken(r)
      BY <1>3, <2>5
    <3>3. b + n - 1 = t
      BY <2>6, <3>2
    <3>4. b + i - 1 = t + i - n
      BY <3>3
    <3> QED
      BY <3>1, <3>2, <3>4
  <2>8. buildTail[i] = <<buildTail[i][1], buildTail[i][2]>>
    BY <2>4 DEF Line
  <2> QED
    BY <2>6, <2>7, <2>8
<1>10. \A i \in 1 .. l : buildTail'[i] = <<r, Taken(r) + (i + k) - n>>
  <2> SUFFICES ASSUME NEW i \in 1 .. l
               PROVE  buildTail'[i] = <<r, Taken(r) + (i + k) - n>>
    OBVIOUS
  <2>1. i + k \in 1 .. n + 1
    BY <1>7
  <2> QED
    BY <1>7, <1>9, <2>1
<1>11. TailReaches'
  <2>1. buildTail'[1][1] = r /\ buildTail'[l] = <<r, Taken(r) + 1>>
    <3>1. 1 \in 1 .. l /\ l \in 1 .. l /\ Taken(r) + (l + k) - n = Taken(r) + 1
      BY <1>3, <1>7
    <3> QED
      BY <1>10, <3>1
  <2> QED
    <3>1. buildTail'[Len(buildTail')] = <<r, Taken(r)'>>
      BY <1>3, <1>7, <2>1
    <3>2. r <= r /\ kind'[r] = "build"
      BY <1>1, <1>2 DEF Campaigning, Runs
    <3> QED
      BY <1>2, <1>3, <2>1, <3>1, <3>2 DEF TailReaches, Campaigning
<1>12. TailIsOfTheLastBuild'
  <2>1. DOMAIN buildTail' = 1 .. l /\ 1 \in 1 .. l
    BY <1>7, LenProperties
  <2> SUFFICES ASSUME NEW i \in 1 .. l
               PROVE  /\ buildTail'[i][1] = buildTail'[1][1]
                      /\ \A x \in buildTail'[i][1] + 1 .. started' : kind'[x] # "build"
                      /\ buildTail'[i][2] = buildTail'[1][2] + i - 1
    BY <2>1 DEF TailIsOfTheLastBuild
  <2>2. buildTail'[i] = <<r, Taken(r) + (i + k) - n>> /\ buildTail'[1] = <<r, Taken(r) + (1 + k) - n>>
    BY <1>10, <2>1
  <2>3. Taken(r) + (i + k) - n = (Taken(r) + (1 + k) - n) + i - 1
    BY <1>3
  <2>4. r \in Nat
    BY DEF Runs
  <2> QED
    BY <1>2, <1>3, <2>2, <2>3, <2>4
<1>13. RowsInOrder' /\ RowsReach' /\ AwaitedAgrees' /\ ~AwaitsProgress' /\ ~AwaitsProgress
  <2>1. RowsInOrder'
    BY <1>2 DEF TuiInv, Held, RowsInOrder, LastCampaign
  <2>2. RowsReach'
    BY <1>2, <1>3 DEF TuiInv, Held, RowsReach, LastRow
  <2> QED
    BY <1>2, <1>3, <2>1, <2>2 DEF AwaitedAgrees, AwaitsProgress
<1>14. Totals'
  BY <1>2, <1>3, <1>13 DEF TuiInv, Held, Totals, Uncut, OfClass
<1>15. TableIsOfTheRows' /\ DoneMeansComplete'
  BY <1>2, <1>3 DEF TuiInv, TableIsOfTheRows, DoneMeansComplete, LastCampaign
<1> QED
  BY <1>4, <1>8, <1>11, <1>12, <1>13, <1>14, <1>15 DEF TuiInv, Held

-----------------------------------------------------------------------------
(* The end of a run *)

(* The end is the last message: whoever takes it leaves nothing behind. *)
LEMMA EndTaken ==
  ASSUME TuiInv, NEW r \in Runs, Receive(r), Head(chan[r]).type = "finished"
  PROVE  /\ r = events /\ r = started /\ r \in 1 .. started
         /\ phase[r] = "ended" /\ Taken(r) + 1 = Sent(r) /\ Taken(r) \in Nat
         /\ Head(chan[r]).error = result[r] /\ result[r] \in {"none", "cancelled", "failed"}
         /\ Head(chan[r]).success = (failed[r] = 0)
         /\ NoRun /\ Sound(r) /\ buildTail' = buildTail /\ rows' = rows
         /\ UNCHANGED <<histogram, progressCur, progressTot>>
         /\ UNCHANGED <<mode, exporting, quit, started, kind, phase, done, failed, class, result>>
         /\ UiTypes' /\ RunTypes' /\ Streams' /\ OneRunAtATime' /\ Busy'
<1>1. /\ NoRun /\ listeners' = [listeners EXCEPT ![r] = @ - 1]
      /\ UNCHANGED <<mode, exporting, quit, started, kind, phase, done, failed, class, result, cancelled>>
      /\ UNCHANGED <<rows, histogram, progressCur, progressTot, buildTail>>
  BY DEF Receive, HandleFinished, HandleBuildFinished, SameResults
<1>2. /\ phase[r] = "ended" /\ Taken(r) + 1 = Sent(r)
      /\ Head(chan[r]).error = result[r] /\ Head(chan[r]).success = (failed[r] = 0)
  <2>1. PICK m \in Message : m = Head(chan[r])
    BY Taking
  <2>2. MessageAt(r, m, Taken(r) + 1) /\ m.type = "finished"
    BY <2>1, TakenMessage
  <2> QED
    BY <2>1, <2>2 DEF MessageAt
<1>3. /\ r = events /\ r = started /\ r \in 1 .. started
      /\ Sound(r) /\ result[r] \in {"none", "cancelled", "failed"} /\ listeners[r] = 1
  <2>1. Sound(r) /\ r \in 1 .. started
    BY Taking DEF TuiInv, Streams
  <2> QED
    BY <1>2, <2>1, Taking DEF Sound, TuiInv, RunTypes, Results
<1>4. chan'[r] = <<>>
  <2>1. PICK n \in Nat : n = Len(chan[r])
    BY Taking
  <2>2. Sent(r) \in Int /\ Taken(r) = Sent(r) - n
    BY <2>1, SentIsInteger DEF Taken, TuiInv
  <2>3. n = 1
    BY <1>2, <2>2
  <2> QED
    BY <2>1, <2>3, Taking
<1>5. UiTypes'
  BY <1>1 DEF TuiInv, UiTypes, NoRun
<1>6. RunTypes'
  <2>1. listeners' \in [Runs -> Nat]
    BY <1>1, <1>3 DEF TuiInv, RunTypes
  <2>2. chan' \in [Runs -> Seq(Message)] /\ \A x \in Runs : Len(chan'[x]) <= Capacity
    BY Taking
  <2> QED
    BY <1>1, <2>1, <2>2 DEF TuiInv, RunTypes
<1>7. Streams'
  <2> SUFFICES ASSUME NEW x \in Runs, x > started PROVE Fresh(x)'
    BY <1>1, Taking DEF Streams
  <2>1. Fresh(x) /\ x \in Runs \ {r} /\ chan'[x] = chan[x]
    BY Taking DEF TuiInv, Streams
  <2> QED
    BY <1>1, <2>1 DEF Fresh, TuiInv, RunTypes
<1>8. OneRunAtATime'
  <2>1. ASSUME NEW x \in 1 .. started
        PROVE  listeners'[x] = 0 /\ phase'[x] = "ended" /\ chan'[x] = <<>>
    <3>1. x \in Runs
      BY TuiAssumption DEF TuiInv, UiTypes, Runs
    <3>2. CASE x = r
      BY <1>1, <1>2, <1>3, <1>4, <3>2 DEF TuiInv, RunTypes
    <3>3. CASE x # r
      <4>1. listeners[x] = 0 /\ phase[x] = "ended" /\ chan[x] = <<>>
        BY <1>3, <3>3 DEF TuiInv, OneRunAtATime
      <4> QED
        BY <1>1, <3>1, <3>3, <4>1, Taking DEF TuiInv, RunTypes
    <3> QED
      BY <3>2, <3>3
  <2>2. events' = 0 /\ cancel' = 0 /\ state' = "idle" /\ started' = started
    BY <1>1 DEF NoRun
  <2> QED
    BY <2>1, <2>2 DEF OneRunAtATime
<1>9. Busy'
  BY <1>1 DEF Busy, NoRun
<1> QED
  BY <1>1, <1>2, <1>3, <1>5, <1>6, <1>7, <1>8, <1>9, Taking

(* What is held when a run is over: the rows reach to the last one it      *)
(* completed, and nothing is awaited.                                      *)
LEMMA EndKeepsHeld ==
  ASSUME TuiInv, NEW r \in Runs, Receive(r), Head(chan[r]).type = "finished"
  PROVE  Held'
<1>1. /\ UNCHANGED <<mode, rows, histogram, progressCur, buildTail, started, kind, done>>
      /\ r = events /\ r = started /\ state' = "idle" /\ events' = 0
      /\ phase[r] = "ended" /\ Taken(r) + 1 = Sent(r)
  BY EndTaken DEF NoRun
<1>2. LastRow' = LastRow
  BY <1>1 DEF LastRow
<1>3. ASSUME rows # <<>> PROVE LastRow.id = done[LastRow.run] /\ ~AwaitsProgress
  <2>1. CASE state # "running"
    BY <1>3, <2>1 DEF TuiInv, Held, RowsReach, AwaitsProgress
  <2>2. CASE state = "running"
    <3>1. Campaigning(r)
      BY <1>1, <2>2 DEF TuiInv, Busy
    <3>2. LastRow.run = r /\ LastRow.id \in Nat
      <4>1. LastCampaign(LastRow.run) /\ LastRow.run <= r /\ LastRow \in RowRecord
        BY <1>1, <1>3, LastRowHeld
      <4>2. LastRow.run \in 1 .. MaxRuns /\ LastRow.id \in Nat
        BY <4>1, TuiAssumption DEF RowRecord, Runs
      <4>3. LastRow.run + 1 <= r => r \in LastRow.run + 1 .. started
        BY <1>1, <4>2 DEF Runs
      <4> QED
        BY <1>1, <3>1, <4>1, <4>2, <4>3 DEF LastCampaign, Campaigning, Runs
    <3>3. Sent(r) = 2 * done[r] + 1 /\ done[r] \in Nat
      BY <1>1, <3>1, TuiAssumption DEF Sent, TuiInv, RunTypes
    <3>4. Taken(r) = 2 * done[r]
      BY <1>1, <3>3, EndTaken
    <3>5. Taken(r) = 2 * LastRow.id - 1 \/ Taken(r) = 2 * LastRow.id
      BY <1>1, <1>3, <2>2 DEF TuiInv, Held, RowsReach
    <3>6. LastRow.id = done[r] /\ Taken(r) # 2 * LastRow.id - 1
      BY <3>2, <3>3, <3>4, <3>5
    <3> QED
      BY <1>1, <3>2, <3>6 DEF AwaitsProgress
  <2> QED
    BY <2>1, <2>2
<1>4. RowsInOrder'
  BY <1>1 DEF TuiInv, Held, RowsInOrder, LastCampaign
<1>5. RowsReach' /\ ~AwaitsProgress' /\ AwaitedAgrees'
  BY <1>1, <1>2, <1>3 DEF RowsReach, AwaitsProgress, AwaitedAgrees
<1>6. Totals'
  BY <1>1, <1>3, <1>5 DEF TuiInv, Held, Totals, Uncut, OfClass
<1>7. TailReaches' /\ TailIsOfTheLastBuild'
  BY <1>1 DEF TuiInv, Held, TailReaches, TailIsOfTheLastBuild, Campaigning
<1> QED
  BY <1>4, <1>5, <1>6, <1>7 DEF Held

LEMMA FinishedTaken ==
  ASSUME TuiInv, NEW r \in Runs, Receive(r), Head(chan[r]).type = "finished"
  PROVE  TuiInv'
<1>1. /\ UNCHANGED <<mode, rows, started, kind, done, failed>> /\ state' = "idle"
      /\ r = started /\ r \in 1 .. started /\ Sound(r)
      /\ Head(chan[r]).error = result[r] /\ result[r] \in {"none", "cancelled", "failed"}
      /\ Head(chan[r]).success = (failed[r] = 0) /\ mode \in Modes
  BY EndTaken DEF NoRun, TuiInv, UiTypes
<1>2. CASE Campaigning(r)
  <2>1. HandleFinished(Head(chan[r]))
    BY <1>2 DEF Receive, Campaigning
  <2>2. TableIsOfTheRows'
    BY <2>1 DEF HandleFinished, BuildResultsTable, TableIsOfTheRows
  <2>3. DoneMeansComplete'
    <3> SUFFICES ASSUME status' = "done"
                 PROVE  LastCampaign(r) /\ done[r] = Count /\ (mode = "e2e" => failed[r] = 0)
      BY <1>1 DEF DoneMeansComplete, LastCampaign
    <3>1. result[r] = "none" /\ (Head(chan[r]).success \/ mode = "fuzz")
      BY <1>1, <2>1 DEF HandleFinished, Modes
    <3>2. LastCampaign(r)
      BY <1>1, <1>2 DEF LastCampaign, Campaigning, Runs
    <3> QED
      BY <1>1, <1>2, <3>1, <3>2 DEF Sound
  <2> QED
    BY <2>2, <2>3, EndTaken, EndKeepsHeld DEF TuiInv
<1>3. CASE ~Campaigning(r)
  <2>1. HandleBuildFinished(Head(chan[r]))
    BY <1>3 DEF Receive, Campaigning
  <2>2. TableIsOfTheRows'
    <3>1. state # "running"
      BY <1>3, EndTaken DEF TuiInv, Busy
    <3> QED
      BY <2>1, <3>1 DEF HandleBuildFinished, SameResults, TableIsOfTheRows, TuiInv
  <2>3. DoneMeansComplete'
    BY <1>1, <2>1 DEF HandleBuildFinished, DoneMeansComplete
  <2> QED
    BY <2>2, <2>3, EndTaken, EndKeepsHeld DEF TuiInv
<1> QED
  BY <1>2, <1>3

LEMMA ReceiveKeepsInv ==
  ASSUME TuiInv, NEW r \in Runs, Receive(r)
  PROVE  TuiInv'
  BY RowTaken, ProgressTaken, OutputTaken, FinishedTaken DEF Receive

-----------------------------------------------------------------------------
(* Keys *)

(* A key that starts no run and clears nothing: it may cancel, complain,   *)
(* open the prompt or quit, and nothing it does says that a run is done.   *)
LEMMA QuietKeepsInv ==
  ASSUME TuiInv,
         UNCHANGED <<mode, state, cancel, events, rows, histogram, progressCur,
                     progressTot, table, buildTail, runVars, listeners>>,
         exporting' \in BOOLEAN, quit' \in BOOLEAN, cancelled' \in [Runs -> BOOLEAN],
         status' = "done" => status = "done"
  PROVE  TuiInv'
<1>1. UNCHANGED <<started, kind, phase, done, failed, class, result, chan>>
  BY DEF runVars
<1>2. UiTypes' /\ RunTypes'
  BY <1>1 DEF TuiInv, UiTypes, RunTypes
<1>3. Streams'
  <2>1. ASSUME NEW x \in Runs, x > started PROVE Fresh(x)'
    BY <1>1, <2>1 DEF TuiInv, Streams, Fresh
  <2>2. ASSUME NEW x \in 1 .. started PROVE Sound(x)' /\ Stream(x)' /\ PairsAgree(x)'
    BY <1>1 DEF TuiInv, Streams, Sound, Stream, PairsAgree, Taken, Sent, MessageAt, Campaigning
  <2> QED
    BY <1>1, <2>1, <2>2 DEF Streams
<1>4. Busy' /\ OneRunAtATime'
  BY <1>1 DEF TuiInv, Busy, OneRunAtATime, Campaigning
<1>5. AwaitsProgress' = AwaitsProgress /\ LastRow' = LastRow
  BY <1>1 DEF AwaitsProgress, LastRow, Taken, Sent, Campaigning
<1>6. RowsInOrder' /\ RowsReach' /\ AwaitedAgrees'
  BY <1>1, <1>5
  DEF TuiInv, Held, RowsInOrder, LastCampaign, RowsReach, AwaitedAgrees, Taken, Sent, Campaigning
<1>7. Totals'
  BY <1>1, <1>5 DEF TuiInv, Held, Totals, Uncut, OfClass, Taken, Sent, Campaigning
<1>8. TailReaches' /\ TailIsOfTheLastBuild'
  BY <1>1 DEF TuiInv, Held, TailReaches, TailIsOfTheLastBuild, Taken, Sent, Campaigning
<1>9. TableIsOfTheRows' /\ DoneMeansComplete'
  BY <1>1 DEF TuiInv, TableIsOfTheRows, DoneMeansComplete, LastCampaign
<1> QED
  BY <1>2, <1>3, <1>4, <1>6, <1>7, <1>8, <1>9 DEF Held, TuiInv

(* Clearing keeps what the next messages need; the mode changes only when  *)
(* the interface is idle.                                                  *)
LEMMA ClearKeepsInv ==
  ASSUME TuiInv, ClearResults, status' # "done",
         UNCHANGED <<state, cancel, events, exporting, quit, buildTail, runVars,
                     cancelled, listeners>>,
         mode' \in Modes, mode' = mode \/ state = "idle"
  PROVE  TuiInv'
<1>1. /\ UNCHANGED <<started, kind, phase, done, failed, class, result, chan>>
      /\ rows' = <<>> /\ histogram' = NoCounts /\ progressCur' = 0 /\ progressTot' = 0
      /\ table' = rows'
  BY DEF runVars, ClearResults, BuildResultsTable
<1>2. UiTypes'
  BY <1>1, TuiAssumption DEF TuiInv, UiTypes, NoCounts
<1>3. RunTypes'
  BY <1>1 DEF TuiInv, RunTypes
<1>4. Streams'
  <2>1. ASSUME NEW x \in Runs, x > started PROVE Fresh(x)'
    BY <1>1, <2>1 DEF TuiInv, Streams, Fresh
  <2>2. ASSUME NEW x \in 1 .. started PROVE Sound(x)' /\ Stream(x)' /\ PairsAgree(x)'
    BY <1>1 DEF TuiInv, Streams, Sound, Stream, PairsAgree, Taken, Sent, MessageAt, Campaigning
  <2> QED
    BY <1>1, <2>1, <2>2 DEF Streams
<1>5. OneRunAtATime'
  BY <1>1 DEF TuiInv, OneRunAtATime
<1>6. Busy'
  BY <1>1 DEF TuiInv, Busy, OneRunAtATime, Campaigning
<1>7. Len(rows') = 0 /\ ~AwaitsProgress'
  BY <1>1 DEF AwaitsProgress
<1>8. RowsInOrder' /\ RowsReach' /\ AwaitedAgrees' /\ Totals'
  BY <1>1, <1>7 DEF RowsInOrder, RowsReach, AwaitedAgrees, Totals, Uncut
<1>9. TailReaches' /\ TailIsOfTheLastBuild'
  BY <1>1 DEF TuiInv, Held, TailReaches, TailIsOfTheLastBuild, Taken, Sent, Campaigning
<1>10. TableIsOfTheRows' /\ DoneMeansComplete'
  BY <1>1 DEF TableIsOfTheRows, DoneMeansComplete
<1> QED
  BY <1>2, <1>3, <1>4, <1>5, <1>6, <1>8, <1>9, <1>10 DEF Held, TuiInv

(* A new run starts with an empty channel of its own, and no earlier run   *)
(* has anything left to say.                                               *)
LEMMA Launching ==
  ASSUME TuiInv, NEW what \in Modes \cup {"build"}, state = "idle", started < MaxRuns,
         Launch(what), UNCHANGED <<mode, exporting, quit>>,
         IF what = "build" THEN state' = "building" ELSE state' = "running" /\ what = mode
  PROVE  /\ started + 1 \in Runs /\ started' = started + 1 /\ events' = started + 1
         /\ started \in Nat /\ cancel' = events'
         /\ kind'[started + 1] = what
         /\ \A x \in 1 .. started : x \in Runs /\ kind'[x] = kind[x]
         /\ done' = done
         /\ RunTypes' /\ Streams' /\ Busy' /\ OneRunAtATime'
<1> USE TuiAssumption
<1>1. PICK r \in Runs : r = started + 1
  BY DEF TuiInv, UiTypes, Runs
<1>2. /\ started' = r /\ cancel' = r /\ events' = r
      /\ kind' = [kind EXCEPT ![r] = what] /\ phase' = [phase EXCEPT ![r] = "working"]
      /\ listeners' = [listeners EXCEPT ![r] = 1]
      /\ UNCHANGED <<done, failed, class, result, chan, cancelled>>
  BY <1>1 DEF Launch, Goto
<1>3. /\ RunTypes /\ started \in Nat /\ Fresh(r)
      /\ \A x \in 1 .. started : x \in Runs /\ x # r
  BY <1>1 DEF TuiInv, Streams, UiTypes, Runs
<1>4. RunTypes'
  BY <1>2, <1>3 DEF RunTypes, Phases
<1>5. /\ kind'[r] = what /\ phase'[r] = "working" /\ listeners'[r] = 1
      /\ done'[r] = 0 /\ failed'[r] = 0 /\ result'[r] = "running" /\ chan'[r] = <<>>
      /\ \A x \in Runs : x # r =>
           kind'[x] = kind[x] /\ phase'[x] = phase[x] /\ listeners'[x] = listeners[x]
  BY <1>2, <1>3 DEF RunTypes, Fresh
<1>6. Taken(r)' = 0
  <2>1. Sent(r)' = 0 /\ Len(chan'[r]) = 0
    BY <1>5 DEF Sent, Campaigning
  <2> QED
    BY <2>1 DEF Taken
<1>7. Streams'
  <2>1. ASSUME NEW x \in Runs, x > started' PROVE Fresh(x)'
    <3>1. Fresh(x) /\ x # r
      BY <1>1, <1>2, <1>3, <2>1 DEF TuiInv, Streams, Runs
    <3> QED
      BY <1>2, <1>5, <3>1 DEF Fresh
  <2>2. ASSUME NEW x \in 1 .. started PROVE Sound(x)' /\ Stream(x)' /\ PairsAgree(x)'
    <3>1. Sound(x) /\ Stream(x) /\ PairsAgree(x) /\ x \in Runs /\ x # r
      BY <1>3 DEF TuiInv, Streams
    <3>2. /\ kind'[x] = kind[x] /\ phase'[x] = phase[x] /\ chan'[x] = chan[x]
          /\ done'[x] = done[x] /\ failed'[x] = failed[x] /\ result'[x] = result[x]
          /\ class'[x] = class[x]
      BY <1>2, <1>5, <3>1
    <3>3. Sent(x)' = Sent(x) /\ Taken(x)' = Taken(x) /\ Sound(x)' /\ PairsAgree(x)'
      BY <3>1, <3>2 DEF Sound, PairsAgree, Taken, Sent, Campaigning
    <3>4. Stream(x)'
      BY <3>1, <3>2, <3>3 DEF Stream, MessageAt, Campaigning
    <3> QED
      BY <3>3, <3>4
  <2>3. Sound(r)' /\ Stream(r)' /\ PairsAgree(r)'
    <3>1. Len(chan'[r]) = 0
      BY <1>5
    <3>2. Sound(r)'
      BY <1>5 DEF Sound
    <3>3. Stream(r)' /\ PairsAgree(r)'
      BY <1>6, <3>1 DEF Stream, PairsAgree
    <3> QED
      BY <3>2, <3>3
  <2>4. \A x \in 1 .. started' : x \in 1 .. started \/ x = r
    BY <1>1, <1>2, <1>3
  <2> QED
    BY <2>1, <2>2, <2>3, <2>4 DEF Streams
<1>8. Busy'
  <2>1. r # 0 /\ (what = "build" <=> state' # "running")
    BY <1>1, <1>3 DEF Modes
  <2> QED
    BY <1>2, <1>5, <2>1 DEF Busy, Campaigning
<1>9. OneRunAtATime'
  <2>1. ASSUME NEW x \in 1 .. started
        PROVE  listeners'[x] = 0 /\ phase'[x] = "ended" /\ chan'[x] = <<>>
    <3>1. x # events
      BY DEF TuiInv, OneRunAtATime
    <3>2. listeners[x] = 0 /\ phase[x] = "ended" /\ chan[x] = <<>>
      BY <3>1 DEF TuiInv, OneRunAtATime
    <3> QED
      BY <1>2, <1>3, <1>5, <3>2
  <2>2. \A x \in 1 .. started' : x \in 1 .. started \/ x = r
    BY <1>1, <1>2, <1>3
  <2>3. state' # "idle" /\ events' # 0 /\ cancel' = events'
    BY <1>1, <1>2, <1>3
  <2> QED
    BY <1>2, <1>5, <2>1, <2>2, <2>3 DEF OneRunAtATime
<1>10. \A x \in 1 .. started : x \in Runs /\ kind'[x] = kind[x]
  BY <1>3, <1>5
<1>11. started + 1 \in Runs /\ started' = started + 1 /\ events' = started + 1 /\ cancel' = events'
  BY <1>1, <1>2
<1>12. kind'[started + 1] = what
  BY <1>1, <1>5
<1> QED
  BY <1>2, <1>3, <1>4, <1>7, <1>8, <1>9, <1>10, <1>11, <1>12

LEMMA StartRunKeepsInv == ASSUME TuiInv, StartRun PROVE TuiInv'
<1> USE TuiAssumption
<1>1. /\ state = "idle" /\ started < MaxRuns /\ Launch(mode)
      /\ state' = "running" /\ status' = "running"
      /\ rows' = <<>> /\ histogram' = NoCounts /\ progressCur' = 0 /\ progressTot' = Count
      /\ table' = rows' /\ UNCHANGED <<mode, exporting, quit, buildTail>>
      /\ mode \in Modes /\ mode # "build"
  BY DEF StartRun, Key, BuildResultsTable, TuiInv, UiTypes, Modes
<1>2. /\ started + 1 \in Runs /\ started' = started + 1 /\ events' = started + 1
      /\ started \in Nat /\ cancel' = events'
      /\ kind'[started + 1] = mode
      /\ \A x \in 1 .. started : x \in Runs /\ kind'[x] = kind[x]
      /\ RunTypes' /\ Streams' /\ Busy' /\ OneRunAtATime'
  BY <1>1, Launching
<1>3. UiTypes'
  BY <1>1, <1>2 DEF TuiInv, UiTypes, NoCounts, Runs
<1>4. Held'
  <2>1. Len(rows') = 0 /\ ~AwaitsProgress'
    BY <1>1 DEF AwaitsProgress
  <2>2. RowsInOrder' /\ RowsReach' /\ AwaitedAgrees' /\ Totals'
    BY <1>1, <2>1 DEF RowsInOrder, RowsReach, AwaitedAgrees, Totals, Uncut
  <2>3. TailReaches'
    <3> SUFFICES ASSUME buildTail # <<>>
                 PROVE  buildTail[1][1] <= started' /\ kind'[buildTail[1][1]] = "build"
      BY <1>1 DEF TailReaches, Campaigning
    <3>1. buildTail[1] \in Line
      BY EmptySeq, ElementOfSeq DEF TuiInv, UiTypes
    <3>2. buildTail[1][1] \in 1 .. started /\ kind[buildTail[1][1]] = "build"
      BY <1>2, <3>1 DEF TuiInv, Held, TailReaches, Campaigning, Line, Runs
    <3> QED
      BY <1>2, <3>2
  <2>4. TailIsOfTheLastBuild'
    <3> SUFFICES ASSUME NEW i \in 1 .. Len(buildTail)
                 PROVE  /\ buildTail[i][1] = buildTail[1][1]
                        /\ \A x \in buildTail[i][1] + 1 .. started' : kind'[x] # "build"
                        /\ buildTail[i][2] = buildTail[1][2] + i - 1
      <4>1. DOMAIN buildTail = 1 .. Len(buildTail)
        BY LenProperties DEF TuiInv, UiTypes
      <4> QED
        BY <1>1, <4>1 DEF TailIsOfTheLastBuild
    <3>1. buildTail[i] \in Line
      BY ElementOfSeq DEF TuiInv, UiTypes
    <3>2. /\ buildTail[i][1] = buildTail[1][1]
          /\ \A x \in buildTail[i][1] + 1 .. started : kind[x] # "build"
          /\ buildTail[i][2] = buildTail[1][2] + i - 1
      BY DEF TuiInv, Held, TailIsOfTheLastBuild, UiTypes
    <3>3. \A x \in buildTail[i][1] + 1 .. started' :
            x = started + 1 \/ x \in buildTail[i][1] + 1 .. started
      BY <1>2, <3>1 DEF Line, Runs
    <3>4. \A x \in buildTail[i][1] + 1 .. started : x \in 1 .. started
      BY <1>2, <3>1 DEF Line, Runs
    <3> QED
      BY <1>1, <1>2, <3>2, <3>3, <3>4
  <2> QED
    BY <2>2, <2>3, <2>4 DEF Held
<1>5. TableIsOfTheRows' /\ DoneMeansComplete'
  BY <1>1 DEF TableIsOfTheRows, DoneMeansComplete
<1> QED
  BY <1>2, <1>3, <1>4, <1>5 DEF TuiInv

LEMMA StartBuildKeepsInv == ASSUME TuiInv, StartBuild PROVE TuiInv'
<1> USE TuiAssumption
<1>1. /\ state = "idle" /\ started < MaxRuns /\ Launch("build")
      /\ state' = "building" /\ status' = "building" /\ buildTail' = <<>>
      /\ UNCHANGED <<rows, histogram, progressCur, progressTot, table, mode, exporting, quit>>
  BY DEF StartBuild, Key, SameResults
<1>2. /\ started + 1 \in Runs /\ started' = started + 1 /\ events' = started + 1
      /\ started \in Nat /\ cancel' = events'
      /\ kind'[started + 1] = "build"
      /\ \A x \in 1 .. started : x \in Runs /\ kind'[x] = kind[x]
      /\ done' = done
      /\ RunTypes' /\ Streams' /\ Busy' /\ OneRunAtATime'
  BY <1>1, Launching
<1>3. UiTypes'
  BY <1>1, <1>2, EmptySeq DEF TuiInv, UiTypes, Runs
<1>4. RowsInOrder'
  <2> SUFFICES ASSUME NEW i \in 1 .. Len(rows)
               PROVE  /\ LastCampaign(rows[i].run)' /\ rows[i].run <= started'
                      /\ kind'[rows[i].run] = mode /\ rows[i].id = rows[1].id + i - 1
    BY <1>1 DEF RowsInOrder
  <2>1. /\ LastCampaign(rows[i].run) /\ rows[i].run <= started
        /\ kind[rows[i].run] = mode /\ rows[i].id = rows[1].id + i - 1
    BY DEF TuiInv, Held, RowsInOrder
  <2>2. rows[i].run \in 1 .. started
    <3>1. rows[i] \in RowRecord
      BY ElementOfSeq DEF TuiInv, UiTypes
    <3> QED
      BY <1>2, <2>1, <3>1 DEF RowRecord, Runs
  <2>3. \A x \in rows[i].run + 1 .. started' : kind'[x] = "build"
    <3> SUFFICES ASSUME NEW x \in rows[i].run + 1 .. started + 1, x # started + 1
                 PROVE  kind'[x] = "build"
      BY <1>2
    <3>1. x \in 1 .. started /\ x \in rows[i].run + 1 .. started
      BY <1>2, <2>2
    <3> QED
      BY <1>2, <2>1, <3>1 DEF LastCampaign
  <2> QED
    BY <1>1, <1>2, <2>1, <2>2, <2>3 DEF LastCampaign
<1>5. ~AwaitsProgress' /\ ~AwaitsProgress /\ LastRow' = LastRow
  BY <1>1 DEF AwaitsProgress, LastRow
<1>6. RowsReach' /\ AwaitedAgrees' /\ Totals'
  BY <1>1, <1>2, <1>5 DEF TuiInv, Held, RowsReach, AwaitedAgrees, Totals, Uncut, OfClass
<1>7. TailReaches' /\ TailIsOfTheLastBuild'
  BY <1>1 DEF TailReaches, TailIsOfTheLastBuild
<1>8. TableIsOfTheRows' /\ DoneMeansComplete'
  BY <1>1 DEF TuiInv, TableIsOfTheRows, DoneMeansComplete
<1> QED
  BY <1>2, <1>3, <1>4, <1>6, <1>7, <1>8 DEF Held, TuiInv

(* What a key does to the contexts: at most the run held is cancelled.     *)
LEMMA Cancelling ==
  ASSUME TuiInv, cancel # 0, CancelRun
  PROVE  /\ cancel \in Runs /\ cancelled' \in [Runs -> BOOLEAN] /\ cancelled'[cancel] = TRUE
         /\ \A x \in Runs \ {cancel} : cancelled'[x] = cancelled[x]
<1>1. cancel \in Runs
  BY TuiAssumption DEF TuiInv, UiTypes, Runs
<1> QED
  BY <1>1 DEF CancelRun, TuiInv, RunTypes

LEMMA KeyKeepsInv == ASSUME TuiInv, KeyPressed PROVE TuiInv'
<1>1. cancelled \in [Runs -> BOOLEAN] /\ exporting \in BOOLEAN /\ quit \in BOOLEAN /\ mode \in Modes
  BY DEF TuiInv, UiTypes, RunTypes
<1>2. CASE StartRefused
  BY <1>1, <1>2, QuietKeepsInv DEF StartRefused, Key, SameResults, SameRun
<1>3. CASE Stop
  BY <1>1, <1>3, Cancelling, QuietKeepsInv DEF Stop, Key, SameResults, SameRun
<1>4. CASE SwitchMode
  <2>1. CASE state # "idle"
    BY <1>1, <1>4, <2>1, QuietKeepsInv DEF SwitchMode, Key, SameResults, SameRun
  <2>2. CASE state = "idle"
    BY <1>4, <2>2, ClearKeepsInv DEF SwitchMode, Key, SameRun, Modes
  <2> QED
    BY <2>1, <2>2
<1>5. CASE Clear
  BY <1>1, <1>5, ClearKeepsInv DEF Clear, Key, SameRun
<1>6. CASE BeginExport
  BY <1>1, <1>6, QuietKeepsInv DEF BeginExport, Key, SameResults, SameRun
<1>7. CASE ExportKey
  BY <1>1, <1>7, QuietKeepsInv DEF ExportKey, SameResults, SameRun
<1>8. CASE Quit
  BY <1>1, <1>8, Cancelling, QuietKeepsInv DEF Quit, SameResults, SameRun
<1> QED
  BY <1>2, <1>3, <1>4, <1>5, <1>6, <1>7, <1>8, StartRunKeepsInv, StartBuildKeepsInv DEF KeyPressed

-----------------------------------------------------------------------------
(* Theorems *)

LEMMA InitInv == Init => TuiInv
<1> SUFFICES ASSUME Init PROVE TuiInv
  OBVIOUS
<1> USE TuiAssumption DEF Init
<1>1. UiTypes
  <2>1. rows \in Seq(RowRecord) /\ buildTail \in Seq(Line) /\ Len(buildTail) = 0
    OBVIOUS
  <2>2. histogram \in [RunClasses -> Nat]
    BY DEF NoCounts
  <2>3. mode \in Modes /\ state \in {"idle", "running", "building"}
    BY DEF Modes
  <2>4. started \in 0 .. MaxRuns /\ events \in 0 .. started /\ cancel = events
    OBVIOUS
  <2>5. progressCur \in 0 .. Count /\ progressTot \in {0, Count} /\ Len(buildTail) <= TailLength
    BY <2>1
  <2> QED
    BY <2>1, <2>2, <2>3, <2>4, <2>5 DEF UiTypes
<1>2. RunTypes
  BY DEF RunTypes, Phases, Modes, Results, RunClasses
<1>3. Streams
  BY DEF Streams, Fresh
<1>4. Busy /\ OneRunAtATime
  BY DEF Busy, OneRunAtATime
<1>5. Held
  BY DEF Held, RowsInOrder, RowsReach, AwaitedAgrees, AwaitsProgress, Totals, Uncut,
         TailReaches, TailIsOfTheLastBuild
<1>6. TableIsOfTheRows /\ DoneMeansComplete
  BY DEF TableIsOfTheRows, DoneMeansComplete
<1> QED
  BY <1>1, <1>2, <1>3, <1>4, <1>5, <1>6 DEF TuiInv

LEMMA NextKeepsInv == TuiInv /\ [Next]_vars => TuiInv'
<1> SUFFICES ASSUME TuiInv, [Next]_vars PROVE TuiInv'
  OBVIOUS
<1>1. CASE UNCHANGED vars
  BY <1>1, QuietKeepsInv DEF vars, uiVars, TuiInv, UiTypes, RunTypes
<1>2. ASSUME NEW r \in Runs, Goroutine(r) PROVE TuiInv'
  BY <1>2, GoroutineWorks, WorkKeepsInv
<1> QED
  BY <1>1, <1>2, KeyKeepsInv, ReceiveKeepsInv DEF Next

(* The messages between a run and the interface arrive once each and in    *)
(* order, and what the interface holds follows from how many it has taken. *)
THEOREM TuiInvariant == Spec => []TuiInv
  BY InitInv, NextKeepsInv, PTL DEF Spec

(* Whatever keys come between the messages of however many runs: one run   *)
(* at a time, with one listener; the rows, the table, the totals and the   *)
(* lines shown are of the last one, and "done" is said of a complete       *)
(* campaign only.                                                          *)
THEOREM ShownIsTheLastRun == Spec => []ResultsAreOfTheLastRun
<1>1. TuiInv => ResultsAreOfTheLastRun
  <2> SUFFICES ASSUME TuiInv PROVE ResultsAreOfTheLastRun
    OBVIOUS
  <2>1. UiTypeOK
    <3>1. ASSUME NEW i \in DOMAIN rows PROVE rows[i].run \in Runs /\ rows[i].id \in 1 .. Count
      <4>1. rows \in Seq(RowRecord) /\ i \in 1 .. Len(rows)
        BY DEF TuiInv, UiTypes
      <4>2. rows[i] \in RowRecord
        BY <4>1, ElementOfSeq
      <4> QED
        BY <4>2 DEF RowRecord
    <3>2. UiTypes /\ cancel \in 0 .. started
      BY DEF TuiInv, UiTypes
    <3>3. result \in [Runs -> Results] /\ \A r \in Runs : Len(chan[r]) <= Capacity
      BY DEF TuiInv, RunTypes
    <3> QED
      BY <3>1, <3>2, <3>3 DEF UiTypes, Results, UiTypeOK
  <2>2. RowsAreOfTheLastRun
    <3> SUFFICES ASSUME NEW i \in DOMAIN rows
                 PROVE  /\ LastCampaign(rows[i].run) /\ kind[rows[i].run] = mode
                        /\ rows[i].id = rows[1].id + i - 1
                        /\ i = Len(rows) /\ state # "running" => rows[i].id = done[rows[i].run]
      BY DEF RowsAreOfTheLastRun
    <3>1. i \in 1 .. Len(rows)
      BY DEF TuiInv, UiTypes
    <3> QED
      BY <3>1 DEF TuiInv, Held, RowsInOrder, RowsReach, LastRow
  <2>3. IdleTotalsAgree
    BY DEF TuiInv, Held, Totals, AwaitsProgress, IdleTotalsAgree, UiTypes
  <2> QED
    BY <2>1, <2>2, <2>3 DEF TuiInv, Held, ResultsAreOfTheLastRun
<1> QED
  BY <1>1, TuiInvariant, PTL
=============================================================================
