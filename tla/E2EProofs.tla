----------------------------- MODULE E2EProofs -----------------------------
(***************************************************************************)
(* Theorems of E2EEngine, of the tables made from its rows (E2EResults)    *)
(* and of the images it drives (E2EImages), for every number of            *)
(* iterations, every choice of faults, every room in the channel of stops  *)
(* and every campaign.                                                     *)
(*                                                                         *)
(* The argument for the engine: at most one command is under way, the one  *)
(* of the stage the engine is at or was at when it gave up; the image runs *)
(* only between a continue and the stop that answers it; so the stage tells*)
(* where the image stands, how many faults it has applied, and what its two*)
(* words and its counters hold.  The image an earlier session left between *)
(* inject and observe is set apart: its first stop is the wrong one, so no *)
(* row is ever made of it.                                                 *)
(*                                                                         *)
(* The argument for the images: each place of a main loop fixes what the   *)
(* words hold there, given the fault the host wrote, and the faults the    *)
(* host can write are those of its tables; what reaches the end of an      *)
(* iteration follows by stepping from place to place.                      *)
(***************************************************************************)
EXTENDS E2EResults, E2EImages, FiniteSetTheorems, SequenceTheorems, TLAPS

Early == {"start", "port", "gdb", "setup", "connect", "breakpoints"}

Commanding ==
  {"setup", "connect", "breakpoints", "inject", "read", "value", "target", "observe", "row"}

Stages == Early \cup {"next"} \cup Loop \cup Ending

OperationAt(s) ==
  CASE s \in {"setup", "connect", "read", "value", "target", "row"} -> s
    [] s = "breakpoints"            -> "insert"
    [] s \in {"inject", "observe"}  -> "continue"
    [] OTHER                        -> "none"

Names == {"none", "setup", "connect", "insert", "continue", "read", "value", "target", "row"}

Stops == {"halted", "inject", "observe", "elsewhere"}

(* The words a fault may write: whatever Choice chooses, or an earlier     *)
(* session wrote.                                                          *)
Words == Nat \cup {Choice(i).target : i \in Nat} \cup {Choice(i).value : i \in Nat}

FaultType == [target : Words, value : Words]

ImageType ==
  [at : {"boot", "inject", "observe", "lost"}, iteration : Nat, fault : FaultType,
   lastTarget : Words, passes : Nat, failures : Nat]

Remotes == {"none", "child", "leftover"}

RowType ==
  [iteration : Nat, fault_target : Words, fault_value : Words, passes : Nat,
   failures : Nat, remote : Remotes]

-----------------------------------------------------------------------------
(* The inductive invariant *)

PictureTypes ==
  /\ stage \in Stages /\ waiting \in BOOLEAN
  /\ chosen.target \in Words /\ chosen.value \in Words
  /\ rows \in Seq(RowType)
  /\ reply \in {"none", "ok", "error"}
  /\ command \in [op : Names, value : Words] /\ (command.op = "none" => command = Nothing)
  /\ stops \in Seq(Stops) /\ Len(stops) <= StopCapacity
  /\ remote \in Remotes
  /\ image \in ImageType
  /\ running \in BOOLEAN /\ strayed \in BOOLEAN /\ unhalted \in BOOLEAN
  /\ applied \in Seq([iteration : Nat, fault : FaultType])
  /\ counted \in Seq({"pass", "fail"})

(* What Terminate leaves behind, and when it is called. *)
ProcessHandled ==
  /\ gdb \in {"none", "up", "gone", "wedged"}
  /\ ProcessTypeOK /\ written = <<>>
  /\ stage = "start" => child = "none"
  /\ term = "kill" => signal = "kill"
  /\ Terminated => GoneOrKilled
  /\ stage \notin {"terminate", "ended"} => term = "idle"
  /\ stage = "ended" => child = "none" \/ Terminated

(* The image was left between inject and observe by an earlier session. *)
Behind == leftover.at = "inject"

Astray == strayed \/ Behind

(* How the campaign ends, and with how many rows. *)
EndAgrees ==
  /\ cancelled \in BOOLEAN
  /\ err \in {"none", "failed", "wrong stop", "cancelled"}
  /\ err # "none" => stage \in Ending
  /\ stage \in Ending => (err = "none" <=> Len(rows) = Count)
  /\ Len(rows) <= Count
  /\ stage \in Loop => Len(rows) < Count
  /\ stage \in Early => rows = <<>>
  /\ err = "wrong stop" => Astray
  /\ err = "cancelled" => cancelled

(* At most one command is under way, and it is the one of this stage, or   *)
(* the last one before the engine gave up.                                 *)
CommandAgrees ==
  /\ waiting => stage \in Commanding
  /\ command.op # "none" =>
       /\ reply = "none"
       /\ stage \in Ending \/ (waiting /\ command.op = OperationAt(stage))
  /\ command.op = "connect" => rows = <<>>
  /\ command.op = "continue" => stops = <<>>
  /\ command.op \in {"value", "target"} =>
       /\ image.at = "inject" /\ chosen = Choice(image.iteration)
       /\ command.value = chosen[command.op]
       /\ command.op = "value" => image.fault.target = 0
       /\ command.op = "target" => image.fault.value = chosen.value

Answering(this) == stage = this /\ waiting /\ reply = "ok"

(* The image was told to go on from here. *)
Resumed(this, wait) == Answering(this) \/ stage = wait

ToInject == Resumed("inject", "await inject")

ToObserve == Resumed("observe", "await observe")

(* The image runs only while the engine awaits its stop, or after it gave  *)
(* up; a stop is the answer to the continue that came before it.           *)
RunningAgrees ==
  /\ running =>
       /\ command.op = "none" /\ stops = <<>>
       /\ ToInject \/ ToObserve \/ stage \in Ending
  /\ strayed <=> image.at = "lost"
  /\ strayed => ToInject \/ ToObserve \/ stage \in Ending
  /\ strayed /\ (ToInject \/ ToObserve) => stops \in {<<>>, <<"elsewhere">>}
  /\ ~unhalted

(* Where the image stands, if nothing threw it off its way. *)
PlaceAgrees ==
  ~strayed =>
    /\ stage \in Early \cup {"next"} \/ (stage = "inject" /\ ~ToInject) =>
         image.at \in {"boot", "observe"}
    /\ ToInject => IF running THEN image.at \in {"boot", "observe"}
                   ELSE image.at = "inject" /\ stops = <<"inject">>
    /\ stage \in {"read", "value", "target"} \/ (stage = "observe" /\ ~ToObserve) =>
         image.at = "inject"
    /\ ToObserve => IF running THEN image.at = "inject"
                    ELSE image.at = "observe" /\ stops = <<"observe">>
    /\ stage = "row" => image.at = "observe"

(* The image has taken the fault of this iteration, of which there is no   *)
(* row yet.                                                                *)
Struck == stage = "row" \/ (ToObserve /\ ~running /\ ~strayed)

Aimed == {"value", "target", "observe", "await observe", "row"}

(* The two words hold the fault of this iteration as far as it was written.*)
FaultAgrees ==
  /\ stage \in Aimed => chosen = Choice(image.iteration)
  /\ image.at \in {"boot", "observe"} => image.fault.target = 0
  /\ image.at = "inject" /\ image.fault.target # 0 =>
       /\ image.fault.target = Choice(image.iteration).target
       /\ image.fault.value = Choice(image.iteration).value
  /\ ToInject \/ stage \in {"read", "value"} \/ (stage = "target" /\ ~Answering("target")) =>
       image.fault.target = 0
  /\ Answering("value") \/ stage = "target" => image.fault.value = chosen.value
  /\ (Answering("target") \/ stage \in {"observe", "await observe"}) /\ ~Struck /\ ~strayed =>
       image.fault.target = chosen.target /\ image.fault.value = chosen.value

(* The faults that were applied, in order. *)
AppliedAgrees ==
  /\ \A i \in 1 .. Len(applied) :
       /\ applied[i].iteration = applied[1].iteration + i - 1
       /\ applied[i].fault.target # 0 =>
            /\ applied[i].fault.target = Choice(applied[i].iteration).target
            /\ applied[i].fault.value = Choice(applied[i].iteration).value
  /\ Len(counted) = Len(applied)
  /\ image.at = "boot" => applied = <<>>
  /\ applied # <<>> =>
       /\ image.at = "observe" => applied[Len(applied)].iteration = image.iteration
       /\ image.at = "inject" => applied[Len(applied)].iteration + 1 = image.iteration
  /\ stage \notin Ending => Len(applied) = Len(rows) + IF Struck THEN 1 ELSE 0
  /\ Len(rows) <= Len(applied)

One(verdict, i) == IF counted[i] = verdict THEN 1 ELSE 0

Passes(i) == IF i = 0 THEN leftover.passes ELSE rows[i].passes

Failed(i) == IF i = 0 THEN leftover.failures ELSE rows[i].failures

(* A row tells the fault that was applied and the counters after it. *)
RowAgrees(i) ==
  /\ rows[i].remote = remote
  /\ rows[i].iteration = applied[i].iteration
  /\ rows[i].fault_target = applied[i].fault.target
  /\ rows[i].fault_target = Choice(rows[i].iteration).target
  /\ rows[i].fault_target # 0 => rows[i].fault_value = applied[i].fault.value
  /\ rows[i].passes = Passes(i - 1) + One("pass", i)
  /\ rows[i].failures = Failed(i - 1) + One("fail", i)
  /\ \A j \in 1 .. i : counted[j] = "fail" => rows[i].failures > 0
  /\ leftover.failures <= rows[i].failures

(* The image's counters are those of the last row, and one more when a     *)
(* fault waits to be told.                                                 *)
CountersAgree ==
  LET n == Len(rows)
  IN  /\ image.passes = Passes(n) + IF Struck THEN One("pass", n + 1) ELSE 0
      /\ image.failures = Failed(n) + IF Struck THEN One("fail", n + 1) ELSE 0

(* The fault that waits to be told is the one chosen. *)
LastAgrees ==
  Struck =>
    LET latest == applied[Len(applied)].fault
    IN  /\ image.at = "observe" /\ image.lastTarget = latest.target
        /\ latest.target = chosen.target /\ latest.value = chosen.value

RowsAgree ==
  /\ \A i \in 1 .. Len(rows) : RowAgrees(i)
  /\ stage \notin Ending => CountersAgree /\ LastAgrees

LeftoverTypes ==
  leftover.iteration \in Nat /\ leftover.passes \in Nat /\ leftover.failures \in Nat

InStep == PlaceAgrees /\ FaultAgrees /\ AppliedAgrees /\ RowsAgree

(* An image that was left between inject and observe: it gets to observe   *)
(* when the engine awaits inject, and what it applies is what the earlier  *)
(* session wrote, or nothing.                                              *)
OutOfStep ==
  /\ rows = <<>>
  /\ stage \in Early \cup {"next", "inject", "await inject"} \cup Ending
  /\ command.op \notin {"value", "target"}
  /\ ~strayed /\ stage \notin Ending =>
       IF ToInject /\ ~running THEN image.at = "observe" /\ stops = <<"observe">>
       ELSE image.at = "inject"
  /\ image.at \in {"boot", "observe"} => image.fault.target = 0
  /\ image.at = "inject" => image.iteration = leftover.iteration \/ image.fault.target = 0
  /\ \A i \in 1 .. Len(applied) :
       applied[i].iteration = leftover.iteration \/ applied[i].fault.target = 0

E2EInv ==
  /\ PictureTypes /\ LeftoverTypes /\ ProcessHandled /\ EndAgrees /\ CommandAgrees
  /\ RunningAgrees
  /\ IF Behind THEN OutOfStep ELSE InStep

-----------------------------------------------------------------------------
(* The steps, as the picture of the image sees them *)

(* What the parts about the image speak of. *)
picture == <<command, reply, stops, imageVars, stage, waiting, chosen, rows, unhalted>>

Rests == UNCHANGED picture

Quits ==
  /\ stage' \in Ending /\ waiting' = FALSE
  /\ stops' = stops \/ (stops # <<>> /\ stops' = Tail(stops))
  /\ UNCHANGED <<command, reply, imageVars, chosen, rows, unhalted>>

Goes(s, t) ==
  /\ stage = s /\ stage' = t /\ waiting' = FALSE
  /\ UNCHANGED <<command, reply, stops, imageVars, chosen, rows, unhalted>>

Answer == waiting /\ reply = "ok"

SetsOut ==
  \/ Goes("start", "port") \/ Goes("port", "gdb") \/ Goes("gdb", "setup")
  \/ Answer /\ (Goes("setup", "connect") \/ Goes("connect", "breakpoints")
                  \/ Goes("breakpoints", "next"))

Begins == Goes("next", "inject")

Awaits ==
  Answer /\ (Goes("inject", "await inject") \/ Goes("observe", "await observe"))

Wrote == Answer /\ (Goes("value", "target") \/ Goes("target", "observe"))

Asks ==
  /\ stage \in {"setup", "connect", "breakpoints", "read", "row"}
  /\ ~waiting /\ waiting' = TRUE
  /\ command' = Operation(OperationAt(stage)) /\ reply' = "none"
  /\ UNCHANGED <<stops, imageVars, stage, chosen, rows, unhalted>>

AsksWord ==
  /\ stage \in {"value", "target"}
  /\ ~waiting /\ waiting' = TRUE
  /\ command' = [op |-> stage, value |-> chosen[stage]] /\ reply' = "none"
  /\ UNCHANGED <<stops, imageVars, stage, chosen, rows, unhalted>>

Continues ==
  /\ stage \in {"inject", "observe"}
  /\ ~waiting /\ waiting' = TRUE
  /\ command' = Operation("continue") /\ reply' = "none" /\ stops' = <<>>
  /\ UNCHANGED <<imageVars, stage, chosen, rows, unhalted>>

Arrives(s, stop, t) ==
  /\ stage = s /\ stops # <<>> /\ Head(stops) = stop
  /\ stage' = t /\ waiting' = FALSE /\ stops' = Tail(stops)
  /\ UNCHANGED <<command, reply, imageVars, chosen, rows, unhalted>>

Chooses ==
  /\ stage = "read" /\ Answer
  /\ chosen' = Choice(image.iteration) /\ stage' = "value" /\ waiting' = FALSE
  /\ UNCHANGED <<command, reply, stops, imageVars, rows, unhalted>>

NewRow ==
  [iteration |-> image.iteration, fault_target |-> image.lastTarget,
   fault_value |-> chosen.value, passes |-> image.passes,
   failures |-> image.failures, remote |-> remote]

Reports ==
  /\ stage = "row" /\ Answer
  /\ rows' = Append(rows, NewRow) /\ stage' = "next" /\ waiting' = FALSE
  /\ UNCHANGED <<command, reply, stops, imageVars, chosen, unhalted>>

(* gdb and the image, which the engine's own state does not see. *)
Host == UNCHANGED <<stage, waiting, chosen, rows>>

Answers ==
  /\ command.op # "none" /\ command' = Nothing /\ reply' \in {"ok", "error"}
  /\ reply' = "ok" => command.op \notin {"continue", "value", "target"}
  /\ stops' = stops \/ (command.op = "connect" /\ stops' = Notified("halted"))
  /\ remote' = remote \/ (command.op = "connect" /\ remote' \in Remotes)
  /\ UNCHANGED <<image, running, applied, counted, strayed>>

GdbMoves == (Answers \/ Resume \/ WriteWord) /\ Watch /\ Host

ImageMoves == (ReachInject \/ ReachObserve \/ Stray) /\ UNCHANGED unhalted /\ Host

Moves ==
  \/ Rests \/ Quits \/ SetsOut \/ Begins \/ Awaits \/ Wrote
  \/ Asks \/ AsksWord \/ Continues
  \/ Arrives("await inject", "inject", "read") \/ Arrives("await observe", "observe", "row")
  \/ Chooses \/ Reports
  \/ GdbMoves \/ ImageMoves

LEMMA SimpleMoves ==
  ASSUME NEW s \in Commanding, NEW operation, NEW t, Simple(s, operation, t)
  PROVE  \/ /\ stage = s /\ ~waiting /\ waiting' = TRUE
            /\ command' = operation /\ reply' = "none"
            /\ UNCHANGED <<stops, imageVars, stage, chosen, rows, unhalted>>
         \/ Answer /\ Goes(s, t)
         \/ Quits
<1>1. CASE SendAt(s, operation)
  BY <1>1 DEF SendAt, Send
<1>2. CASE AnsweredAt(s) /\ Proceed(t)
  BY <1>2 DEF AnsweredAt, Answered, Proceed, Answer, Goes, gdbVars, clientVars
<1>3. CASE FailedAt(s)
  BY <1>3 DEF FailedAt, Refused, TimedOut, End, Quits, Ending, gdbVars, clientVars
<1> QED
  BY <1>1, <1>2, <1>3, Zenon DEF Simple

LEMMA ContinueMoves ==
  ASSUME NEW s \in {"inject", "observe"}, NEW wait, NEW t,
         ContinueUntil(s, wait, s, t)
  PROVE  \/ Continues
         \/ Answer /\ Goes(s, wait)
         \/ Arrives(wait, s, t)
         \/ Quits
<1>1. CASE /\ stage = s /\ ~waiting /\ Continue /\ waiting' = TRUE
           /\ UNCHANGED <<leftover, listening, stage, chosen, rows, err, cancelled, unhalted, processVars>>
  BY <1>1 DEF Continue, Continues
<1>2. CASE AnsweredAt(s) /\ Proceed(wait)
  BY <1>2 DEF AnsweredAt, Answered, Proceed, Answer, Goes, gdbVars, clientVars
<1>3. CASE FailedAt(s)
  BY <1>3 DEF FailedAt, Refused, TimedOut, End, Quits, Ending, gdbVars, clientVars
<1>4. CASE /\ stage = wait /\ TakeStop
           /\ IF Head(stops) = s THEN Proceed(t) ELSE End("wrong stop", "close")
           /\ UNCHANGED processVars
  BY <1>4 DEF TakeStop, Proceed, End, Arrives, Quits, Ending
<1>5. CASE /\ stage = wait /\ End("failed", "close")
           /\ UNCHANGED <<processVars, gdbVars>>
  BY <1>5 DEF End, Quits, Ending, gdbVars, clientVars
<1> QED
  BY <1>1, <1>2, <1>3, <1>4, <1>5, Zenon DEF ContinueUntil

(* Every step of the engine is one of these. *)
LEMMA EngineMoves ==
  ASSUME Engine PROVE Moves
<1>1. CASE StartQemu
  BY <1>1 DEF StartQemu, Start, Proceed, End, Moves, SetsOut, Goes, Quits, Ending, gdbVars, clientVars
<1>2. CASE WaitForGdbPort
  BY <1>2 DEF WaitForGdbPort, Proceed, End, Moves, SetsOut, Goes, Quits, Ending, gdbVars, clientVars
<1>3. CASE NewClient
  BY <1>3 DEF NewClient, StartGdb, Proceed, End, Moves, SetsOut, Goes, Quits, Ending, gdbVars, clientVars
<1>4. CASE SetUp
  <2>1. CASE Simple("setup", Operation("setup"), "connect")
    <3>1. "setup" \in Commanding
      BY DEF Commanding
    <3>2. OperationAt("setup") = "setup"
      BY DEF OperationAt
    <3> QED
      BY <2>1, <3>1, <3>2, SimpleMoves DEF Moves, SetsOut, Asks
  <2>2. CASE Simple("connect", Operation("connect"), "breakpoints")
    <3>1. "connect" \in Commanding
      BY DEF Commanding
    <3>2. OperationAt("connect") = "connect"
      BY DEF OperationAt
    <3> QED
      BY <2>2, <3>1, <3>2, SimpleMoves DEF Moves, SetsOut, Asks
  <2>3. CASE Simple("breakpoints", Operation("insert"), "next")
    <3>1. "breakpoints" \in Commanding
      BY DEF Commanding
    <3>2. OperationAt("breakpoints") = "insert"
      BY DEF OperationAt
    <3> QED
      BY <2>3, <3>1, <3>2, SimpleMoves DEF Moves, SetsOut, Asks
  <2> QED
    BY <1>4, <2>1, <2>2, <2>3, Zenon DEF SetUp
<1>5. CASE NextIteration
  BY <1>5 DEF NextIteration, Proceed, End, Moves, Begins, Goes, Quits, Ending, gdbVars, clientVars
<1>6. CASE Iteration
  <2>1. CASE ContinueUntil("inject", "await inject", "inject", "read")
    BY <2>1, ContinueMoves DEF Moves, Awaits
  <2>2. CASE ReadIteration
    <3>1. CASE SendAt("read", Operation("read"))
      BY <3>1 DEF SendAt, Send, Moves, Asks, OperationAt
    <3>2. CASE FailedAt("read")
      BY <3>2 DEF FailedAt, Refused, TimedOut, End, Moves, Quits, Ending, gdbVars, clientVars
    <3>3. CASE /\ AnsweredAt("read")
               /\ chosen' = Choice(image.iteration) /\ stage' = "value" /\ waiting' = FALSE
               /\ UNCHANGED <<leftover, listening, rows, err, cancelled, unhalted>>
      BY <3>3 DEF AnsweredAt, Answered, Moves, Chooses, Answer, gdbVars, clientVars
    <3> QED
      BY <2>2, <3>1, <3>2, <3>3, Zenon DEF ReadIteration
  <2>3. CASE WriteFault
    <3>1. CASE Simple("value", [op |-> "value", value |-> chosen.value], "target")
      <4>1. "value" \in Commanding
        BY DEF Commanding
      <4> QED
        BY <3>1, <4>1, SimpleMoves DEF Moves, Wrote, AsksWord
    <3>2. CASE Simple("target", [op |-> "target", value |-> chosen.target], "observe")
      <4>1. "target" \in Commanding
        BY DEF Commanding
      <4> QED
        BY <3>2, <4>1, SimpleMoves DEF Moves, Wrote, AsksWord
    <3> QED
      BY <2>3, <3>1, <3>2, Zenon DEF WriteFault
  <2>4. CASE ContinueUntil("observe", "await observe", "observe", "row")
    BY <2>4, ContinueMoves DEF Moves, Awaits
  <2>5. CASE ReadRow
    <3>1. CASE SendAt("row", Operation("row"))
      BY <3>1 DEF SendAt, Send, Moves, Asks, OperationAt
    <3>2. CASE FailedAt("row")
      BY <3>2 DEF FailedAt, Refused, TimedOut, End, Moves, Quits, Ending, gdbVars, clientVars
    <3>3. CASE /\ AnsweredAt("row")
               /\ rows' = Append(rows, NewRow)
               /\ stage' = "next" /\ waiting' = FALSE
               /\ UNCHANGED <<leftover, listening, chosen, err, cancelled, unhalted>>
      BY <3>3 DEF AnsweredAt, Answered, Moves, Reports, Answer, gdbVars, clientVars
    <3> QED
      BY <2>5, <3>1, <3>2, <3>3, Zenon DEF ReadRow, NewRow
  <2> QED
    BY <1>6, <2>1, <2>2, <2>3, <2>4, <2>5, Zenon DEF Iteration
<1>7. CASE CloseClient
  BY <1>7 DEF CloseClient, Close, Proceed, Moves, Quits, Ending
<1>8. CASE TerminateProcess
  BY <1>8 DEF TerminateProcess, Proceed, Moves, Quits, Ending, Rests, picture, gdbVars,
              clientVars, engineVars
<1> QED
  BY <1>1, <1>2, <1>3, <1>4, <1>5, <1>6, <1>7, <1>8, Zenon DEF Engine

LEMMA StepsAreMoves ==
  ASSUME Next, command.op = "none" => command = Nothing PROVE Moves
<1>1. CASE Engine
  BY <1>1, EngineMoves
<1>2. CASE UserCancels
  BY <1>2 DEF UserCancels, Moves, Rests, picture, gdbVars, clientVars
<1>3. CASE OpenPort
  BY <1>3 DEF OpenPort, Moves, Rests, picture, gdbVars, clientVars
<1>4. CASE ChildStep
  BY <1>4 DEF ChildStep, Moves, Rests, picture, gdbVars, clientVars, engineVars
<1>5. CASE GdbStep
  <2>1. Host /\ Watch
    BY <1>5 DEF GdbStep, Host
  <2>2. CASE OnSymbols
    BY <2>1, <2>2 DEF OnSymbols, Done, Moves, GdbMoves, Answers, imageVars
  <2>3. CASE Connect("child") \/ Connect("leftover")
    BY <2>1, <2>3 DEF Connect, Done, Moves, GdbMoves, Answers, Remotes
  <2>4. CASE Resume \/ WriteWord
    BY <2>1, <2>4 DEF Moves, GdbMoves
  <2>5. CASE Access
    BY <2>1, <2>5 DEF Access, Done, Moves, GdbMoves, Answers, imageVars
  <2>6. CASE Fail
    <3>1. command.op # "none"
      BY <2>6 DEF Fail
    <3> QED
      BY <2>1, <2>6, <3>1 DEF Fail, Done, Moves, GdbMoves, Answers, imageVars
  <2> QED
    BY <1>5, <2>2, <2>3, <2>4, <2>5, <2>6, Zenon DEF GdbStep
<1>6. CASE ImageStep
  BY <1>6 DEF ImageStep, Moves, ImageMoves, Host, engineVars
<1> QED
  BY <1>1, <1>2, <1>3, <1>4, <1>5, <1>6, Zenon DEF Next

-----------------------------------------------------------------------------
(* The types *)

LEMMA StopsKept ==
  ASSUME NEW s \in Seq(Stops), Len(s) <= StopCapacity
  PROVE  /\ \A stop \in Stops :
              LET t == IF Len(s) < StopCapacity THEN Append(s, stop) ELSE s
              IN  t \in Seq(Stops) /\ Len(t) <= StopCapacity
         /\ s # <<>> => Tail(s) \in Seq(Stops) /\ Len(Tail(s)) <= StopCapacity
<1> PICK n \in Nat : n = Len(s)
  BY LenProperties
<1>1. StopCapacity \in Nat
  BY E2EAssumption
<1>2. ASSUME NEW stop \in Stops, Len(s) < StopCapacity
      PROVE  Append(s, stop) \in Seq(Stops) /\ Len(Append(s, stop)) <= StopCapacity
  BY <1>1, <1>2, AppendProperties
<1>3. s # <<>> => Tail(s) \in Seq(Stops) /\ Len(Tail(s)) <= StopCapacity
  <2> SUFFICES ASSUME s # <<>> PROVE Tail(s) \in Seq(Stops) /\ Len(Tail(s)) <= StopCapacity
    OBVIOUS
  <2>1. Tail(s) \in Seq(Stops) /\ Len(Tail(s)) = Len(s) - 1
    BY HeadTailProperties
  <2> QED
    BY <1>1, <2>1
<1> QED
  BY <1>2, <1>3

LEMMA WordsChosen ==
  /\ 0 \in Words /\ NoFault \in FaultType
  /\ \A i \in Nat : Choice(i).target \in Words /\ Choice(i).value \in Words
  BY DEF Words, FaultType, NoFault

LEMMA TypesKept ==
  ASSUME PictureTypes, Moves PROVE PictureTypes'
<1>w. 0 \in Words
  BY WordsChosen
<1>1. CASE Rests
  BY <1>1 DEF Rests, picture, imageVars, PictureTypes
<1>2. CASE Quits
  BY <1>2, StopsKept DEF Quits, Ending, imageVars, PictureTypes, Stages
<1>3. CASE SetsOut \/ Begins \/ Awaits \/ Wrote
  <2>1. stage' \in Stages /\ waiting' = FALSE
    BY <1>3 DEF SetsOut, Begins, Awaits, Wrote, Goes, Stages, Early, Loop
  <2>2. UNCHANGED <<command, reply, stops, imageVars, chosen, rows, unhalted>>
    BY <1>3 DEF SetsOut, Begins, Awaits, Wrote, Goes
  <2> QED
    BY <2>1, <2>2 DEF imageVars, PictureTypes
<1>4. CASE Asks
  <2>1. /\ Operation(OperationAt(stage)) \in [op : Names, value : Words]
        /\ Operation(OperationAt(stage)).op # "none"
    BY <1>4, <1>w DEF Asks, Operation, OperationAt, Names
  <2> QED
    BY <1>4, <2>1 DEF Asks, imageVars, PictureTypes
<1>5. CASE AsksWord
  <2>1. [op |-> stage, value |-> chosen[stage]] \in [op : Names, value : Words]
    BY <1>5 DEF AsksWord, Names, PictureTypes
  <2>2. stage # "none"
    BY <1>5 DEF AsksWord
  <2> QED
    BY <1>5, <2>1, <2>2 DEF AsksWord, imageVars, PictureTypes
<1>6. CASE Continues
  <2>1. /\ Operation("continue") \in [op : Names, value : Words]
        /\ Operation("continue").op # "none"
    BY <1>w DEF Operation, Names
  <2>2. <<>> \in Seq(Stops) /\ Len(<<>>) <= StopCapacity
    BY EmptySeq, E2EAssumption
  <2> QED
    BY <1>6, <2>1, <2>2 DEF Continues, imageVars, PictureTypes
<1>7. CASE \/ Arrives("await inject", "inject", "read")
           \/ Arrives("await observe", "observe", "row")
  <2>1. stage' \in Stages /\ waiting' = FALSE /\ stops # <<>> /\ stops' = Tail(stops)
    BY <1>7 DEF Arrives, Stages, Loop
  <2>2. UNCHANGED <<command, reply, imageVars, chosen, rows, unhalted>>
    BY <1>7 DEF Arrives
  <2>3. stops' \in Seq(Stops) /\ Len(stops') <= StopCapacity
    BY <2>1, StopsKept DEF PictureTypes
  <2> QED
    BY <2>1, <2>2, <2>3 DEF imageVars, PictureTypes
<1>8. CASE Chooses
  <2>1. image.iteration \in Nat
    BY DEF PictureTypes, ImageType
  <2>2. chosen'.target \in Words /\ chosen'.value \in Words
    BY <1>8, <2>1, WordsChosen DEF Chooses
  <2>3. stage' \in Stages
    BY <1>8 DEF Chooses, Stages, Loop
  <2> QED
    BY <1>8, <2>2, <2>3 DEF Chooses, imageVars, PictureTypes
<1>9. CASE Reports
  <2>1. NewRow \in RowType
    BY DEF NewRow, RowType, PictureTypes, ImageType
  <2>2. rows' \in Seq(RowType)
    BY <1>9, <2>1, AppendProperties DEF Reports, PictureTypes
  <2>3. stage' \in Stages
    BY <1>9 DEF Reports, Stages
  <2> QED
    BY <1>9, <2>2, <2>3 DEF Reports, imageVars, PictureTypes
<1>10. CASE GdbMoves
  <2>1. UNCHANGED <<stage, waiting, chosen, rows>> /\ unhalted' \in BOOLEAN
    BY <1>10 DEF GdbMoves, Host, Watch, PictureTypes
  <2>n. Nothing \in [op : Names, value : Words]
    BY <1>w DEF Nothing, Operation, Names
  <2>2. CASE Answers
    <3>1. stops' \in Seq(Stops) /\ Len(stops') <= StopCapacity
      BY <2>2, StopsKept DEF Answers, Notified, Stops, PictureTypes
    <3>2. remote' \in Remotes
      BY <2>2 DEF Answers, PictureTypes
    <3> QED
      BY <2>1, <2>2, <2>n, <3>1, <3>2 DEF Answers, PictureTypes
  <2>3. CASE Resume
    BY <2>1, <2>3, <2>n DEF Resume, Done, PictureTypes
  <2>4. CASE WriteWord
    <3>1. image' \in ImageType
      BY <2>4 DEF WriteWord, PictureTypes, ImageType, FaultType
    <3> QED
      BY <2>1, <2>4, <2>n, <3>1 DEF WriteWord, Done, PictureTypes
  <2> QED
    BY <1>10, <2>2, <2>3, <2>4 DEF GdbMoves
<1>11. CASE ImageMoves
  <2>1. UNCHANGED <<stage, waiting, chosen, rows, unhalted>>
    BY <1>11 DEF ImageMoves, Host
  <2>s. \A stop \in Stops : Notified(stop) \in Seq(Stops) /\ Len(Notified(stop)) <= StopCapacity
    BY StopsKept DEF Notified, PictureTypes
  <2>2. CASE ReachInject
    <3>0. image.iteration + 1 \in Nat /\ image \in ImageType
      BY DEF PictureTypes, ImageType
    <3>n. ASSUME NEW n \in Nat
          PROVE  [image EXCEPT !.at = "inject", !.iteration = n, !.lastTarget = 0] \in ImageType
      BY <3>0, <1>w DEF ImageType
    <3>1. image' \in ImageType
      <4>1. image' = [image EXCEPT !.at = "inject", !.iteration = image.iteration + 1, !.lastTarget = 0]
        BY <2>2 DEF ReachInject
      <4> QED
        BY <3>0, <3>n, <4>1, Zenon
    <3>2. stops' \in Seq(Stops) /\ Len(stops') <= StopCapacity
      BY <2>2, <2>s DEF ReachInject, Stopped, Stops
    <3> QED
      BY <2>1, <2>2, <3>1, <3>2 DEF ReachInject, Stopped, PictureTypes
  <2>3. CASE ReachObserve
    <3>1. PICK verdict \in {"pass", "fail"} :
            /\ counted' = Append(counted, verdict)
            /\ image' =
                 [image EXCEPT
                   !.at = "observe", !.lastTarget = image.fault.target, !.fault.target = 0,
                   !.passes = IF verdict = "pass" THEN @ + 1 ELSE @,
                   !.failures = IF verdict = "fail" THEN @ + 1 ELSE @]
      BY <2>3 DEF ReachObserve
    <3>0. image.passes + 1 \in Nat /\ image.failures + 1 \in Nat /\ image \in ImageType
      BY DEF PictureTypes, ImageType
    <3>n. ASSUME NEW p \in Nat, NEW q \in Nat
          PROVE  [image EXCEPT !.at = "observe", !.lastTarget = image.fault.target,
                    !.fault.target = 0, !.passes = p, !.failures = q] \in ImageType
      BY <3>0, <1>w DEF ImageType, FaultType
    <3>2. image' \in ImageType
      <4> DEFINE p == IF verdict = "pass" THEN image.passes + 1 ELSE image.passes
                 q == IF verdict = "fail" THEN image.failures + 1 ELSE image.failures
      <4>1. p \in Nat /\ q \in Nat
        BY <3>0 DEF ImageType
      <4>2. image' = [image EXCEPT !.at = "observe", !.lastTarget = image.fault.target,
                        !.fault.target = 0, !.passes = p, !.failures = q]
        BY <3>1
      <4> QED
        BY <3>n, <4>1, <4>2
    <3>3. counted' \in Seq({"pass", "fail"})
      BY <3>1, AppendProperties DEF PictureTypes
    <3>4. [iteration |-> image.iteration, fault |-> image.fault]
            \in [iteration : Nat, fault : FaultType]
      BY DEF PictureTypes, ImageType
    <3>5. applied' \in Seq([iteration : Nat, fault : FaultType])
      BY <2>3, <3>4, AppendProperties DEF ReachObserve, PictureTypes
    <3>6. stops' \in Seq(Stops) /\ Len(stops') <= StopCapacity
      BY <2>3, <2>s DEF ReachObserve, Stopped, Stops
    <3> QED
      BY <2>1, <2>3, <3>2, <3>3, <3>5, <3>6 DEF ReachObserve, Stopped, PictureTypes
  <2>4. CASE Stray
    <3>1. image' \in ImageType
      BY <2>4 DEF Stray, PictureTypes, ImageType
    <3>2. stops' \in Seq(Stops) /\ Len(stops') <= StopCapacity
      BY <2>4, <2>s DEF Stray, Stopped, Stops, PictureTypes
    <3> QED
      BY <2>1, <2>4, <3>1, <3>2 DEF Stray, Stopped, PictureTypes
  <2> QED
    BY <1>11, <2>2, <2>3, <2>4 DEF ImageMoves
<1> QED
  BY <1>1, <1>2, <1>3, <1>4, <1>5, <1>6, <1>7, <1>8, <1>9, <1>10, <1>11, Zenon DEF Moves

-----------------------------------------------------------------------------
(* What the image's own steps leave in its words *)

LEMMA FirstStop ==
  ASSUME stops = <<>>, NEW stop PROVE Notified(stop) = <<stop>>
<1>1. Len(<<>>) < StopCapacity
  BY E2EAssumption
<1>2. Append(<<>>, stop) = <<stop>>
  OBVIOUS
<1> QED
  BY <1>1, <1>2 DEF Notified

LEMMA InjectReached ==
  ASSUME PictureTypes, ReachInject
  PROVE  /\ image'.at = "inject" /\ image'.iteration = image.iteration + 1
         /\ image'.fault = image.fault
         /\ image'.passes = image.passes /\ image'.failures = image.failures
<1>1. image \in ImageType
  BY DEF PictureTypes
<1>2. PICK n \in Nat : n = image.iteration + 1
  BY <1>1 DEF ImageType
<1>3. image' = [image EXCEPT !.at = "inject", !.iteration = n, !.lastTarget = 0]
  BY <1>2 DEF ReachInject
<1> QED
  BY <1>1, <1>2, <1>3 DEF ImageType

LEMMA ObserveReached ==
  ASSUME PictureTypes, ReachObserve
  PROVE  /\ image'.at = "observe" /\ image'.iteration = image.iteration
         /\ image'.lastTarget = image.fault.target /\ image'.fault.target = 0
         /\ \E verdict \in {"pass", "fail"} :
              /\ counted' = Append(counted, verdict)
              /\ image'.passes = image.passes + IF verdict = "pass" THEN 1 ELSE 0
              /\ image'.failures = image.failures + IF verdict = "fail" THEN 1 ELSE 0
<1>1. image \in ImageType
  BY DEF PictureTypes
<1>2. PICK verdict \in {"pass", "fail"} :
        /\ counted' = Append(counted, verdict)
        /\ image' =
             [image EXCEPT
               !.at = "observe", !.lastTarget = image.fault.target, !.fault.target = 0,
               !.passes = IF verdict = "pass" THEN @ + 1 ELSE @,
               !.failures = IF verdict = "fail" THEN @ + 1 ELSE @]
  BY DEF ReachObserve
<1>3. PICK p \in Nat, q \in Nat :
        /\ p = IF verdict = "pass" THEN image.passes + 1 ELSE image.passes
        /\ q = IF verdict = "fail" THEN image.failures + 1 ELSE image.failures
  BY <1>1 DEF ImageType
<1>4. image' = [image EXCEPT !.at = "observe", !.lastTarget = image.fault.target,
                  !.fault.target = 0, !.passes = p, !.failures = q]
  BY <1>2, <1>3
<1>5. /\ image'.at = "observe" /\ image'.iteration = image.iteration
      /\ image'.lastTarget = image.fault.target /\ image'.fault.target = 0
      /\ image'.passes = p /\ image'.failures = q
  BY <1>1, <1>4 DEF ImageType, FaultType
<1>6. /\ p = image.passes + IF verdict = "pass" THEN 1 ELSE 0
      /\ q = image.failures + IF verdict = "fail" THEN 1 ELSE 0
  BY <1>1, <1>3 DEF ImageType
<1> QED
  BY <1>2, <1>5, <1>6

LEMMA WentAstray ==
  ASSUME PictureTypes, Stray
  PROVE  /\ image'.at = "lost" /\ image'.iteration = image.iteration
         /\ image'.fault = image.fault /\ image'.lastTarget = image.lastTarget
         /\ image'.passes = image.passes /\ image'.failures = image.failures
  BY DEF PictureTypes, ImageType, Stray

LEMMA WordWritten ==
  ASSUME PictureTypes, WriteWord
  PROVE  /\ image'.at = image.at /\ image'.iteration = image.iteration
         /\ image'.lastTarget = image.lastTarget
         /\ image'.passes = image.passes /\ image'.failures = image.failures
         /\ command.op = "value" =>
              image'.fault.value = command.value /\ image'.fault.target = image.fault.target
         /\ command.op = "target" =>
              image'.fault.target = command.value /\ image'.fault.value = image.fault.value
  BY DEF PictureTypes, ImageType, FaultType, WriteWord

-----------------------------------------------------------------------------
(* Commands and stops *)

(* Nothing runs while gdb is at a command, and the engine does not look    *)
(* away from one before it gives up.                                       *)
LEMMA CommandKept ==
  ASSUME PictureTypes, CommandAgrees, RunningAgrees, EndAgrees,
         IF Behind THEN OutOfStep ELSE PlaceAgrees /\ FaultAgrees,
         Moves
  PROVE  CommandAgrees'
<1>1. CASE Rests
  BY <1>1 DEF Rests, picture, imageVars, CommandAgrees
<1>2. CASE Quits
  <2>1. stops = <<>> => stops' = <<>>
    BY <1>2 DEF Quits
  <2> QED
    BY <1>2, <2>1 DEF Quits, Ending, imageVars, CommandAgrees
<1>3. CASE SetsOut \/ Begins \/ Awaits \/ Wrote
  <2>1. UNCHANGED <<command, reply, stops, imageVars, chosen, rows>> /\ waiting' = FALSE
    BY <1>3 DEF SetsOut, Begins, Awaits, Wrote, Goes
  <2>2. stage \notin Ending
    BY <1>3 DEF SetsOut, Begins, Awaits, Wrote, Goes, Ending
  <2>3. ~waiting \/ reply = "ok"
    BY <1>3 DEF SetsOut, Begins, Awaits, Wrote, Goes, Answer, CommandAgrees, Commanding
  <2>4. command.op = "none"
    BY <2>2, <2>3 DEF CommandAgrees
  <2> QED
    BY <2>1, <2>4 DEF CommandAgrees
<1>4. CASE Asks
  <2>1. /\ command'.op = OperationAt(stage)
        /\ command'.op \notin {"continue", "value", "target"} /\ stage \in Commanding
    BY <1>4 DEF Asks, Operation, OperationAt, Commanding
  <2>2. command'.op = "connect" => rows' = <<>>
    BY <1>4, <2>1 DEF Asks, OperationAt, EndAgrees, Early
  <2>3. OperationAt(stage)' = OperationAt(stage)
    BY <1>4 DEF Asks, OperationAt
  <2> QED
    BY <1>4, <2>1, <2>2, <2>3 DEF Asks, CommandAgrees
<1>5. CASE AsksWord
  <2>1. /\ command'.op = stage /\ command'.value = chosen[stage]
        /\ stage \in {"value", "target"}
    BY <1>5 DEF AsksWord
  <2>2. OperationAt(stage)' = stage /\ stage' \in Commanding
    BY <1>5 DEF AsksWord, OperationAt, Commanding
  <2>3. ~strayed
    BY <2>1 DEF RunningAgrees, ToInject, ToObserve, Resumed, Answering, Ending
  <2>b. ~Behind
    BY <2>1 DEF OutOfStep, Early, Ending
  <2>4. image.at = "inject"
    BY <2>1, <2>3, <2>b DEF PlaceAgrees
  <2>5. /\ chosen = Choice(image.iteration)
        /\ stage = "value" => image.fault.target = 0
        /\ stage = "target" => image.fault.value = chosen.value
    BY <2>1, <2>b DEF FaultAgrees, Aimed
  <2>6. UNCHANGED <<image, chosen>> /\ reply' = "none" /\ waiting'
    BY <1>5 DEF AsksWord, imageVars
  <2> QED
    BY <2>1, <2>2, <2>4, <2>5, <2>6 DEF CommandAgrees
<1>6. CASE Continues
  <2>1. command'.op = "continue"
    BY <1>6 DEF Continues, Operation
  <2>2. OperationAt(stage)' = "continue" /\ stage' \in Commanding
    BY <1>6 DEF Continues, OperationAt, Commanding
  <2> QED
    BY <1>6, <2>1, <2>2 DEF Continues, CommandAgrees
<1>7. CASE \/ Arrives("await inject", "inject", "read")
           \/ Arrives("await observe", "observe", "row")
  <2>1. ~waiting /\ stage \notin Ending
    BY <1>7 DEF Arrives, CommandAgrees, Commanding, Ending
  <2>2. command.op = "none" /\ command' = command /\ waiting' = FALSE
    BY <1>7, <2>1 DEF Arrives, CommandAgrees
  <2> QED
    BY <2>2 DEF CommandAgrees
<1>8. CASE Chooses \/ Reports
  <2>1. waiting /\ reply = "ok" /\ stage \notin Ending /\ command' = command /\ waiting' = FALSE
    BY <1>8 DEF Chooses, Reports, Answer, Ending
  <2>2. command.op = "none"
    BY <2>1 DEF CommandAgrees
  <2> QED
    BY <2>1, <2>2 DEF CommandAgrees
<1>9. CASE GdbMoves
  <2>1. command'.op = "none"
    BY <1>9 DEF GdbMoves, Answers, Resume, WriteWord, Done, Nothing, Operation
  <2>2. waiting' = waiting /\ stage' = stage
    BY <1>9 DEF GdbMoves, Host
  <2> QED
    BY <2>1, <2>2 DEF CommandAgrees
<1>10. CASE ImageMoves
  <2>1. running
    BY <1>10 DEF ImageMoves, ReachInject, ReachObserve, Stray
  <2>2. command.op = "none"
    BY <2>1 DEF RunningAgrees
  <2>3. command' = command /\ waiting' = waiting /\ stage' = stage
    BY <1>10 DEF ImageMoves, ReachInject, ReachObserve, Stray, Host
  <2> QED
    BY <2>2, <2>3 DEF CommandAgrees
<1> QED
  BY <1>1, <1>2, <1>3, <1>4, <1>5, <1>6, <1>7, <1>8, <1>9, <1>10, Zenon DEF Moves

-----------------------------------------------------------------------------
(* Where the image stands *)

(* A command under way is one of this stage, and its reply is still out.   *)
LEMMA NothingUnderWay ==
  ASSUME CommandAgrees, stage \notin Ending, ~waiting \/ reply = "ok"
  PROVE  command.op = "none"
  BY DEF CommandAgrees

LEMMA RunningKept ==
  ASSUME PictureTypes, CommandAgrees, RunningAgrees, Moves
  PROVE  RunningAgrees'
<1> USE DEF ToInject, ToObserve, Resumed, Answering
<1>1. CASE Rests
  BY <1>1 DEF Rests, picture, imageVars, RunningAgrees
<1>2. CASE Quits
  <2>1. stops = <<>> => stops' = <<>>
    BY <1>2 DEF Quits
  <2>2. ~ToInject' /\ ~ToObserve'
    BY <1>2 DEF Quits, Ending
  <2> QED
    BY <1>2, <2>1, <2>2 DEF Quits, imageVars, RunningAgrees
<1>3. CASE SetsOut \/ Begins \/ Wrote
  <2>1. /\ stage \notin Ending \cup {"inject", "observe", "await inject", "await observe"}
        /\ UNCHANGED <<command, stops, imageVars, unhalted>>
    BY <1>3 DEF SetsOut, Begins, Wrote, Goes, Ending
  <2>2. ~running /\ ~strayed
    BY <2>1 DEF RunningAgrees
  <2> QED
    BY <2>1, <2>2 DEF imageVars, RunningAgrees
<1>4. CASE Awaits
  <2>1. /\ (ToInject => ToInject') /\ (ToObserve => ToObserve')
        /\ ToInject' \/ ToObserve' => ToInject \/ ToObserve
        /\ stage \notin Ending
        /\ UNCHANGED <<command, stops, imageVars, unhalted>>
    BY <1>4 DEF Awaits, Answer, Goes, Ending
  <2> QED
    BY <2>1 DEF imageVars, RunningAgrees
<1>5. CASE Asks \/ AsksWord \/ Continues
  <2>1. /\ ~waiting /\ stage' = stage /\ UNCHANGED <<imageVars, unhalted>>
        /\ stage \in {"setup", "connect", "breakpoints", "read", "row", "value", "target",
                      "inject", "observe"}
    BY <1>5 DEF Asks, AsksWord, Continues
  <2>2. ~running /\ ~strayed
    BY <2>1 DEF RunningAgrees, Ending
  <2> QED
    BY <2>1, <2>2 DEF imageVars, RunningAgrees
<1>6. CASE \/ Arrives("await inject", "inject", "read")
           \/ Arrives("await observe", "observe", "row")
  <2>1. /\ stops # <<>> /\ Head(stops) # "elsewhere"
        /\ stage \in {"await inject", "await observe"}
        /\ UNCHANGED <<imageVars, unhalted>>
    BY <1>6 DEF Arrives
  <2>2. ~running
    BY <2>1 DEF RunningAgrees
  <2>3. Head(<<"elsewhere">>) = "elsewhere"
    OBVIOUS
  <2>4. ~strayed
    BY <2>1, <2>3 DEF RunningAgrees
  <2> QED
    BY <2>1, <2>2, <2>4 DEF imageVars, RunningAgrees
<1>7. CASE Chooses \/ Reports
  <2>1. stage \in {"read", "row"} /\ UNCHANGED <<imageVars, unhalted>>
    BY <1>7 DEF Chooses, Reports
  <2>2. ~running /\ ~strayed
    BY <2>1 DEF RunningAgrees, Ending
  <2> QED
    BY <2>1, <2>2 DEF imageVars, RunningAgrees
<1>8. CASE GdbMoves
  <2>1. /\ command.op # "none" /\ command'.op = "none"
        /\ UNCHANGED <<stage, waiting, strayed>> /\ image'.at = image.at
    BY <1>8, WordWritten DEF GdbMoves, Host, Answers, Resume, WriteWord, Done, Nothing, Operation
  <2>2. ~running /\ reply = "none"
    BY <2>1 DEF RunningAgrees, CommandAgrees
  <2>3. ~unhalted'
    BY <1>8, <2>2 DEF GdbMoves, Watch, RunningAgrees
  <2>4. strayed => stage \in Ending
    BY <2>1, <2>2 DEF RunningAgrees, CommandAgrees, OperationAt, Ending
  <2>5. stage' \in Ending => ~ToInject' /\ ~ToObserve'
    BY DEF Ending
  <2>6. running' => stops' = <<>> /\ (ToInject' \/ ToObserve' \/ stage' \in Ending)
    <3> SUFFICES ASSUME running' PROVE stops' = <<>> /\ (ToInject' \/ ToObserve' \/ stage' \in Ending)
      OBVIOUS
    <3>1. Resume
      BY <1>8, <2>2 DEF GdbMoves, Answers, WriteWord
    <3>2. command.op = "continue" /\ reply' = "ok" /\ stops' = stops
      BY <3>1 DEF Resume, Done
    <3>3. stage \in Ending \/ (waiting /\ stage \in {"inject", "observe"})
      BY <3>2 DEF CommandAgrees, OperationAt
    <3> QED
      BY <2>1, <3>2, <3>3 DEF CommandAgrees
  <2> QED
    BY <2>1, <2>3, <2>4, <2>5, <2>6 DEF RunningAgrees
<1>9. CASE ImageMoves
  <2>1. /\ running /\ stops = <<>> /\ command.op = "none" /\ ~unhalted
        /\ ToInject \/ ToObserve \/ stage \in Ending
    BY <1>9 DEF ImageMoves, ReachInject, ReachObserve, Stray, RunningAgrees
  <2>2. UNCHANGED <<stage, waiting, reply, command, unhalted>>
    BY <1>9 DEF ImageMoves, Host, ReachInject, ReachObserve, Stray
  <2>3. CASE ReachInject \/ ReachObserve
    <3>1. ~strayed /\ strayed' = strayed /\ ~running' /\ image'.at # "lost"
      BY <2>3, InjectReached, ObserveReached DEF ReachInject, ReachObserve, Stopped, RunningAgrees
    <3> QED
      BY <2>1, <2>2, <3>1 DEF RunningAgrees
  <2>4. CASE Stray
    <3>1. strayed' /\ image'.at = "lost"
      BY <2>4, WentAstray DEF Stray
    <3>2. \/ running' = running /\ stops' = <<>>
          \/ ~running' /\ stops' = <<"elsewhere">>
      BY <2>1, <2>4, FirstStop DEF Stray, Stopped
    <3> QED
      BY <2>1, <2>2, <3>1, <3>2 DEF RunningAgrees
  <2> QED
    BY <1>9, <2>3, <2>4 DEF ImageMoves
<1> QED
  BY <1>1, <1>2, <1>3, <1>4, <1>5, <1>6, <1>7, <1>8, <1>9, Zenon DEF Moves

LEMMA PlaceKept ==
  ASSUME PictureTypes, CommandAgrees, RunningAgrees, PlaceAgrees, Moves
  PROVE  PlaceAgrees'
<1> USE DEF ToInject, ToObserve, Resumed, Answering
<1>1. CASE Rests
  BY <1>1 DEF Rests, picture, imageVars, PlaceAgrees
<1>2. CASE Quits
  BY <1>2 DEF Quits, Ending, Early, PlaceAgrees
<1>3. CASE SetsOut
  BY <1>3 DEF SetsOut, Goes, Early, imageVars, PlaceAgrees
<1>4. CASE Begins
  BY <1>4 DEF Begins, Goes, Early, imageVars, PlaceAgrees
<1>5. CASE Awaits
  <2>1. /\ (ToInject <=> ToInject') /\ (ToObserve <=> ToObserve')
        /\ ToInject \/ ToObserve
        /\ stage' \in {"await inject", "await observe"}
        /\ UNCHANGED <<stops, imageVars>>
    BY <1>5 DEF Awaits, Answer, Goes
  <2> QED
    BY <2>1 DEF Early, imageVars, PlaceAgrees
<1>6. CASE Wrote
  <2>1. /\ stage \in {"value", "target"} /\ stage' \in {"target", "observe"}
        /\ ~ToInject' /\ ~ToObserve'
        /\ UNCHANGED <<stops, imageVars>>
    BY <1>6 DEF Wrote, Answer, Goes
  <2>2. ~strayed => image.at = "inject"
    BY <2>1 DEF PlaceAgrees
  <2> QED
    BY <2>1, <2>2 DEF Early, imageVars, PlaceAgrees
<1>7. CASE Asks \/ AsksWord \/ Continues
  <2>1. /\ ~waiting /\ stage' = stage /\ UNCHANGED imageVars /\ reply' = "none"
        /\ stage \in {"setup", "connect", "breakpoints", "read", "row", "value", "target",
                      "inject", "observe"}
    BY <1>7 DEF Asks, AsksWord, Continues
  <2> QED
    BY <2>1 DEF imageVars, Early, PlaceAgrees
<1>8. CASE Arrives("await inject", "inject", "read")
  <2>1. stage = "await inject" /\ stops # <<>> /\ stage' = "read" /\ UNCHANGED imageVars
    BY <1>8 DEF Arrives
  <2>2. ~strayed => image.at = "inject"
    BY <2>1 DEF RunningAgrees, PlaceAgrees
  <2> QED
    BY <2>1, <2>2 DEF imageVars, Early, PlaceAgrees
<1>9. CASE Arrives("await observe", "observe", "row")
  <2>1. stage = "await observe" /\ stops # <<>> /\ stage' = "row" /\ UNCHANGED imageVars
    BY <1>9 DEF Arrives
  <2>2. ~strayed => image.at = "observe"
    BY <2>1 DEF RunningAgrees, PlaceAgrees
  <2> QED
    BY <2>1, <2>2 DEF imageVars, Early, PlaceAgrees
<1>10. CASE Chooses
  BY <1>10 DEF Chooses, imageVars, Early, PlaceAgrees
<1>11. CASE Reports
  BY <1>11 DEF Reports, imageVars, Early, PlaceAgrees
<1>12. CASE GdbMoves
  <2>1. /\ command.op # "none" /\ UNCHANGED <<stage, waiting, strayed>>
        /\ image'.at = image.at
    BY <1>12, WordWritten DEF GdbMoves, Host, Answers, Resume, WriteWord, Done
  <2>2. /\ ~running /\ reply = "none"
        /\ stage \in Ending \/ (waiting /\ command.op = OperationAt(stage))
    BY <2>1 DEF RunningAgrees, CommandAgrees
  <2>3. CASE stage \in Ending
    BY <2>1, <2>3 DEF Ending, Early, PlaceAgrees
  <2>4. CASE stage \notin Ending /\ command.op = "continue"
    <3>1. waiting /\ stage \in {"inject", "observe"}
      BY <2>2, <2>4 DEF OperationAt
    <3>2. (running' /\ reply' = "ok") \/ reply' = "error"
      BY <1>12, <2>4 DEF GdbMoves, Answers, Resume, WriteWord, Done
    <3> QED
      BY <2>1, <2>2, <3>1, <3>2 DEF Early, PlaceAgrees
  <2>5. CASE stage \notin Ending /\ command.op # "continue"
    <3>1. stage \notin {"inject", "observe", "await inject", "await observe"}
      BY <2>1, <2>2, <2>5 DEF OperationAt
    <3> QED
      BY <2>1, <2>2, <3>1 DEF Early, PlaceAgrees
  <2> QED
    BY <2>3, <2>4, <2>5
<1>13. CASE ImageMoves
  <2>1. /\ running /\ stops = <<>>
        /\ ToInject \/ ToObserve \/ stage \in Ending
    BY <1>13 DEF ImageMoves, ReachInject, ReachObserve, Stray, RunningAgrees
  <2>2. UNCHANGED <<stage, waiting, reply, command>>
    BY <1>13 DEF ImageMoves, Host, ReachInject, ReachObserve, Stray
  <2>3. CASE stage \in Ending
    BY <2>2, <2>3 DEF Ending, Early, PlaceAgrees
  <2>4. CASE stage \notin Ending /\ ReachInject
    <3>1. /\ image'.at = "inject" /\ strayed' = strayed /\ ~running'
          /\ stops' = <<"inject">> /\ image.at \in {"boot", "observe"}
      BY <2>1, <2>4, InjectReached, FirstStop DEF ReachInject, Stopped
    <3>2. ~strayed => ToInject /\ ~ToObserve
      BY <2>1, <2>4, <3>1 DEF PlaceAgrees
    <3> QED
      BY <2>2, <3>1, <3>2 DEF Early, PlaceAgrees
  <2>5. CASE stage \notin Ending /\ ReachObserve
    <3>1. /\ image'.at = "observe" /\ strayed' = strayed /\ ~running'
          /\ stops' = <<"observe">> /\ image.at = "inject"
      BY <2>1, <2>5, ObserveReached, FirstStop DEF ReachObserve, Stopped
    <3>2. ~strayed => ToObserve /\ ~ToInject
      BY <2>1, <2>5, <3>1 DEF PlaceAgrees
    <3> QED
      BY <2>2, <3>1, <3>2 DEF Early, PlaceAgrees
  <2>6. CASE Stray
    BY <2>6 DEF Stray, PlaceAgrees
  <2> QED
    BY <1>13, <2>3, <2>4, <2>5, <2>6 DEF ImageMoves
<1> QED
  BY <1>1, <1>2, <1>3, <1>4, <1>5, <1>6, <1>7, <1>8, <1>9, <1>10, <1>11, <1>12, <1>13,
     Zenon DEF Moves

-----------------------------------------------------------------------------
(* The two words *)

LEMMA FaultKept ==
  ASSUME PictureTypes, CommandAgrees, RunningAgrees, PlaceAgrees, FaultAgrees, Moves
  PROVE  FaultAgrees'
<1> USE DEF ToInject, ToObserve, Resumed, Answering
<1>1. CASE Rests
  BY <1>1 DEF Rests, picture, imageVars, FaultAgrees, Struck
<1>2. CASE Quits
  <2>1. /\ stage' \in Ending /\ image' = image
    BY <1>2 DEF Quits, imageVars
  <2> QED
    BY <2>1 DEF Ending, Aimed, FaultAgrees
<1>3. CASE SetsOut
  <2>1. stage' \in Early \cup {"next"} /\ image' = image
    BY <1>3 DEF SetsOut, Goes, Early, imageVars
  <2> QED
    BY <2>1 DEF Early, Aimed, FaultAgrees
<1>4. CASE Begins
  <2>1. stage' = "inject" /\ waiting' = FALSE /\ image' = image
    BY <1>4 DEF Begins, Goes, imageVars
  <2> QED
    BY <2>1 DEF Aimed, FaultAgrees
<1>5. CASE Awaits
  <2>1. /\ (ToInject <=> ToInject') /\ (ToObserve <=> ToObserve')
        /\ \/ stage = "inject" /\ stage' = "await inject"
           \/ stage = "observe" /\ stage' = "await observe"
        /\ UNCHANGED <<imageVars, chosen>>
    BY <1>5 DEF Awaits, Answer, Goes
  <2> QED
    BY <2>1 DEF Aimed, imageVars, FaultAgrees, Struck
<1>6. CASE Wrote
  <2>1. /\ stage \in {"value", "target"} /\ waiting /\ reply = "ok"
        /\ (stage = "value" /\ stage' = "target") \/ (stage = "target" /\ stage' = "observe")
        /\ waiting' = FALSE
        /\ UNCHANGED <<imageVars, chosen>>
    BY <1>6 DEF Wrote, Answer, Goes
  <2>2. ~Struck
    BY <2>1 DEF Struck
  <2> QED
    BY <2>1, <2>2 DEF Aimed, imageVars, FaultAgrees
<1>7. CASE Asks \/ AsksWord \/ Continues
  <2>1. /\ ~waiting /\ stage' = stage /\ UNCHANGED <<imageVars, chosen>> /\ reply' = "none"
        /\ stage \in {"setup", "connect", "breakpoints", "read", "row", "value", "target",
                      "inject", "observe"}
    BY <1>7 DEF Asks, AsksWord, Continues
  <2>2. Struck' <=> Struck
    BY <2>1 DEF Struck
  <2> QED
    BY <2>1, <2>2 DEF imageVars, FaultAgrees
<1>8. CASE Arrives("await inject", "inject", "read")
  <2>1. stage = "await inject" /\ stage' = "read" /\ UNCHANGED imageVars
    BY <1>8 DEF Arrives
  <2> QED
    BY <2>1 DEF Aimed, imageVars, FaultAgrees
<1>9. CASE Arrives("await observe", "observe", "row")
  <2>1. stage = "await observe" /\ stage' = "row" /\ UNCHANGED <<imageVars, chosen>>
    BY <1>9 DEF Arrives
  <2> QED
    BY <2>1 DEF Aimed, imageVars, FaultAgrees
<1>10. CASE Chooses
  <2>1. /\ stage = "read" /\ stage' = "value" /\ waiting' = FALSE
        /\ chosen' = Choice(image.iteration) /\ UNCHANGED imageVars
    BY <1>10 DEF Chooses
  <2> QED
    BY <2>1 DEF imageVars, FaultAgrees
<1>11. CASE Reports
  <2>1. stage' = "next" /\ UNCHANGED imageVars
    BY <1>11 DEF Reports
  <2> QED
    BY <2>1 DEF Aimed, imageVars, FaultAgrees
<1>12. CASE GdbMoves
  <2>1. /\ command.op # "none" /\ UNCHANGED <<stage, waiting, strayed, chosen>>
    BY <1>12 DEF GdbMoves, Host, Answers, Resume, WriteWord, Done
  <2>2. /\ ~running /\ reply = "none"
        /\ stage \in Ending \/ (waiting /\ command.op = OperationAt(stage))
    BY <2>1 DEF RunningAgrees, CommandAgrees
  <2>3. CASE WriteWord
    <3>1. command.op \in {"value", "target"} /\ reply' = "ok" /\ ~running'
      BY <2>2, <2>3 DEF WriteWord, Done
    <3>2. /\ image.at = "inject" /\ chosen = Choice(image.iteration)
          /\ command.value = chosen[command.op]
          /\ command.op = "value" => image.fault.target = 0
          /\ command.op = "target" => image.fault.value = chosen.value
      BY <3>1 DEF CommandAgrees
    <3>3. stage \in Ending \/ stage = command.op
      BY <2>2, <3>1 DEF OperationAt
    <3>4. image'.at = "inject" /\ image'.iteration = image.iteration
      BY <2>3, <3>2, WordWritten
    <3>5. CASE command.op = "value"
      <4>1. image'.fault.value = chosen.value /\ image'.fault.target = 0
        BY <2>3, <3>2, <3>5, WordWritten
      <4> QED
        BY <2>1, <3>2, <3>3, <3>4, <3>5, <4>1 DEF Ending, Aimed, FaultAgrees
    <3>6. CASE command.op = "target"
      <4>1. image'.fault.value = chosen.value /\ image'.fault.target = chosen.target
        BY <2>3, <3>2, <3>6, WordWritten
      <4> QED
        BY <2>1, <2>2, <3>1, <3>2, <3>3, <3>4, <3>6, <4>1 DEF Ending, Aimed, FaultAgrees
    <3> QED
      BY <3>1, <3>5, <3>6
  <2>4. CASE Resume
    <3>1. command.op = "continue" /\ image' = image /\ running' /\ reply' = "ok"
      BY <2>4 DEF Resume, Done
    <3>2. stage \in Ending \cup {"inject", "observe"}
      BY <2>2, <3>1 DEF OperationAt
    <3>3. strayed \/ stage # "inject" \/ image.at \in {"boot", "observe"}
      BY <2>2, <3>2 DEF PlaceAgrees
    <3>4. ~Struck
      BY <2>2, <3>2 DEF Struck, Ending
    <3>5. stage = "inject" => ~strayed
      BY <2>2 DEF RunningAgrees, Ending
    <3> QED
      BY <2>1, <2>2, <3>1, <3>2, <3>3, <3>4, <3>5 DEF Ending, Aimed, FaultAgrees
  <2>5. CASE Answers
    <3>1. /\ image' = image /\ running' = running
          /\ reply' = "error" \/ (reply' = "ok" /\ command.op \notin {"continue", "value", "target"})
      BY <2>5 DEF Answers
    <3>2. stage \notin {"inject", "observe", "value", "target"} \/ reply' = "error"
      BY <2>2, <3>1 DEF OperationAt, Ending
    <3>3. (ToInject' <=> ToInject) /\ (ToObserve' <=> ToObserve)
      BY <2>1, <2>2, <3>2
    <3>4. Struck' <=> Struck
      BY <2>1, <3>1, <3>3 DEF Struck
    <3> QED
      BY <2>1, <2>2, <3>1, <3>2, <3>3, <3>4 DEF FaultAgrees
  <2> QED
    BY <1>12, <2>3, <2>4, <2>5 DEF GdbMoves
<1>13. CASE ImageMoves
  <2>1. /\ running
        /\ ToInject \/ ToObserve \/ stage \in Ending
    BY <1>13 DEF ImageMoves, ReachInject, ReachObserve, Stray, RunningAgrees
  <2>2. UNCHANGED <<stage, waiting, reply, chosen>>
    BY <1>13 DEF ImageMoves, Host, ReachInject, ReachObserve, Stray
  <2>3. CASE ReachInject
    <3>1. /\ image'.at = "inject" /\ image'.fault = image.fault
          /\ image.at \in {"boot", "observe"} /\ strayed' = strayed
      BY <2>3, InjectReached DEF ReachInject
    <3>2. ~strayed
      BY <3>1 DEF RunningAgrees
    <3>3. ToInject \/ stage \in Ending
      BY <2>1, <3>1, <3>2 DEF PlaceAgrees, Ending
    <3>4. image'.fault.target = 0
      BY <3>1 DEF FaultAgrees
    <3>5. stage' \notin Aimed /\ stage' # "target" /\ stage' # "value"
      BY <2>2, <3>3 DEF Aimed, Ending
    <3> QED
      BY <3>1, <3>4, <3>5 DEF Aimed, FaultAgrees
  <2>4. CASE ReachObserve
    <3>1. /\ image'.at = "observe" /\ image'.fault.target = 0
          /\ image'.iteration = image.iteration
          /\ image.at = "inject" /\ strayed' = strayed /\ ~running'
      BY <2>4, ObserveReached DEF ReachObserve, Stopped
    <3>2. ~strayed
      BY <3>1 DEF RunningAgrees
    <3>3. ToObserve \/ stage \in Ending
      BY <2>1, <3>1, <3>2 DEF PlaceAgrees, Ending
    <3>4. CASE stage \in Ending
      BY <2>2, <3>1, <3>4 DEF Ending, Aimed, FaultAgrees
    <3>5. CASE ToObserve
      <4>1. Struck'
        BY <2>2, <3>1, <3>2, <3>5 DEF Struck
      <4>2. stage \in {"observe", "await observe"}
        BY <3>5
      <4> QED
        BY <2>2, <3>1, <4>1, <4>2 DEF Aimed, FaultAgrees
    <3> QED
      BY <3>3, <3>4, <3>5
  <2>5. CASE Stray
    <3>1. /\ image'.at = "lost" /\ image'.fault = image.fault
          /\ image'.iteration = image.iteration /\ strayed'
      BY <2>5, WentAstray DEF Stray
    <3>2. stage # "target" /\ ~Answering("value") /\ ~Answering("target")
      BY <2>1 DEF Ending
    <3> QED
      BY <2>2, <3>1, <3>2 DEF FaultAgrees
  <2> QED
    BY <1>13, <2>3, <2>4, <2>5 DEF ImageMoves
<1> QED
  BY <1>1, <1>2, <1>3, <1>4, <1>5, <1>6, <1>7, <1>8, <1>9, <1>10, <1>11, <1>12, <1>13,
     Zenon DEF Moves

-----------------------------------------------------------------------------
(* The faults that were applied *)

(* What is left as it was by all steps but those of the image and the one  *)
(* that makes a row.                                                       *)
LEMMA PictureStays ==
  ASSUME PictureTypes, CommandAgrees, Moves, ~Reports, ~ImageMoves
  PROVE  /\ UNCHANGED <<rows, applied, counted, strayed>>
         /\ image'.at = image.at /\ image'.iteration = image.iteration
         /\ image'.lastTarget = image.lastTarget
         /\ image'.passes = image.passes /\ image'.failures = image.failures
         /\ remote' = remote \/ rows = <<>>
         /\ chosen' = chosen \/ stage = "read"
<1>1. CASE Rests
  BY <1>1 DEF Rests, picture, imageVars
<1>2. CASE Quits
  BY <1>2 DEF Quits, imageVars
<1>3. CASE SetsOut \/ Begins \/ Awaits \/ Wrote
  BY <1>3 DEF SetsOut, Begins, Awaits, Wrote, Goes, imageVars
<1>4. CASE Asks \/ AsksWord \/ Continues
  BY <1>4 DEF Asks, AsksWord, Continues, imageVars
<1>5. CASE \/ Arrives("await inject", "inject", "read")
           \/ Arrives("await observe", "observe", "row")
  BY <1>5 DEF Arrives, imageVars
<1>6. CASE Chooses
  BY <1>6 DEF Chooses, imageVars
<1>7. CASE GdbMoves
  BY <1>7, WordWritten DEF GdbMoves, Host, Answers, Resume, WriteWord, CommandAgrees
<1> QED
  BY <1>1, <1>2, <1>3, <1>4, <1>5, <1>6, <1>7, Zenon DEF Moves

(* Only the image's arrival and the row that tells of it change whether a  *)
(* fault waits to be told.                                                 *)
LEMMA StruckStays ==
  ASSUME PictureTypes, CommandAgrees, RunningAgrees, PlaceAgrees, Moves,
         ~Reports, ~(ImageMoves /\ ReachObserve), stage' \notin Ending
  PROVE  stage \notin Ending /\ (Struck' <=> Struck)
<1> USE DEF ToInject, ToObserve, Resumed, Answering
<1>1. CASE Rests
  BY <1>1 DEF Rests, picture, imageVars, Struck
<1>2. CASE Quits
  BY <1>2 DEF Quits
<1>3. CASE SetsOut \/ Begins
  BY <1>3 DEF SetsOut, Begins, Goes, Struck, Ending
<1>4. CASE Awaits
  <2>1. /\ (ToObserve <=> ToObserve') /\ stage \notin Ending
        /\ stage # "row" /\ stage' # "row" /\ UNCHANGED <<running, strayed>>
    BY <1>4 DEF Awaits, Answer, Goes, Ending, imageVars
  <2> QED
    BY <2>1 DEF Struck
<1>5. CASE Wrote
  BY <1>5 DEF Wrote, Goes, Struck, Ending
<1>6. CASE Asks \/ AsksWord \/ Continues
  BY <1>6 DEF Asks, AsksWord, Continues, Struck, Ending
<1>7. CASE Arrives("await inject", "inject", "read")
  BY <1>7 DEF Arrives, Struck, Ending
<1>8. CASE Arrives("await observe", "observe", "row")
  <2>1. /\ stage = "await observe" /\ stage' = "row" /\ stops # <<>>
        /\ Head(stops) # "elsewhere"
    BY <1>8 DEF Arrives
  <2>2. ~running
    BY <2>1 DEF RunningAgrees
  <2>3. Head(<<"elsewhere">>) = "elsewhere"
    OBVIOUS
  <2>4. ~strayed
    BY <2>1, <2>3 DEF RunningAgrees
  <2> QED
    BY <2>1, <2>2, <2>4 DEF Struck, Ending
<1>9. CASE Chooses
  BY <1>9 DEF Chooses, Struck, Ending
<1>10. CASE GdbMoves
  <2>1. /\ command.op # "none" /\ UNCHANGED <<stage, waiting, strayed>>
    BY <1>10 DEF GdbMoves, Host, Answers, Resume, WriteWord, Done
  <2>2. /\ ~running /\ reply = "none" /\ waiting /\ command.op = OperationAt(stage)
        /\ stage \notin Ending
    BY <2>1 DEF RunningAgrees, CommandAgrees
  <2>3. CASE stage = "observe"
    <3>1. command.op = "continue"
      BY <2>2, <2>3 DEF OperationAt
    <3>2. (running' /\ reply' = "ok") \/ reply' = "error"
      BY <1>10, <3>1 DEF GdbMoves, Answers, Resume, WriteWord, Done
    <3> QED
      BY <2>1, <2>2, <2>3, <3>2 DEF Struck
  <2>4. CASE stage # "observe"
    <3>1. stage # "await observe"
      BY <2>1, <2>2 DEF OperationAt
    <3> QED
      BY <2>1, <2>2, <2>4, <3>1 DEF Struck
  <2> QED
    BY <2>3, <2>4
<1>11. CASE ImageMoves
  <2>1. running /\ UNCHANGED <<stage, waiting, reply>>
    BY <1>11 DEF ImageMoves, Host, ReachInject, ReachObserve, Stray
  <2>2. ~Struck
    BY <2>1 DEF Struck, RunningAgrees, Ending
  <2>3. CASE ReachInject
    <3>1. ~ToObserve
      BY <2>1, <2>3 DEF ReachInject, PlaceAgrees, RunningAgrees
    <3>2. stage # "row"
      BY <2>1 DEF RunningAgrees, Ending
    <3> QED
      BY <2>1, <2>2, <3>1, <3>2 DEF Struck
  <2>4. CASE Stray
    <3>1. strayed' /\ stage # "row"
      BY <2>1, <2>4 DEF Stray, RunningAgrees, Ending
    <3> QED
      BY <2>1, <2>2, <3>1 DEF Struck
  <2> QED
    BY <1>11, <2>3, <2>4 DEF ImageMoves
<1> QED
  BY <1>1, <1>2, <1>3, <1>4, <1>5, <1>6, <1>7, <1>8, <1>9, <1>10, <1>11, Zenon DEF Moves

(* The image's arrival at its observe breakpoint, seen from the engine.    *)
LEMMA Arrival ==
  ASSUME PictureTypes, CommandAgrees, RunningAgrees, PlaceAgrees, FaultAgrees,
         ImageMoves, ReachObserve
  PROVE  /\ image.at = "inject" /\ UNCHANGED <<stage, waiting, rows, chosen, remote>>
         /\ ~Struck
         /\ stage' \notin Ending =>
              /\ Struck'
              /\ image.fault.target = chosen.target /\ image.fault.value = chosen.value
<1> USE DEF ToInject, ToObserve, Resumed, Answering
<1>1. /\ running /\ image.at = "inject" /\ ~running' /\ strayed' = strayed
      /\ UNCHANGED <<stage, waiting, reply, rows, chosen, remote>>
  BY DEF ImageMoves, Host, ReachObserve, Stopped
<1>2. ~strayed /\ ~Struck
  BY <1>1 DEF RunningAgrees, Struck, Ending
<1>3. ASSUME stage' \notin Ending
      PROVE  Struck' /\ image.fault.target = chosen.target /\ image.fault.value = chosen.value
  <2>1. ToObserve
    BY <1>1, <1>2, <1>3 DEF RunningAgrees, PlaceAgrees
  <2>2. Struck'
    BY <1>1, <1>2, <2>1 DEF Struck
  <2> QED
    BY <1>2, <2>1, <2>2 DEF FaultAgrees
<1> QED
  BY <1>1, <1>2, <1>3

LEMMA AppliedKept ==
  ASSUME PictureTypes, CommandAgrees, RunningAgrees, PlaceAgrees, FaultAgrees,
         AppliedAgrees, Moves
  PROVE  AppliedAgrees'
<1>t. applied \in Seq([iteration : Nat, fault : FaultType]) /\ rows \in Seq(RowType)
  BY DEF PictureTypes
<1>1. CASE ~Reports /\ ~ImageMoves
  <2>1. /\ UNCHANGED <<rows, applied, counted>>
        /\ image'.at = image.at /\ image'.iteration = image.iteration
    BY <1>1, PictureStays
  <2>2. stage' \notin Ending => stage \notin Ending /\ (Struck' <=> Struck)
    BY <1>1, StruckStays
  <2> QED
    BY <2>1, <2>2 DEF AppliedAgrees
<1>2. CASE Reports
  <2>1. /\ stage = "row" /\ stage' = "next" /\ UNCHANGED <<applied, counted, image>>
        /\ rows' = Append(rows, NewRow)
    BY <1>2 DEF Reports, imageVars
  <2>2. Struck /\ ~Struck' /\ stage \notin Ending
    BY <2>1 DEF Struck, ToObserve, Resumed, Answering, Ending
  <2>3. Len(rows') = Len(rows) + 1
    <3>1. NewRow \in RowType
      BY DEF NewRow, RowType, PictureTypes, ImageType
    <3> QED
      BY <1>t, <2>1, <3>1, AppendProperties
  <2>4. PICK n \in Nat : n = Len(rows)
    BY <1>t, LenProperties
  <2>5. Len(applied) = n + 1
    BY <2>2, <2>4 DEF AppliedAgrees
  <2> QED
    BY <2>1, <2>2, <2>3, <2>4, <2>5 DEF AppliedAgrees
<1>3. CASE ImageMoves
  <2>0. UNCHANGED <<stage, waiting, rows, chosen>> /\ running
    BY <1>3 DEF ImageMoves, Host, ReachInject, ReachObserve, Stray
  <2>1. CASE ReachInject
    <3>1. /\ image'.at = "inject" /\ image'.iteration = image.iteration + 1
          /\ UNCHANGED <<applied, counted>> /\ image.at \in {"boot", "observe"}
      BY <2>1, InjectReached DEF ReachInject
    <3>2. stage' \notin Ending => stage \notin Ending /\ (Struck' <=> Struck)
      <4>1. ~ReachObserve
        BY <3>1, ObserveReached
      <4>2. ~Reports
        BY <2>0 DEF Reports
      <4> QED
        BY <1>3, <4>1, <4>2, StruckStays
    <3> QED
      BY <2>0, <3>1, <3>2 DEF AppliedAgrees
  <2>2. CASE Stray
    <3>1. /\ image'.at = "lost" /\ UNCHANGED <<applied, counted>>
      BY <2>2, WentAstray DEF Stray
    <3>2. stage' \notin Ending => stage \notin Ending /\ (Struck' <=> Struck)
      <4>1. ~ReachObserve
        BY <3>1, ObserveReached
      <4>2. ~Reports
        BY <2>0 DEF Reports
      <4> QED
        BY <1>3, <4>1, <4>2, StruckStays
    <3> QED
      BY <2>0, <3>1, <3>2 DEF AppliedAgrees
  <2>3. CASE ReachObserve
    <3>1. /\ image'.at = "observe" /\ image'.iteration = image.iteration
      BY <2>3, ObserveReached
    <3>2. /\ image.at = "inject" /\ ~Struck /\ (stage' \notin Ending => Struck')
      BY <1>3, <2>3, Arrival
    <3> DEFINE new == [iteration |-> image.iteration, fault |-> image.fault]
    <3>3. applied' = Append(applied, new) /\ new \in [iteration : Nat, fault : FaultType]
      BY <2>3 DEF ReachObserve, PictureTypes, ImageType
    <3>4. PICK verdict \in {"pass", "fail"} : counted' = Append(counted, verdict)
      BY <2>3, ObserveReached
    <3>5. PICK n \in Nat : n = Len(applied)
      BY <1>t, LenProperties
    <3>6. /\ applied' \in Seq([iteration : Nat, fault : FaultType])
          /\ Len(applied') = n + 1 /\ applied'[n + 1] = new
          /\ \A i \in 1 .. n : applied'[i] = applied[i]
      <4> HIDE DEF new
      <4> QED
        BY <1>t, <3>3, <3>5, AppendProperties
    <3>7. Len(counted') = n + 1
      <4>1. counted \in Seq({"pass", "fail"}) /\ Len(counted) = n
        BY <3>5 DEF PictureTypes, AppliedAgrees
      <4> QED
        BY <3>4, <4>1, AppendProperties
    <3>8. /\ new.iteration = image.iteration
          /\ new.fault.target # 0 =>
               /\ new.fault.target = Choice(new.iteration).target
               /\ new.fault.value = Choice(new.iteration).value
      BY <3>2 DEF FaultAgrees
    <3> HIDE DEF new
    <3>9. n # 0 => applied[n].iteration + 1 = new.iteration
      <4>1. n # 0 => applied # <<>>
        BY <3>5
      <4> QED
        BY <3>2, <3>5, <3>8, <4>1 DEF AppliedAgrees
    <3>10. n # 0 => applied[n].iteration = applied[1].iteration + n - 1
      BY <3>5 DEF AppliedAgrees
    <3>11. \A i \in 1 .. n : applied[i].iteration \in Nat
      <4>1. \A i \in 1 .. n : applied[i] \in [iteration : Nat, fault : FaultType]
        BY <1>t, <3>5, ElementOfSeq
      <4> QED
        BY <4>1
    <3>12. applied'[n + 1].iteration = applied'[1].iteration + (n + 1) - 1
      <4>1. CASE n = 0
        BY <3>3, <3>6, <4>1
      <4>2. CASE n # 0
        <5>1. applied'[1] = applied[1] /\ applied[1].iteration \in Nat
          BY <3>6, <3>11, <4>2
        <5> QED
          BY <3>6, <3>9, <3>10, <4>2, <5>1
      <4> QED
        BY <4>1, <4>2
    <3>13. \A i \in 1 .. n + 1 :
             /\ applied'[i].iteration = applied'[1].iteration + i - 1
             /\ applied'[i].fault.target # 0 =>
                  /\ applied'[i].fault.target = Choice(applied'[i].iteration).target
                  /\ applied'[i].fault.value = Choice(applied'[i].iteration).value
      <4> SUFFICES ASSUME NEW i \in 1 .. n + 1
                   PROVE  /\ applied'[i].iteration = applied'[1].iteration + i - 1
                          /\ applied'[i].fault.target # 0 =>
                               /\ applied'[i].fault.target = Choice(applied'[i].iteration).target
                               /\ applied'[i].fault.value = Choice(applied'[i].iteration).value
        OBVIOUS
      <4>1. CASE i = n + 1
        BY <3>6, <3>8, <3>12, <4>1
      <4>2. CASE i # n + 1
        <5>1. i \in 1 .. n /\ 1 \in 1 .. n
          BY <4>2
        <5>2. applied'[i] = applied[i] /\ applied'[1] = applied[1]
          BY <3>6, <5>1
        <5> QED
          BY <3>5, <5>1, <5>2 DEF AppliedAgrees
      <4> QED
        BY <4>1, <4>2
    <3>14. PICK m \in Nat : m = Len(rows)
      BY <1>t, LenProperties
    <3>15. m <= n /\ (stage \notin Ending => n = m)
      BY <3>2, <3>5, <3>14 DEF AppliedAgrees
    <3>16. applied' # <<>>
      BY <3>6
    <3> QED
      BY <2>0, <3>1, <3>2, <3>6, <3>7, <3>8, <3>13, <3>14, <3>15, <3>16 DEF AppliedAgrees
  <2> QED
    BY <1>3, <2>1, <2>2, <2>3 DEF ImageMoves
<1> QED
  BY <1>1, <1>2, <1>3

-----------------------------------------------------------------------------
(* The rows *)

(* A row goes on telling what it told as long as the history before it     *)
(* stays.                                                                  *)
LEMMA RowStays ==
  ASSUME NEW i \in Nat \ {0}, RowAgrees(i), remote' = remote, leftover' = leftover,
         \A j \in 1 .. i : rows'[j] = rows[j] /\ applied'[j] = applied[j] /\ counted'[j] = counted[j]
  PROVE  RowAgrees(i)'
<1>1. /\ rows'[i] = rows[i] /\ applied'[i] = applied[i] /\ counted'[i] = counted[i]
      /\ i - 1 # 0 => rows'[i - 1] = rows[i - 1]
  OBVIOUS
<1>2. /\ Passes(i - 1)' = Passes(i - 1) /\ Failed(i - 1)' = Failed(i - 1)
      /\ One("pass", i)' = One("pass", i) /\ One("fail", i)' = One("fail", i)
  BY <1>1 DEF Passes, Failed, One
<1>3. \A j \in 1 .. i : counted'[j] = counted[j]
  OBVIOUS
<1> QED
  BY <1>1, <1>2, <1>3 DEF RowAgrees

LEMMA RowsKept ==
  ASSUME PictureTypes, CommandAgrees, RunningAgrees, PlaceAgrees, FaultAgrees,
         AppliedAgrees, RowsAgree, Moves, LeftoverTypes, leftover' = leftover
  PROVE  RowsAgree'
<1>t. applied \in Seq([iteration : Nat, fault : FaultType]) /\ rows \in Seq(RowType)
  BY DEF PictureTypes
<1>n. PICK n \in Nat : n = Len(rows)
  BY <1>t, LenProperties
<1>m. PICK m \in Nat : m = Len(applied)
  BY <1>t, LenProperties
<1>l. n <= m /\ Len(counted) = m
  BY <1>n, <1>m DEF AppliedAgrees
<1>r. \A i \in 1 .. n : RowAgrees(i)
  BY <1>n DEF RowsAgree
<1>1. CASE ~Reports /\ ~ImageMoves
  <2>1. /\ UNCHANGED <<rows, applied, counted>>
        /\ image'.at = image.at /\ image'.lastTarget = image.lastTarget
        /\ image'.passes = image.passes /\ image'.failures = image.failures
        /\ remote' = remote \/ rows = <<>>
        /\ chosen' = chosen \/ stage = "read"
    BY <1>1, PictureStays
  <2>2. stage' \notin Ending => stage \notin Ending /\ (Struck' <=> Struck)
    BY <1>1, StruckStays
  <2>3. \A i \in 1 .. Len(rows') : RowAgrees(i)'
    <3> SUFFICES ASSUME NEW i \in 1 .. n PROVE RowAgrees(i)'
      BY <1>n, <2>1
    <3>1. rows # <<>>
      BY <1>n
    <3>2. remote' = remote
      BY <2>1, <3>1
    <3> QED
      BY <1>r, <2>1, <3>2, RowStays
  <2>4. ASSUME stage' \notin Ending PROVE CountersAgree'
    <3>1. CountersAgree
      BY <2>2, <2>4 DEF RowsAgree
    <3>2. /\ Passes(n)' = Passes(n) /\ Failed(n)' = Failed(n)
          /\ One("pass", n + 1)' = One("pass", n + 1) /\ One("fail", n + 1)' = One("fail", n + 1)
      BY <2>1 DEF Passes, Failed, One
    <3> QED
      BY <1>n, <2>1, <2>2, <2>4, <3>1, <3>2 DEF CountersAgree
  <2>5. ASSUME stage' \notin Ending PROVE LastAgrees'
    <3>1. LastAgrees
      BY <2>2, <2>5 DEF RowsAgree
    <3>2. Struck => chosen' = chosen
      BY <2>1 DEF Struck, ToObserve, Resumed, Answering
    <3> QED
      BY <2>1, <2>2, <2>5, <3>1, <3>2 DEF LastAgrees
  <2> QED
    BY <2>3, <2>4, <2>5 DEF RowsAgree
<1>2. CASE Reports
  <2>1. /\ stage = "row" /\ stage' = "next"
        /\ UNCHANGED <<applied, counted, image, remote, chosen, strayed>>
        /\ rows' = Append(rows, NewRow)
    BY <1>2 DEF Reports, imageVars
  <2>2. Struck /\ ~Struck' /\ stage \notin Ending
    BY <2>1 DEF Struck, ToObserve, Resumed, Answering, Ending
  <2>3. NewRow \in RowType
    BY DEF NewRow, RowType, PictureTypes, ImageType
  <2>4. /\ Len(rows') = n + 1 /\ rows'[n + 1] = NewRow
        /\ \A i \in 1 .. n : rows'[i] = rows[i]
    BY <1>t, <1>n, <2>1, <2>3, AppendProperties
  <2>5. m = n + 1
    BY <1>n, <1>m, <2>2 DEF AppliedAgrees
  <2>6. /\ CountersAgree
        /\ image.at = "observe" /\ image.lastTarget = applied[m].fault.target
        /\ applied[m].fault.target = chosen.target /\ applied[m].fault.value = chosen.value
    BY <1>m, <2>2 DEF RowsAgree, LastAgrees
  <2>7. image.iteration = applied[m].iteration
    <3>0. Len(<<>>) = 0 /\ m # 0
      BY <2>5
    <3>1. applied # <<>>
      BY <1>m, <3>0
    <3> QED
      BY <1>m, <2>6, <3>1 DEF AppliedAgrees
  <2>8. chosen = Choice(image.iteration)
    BY <2>1 DEF FaultAgrees, Aimed
  <2>9. /\ NewRow.iteration = image.iteration /\ NewRow.fault_target = image.lastTarget
        /\ NewRow.fault_value = chosen.value /\ NewRow.passes = image.passes
        /\ NewRow.failures = image.failures /\ NewRow.remote = remote
    BY DEF NewRow
  <2> HIDE DEF NewRow
  <2>10. /\ image.passes = Passes(n) + One("pass", m)
         /\ image.failures = Failed(n) + One("fail", m)
    BY <1>n, <2>2, <2>5, <2>6 DEF CountersAgree
  <2>11. /\ Passes(n)' = Passes(n) /\ Failed(n)' = Failed(n)
         /\ One("pass", m)' = One("pass", m) /\ One("fail", m)' = One("fail", m)
    BY <2>1, <2>4 DEF Passes, Failed, One
  <2>12. \A j \in 1 .. m : counted[j] = "fail" => image.failures > 0
    <3> SUFFICES ASSUME NEW j \in 1 .. m, counted[j] = "fail" PROVE image.failures > 0
      OBVIOUS
    <3>1. Failed(n) \in Nat
      <4>1. n # 0 => rows[n] \in RowType
        BY <1>t, <1>n, ElementOfSeq
      <4> QED
        BY <4>1 DEF Failed, RowType, LeftoverTypes
    <3>2. CASE j = m
      BY <2>10, <3>1, <3>2 DEF One
    <3>3. CASE j # m
      <4>1. j \in 1 .. n /\ n \in 1 .. n
        BY <2>5, <3>3
      <4>2. Failed(n) > 0
        BY <1>r, <4>1 DEF RowAgrees, Failed
      <4> QED
        BY <2>10, <3>1, <4>2 DEF One
    <3> QED
      BY <3>2, <3>3
  <2>f. leftover.failures <= image.failures
    <3>1. Failed(n) \in Nat /\ leftover.failures <= Failed(n)
      <4>1. CASE n = 0
        BY <4>1 DEF Failed, LeftoverTypes
      <4>2. CASE n # 0
        <5>1. n \in 1 .. n /\ rows[n] \in RowType
          BY <1>t, <1>n, <4>2, ElementOfSeq
        <5> QED
          BY <1>r, <4>2, <5>1 DEF Failed, RowType, RowAgrees
      <4> QED
        BY <4>1, <4>2
    <3> QED
      BY <2>10, <3>1 DEF One, LeftoverTypes
  <2>13. RowAgrees(m)'
    BY <2>1, <2>4, <2>5, <2>6, <2>7, <2>8, <2>9, <2>10, <2>11, <2>12, <2>f DEF RowAgrees
  <2>14. \A i \in 1 .. Len(rows') : RowAgrees(i)'
    <3> SUFFICES ASSUME NEW i \in 1 .. n PROVE RowAgrees(i)'
      BY <2>4, <2>5, <2>13
    <3> QED
      BY <1>r, <2>1, <2>4, RowStays
  <2>15. CountersAgree'
    <3>1. n + 1 # 0
      OBVIOUS
    <3>2. Passes(n + 1)' = image.passes /\ Failed(n + 1)' = image.failures
      BY <2>4, <2>9, <3>1 DEF Passes, Failed
    <3>3. image.passes \in Nat /\ image.failures \in Nat
      BY DEF PictureTypes, ImageType
    <3> QED
      BY <2>1, <2>2, <2>4, <3>2, <3>3 DEF CountersAgree
  <2>16. LastAgrees'
    BY <2>2 DEF LastAgrees
  <2> QED
    BY <2>14, <2>15, <2>16 DEF RowsAgree
<1>3. CASE ImageMoves /\ (ReachInject \/ Stray)
  <2>1. /\ UNCHANGED <<stage, waiting, rows, chosen, applied, counted, remote>> /\ running
    BY <1>3 DEF ImageMoves, Host, ReachInject, Stray
  <2>2. image'.passes = image.passes /\ image'.failures = image.failures
    BY <1>3, InjectReached, WentAstray
  <2>3. ~Struck
    BY <2>1 DEF Struck, RunningAgrees, ToInject, ToObserve, Resumed, Answering, Ending
  <2>4. ~ReachObserve /\ ~Reports
    <3>1. ~Reports
      BY <2>1 DEF Reports
    <3>2. image'.at # "observe"
      BY <1>3, InjectReached, WentAstray
    <3> QED
      BY <3>1, <3>2, ObserveReached
  <2>5. stage' \notin Ending => ~Struck'
    BY <1>3, <2>3, <2>4, StruckStays
  <2>6. \A i \in 1 .. Len(rows') : RowAgrees(i)'
    BY <1>n, <1>r, <2>1, RowStays
  <2>7. ASSUME stage' \notin Ending PROVE CountersAgree'
    <3>1. CountersAgree
      BY <2>1, <2>7 DEF RowsAgree
    <3>2. Passes(n)' = Passes(n) /\ Failed(n)' = Failed(n)
      BY <2>1 DEF Passes, Failed
    <3> QED
      BY <1>n, <2>1, <2>2, <2>3, <2>5, <2>7, <3>1, <3>2 DEF CountersAgree
  <2>8. ASSUME stage' \notin Ending PROVE LastAgrees'
    BY <2>5, <2>8 DEF LastAgrees
  <2> QED
    BY <2>6, <2>7, <2>8 DEF RowsAgree
<1>4. CASE ImageMoves /\ ReachObserve
  <2>1. /\ UNCHANGED <<stage, rows, chosen, remote>> /\ ~Struck
        /\ stage' \notin Ending =>
             /\ Struck'
             /\ image.fault.target = chosen.target /\ image.fault.value = chosen.value
    BY <1>4, Arrival
  <2>2. PICK verdict \in {"pass", "fail"} :
          /\ counted' = Append(counted, verdict)
          /\ image'.passes = image.passes + IF verdict = "pass" THEN 1 ELSE 0
          /\ image'.failures = image.failures + IF verdict = "fail" THEN 1 ELSE 0
    BY <1>4, ObserveReached
  <2>3. /\ counted'[m + 1] = verdict
        /\ \A i \in 1 .. m : counted'[i] = counted[i]
    <3>1. counted \in Seq({"pass", "fail"})
      BY DEF PictureTypes
    <3> QED
      BY <1>l, <2>2, <3>1, AppendProperties
  <2> DEFINE new == [iteration |-> image.iteration, fault |-> image.fault]
  <2>4. applied' = Append(applied, new) /\ new \in [iteration : Nat, fault : FaultType]
    BY <1>4 DEF ReachObserve, PictureTypes, ImageType
  <2>5. new.fault = image.fault
    OBVIOUS
  <2> HIDE DEF new
  <2>6. /\ Len(applied') = m + 1 /\ applied'[m + 1] = new
        /\ \A i \in 1 .. m : applied'[i] = applied[i]
    BY <1>t, <1>m, <2>4, AppendProperties
  <2>7. \A i \in 1 .. Len(rows') : RowAgrees(i)'
    <3> SUFFICES ASSUME NEW i \in 1 .. n PROVE RowAgrees(i)'
      BY <1>n, <2>1
    <3>1. \A j \in 1 .. i : j \in 1 .. m
      BY <1>l
    <3> QED
      BY <1>r, <2>1, <2>3, <2>6, <3>1, RowStays
  <2>8. ASSUME stage' \notin Ending PROVE CountersAgree'
    <3>1. CountersAgree /\ n = m
      BY <1>n, <1>m, <2>1, <2>8 DEF RowsAgree, AppliedAgrees
    <3>2. Passes(n)' = Passes(n) /\ Failed(n)' = Failed(n)
      BY <2>1 DEF Passes, Failed
    <3>3. /\ One("pass", n + 1)' = IF verdict = "pass" THEN 1 ELSE 0
          /\ One("fail", n + 1)' = IF verdict = "fail" THEN 1 ELSE 0
      BY <2>3, <3>1 DEF One
    <3>4. image.passes \in Nat /\ image.failures \in Nat
      BY DEF PictureTypes, ImageType
    <3>5. image.passes = Passes(n) + 0 /\ image.failures = Failed(n) + 0
      BY <1>n, <2>1, <3>1 DEF CountersAgree
    <3>6. Passes(n) \in Nat /\ Failed(n) \in Nat
      <4>1. n # 0 => rows[n] \in RowType
        BY <1>t, <1>n, ElementOfSeq
      <4> QED
        BY <4>1 DEF Passes, Failed, RowType, LeftoverTypes
    <3> QED
      BY <1>n, <2>1, <2>2, <2>8, <3>2, <3>3, <3>4, <3>5, <3>6 DEF CountersAgree
  <2>9. ASSUME stage' \notin Ending PROVE LastAgrees'
    <3>1. image'.at = "observe" /\ image'.lastTarget = image.fault.target
      BY <1>4, ObserveReached
    <3> QED
      BY <2>1, <2>5, <2>6, <2>9, <3>1 DEF LastAgrees
  <2> QED
    BY <2>7, <2>8, <2>9 DEF RowsAgree
<1> QED
  BY <1>1, <1>2, <1>3, <1>4 DEF ImageMoves

-----------------------------------------------------------------------------
(* How it ends *)

(* Stage and error of a step of the engine that gives up. *)
LEMMA EndMeans ==
  ASSUME NEW error \in {"none", "failed", "wrong stop"}, NEW next \in Ending, End(error, next)
  PROVE  /\ stage' = next /\ rows' = rows /\ cancelled' = cancelled
         /\ \/ err' = error /\ ~(cancelled /\ stage \in Loop)
            \/ err' = "cancelled" /\ cancelled /\ stage \in Loop
  BY DEF End

LEMMA EndKept ==
  ASSUME PictureTypes, CommandAgrees, RunningAgrees, Behind \/ PlaceAgrees, EndAgrees, Next,
         leftover' = leftover
  PROVE  EndAgrees'
<1>t. rows \in Seq(RowType)
  BY DEF PictureTypes
<1>n. PICK n \in Nat : n = Len(rows)
  BY <1>t, LenProperties
<1>c. Count \in Nat \ {0}
  BY E2EAssumption
<1>0. Len(<<>>) = 0
  OBVIOUS
<1>x. /\ n <= Count
      /\ stage \in Ending => (err = "none" <=> n = Count)
      /\ stage \in Loop => n < Count
      /\ stage \in Early => n = 0
  <2>1. stage \in Early => n = 0
    BY <1>0, <1>n DEF EndAgrees
  <2>2. n <= Count /\ (stage \in Loop => n < Count)
    BY <1>n DEF EndAgrees
  <2>3. stage \in Ending => (err = "none" <=> n = Count)
    BY <1>n DEF EndAgrees
  <2> QED
    BY <2>1, <2>2, <2>3
(* EndAgrees of the next state, said of the number of rows there. *)
<1>y. ASSUME NEW k \in Nat, k = Len(rows'), k <= Count,
             stage' \in Ending => (err' = "none" <=> k = Count),
             stage' \in Loop => k < Count,
             stage' \notin Early,
             cancelled' \in BOOLEAN, err' \in {"none", "failed", "wrong stop", "cancelled"},
             err' # "none" => stage' \in Ending,
             err' = "wrong stop" => Astray', err' = "cancelled" => cancelled'
      PROVE  EndAgrees'
  <2>1. /\ Len(rows') <= Count /\ (stage' \in Loop => Len(rows') < Count)
        /\ stage' \in Ending => (err' = "none" <=> Len(rows') = Count)
    BY <1>y
  <2> QED
    BY <1>y, <2>1, Zenon DEF EndAgrees
<1> DEFINE Runs == stage \in Early \cup {"next"} \cup Loop
<1>s. stage \in Stages /\ (Runs <=> stage \notin Ending)
  BY DEF PictureTypes, Stages, Early, Loop, Ending
<1>g. ASSUME Runs,
             \E e \in {"failed", "wrong stop"} :
               \E end \in Ending : End(e, end) /\ (e = "wrong stop" => Astray'),
             stage # "next"
      PROVE  EndAgrees'
  <2>0. n <= Count /\ n # Count
    <3>1. stage \in Early \cup Loop
      BY <1>g
    <3>2. n < Count
      BY <1>c, <1>x, <3>1
    <3> QED
      BY <1>c, <3>2
  <2>1. PICK e \in {"failed", "wrong stop"}, end \in Ending :
               End(e, end) /\ (e = "wrong stop" => Astray')
    BY <1>g
  <2>2. /\ stage' \in Ending /\ rows' = rows /\ cancelled' = cancelled
        /\ err' \in {"failed", "wrong stop", "cancelled"}
        /\ (err' = "wrong stop" => Astray') /\ (err' = "cancelled" => cancelled)
    BY <2>1, EndMeans
  <2>5. stage' \notin Loop /\ stage' \notin Early
    BY <2>2 DEF Ending, Loop, Early
  <2>6. cancelled \in BOOLEAN
    BY DEF EndAgrees
  <2>7. n = Len(rows') /\ n <= Count /\ (err' = "none" <=> n = Count)
    <3>1. n = Len(rows')
      BY <1>n, <2>2
    <3> QED
      BY <2>0, <2>2, <3>1
  <2> QED
    BY <1>y, <2>2, <2>5, <2>6, <2>7
(* A step to another stage of the run, with the rows there are. *)
<1>p. ASSUME stage' \notin Ending, UNCHANGED <<rows, cancelled, err>>, Runs, strayed => strayed',
             stage' \in Loop => Len(rows) < Count,
             stage' \in Early => stage \in Early
      PROVE  EndAgrees'
  BY <1>p, <1>s DEF EndAgrees, Astray, Behind
<1>e. "failed" \in {"failed", "wrong stop"} /\ "close" \in Ending /\ "terminate" \in Ending
      /\ "ended" \in Ending
  BY DEF Ending
<1>f. ASSUME NEW s, FailedAt(s), s \in Early \cup Loop PROVE EndAgrees'
  <2>1. stage = s /\ End("failed", "close")
    BY <1>f DEF FailedAt
  <2> QED
    BY <1>e, <1>f, <1>g, <2>1 DEF Early, Loop
<1>o. ASSUME NEW s, NEW operation, SendAt(s, operation) PROVE EndAgrees'
  <2>1. UNCHANGED <<stage, rows, err, cancelled, strayed>>
    BY <1>o DEF SendAt, Send, imageVars
  <2> QED
    BY <2>1 DEF EndAgrees, Astray, Behind
<1>a. ASSUME NEW s \in Early \cup Loop, NEW t, AnsweredAt(s), Proceed(t), t \notin Ending,
             t \in Loop => s \in Loop, t \in Early => s \in Early
      PROVE  EndAgrees'
  <2>1. stage = s /\ stage' = t /\ UNCHANGED <<rows, cancelled, err, strayed>>
    BY <1>a DEF AnsweredAt, Answered, Proceed, gdbVars, imageVars
  <2>2. Runs
    BY <1>a, <2>1
  <2>3. stage' \in Loop => Len(rows) < Count
    BY <1>a, <2>1 DEF EndAgrees
  <2> QED
    BY <1>a, <1>p, <2>1, <2>2, <2>3
<1>m. ASSUME NEW s \in Early \cup Loop, NEW operation, NEW t, Simple(s, operation, t),
             t \notin Ending, t \in Loop => s \in Loop, t \in Early => s \in Early
      PROVE  EndAgrees'
  BY <1>a, <1>f, <1>m, <1>o DEF Simple
<1>1. CASE Engine
  <2>1. CASE StartQemu
    <3>1. stage = "start" /\ (Proceed("port") \/ End("failed", "ended")) /\ UNCHANGED gdbVars
      BY <2>1 DEF StartQemu
    <3>2. strayed' = strayed
      BY <3>1 DEF gdbVars, imageVars
    <3>3. CASE Proceed("port")
      BY <1>p, <3>1, <3>2, <3>3 DEF Proceed, Early, Loop, Ending
    <3>4. CASE End("failed", "ended")
      BY <1>e, <1>g, <3>1, <3>4 DEF Early
    <3> QED
      BY <3>1, <3>3, <3>4
  <2>2. CASE WaitForGdbPort
    <3>1. stage = "port" /\ (Proceed("gdb") \/ End("failed", "terminate")) /\ UNCHANGED gdbVars
      BY <2>2 DEF WaitForGdbPort
    <3>2. strayed' = strayed
      BY <3>1 DEF gdbVars, imageVars
    <3>3. CASE Proceed("gdb")
      BY <1>p, <3>1, <3>2, <3>3 DEF Proceed, Early, Loop, Ending
    <3>4. CASE End("failed", "terminate")
      BY <1>e, <1>g, <3>1, <3>4 DEF Early
    <3> QED
      BY <3>1, <3>3, <3>4
  <2>3. CASE NewClient
    <3>1. /\ stage = "gdb" /\ (Proceed("setup") \/ End("failed", "terminate"))
          /\ strayed' = strayed
      BY <2>3 DEF NewClient, StartGdb, gdbVars, imageVars
    <3>3. CASE Proceed("setup")
      BY <1>p, <3>1, <3>3 DEF Proceed, Early, Loop, Ending
    <3>4. CASE End("failed", "terminate")
      BY <1>e, <1>g, <3>1, <3>4 DEF Early
    <3> QED
      BY <3>1, <3>3, <3>4
  <2>4. CASE SetUp
    <3>1. "setup" \in Early /\ "connect" \in Early /\ "breakpoints" \in Early
          /\ "connect" \notin Ending \cup Loop /\ "breakpoints" \notin Ending \cup Loop
          /\ "next" \notin Ending \cup Loop \cup Early
      BY DEF Early, Loop, Ending
    <3> QED
      BY <1>m, <2>4, <3>1 DEF SetUp
  <2>5. CASE NextIteration
    <3>1. stage = "next" /\ UNCHANGED gdbVars
      BY <2>5 DEF NextIteration
    <3>2. strayed' = strayed /\ stage \notin Loop /\ err = "none"
      BY <3>1 DEF gdbVars, imageVars, Loop, Ending, EndAgrees
    <3>3. CASE Len(rows) >= Count
      <4>1. End("none", "close")
        BY <2>5, <3>3 DEF NextIteration
      <4>2. stage' = "close" /\ UNCHANGED <<rows, cancelled>> /\ err' = "none"
        BY <3>2, <4>1 DEF End
      <4>3. n = Count
        <5>1. n >= Count
          BY <1>n, <3>3
        <5> QED
          BY <1>c, <1>x, <5>1
      <4>4. stage' \notin Loop /\ stage' \notin Early /\ n = Len(rows') /\ n <= Count
        BY <1>n, <1>x, <4>2 DEF Loop, Early
      <4>5. cancelled \in BOOLEAN
        BY DEF EndAgrees
      <4> QED
        BY <1>y, <4>2, <4>3, <4>4, <4>5
    <3>4. CASE ~(Len(rows) >= Count)
      <4>1. Proceed("inject")
        BY <2>5, <3>4 DEF NextIteration
      <4>2. Len(rows) < Count
        BY <1>c, <1>n, <3>4
      <4> QED
        BY <1>p, <3>1, <3>2, <4>1, <4>2 DEF Proceed, Early, Ending
    <3> QED
      BY <3>3, <3>4
  <2>6. CASE Iteration
    <3>k. ASSUME NEW s, NEW wait, NEW t \in {"read", "row"}, ContinueUntil(s, wait, s, t),
                 \/ s = "inject" /\ wait = "await inject"
                 \/ s = "observe" /\ wait = "await observe"
          PROVE  EndAgrees'
      <4>0. /\ s \in Early \cup Loop /\ wait \in Loop /\ t \in Loop /\ s \in Loop
            /\ wait \notin Ending \cup Early /\ t \notin Ending \cup Early /\ wait # "next"
        BY <3>k DEF Early, Loop, Ending
      <4>1. CASE /\ stage = s /\ ~waiting /\ Continue /\ waiting' = TRUE
                 /\ UNCHANGED <<leftover, listening, stage, chosen, rows, err, cancelled, unhalted, processVars>>
        BY <4>1 DEF Continue, imageVars, EndAgrees, Astray, Behind
      <4>2. CASE AnsweredAt(s) /\ Proceed(wait)
        BY <1>a, <4>0, <4>2
      <4>3. CASE FailedAt(s)
        BY <1>f, <4>0, <4>3
      <4>4. CASE /\ stage = wait /\ TakeStop
                 /\ IF Head(stops) = s THEN Proceed(t) ELSE End("wrong stop", "close")
                 /\ UNCHANGED processVars
        <5>1. strayed' = strayed /\ stage \in Loop /\ stops # <<>>
          BY <4>0, <4>4 DEF TakeStop, imageVars
        <5>2. CASE Head(stops) = s
          <6>1. stage' = t /\ UNCHANGED <<rows, cancelled, err>>
            BY <4>4, <5>2 DEF Proceed
          <6> QED
            BY <1>p, <4>0, <5>1, <6>1 DEF EndAgrees
        <5>3. CASE Head(stops) # s
          <6>1. End("wrong stop", "close")
            BY <4>4, <5>3
          <6>2. ~running
            BY <5>1 DEF RunningAgrees
          <6>3. Astray
            <7> SUFFICES ASSUME ~Behind PROVE strayed
              BY DEF Astray
            <7>1. CASE s = "inject" /\ wait = "await inject"
              <8>1. Head(<<"inject">>) = "inject"
                OBVIOUS
              <8> QED
                BY <4>4, <5>3, <6>2, <7>1, <8>1 DEF PlaceAgrees, ToInject, Resumed
            <7>2. CASE s = "observe" /\ wait = "await observe"
              <8>1. Head(<<"observe">>) = "observe"
                OBVIOUS
              <8> QED
                BY <4>4, <5>3, <6>2, <7>2, <8>1 DEF PlaceAgrees, ToObserve, Resumed
            <7> QED
              BY <3>k, <7>1, <7>2
          <6>4. Astray'
            BY <5>1, <6>3 DEF Astray, Behind
          <6> QED
            BY <1>e, <1>g, <4>0, <4>4, <5>1, <6>1, <6>4
        <5> QED
          BY <5>2, <5>3
      <4>5. CASE /\ stage = wait /\ End("failed", "close")
                 /\ UNCHANGED <<processVars, gdbVars>>
        BY <1>e, <1>g, <4>0, <4>5
      <4> QED
        BY <3>k, <4>1, <4>2, <4>3, <4>4, <4>5, Zenon DEF ContinueUntil
    <3>1. CASE ContinueUntil("inject", "await inject", "inject", "read")
      BY <3>k, <3>1
    <3>2. CASE ContinueUntil("observe", "await observe", "observe", "row")
      BY <3>k, <3>2
    <3>3. CASE ReadIteration
      <4>1. CASE SendAt("read", Operation("read"))
        BY <1>o, <4>1
      <4>2. CASE FailedAt("read")
        BY <1>f, <4>2 DEF Loop
      <4>3. CASE /\ AnsweredAt("read")
                 /\ chosen' = Choice(image.iteration) /\ stage' = "value" /\ waiting' = FALSE
                 /\ UNCHANGED <<leftover, listening, rows, err, cancelled, unhalted>>
        <5>1. stage = "read" /\ UNCHANGED strayed
          BY <4>3 DEF AnsweredAt, Answered, gdbVars, imageVars
        <5> QED
          BY <1>p, <4>3, <5>1 DEF EndAgrees, Early, Loop, Ending
      <4> QED
        BY <3>3, <4>1, <4>2, <4>3 DEF ReadIteration
    <3>4. CASE WriteFault
      <4>1. "value" \in Loop /\ "target" \in Loop /\ "observe" \in Loop
            /\ "target" \notin Ending \cup Early /\ "observe" \notin Ending \cup Early
        BY DEF Loop, Ending, Early
      <4> QED
        BY <1>m, <3>4, <4>1 DEF WriteFault
    <3>5. CASE ReadRow
      <4>1. CASE SendAt("row", Operation("row"))
        BY <1>o, <4>1
      <4>2. CASE FailedAt("row")
        BY <1>f, <4>2 DEF Loop
      <4>3. CASE /\ AnsweredAt("row")
                 /\ rows' = Append(rows, NewRow)
                 /\ stage' = "next" /\ waiting' = FALSE
                 /\ UNCHANGED <<leftover, listening, chosen, err, cancelled, unhalted>>
        <5>1. stage = "row" /\ UNCHANGED strayed
          BY <4>3 DEF AnsweredAt, Answered, gdbVars, imageVars
        <5>2. NewRow \in RowType
          BY DEF NewRow, RowType, PictureTypes, ImageType
        <5>3. Len(rows') = n + 1
          BY <1>t, <1>n, <4>3, <5>2, AppendProperties
        <5>4. n < Count
          BY <1>x, <5>1 DEF Loop
        <5>5. stage' \notin Ending \cup Loop \cup Early
          BY <4>3 DEF Ending, Loop, Early
        <5>6. stage \notin Ending
          BY <5>1 DEF Ending
        <5>7. err = "none" /\ cancelled \in BOOLEAN
          BY <5>6 DEF EndAgrees
        <5>8. n + 1 \in Nat /\ n + 1 <= Count
          BY <1>c, <5>4
        <5> QED
          BY <1>y, <4>3, <5>3, <5>5, <5>7, <5>8
      <4> QED
        BY <3>5, <4>1, <4>2, <4>3 DEF ReadRow, NewRow
    <3> QED
      BY <2>6, <3>1, <3>2, <3>3, <3>4, <3>5 DEF Iteration
  <2>7. CASE CloseClient
    <3>1. stage = "close" /\ stage' = "terminate" /\ UNCHANGED <<rows, err, cancelled, strayed>>
      BY <2>7 DEF CloseClient, Close, Proceed, imageVars
    <3> QED
      BY <3>1 DEF EndAgrees, Astray, Behind, Ending, Loop, Early
  <2>8. CASE TerminateProcess
    <3>1. /\ stage = "terminate" /\ stage' \in {"terminate", "ended"}
          /\ UNCHANGED <<rows, err, cancelled, strayed>>
      BY <2>8 DEF TerminateProcess, Proceed, gdbVars, imageVars, engineVars
    <3> QED
      BY <3>1 DEF EndAgrees, Astray, Behind, Ending, Loop, Early
  <2> QED
    BY <1>1, <2>1, <2>2, <2>3, <2>4, <2>5, <2>6, <2>7, <2>8 DEF Engine
<1>2. CASE UserCancels
  <2>1. UNCHANGED <<stage, rows, err, strayed>> /\ cancelled' = TRUE
    BY <1>2 DEF UserCancels, gdbVars, imageVars
  <2> QED
    BY <2>1 DEF EndAgrees, Astray, Behind
<1>3. CASE OpenPort \/ ChildStep
  <2>1. UNCHANGED <<stage, rows, err, cancelled, strayed>>
    BY <1>3 DEF OpenPort, ChildStep, gdbVars, imageVars, engineVars
  <2> QED
    BY <2>1 DEF EndAgrees, Astray, Behind
<1>4. CASE GdbStep
  <2>1. UNCHANGED <<stage, rows, err, cancelled, strayed>>
    BY <1>4 DEF GdbStep, OnSymbols, Connect, Resume, Access, WriteWord, Fail, imageVars
  <2> QED
    BY <2>1 DEF EndAgrees, Astray, Behind
<1>5. CASE ImageStep
  <2>1. UNCHANGED <<stage, rows, err, cancelled>> /\ (strayed' = strayed \/ strayed')
    BY <1>5 DEF ImageStep, ReachInject, ReachObserve, Stray, engineVars
  <2> QED
    BY <2>1 DEF EndAgrees, Astray, Behind
<1> QED
  BY <1>1, <1>2, <1>3, <1>4, <1>5 DEF Next

-----------------------------------------------------------------------------
(* The child *)

(* What most steps of the engine leave alone. *)
Apart ==
  /\ UNCHANGED <<processVars, gdb>>
  /\ stage \notin {"start", "terminate", "ended"} /\ stage' \notin {"start", "ended"}

LEMMA SimpleApart ==
  ASSUME NEW s \in Early \cup Loop, s # "start", NEW operation,
         NEW t \in Early \cup Loop \cup {"next"}, t # "start", Simple(s, operation, t)
  PROVE  Apart
<1>0. s \notin {"start", "terminate", "ended"} /\ t \notin {"start", "ended"}
  BY DEF Early, Loop
<1>1. CASE SendAt(s, operation)
  BY <1>0, <1>1 DEF SendAt, Send, Apart
<1>2. CASE AnsweredAt(s) /\ Proceed(t)
  BY <1>0, <1>2 DEF AnsweredAt, Answered, Proceed, Apart, gdbVars, clientVars
<1>3. CASE FailedAt(s)
  BY <1>0, <1>3 DEF FailedAt, Refused, TimedOut, End, Apart, gdbVars, clientVars
<1> QED
  BY <1>1, <1>2, <1>3, Zenon DEF Simple

LEMMA ContinueApart ==
  ASSUME NEW s \in Loop, NEW wait \in Loop, NEW t \in Loop, ContinueUntil(s, wait, s, t)
  PROVE  Apart
<1>0. /\ s \notin {"start", "terminate", "ended"} /\ wait \notin {"start", "terminate", "ended"}
      /\ t \notin {"start", "terminate", "ended"}
  BY DEF Loop
<1>1. CASE /\ stage = s /\ ~waiting /\ Continue /\ waiting' = TRUE
           /\ UNCHANGED <<leftover, listening, stage, chosen, rows, err, cancelled, unhalted, processVars>>
  BY <1>0, <1>1 DEF Continue, Apart
<1>2. CASE AnsweredAt(s) /\ Proceed(wait)
  BY <1>0, <1>2 DEF AnsweredAt, Answered, Proceed, Apart, gdbVars, clientVars
<1>3. CASE FailedAt(s)
  BY <1>0, <1>3 DEF FailedAt, Refused, TimedOut, End, Apart, gdbVars, clientVars
<1>4. CASE /\ stage = wait /\ TakeStop
           /\ IF Head(stops) = s THEN Proceed(t) ELSE End("wrong stop", "close")
           /\ UNCHANGED processVars
  BY <1>0, <1>4 DEF TakeStop, Proceed, End, Apart
<1>5. CASE /\ stage = wait /\ End("failed", "close")
           /\ UNCHANGED <<processVars, gdbVars>>
  BY <1>0, <1>5 DEF End, Apart, gdbVars, clientVars
<1> QED
  BY <1>1, <1>2, <1>3, <1>4, <1>5, Zenon DEF ContinueUntil

LEMMA HandledKept ==
  ASSUME ProcessHandled, Next PROVE ProcessHandled'
<1> USE DEF GoneOrKilled, Terminated
<1>0. Len(<<>>) = 0
  OBVIOUS
<1>c. /\ written = <<>> /\ copied = 0
      /\ \A c : c = 0 => c \in 0 .. Len(<<>>)
  BY <1>0 DEF ProcessHandled, ProcessTypeOK
(* The process as it was. *)
<1>u. ASSUME UNCHANGED processVars, gdb' \in {"none", "up", "gone", "wedged"},
             stage' = "start" => stage = "start",
             stage \in {"terminate", "ended"} => stage' \in {"terminate", "ended"},
             stage' = "ended" => stage = "ended" \/ Terminated \/ child = "none"
      PROVE  ProcessHandled'
  BY <1>u DEF ProcessHandled, ProcessTypeOK, processVars
<1>a. ASSUME Apart PROVE ProcessHandled'
  BY <1>a, <1>u DEF Apart, ProcessHandled
<1>1. CASE Engine
  <2>1. CASE StartQemu
    <3>1. CASE Start /\ Proceed("port") /\ UNCHANGED gdbVars
      BY <1>c, <2>1, <3>1 DEF StartQemu, Start, Proceed, gdbVars, clientVars, ProcessHandled,
                              ProcessTypeOK
    <3>2. CASE End("failed", "ended") /\ UNCHANGED processVars /\ UNCHANGED gdbVars
      <4>1. /\ stage = "start" /\ child = "none" /\ stage' = "ended"
            /\ gdb' = gdb /\ UNCHANGED processVars
        BY <2>1, <3>2 DEF StartQemu, End, ProcessHandled, gdbVars, clientVars
      <4> QED
        BY <1>u, <4>1 DEF ProcessHandled
    <3> QED
      BY <2>1, <3>1, <3>2 DEF StartQemu
  <2>2. CASE WaitForGdbPort
    BY <1>a, <2>2 DEF WaitForGdbPort, Proceed, End, Apart, gdbVars, clientVars
  <2>3. CASE NewClient
    <3>1. /\ stage = "gdb" /\ stage' \in {"setup", "terminate"} /\ UNCHANGED processVars
          /\ gdb' = gdb \/ gdb' = "up"
      BY <2>3 DEF NewClient, StartGdb, Proceed, End, gdbVars, clientVars
    <3> QED
      BY <1>u, <3>1 DEF ProcessHandled
  <2>4. CASE SetUp
    <3>1. /\ "setup" \in Early /\ "connect" \in Early /\ "breakpoints" \in Early
          /\ "next" \in {"next"}
      BY DEF Early
    <3> QED
      BY <1>a, <2>4, <3>1, SimpleApart DEF SetUp
  <2>5. CASE NextIteration
    BY <1>a, <2>5 DEF NextIteration, Proceed, End, Apart, gdbVars, clientVars
  <2>6. CASE Iteration
    <3>0. /\ "inject" \in Loop /\ "await inject" \in Loop /\ "read" \in Loop
          /\ "value" \in Loop /\ "target" \in Loop /\ "observe" \in Loop
          /\ "await observe" \in Loop /\ "row" \in Loop
      BY DEF Loop
    <3>1. CASE ContinueUntil("inject", "await inject", "inject", "read")
      BY <1>a, <3>0, <3>1, ContinueApart
    <3>2. CASE ContinueUntil("observe", "await observe", "observe", "row")
      BY <1>a, <3>0, <3>2, ContinueApart
    <3>3. CASE ReadIteration
      BY <1>a, <3>3 DEF ReadIteration, SendAt, Send, AnsweredAt, Answered, FailedAt, Refused,
                        TimedOut, End, Apart, gdbVars, clientVars
    <3>4. CASE WriteFault
      BY <1>a, <3>0, <3>4, SimpleApart DEF WriteFault
    <3>5. CASE ReadRow
      BY <1>a, <3>5 DEF ReadRow, SendAt, Send, AnsweredAt, Answered, FailedAt, Refused,
                        TimedOut, End, Apart, gdbVars, clientVars
    <3> QED
      BY <2>6, <3>1, <3>2, <3>3, <3>4, <3>5 DEF Iteration
  <2>7. CASE CloseClient
    <3>1. /\ stage' = "terminate" /\ gdb' \in {"gone", "wedged"} /\ UNCHANGED processVars
      BY <2>7 DEF CloseClient, Close, Proceed
    <3> QED
      BY <1>u, <3>1
  <2>8. CASE TerminateProcess
    <3>1. CASE term = "idle" /\ Terminate /\ UNCHANGED <<engineVars, gdbVars>>
      BY <2>8, <3>1 DEF TerminateProcess, Terminate, Exited, ProcessHandled, ProcessTypeOK,
                        engineVars, gdbVars, clientVars
    <3>2. CASE Terminated /\ Proceed("ended") /\ UNCHANGED <<processVars, gdbVars>>
      BY <1>u, <3>2 DEF Proceed, ProcessHandled, gdbVars, clientVars
    <3> QED
      BY <2>8, <3>1, <3>2 DEF TerminateProcess
  <2> QED
    BY <1>1, <2>1, <2>2, <2>3, <2>4, <2>5, <2>6, <2>7, <2>8 DEF Engine
<1>2. CASE UserCancels \/ OpenPort
  BY <1>2, <1>u DEF UserCancels, OpenPort, gdbVars, clientVars, ProcessHandled
<1>3. CASE ChildStep
  <2>1. UNCHANGED <<stage, gdb>>
    BY <1>3 DEF ChildStep, gdbVars, clientVars, engineVars
  <2>2. CASE Die
    BY <2>1, <2>2 DEF Die, ProcessHandled, ProcessTypeOK
  <2>3. CASE CopyStderr
    BY <1>0, <1>c, <2>3 DEF CopyStderr
  <2>4. CASE Reap
    BY <2>1, <2>4 DEF Reap, ProcessHandled, ProcessTypeOK
  <2>5. CASE ReapSeen
    BY <2>1, <2>5 DEF ReapSeen, ProcessHandled, ProcessTypeOK
  <2>6. CASE TermTimeout
    BY <2>1, <2>6 DEF TermTimeout, ProcessHandled, ProcessTypeOK
  <2>7. CASE KillTimeout
    BY <2>1, <2>7 DEF KillTimeout, ProcessHandled, ProcessTypeOK
  <2> QED
    BY <1>3, <2>2, <2>3, <2>4, <2>5, <2>6, <2>7 DEF ChildStep, ProcessStep
<1>4. CASE GdbStep
  <2>1. UNCHANGED <<processVars, stage, gdb>>
    BY <1>4 DEF GdbStep, OnSymbols, Connect, Resume, Access, WriteWord, Fail
  <2> QED
    BY <1>u, <2>1 DEF ProcessHandled
<1>5. CASE ImageStep
  <2>1. UNCHANGED <<processVars, stage, gdb>>
    BY <1>5 DEF ImageStep, ReachInject, ReachObserve, Stray, engineVars
  <2> QED
    BY <1>u, <2>1 DEF ProcessHandled
<1> QED
  BY <1>1, <1>2, <1>3, <1>4, <1>5 DEF Next

-----------------------------------------------------------------------------
(* The image of an earlier session *)

LEMMA LeftoverStays ==
  ASSUME Next \/ UNCHANGED vars PROVE leftover' = leftover
<1>1. CASE Engine
  <2>1. CASE StartQemu \/ WaitForGdbPort \/ NewClient \/ NextIteration
    BY <2>1 DEF StartQemu, WaitForGdbPort, NewClient, NextIteration, Proceed, End
  <2>2. ASSUME NEW s, NEW operation, NEW t, Simple(s, operation, t) PROVE leftover' = leftover
    BY <2>2 DEF Simple, SendAt, AnsweredAt, FailedAt, Proceed, End
  <2>3. ASSUME NEW s, NEW wait, NEW stop, NEW t, ContinueUntil(s, wait, stop, t)
        PROVE  leftover' = leftover
    BY <2>3 DEF ContinueUntil, AnsweredAt, FailedAt, Proceed, End
  <2>4. CASE SetUp
    BY <2>2, <2>4 DEF SetUp
  <2>5. CASE Iteration
    <3>1. CASE ReadIteration \/ ReadRow
      BY <3>1 DEF ReadIteration, ReadRow, SendAt, AnsweredAt, FailedAt, End
    <3>2. CASE WriteFault
      BY <2>2, <3>2 DEF WriteFault
    <3> QED
      BY <2>3, <2>5, <3>1, <3>2 DEF Iteration
  <2>6. CASE CloseClient \/ TerminateProcess
    BY <2>6 DEF CloseClient, TerminateProcess, Proceed, engineVars
  <2> QED
    BY <1>1, <2>1, <2>4, <2>5, <2>6 DEF Engine
<1>2. CASE UserCancels \/ OpenPort \/ ChildStep \/ GdbStep \/ ImageStep
  BY <1>2 DEF UserCancels, OpenPort, ChildStep, GdbStep, ImageStep, engineVars
<1>3. CASE UNCHANGED vars
  BY <1>3 DEF vars, engineVars
<1> QED
  BY <1>1, <1>2, <1>3 DEF Next

LEMMA OutOfStepKept ==
  ASSUME PictureTypes, CommandAgrees, RunningAgrees, OutOfStep, Moves, leftover' = leftover
  PROVE  OutOfStep'
<1> USE DEF ToInject, ToObserve, Resumed, Answering
<1>t. applied \in Seq([iteration : Nat, fault : FaultType])
  BY DEF PictureTypes
<1>1. CASE Rests
  BY <1>1 DEF Rests, picture, imageVars, OutOfStep
<1>2. CASE Quits
  BY <1>2 DEF Quits, imageVars, OutOfStep
<1>3. CASE SetsOut \/ Begins
  <2>1. /\ stage' \in Early \cup {"next", "inject"} /\ waiting' = FALSE
        /\ stage \notin Ending \cup {"inject", "await inject"}
        /\ UNCHANGED <<command, stops, imageVars, rows>>
    BY <1>3 DEF SetsOut, Begins, Goes, Early, Ending
  <2>2. ~ToInject /\ ~ToInject'
    BY <2>1 DEF Early
  <2> QED
    BY <2>1, <2>2 DEF imageVars, OutOfStep
<1>4. CASE Awaits
  <2>1. stage = "inject"
    BY <1>4 DEF Awaits, Goes, OutOfStep, Early, Ending
  <2>2. /\ stage' = "await inject" /\ ToInject /\ ToInject' /\ stage \notin Ending
        /\ UNCHANGED <<command, stops, imageVars, rows>>
    BY <1>4, <2>1 DEF Awaits, Answer, Goes, Ending
  <2> QED
    BY <2>2 DEF imageVars, OutOfStep
<1>5. CASE Wrote \/ AsksWord \/ Chooses \/ Reports
  <2>1. stage \in {"value", "target", "read", "row"}
    BY <1>5 DEF Wrote, AsksWord, Chooses, Reports, Goes
  <2> QED
    BY <2>1 DEF OutOfStep, Early, Ending
<1>6. CASE Asks \/ Continues
  <2>1. /\ ~waiting /\ stage' = stage /\ UNCHANGED <<imageVars, rows>> /\ reply' = "none"
        /\ stage # "await inject"
    BY <1>6 DEF Asks, Continues
  <2>3. command'.op \notin {"value", "target"}
    <3>1. CASE Asks
      BY <3>1 DEF Asks, Operation, OperationAt
    <3>2. CASE Continues
      BY <3>2 DEF Continues, Operation
    <3> QED
      BY <1>6, <3>1, <3>2
  <2>4. ~ToInject /\ ~ToInject'
    BY <2>1
  <2> QED
    BY <2>1, <2>3, <2>4 DEF imageVars, OutOfStep
<1>7. CASE Arrives("await inject", "inject", "read")
  <2>1. stage = "await inject" /\ stops # <<>> /\ Head(stops) = "inject"
    BY <1>7 DEF Arrives
  <2>2. Head(<<"observe">>) = "observe" /\ Head(<<"elsewhere">>) = "elsewhere"
    OBVIOUS
  <2>3. ~running /\ ToInject /\ stage \notin Ending
    BY <2>1 DEF RunningAgrees, Ending
  <2>4. stops \in {<<"observe">>, <<"elsewhere">>}
    BY <2>1, <2>3 DEF RunningAgrees, OutOfStep
  <2> QED
    BY <2>1, <2>2, <2>4
<1>8. CASE Arrives("await observe", "observe", "row")
  BY <1>8 DEF Arrives, OutOfStep, Early, Ending
<1>9. CASE GdbMoves
  <2>w. ~WriteWord
    BY DEF WriteWord, OutOfStep
  <2>1. /\ command.op # "none" /\ command'.op = "none"
        /\ UNCHANGED <<stage, waiting, strayed, image, applied, rows>>
    BY <1>9, <2>w DEF GdbMoves, Host, Answers, Resume, Done, Nothing, Operation
  <2>2. ~running /\ reply = "none"
    BY <2>1 DEF RunningAgrees, CommandAgrees
  <2>3. ASSUME ToInject', ~running', stage \notin Ending PROVE FALSE
    <3>1. stage = "inject" /\ reply' = "ok"
      BY <2>1, <2>3 DEF CommandAgrees, OperationAt
    <3>2. command.op = "continue"
      BY <2>1, <2>3, <3>1 DEF CommandAgrees, OperationAt
    <3> QED
      BY <1>9, <2>3, <3>1, <3>2 DEF GdbMoves, Answers, Resume, WriteWord
  <2>4. ~ToInject \/ stage = "await inject"
    BY <2>2
  <2>5. stage # "await inject"
    BY <2>1 DEF CommandAgrees, OperationAt, Ending
  <2> QED
    BY <2>1, <2>3, <2>4, <2>5 DEF OutOfStep
<1>10. CASE ImageMoves
  <2>1. /\ running /\ stops = <<>> /\ command.op = "none"
        /\ ToInject \/ ToObserve \/ stage \in Ending
    BY <1>10 DEF ImageMoves, ReachInject, ReachObserve, Stray, RunningAgrees
  <2>2. UNCHANGED <<stage, waiting, reply, command, rows>>
    BY <1>10 DEF ImageMoves, Host, ReachInject, ReachObserve, Stray
  <2>3. ToInject \/ stage \in Ending
    BY <2>1 DEF OutOfStep, Early, Ending
  <2>4. CASE ReachInject
    <3>1. /\ image'.at = "inject" /\ image'.fault = image.fault
          /\ image.at \in {"boot", "observe"} /\ UNCHANGED <<strayed, applied>>
      BY <2>4, InjectReached DEF ReachInject
    <3>2. strayed \/ stage \in Ending
      BY <2>1, <3>1 DEF OutOfStep
    <3> QED
      BY <2>2, <3>1, <3>2 DEF OutOfStep
  <2>5. CASE ReachObserve
    <3>1. /\ image'.at = "observe" /\ image'.fault.target = 0
          /\ image.at = "inject" /\ strayed' = strayed /\ ~running' /\ stops' = <<"observe">>
      BY <2>1, <2>5, ObserveReached, FirstStop DEF ReachObserve, Stopped
    <3>2. ToInject' \/ stage \in Ending
      BY <2>2, <2>3
    <3>3. \A i \in 1 .. Len(applied') :
            applied'[i].iteration = leftover.iteration \/ applied'[i].fault.target = 0
      <4> DEFINE new == [iteration |-> image.iteration, fault |-> image.fault]
      <4>1. /\ applied' = Append(applied, new) /\ new \in [iteration : Nat, fault : FaultType]
            /\ new.iteration = image.iteration /\ new.fault = image.fault
        BY <2>5 DEF ReachObserve, PictureTypes, ImageType
      <4> HIDE DEF new
      <4>2. PICK n \in Nat : n = Len(applied)
        BY <1>t, LenProperties
      <4>3. /\ Len(applied') = n + 1 /\ applied'[n + 1] = new
            /\ \A i \in 1 .. n : applied'[i] = applied[i]
        BY <1>t, <4>1, <4>2, AppendProperties
      <4>4. new.iteration = leftover.iteration \/ new.fault.target = 0
        BY <3>1, <4>1 DEF OutOfStep
      <4>5. \A i \in 1 .. n :
              applied[i].iteration = leftover.iteration \/ applied[i].fault.target = 0
        BY <4>2 DEF OutOfStep
      <4>6. \A i \in 1 .. n + 1 : i \in 1 .. n \/ i = n + 1
        OBVIOUS
      <4> QED
        BY <4>3, <4>4, <4>5, <4>6
    <3> QED
      BY <2>2, <3>1, <3>2, <3>3 DEF OutOfStep
  <2>6. CASE Stray
    <3>1. image'.at = "lost" /\ strayed' /\ applied' = applied
      BY <2>6, WentAstray DEF Stray
    <3> QED
      BY <2>2, <3>1 DEF OutOfStep
  <2> QED
    BY <1>10, <2>4, <2>5, <2>6 DEF ImageMoves
<1> QED
  BY <1>1, <1>2, <1>3, <1>4, <1>5, <1>6, <1>7, <1>8, <1>9, <1>10, Zenon DEF Moves

-----------------------------------------------------------------------------
(* The invariant, and what it says of a campaign *)

LEMMA E2EInit == Init => E2EInv
<1> SUFFICES ASSUME Init PROVE E2EInv
  OBVIOUS
<1>0. Len(<<>>) = 0
  OBVIOUS
<1>e. /\ <<>> \in Seq(RowType) /\ <<>> \in Seq(Stops)
      /\ <<>> \in Seq([iteration : Nat, fault : FaultType]) /\ <<>> \in Seq({"pass", "fail"})
  BY EmptySeq
<1>w. 0 \in Words
  BY WordsChosen
<1>1. /\ stage = "start" /\ waiting = FALSE /\ chosen = NoFault /\ rows = <<>> /\ err = "none"
      /\ cancelled = FALSE /\ unhalted = FALSE
      /\ gdb = "none" /\ command = Nothing /\ reply = "none" /\ stops = <<>>
      /\ remote = "none" /\ running = FALSE /\ strayed = FALSE
      /\ applied = <<>> /\ counted = <<>>
  BY DEF Init, NoGdb
<1>i. /\ leftover \in FormerImages \cup {NoImage}
      /\ image = IF PortTaken THEN leftover ELSE Image("boot", 0)
  BY DEF Init
<1>o. ASSUME NEW old \in FormerImages
      PROVE  /\ old \in ImageType /\ old.at \in {"boot", "inject", "observe"}
             /\ old.at # "inject" => old.fault.target = 0
  <2>1. CASE old = Image("boot", 0)
    BY <1>w, <2>1 DEF Image, NoFault, ImageType, FaultType
  <2>2. CASE old # Image("boot", 0)
    <3>1. /\ old \in [at : {"inject", "observe"}, iteration : 1 .. Former, fault : FormerWords,
                       lastTarget : {0} \cup {word.target : word \in FormerWords},
                       passes : 0 .. Former, failures : 0 .. Former]
          /\ old.at = "observe" => old.fault.target = 0
      BY <2>2 DEF FormerImages
    <3>2. FormerWords \subseteq FaultType /\ Former \in Nat
      BY E2EAssumption DEF FaultType, Words
    <3>3. {0} \cup {word.target : word \in FormerWords} \subseteq Words
      BY <1>w, <3>2 DEF FaultType
    <3>4. 1 .. Former \subseteq Nat /\ 0 .. Former \subseteq Nat
      BY <3>2
    <3>5. old \in ImageType
      BY <3>1, <3>2, <3>3, <3>4 DEF ImageType
    <3> QED
      BY <3>1, <3>5
  <2> QED
    BY <2>1, <2>2
<1>b. /\ Image("boot", 0) \in ImageType /\ Image("boot", 0).at = "boot"
      /\ Image("boot", 0).fault.target = 0
      /\ Image("boot", 0).passes = 0 /\ Image("boot", 0).failures = 0
  BY <1>w DEF Image, NoFault, ImageType, FaultType
<1>c. /\ NoImage.at = "none" /\ NoImage.iteration = 0
      /\ NoImage.passes = 0 /\ NoImage.failures = 0
  BY DEF NoImage, Image
<1>2. /\ image \in ImageType /\ image.at \in {"boot", "inject", "observe"}
      /\ image.at # "inject" => image.fault.target = 0
      /\ LeftoverTypes
      /\ image.passes = leftover.passes /\ image.failures = leftover.failures
      /\ Behind <=> image.at = "inject"
      /\ Behind => image.iteration = leftover.iteration
  <2>1. CASE leftover = NoImage
    <3>1. image = Image("boot", 0)
      BY <1>i, <2>1 DEF PortTaken
    <3> QED
      BY <1>b, <1>c, <2>1, <3>1 DEF LeftoverTypes, Behind
  <2>2. CASE leftover # NoImage
    <3>1. image = leftover /\ leftover \in FormerImages
      BY <1>i, <2>2 DEF PortTaken
    <3> QED
      BY <1>o, <3>1 DEF LeftoverTypes, Behind, ImageType
  <2> QED
    BY <2>1, <2>2
<1>3. command.op = "none" /\ command \in [op : Names, value : Words]
  BY <1>1, <1>w DEF Nothing, Operation, Names
<1>4. ~ToInject /\ ~ToObserve /\ ~Struck
  BY <1>1 DEF ToInject, ToObserve, Resumed, Answering, Struck
<1>5. PictureTypes
  <2>1. Len(stops) <= StopCapacity
    BY <1>0, <1>1, E2EAssumption
  <2>2. chosen.target \in Words /\ chosen.value \in Words
    BY <1>1, <1>w DEF NoFault
  <2>3. stage \in Stages
    BY <1>1 DEF Stages, Early
  <2> QED
    BY <1>1, <1>2, <1>3, <1>e, <2>1, <2>2, <2>3 DEF PictureTypes, Stops, Remotes
<1>6. ProcessHandled
  <2>1. /\ child = "none" /\ signal = "none" /\ written = <<>> /\ copied = 0
        /\ reaped = FALSE /\ term = "idle"
    BY DEF Init, NoProcess
  <2>2. 0 \in 0 .. 0
    OBVIOUS
  <2>3. ProcessTypeOK
    BY <1>0, <2>1, <2>2 DEF ProcessTypeOK
  <2> QED
    BY <1>1, <2>1, <2>3 DEF ProcessHandled, Terminated
<1>7. EndAgrees
  <2>1. Len(rows) <= Count
    BY <1>0, <1>1, E2EAssumption
  <2>2. stage \notin Ending \cup Loop
    BY <1>1 DEF Ending, Loop
  <2> QED
    BY <1>1, <2>1, <2>2 DEF EndAgrees
<1>8. CommandAgrees
  BY <1>1, <1>3 DEF CommandAgrees
<1>9. RunningAgrees
  BY <1>1, <1>2, <1>3, <1>4 DEF RunningAgrees
<1>10. ASSUME ~Behind PROVE InStep
  <2>1. PlaceAgrees
    BY <1>1, <1>2, <1>4, <1>10 DEF PlaceAgrees
  <2>2. FaultAgrees
    BY <1>1, <1>2, <1>4, <1>10 DEF FaultAgrees, Aimed, Answering
  <2>3. AppliedAgrees
    BY <1>0, <1>1, <1>4 DEF AppliedAgrees
  <2>4. RowsAgree
    <3>1. Passes(0) = image.passes /\ Failed(0) = image.failures
      BY <1>2 DEF Passes, Failed
    <3>2. image.passes \in Nat /\ image.failures \in Nat
      BY <1>2 DEF ImageType
    <3> QED
      BY <1>0, <1>1, <1>4, <3>1, <3>2 DEF RowsAgree, CountersAgree, LastAgrees
  <2> QED
    BY <2>1, <2>2, <2>3, <2>4 DEF InStep
<1>11. ASSUME Behind PROVE OutOfStep
  <2>1. stage \in Early
    BY <1>1 DEF Early
  <2> QED
    BY <1>0, <1>1, <1>2, <1>3, <1>4, <1>11, <2>1 DEF OutOfStep, Nothing, Operation
<1> QED
  BY <1>2, <1>5, <1>6, <1>7, <1>8, <1>9, <1>10, <1>11 DEF E2EInv

LEMMA E2EStep == E2EInv /\ [Next]_vars => E2EInv'
<1> SUFFICES ASSUME E2EInv, [Next]_vars PROVE E2EInv'
  OBVIOUS
<1>1. CASE Next
  <2>0. /\ PictureTypes /\ LeftoverTypes /\ ProcessHandled /\ EndAgrees /\ CommandAgrees
        /\ RunningAgrees /\ (Behind => OutOfStep)
        /\ ~Behind => PlaceAgrees /\ FaultAgrees /\ AppliedAgrees /\ RowsAgree
    BY DEF E2EInv, InStep
  <2>l. leftover' = leftover
    BY <1>1, LeftoverStays
  <2>b. (Behind' <=> Behind) /\ LeftoverTypes'
    BY <2>0, <2>l DEF Behind, LeftoverTypes
  <2>1. Moves
    BY <1>1, <2>0, StepsAreMoves DEF PictureTypes
  <2>2. PictureTypes'
    BY <2>0, <2>1, TypesKept
  <2>3. ProcessHandled'
    BY <1>1, <2>0, HandledKept
  <2>4. EndAgrees'
    BY <1>1, <2>0, <2>l, EndKept
  <2>5. CommandAgrees'
    BY <2>0, <2>1, CommandKept
  <2>6. RunningAgrees'
    BY <2>0, <2>1, RunningKept
  <2>7. ASSUME ~Behind PROVE InStep'
    <3>0. PlaceAgrees /\ FaultAgrees /\ AppliedAgrees /\ RowsAgree
      BY <2>0, <2>7
    <3>1. PlaceAgrees'
      BY <2>0, <2>1, <3>0, PlaceKept
    <3>2. FaultAgrees'
      BY <2>0, <2>1, <3>0, FaultKept
    <3>3. AppliedAgrees'
      BY <2>0, <2>1, <3>0, AppliedKept
    <3>4. RowsAgree'
      BY <2>0, <2>1, <2>l, <3>0, RowsKept
    <3> QED
      BY <3>1, <3>2, <3>3, <3>4 DEF InStep
  <2>8. ASSUME Behind PROVE OutOfStep'
    BY <2>0, <2>1, <2>8, <2>l, OutOfStepKept
  <2> QED
    BY <2>2, <2>3, <2>4, <2>5, <2>6, <2>7, <2>8, <2>b, Zenon DEF E2EInv
<1>2. CASE UNCHANGED vars
  <2>1. UNCHANGED <<processVars, gdbVars, engineVars>>
    BY <1>2 DEF vars
  <2>2. /\ UNCHANGED <<gdb, command, reply, stops, remote, image, running, applied, counted, strayed>>
        /\ UNCHANGED <<leftover, stage, waiting, chosen, rows, err, cancelled, unhalted>>
    BY <2>1 DEF gdbVars, clientVars, imageVars, engineVars
  <2>3. PictureTypes'
    BY <2>2 DEF E2EInv, PictureTypes
  <2>c. CommandAgrees'
    BY <2>2 DEF E2EInv, CommandAgrees, OperationAt
  <2>e. EndAgrees'
    BY <2>2 DEF E2EInv, EndAgrees, Astray, Behind
  <2>b. (Behind' <=> Behind) /\ LeftoverTypes'
    BY <2>2 DEF Behind, LeftoverTypes, E2EInv
  <2>4. ProcessHandled'
    BY <2>1, <2>2 DEF E2EInv, ProcessHandled, ProcessTypeOK, processVars, Terminated, GoneOrKilled
  <2>5. (ToInject' <=> ToInject) /\ (ToObserve' <=> ToObserve) /\ (Struck' <=> Struck)
    BY <2>2 DEF ToInject, ToObserve, Struck, Resumed, Answering
  <2>6. RunningAgrees'
    BY <2>2, <2>5 DEF E2EInv, RunningAgrees
  <2>7. ASSUME ~Behind PROVE InStep'
    <3>1. PlaceAgrees'
      BY <2>2, <2>5, <2>7 DEF E2EInv, InStep, PlaceAgrees
    <3>2. FaultAgrees'
      BY <2>2, <2>5, <2>7 DEF E2EInv, InStep, FaultAgrees, Answering
    <3>3. AppliedAgrees'
      BY <2>2, <2>5, <2>7 DEF E2EInv, InStep, AppliedAgrees
    <3>4. RowsAgree'
      BY <2>2, <2>5, <2>7
         DEF E2EInv, InStep, RowsAgree, RowAgrees, CountersAgree, LastAgrees, Passes, Failed, One
    <3> QED
      BY <3>1, <3>2, <3>3, <3>4 DEF InStep
  <2>8. ASSUME Behind PROVE OutOfStep'
    BY <2>2, <2>5, <2>8 DEF E2EInv, OutOfStep
  <2> QED
    BY <2>3, <2>4, <2>6, <2>7, <2>8, <2>b, <2>c, <2>e DEF E2EInv
<1> QED
  BY <1>1, <1>2

THEOREM E2EInvariant == Spec => []E2EInv
<1> QED
  BY E2EInit, E2EStep, PTL DEF Spec

(* A session is sound from its start to its end, however many iterations   *)
(* it has and whatever stops the channel holds: gdb is never asked about an*)
(* image that runs, a stop is called wrong only when the image did go      *)
(* astray or was taken over between inject and observe, and QEMU is gone or*)
(* killed in the end.                                                      *)
THEOREM SessionsAreSound == Spec => []SessionIsSound
<1>1. E2EInv => SessionIsSound
  <2> SUFFICES ASSUME E2EInv PROVE SessionIsSound
    OBVIOUS
  <2>1. E2ETypeOK
    BY DEF E2EInv, ProcessHandled, PictureTypes, EndAgrees, E2ETypeOK
  <2>2. HaltedWhenAccessed
    BY DEF E2EInv, RunningAgrees, HaltedWhenAccessed
  <2>3. WrongStopIsTheImages
    BY DEF E2EInv, EndAgrees, WrongStopIsTheImages, Astray, Behind
  <2>4. NoQemuLeft
    BY DEF E2EInv, ProcessHandled, NoQemuLeft, Ended
  <2> QED
    BY <2>1, <2>2, <2>3, <2>4 DEF SessionIsSound
<1> QED
  BY E2EInvariant, <1>1, PTL

(* A row's derived result is how the image counted its iteration, or the   *)
(* failure of an earlier session that the first row is taken for.          *)
LEMMA ResultIsTheCount ==
  ASSUME E2EInv, NEW i \in 1 .. Len(rows)
  PROVE  DerivedRows(rows)[i].result = ResultOf(i)
<1>b. InStep /\ LeftoverTypes
  <2>1. Len(<<>>) = 0
    OBVIOUS
  <2>2. rows # <<>>
    BY <2>1
  <2> QED
    BY <2>2 DEF E2EInv, OutOfStep
<1>t. rows \in Seq(RowType) /\ counted \in Seq({"pass", "fail"})
  BY DEF E2EInv, PictureTypes
<1>n. PICK n \in Nat : n = Len(rows)
  BY <1>t, LenProperties
<1>m. PICK m \in Nat : m = Len(counted)
  BY <1>t, LenProperties
<1>1. counted[i] \in {"pass", "fail"}
  <2>1. n <= m
    <3>1. Len(rows) <= Len(applied) /\ Len(counted) = Len(applied)
      BY <1>b DEF InStep, AppliedAgrees
    <3> QED
      BY <1>n, <1>m, <3>1
  <2>2. i \in 1 .. m
    BY <1>n, <2>1
  <2> QED
    BY <1>t, <1>m, <2>2, ElementOfSeq
<1> DEFINE previous == IF i = 1 THEN NoRow ELSE rows[i - 1]
<1>2. /\ i = 1 => previous.passes = 0 /\ previous.failures = 0
      /\ i = 1 => Passes(i - 1) = leftover.passes /\ Failed(i - 1) = leftover.failures
      /\ i # 1 => previous.passes = Passes(i - 1) /\ previous.failures = Failed(i - 1)
  BY DEF Passes, Failed, NoRow
<1>3. Passes(i - 1) \in Nat /\ Failed(i - 1) \in Nat
  <2>1. i # 1 => i - 1 \in 1 .. n
    BY <1>n
  <2>2. i # 1 => rows[i - 1] \in RowType
    BY <1>t, <1>n, <2>1, ElementOfSeq
  <2> QED
    BY <1>b, <2>2 DEF Passes, Failed, RowType, LeftoverTypes
<1>4. /\ rows[i].passes = Passes(i - 1) + One("pass", i)
      /\ rows[i].failures = Failed(i - 1) + One("fail", i)
  BY <1>b DEF InStep, RowsAgree, RowAgrees
<1>d. DerivedRows(rows)[i].result
        = Result(Gain(previous.passes, rows[i].passes), Gain(previous.failures, rows[i].failures))
  <2>1. i \in DOMAIN rows
    BY <1>t
  <2>2. DerivedRows(rows)[i] = Derived(previous, rows[i])
    BY <2>1 DEF DerivedRows
  <2>3. Derived(previous, rows[i]).result
          = Result(Gain(previous.passes, rows[i].passes), Gain(previous.failures, rows[i].failures))
    BY DEF Derived
  <2> QED
    BY <2>2, <2>3, Zenon
<1> HIDE DEF previous
<1>o. /\ counted[i] = "pass" => One("pass", i) = 1 /\ One("fail", i) = 0
      /\ counted[i] = "fail" => One("pass", i) = 0 /\ One("fail", i) = 1
  BY DEF One
<1>r. /\ \A gained, lost \in Nat : lost > 0 => Result(gained, lost) = "fail"
      /\ \A gained \in Nat : gained > 0 => Result(gained, 0) = "pass"
  BY DEF Result
<1>5. CASE i = 1
  <2>1. /\ Gain(previous.passes, rows[i].passes) = leftover.passes + One("pass", i)
        /\ Gain(previous.failures, rows[i].failures) = leftover.failures + One("fail", i)
    BY <1>1, <1>2, <1>4, <1>5, <1>b, <1>o DEF Gain, LeftoverTypes
  <2>2. CASE leftover.failures > 0 \/ counted[i] = "fail"
    <3>1. ResultOf(i) = "fail"
      BY <1>5, <2>2 DEF ResultOf
    <3>2. leftover.failures + One("fail", i) > 0
      BY <1>1, <1>b, <1>o, <2>2 DEF LeftoverTypes
    <3>3. leftover.passes + One("pass", i) \in Nat /\ leftover.failures + One("fail", i) \in Nat
      BY <1>1, <1>b, <1>o DEF LeftoverTypes
    <3> QED
      BY <1>d, <1>r, <2>1, <3>1, <3>2, <3>3
  <2>3. CASE leftover.failures = 0 /\ counted[i] = "pass"
    <3>1. ResultOf(i) = "pass"
      BY <2>3 DEF ResultOf
    <3>2. leftover.failures + One("fail", i) = 0
      BY <1>o, <2>3
    <3>3. leftover.passes + One("pass", i) \in Nat /\ leftover.passes + One("pass", i) > 0
      BY <1>o, <1>b, <2>3 DEF LeftoverTypes
    <3> QED
      BY <1>d, <1>r, <2>1, <3>1, <3>2, <3>3
  <2> QED
    BY <1>1, <1>b, <2>2, <2>3 DEF LeftoverTypes
<1>6. CASE i # 1
  <2>1. /\ Gain(previous.passes, rows[i].passes) = One("pass", i)
        /\ Gain(previous.failures, rows[i].failures) = One("fail", i)
    BY <1>1, <1>2, <1>3, <1>4, <1>6, <1>o DEF Gain
  <2>2. ResultOf(i) = counted[i]
    BY <1>6 DEF ResultOf
  <2> QED
    BY <1>1, <1>d, <1>o, <1>r, <2>1, <2>2
<1> QED
  BY <1>5, <1>6

(* The rows of a campaign of any length are what happened in the image:    *)
(* consecutive iterations of one process, each with the fault chosen for   *)
(* it, applied whole, and counted the way the row's result says; and a     *)
(* campaign is a success only if every one of them passed; the exceptions  *)
(* are those of an image an earlier session left behind.                   *)
THEOREM CampaignsAreTheImages == Spec => []CampaignIsTheImages
<1>1. E2EInv => CampaignIsTheImages
  <2> SUFFICES ASSUME E2EInv PROVE CampaignIsTheImages
    OBVIOUS
  <2>b. CASE Behind
    <3>1. rows = <<>> /\ Len(<<>>) = 0
      BY <2>b DEF E2EInv, OutOfStep
    <3>2. FaultsAreWhole
      <4>1. /\ applied \in Seq([iteration : Nat, fault : FaultType])
            /\ leftover.iteration \in Nat
        BY DEF E2EInv, PictureTypes, LeftoverTypes
      <4>2. DOMAIN applied = 1 .. Len(applied)
        BY <4>1
      <4>3. \A i \in DOMAIN applied :
              applied[i].iteration = leftover.iteration \/ applied[i].fault.target = 0
        BY <2>b, <4>2 DEF E2EInv, OutOfStep
      <4>4. ~(leftover.iteration > leftover.iteration)
        BY <4>1
      <4> QED
        BY <4>3, <4>4 DEF FaultsAreWhole
    <3>3. ~(Ended /\ err = "none")
      BY <3>1, E2EAssumption DEF E2EInv, EndAgrees, Ended, Ending
    <3>4. DOMAIN rows = {}
      BY <3>1
    <3>5. RowsAreTheIterations /\ EveryRowIsFaulted /\ SuccessIsEveryPass
      BY <3>3, <3>4 DEF RowsAreTheIterations, EveryRowIsFaulted, SuccessIsEveryPass
    <3> QED
      BY <3>2, <3>5 DEF CampaignIsTheImages
  <2> SUFFICES ASSUME ~Behind PROVE CampaignIsTheImages
    BY <2>b
  <2>s. InStep /\ LeftoverTypes
    BY DEF E2EInv
  <2>t. /\ rows \in Seq(RowType) /\ counted \in Seq({"pass", "fail"})
        /\ applied \in Seq([iteration : Nat, fault : FaultType])
    BY DEF E2EInv, PictureTypes
  <2>n. PICK n \in Nat : n = Len(rows)
    BY <2>t, LenProperties
  <2>m. PICK m \in Nat : m = Len(applied)
    BY <2>t, LenProperties
  <2>l. n <= m /\ Len(counted) = m
    BY <2>n, <2>m, <2>s DEF InStep, AppliedAgrees
  <2>d. DOMAIN rows = 1 .. n /\ DOMAIN applied = 1 .. m
    BY <2>t, <2>n, <2>m
  <2>r. \A i \in 1 .. n : RowAgrees(i)
    BY <2>n, <2>s DEF InStep, RowsAgree
  <2>a. \A i \in 1 .. m :
          /\ applied[i].iteration = applied[1].iteration + i - 1
          /\ applied[i].fault.target # 0 =>
               /\ applied[i].fault.target = Choice(applied[i].iteration).target
               /\ applied[i].fault.value = Choice(applied[i].iteration).value
    BY <2>m, <2>s DEF InStep, AppliedAgrees
  <2>1. RowsAreTheIterations
    <3> SUFFICES ASSUME NEW i \in 1 .. n
                 PROVE  /\ rows[i].remote = rows[1].remote
                        /\ rows[i].iteration = rows[1].iteration + i - 1
                        /\ rows[i].iteration = applied[i].iteration
                        /\ rows[i].fault_target = applied[i].fault.target
                        /\ rows[i].fault_target # 0 => rows[i].fault_value = applied[i].fault.value
                        /\ DerivedRows(rows)[i].result = ResultOf(i)
      BY <2>d DEF RowsAreTheIterations
    <3>1. 1 \in 1 .. n /\ i \in 1 .. m
      BY <2>l
    <3>2. RowAgrees(1) /\ RowAgrees(i)
      BY <2>r, <3>1
    <3>3. /\ rows[i].remote = rows[1].remote
          /\ rows[i].iteration = applied[i].iteration /\ rows[1].iteration = applied[1].iteration
          /\ rows[i].fault_target = applied[i].fault.target
          /\ rows[i].fault_target # 0 => rows[i].fault_value = applied[i].fault.value
      BY <3>2 DEF RowAgrees
    <3>4. rows[i].iteration = rows[1].iteration + i - 1
      BY <2>a, <3>1, <3>3
    <3>5. DerivedRows(rows)[i].result = ResultOf(i)
      BY <2>n, ResultIsTheCount
    <3> QED
      BY <3>3, <3>4, <3>5
  <2>2. FaultsAreWhole
    BY <2>a, <2>d DEF FaultsAreWhole
  <2>3. EveryRowIsFaulted
    BY <2>d, <2>r DEF EveryRowIsFaulted, RowAgrees
  <2>4. SuccessIsEveryPass
    <3> SUFFICES ASSUME Ended, err = "none", Success
                 PROVE  /\ Len(rows) = Count /\ \A i \in 1 .. Count : counted[i] = "pass"
                        /\ leftover.failures = 0
      BY DEF SuccessIsEveryPass
    <3>1. Len(rows) = Count /\ n = Count
      BY <2>n DEF Ended, Ending, E2EInv, EndAgrees
    <3>2. n \in 1 .. n /\ Failures = rows[n].failures
      <4>1. n > 0 /\ rows # <<>>
        BY <2>n DEF Success
      <4> QED
        BY <2>n, <4>1 DEF Failures
    <3>3. rows[n].failures = 0
      BY <3>2 DEF Success
    <3>4. \A j \in 1 .. n : counted[j] # "fail"
      BY <2>r, <3>2, <3>3 DEF RowAgrees
    <3>5. \A j \in 1 .. n : counted[j] \in {"pass", "fail"}
      <4>1. \A j \in 1 .. n : j \in 1 .. m
        BY <2>l
      <4> QED
        BY <2>t, <2>l, <4>1, ElementOfSeq
    <3>6. leftover.failures = 0
      BY <2>r, <2>s, <3>2, <3>3 DEF RowAgrees, LeftoverTypes
    <3> QED
      BY <3>1, <3>4, <3>5, <3>6
  <2> QED
    BY <2>1, <2>2, <2>3, <2>4 DEF CampaignIsTheImages
<1> QED
  BY E2EInvariant, <1>1, PTL

-----------------------------------------------------------------------------
(* A campaign as Campaign.tla promises it *)

ReturnedResult ==
  IF stage \notin Ending THEN "running" ELSE IF err \in {"none", "cancelled"} THEN err ELSE "failed"

(* A command is sent, answered or given up without a cancellation, and not *)
(* at the end.                                                             *)
LEMMA SimpleGoesOn ==
  ASSUME NEW s, NEW operation, NEW t, Simple(s, operation, t)
  PROVE  stage = s /\ cancelled' = cancelled /\ rows' = rows
<1>1. CASE SendAt(s, operation)
  BY <1>1 DEF SendAt
<1>2. CASE AnsweredAt(s) /\ Proceed(t)
  BY <1>2 DEF AnsweredAt, Proceed
<1>3. CASE FailedAt(s)
  BY <1>3 DEF FailedAt, End
<1> QED
  BY <1>1, <1>2, <1>3, Zenon DEF Simple

LEMMA ContinueGoesOn ==
  ASSUME NEW s, NEW wait, NEW stop, NEW t, ContinueUntil(s, wait, stop, t)
  PROVE  stage \in {s, wait} /\ cancelled' = cancelled /\ rows' = rows
<1>1. CASE /\ stage = s /\ ~waiting /\ Continue /\ waiting' = TRUE
           /\ UNCHANGED <<leftover, listening, stage, chosen, rows, err, cancelled, unhalted, processVars>>
  BY <1>1
<1>2. CASE AnsweredAt(s) /\ Proceed(wait)
  BY <1>2 DEF AnsweredAt, Proceed
<1>3. CASE FailedAt(s)
  BY <1>3 DEF FailedAt, End
<1>4. CASE /\ stage = wait /\ TakeStop
           /\ IF Head(stops) = stop THEN Proceed(t) ELSE End("wrong stop", "close")
           /\ UNCHANGED processVars
  BY <1>4 DEF Proceed, End
<1>5. CASE /\ stage = wait /\ End("failed", "close")
           /\ UNCHANGED <<processVars, gdbVars>>
  BY <1>5 DEF End
<1> QED
  BY <1>1, <1>2, <1>3, <1>4, <1>5, Zenon DEF ContinueUntil

(* What a step does to what its starter sees: only the user cancels, only  *)
(* ReadRow makes a row, and once the engine has given up it only cleans up.*)
LEMMA StepsSeen ==
  ASSUME Next
  PROVE  \/ UserCancels
         \/ /\ cancelled' = cancelled
            /\ stage \in Ending => stage' \in Ending /\ err' = err
            /\ \/ rows' = rows
               \/ stage = "row" /\ stage' = "next" /\ rows' = Append(rows, NewRow)
<1>1. CASE StartQemu \/ WaitForGdbPort \/ NewClient \/ NextIteration
  BY <1>1 DEF StartQemu, WaitForGdbPort, NewClient, NextIteration, Proceed, End, Ending
<1>2. CASE SetUp
  <2>1. stage \in {"setup", "connect", "breakpoints"} /\ cancelled' = cancelled /\ rows' = rows
    BY <1>2, SimpleGoesOn DEF SetUp
  <2> QED
    BY <2>1 DEF Ending
<1>3. CASE Iteration
  <2>1. CASE \/ ContinueUntil("inject", "await inject", "inject", "read")
             \/ ContinueUntil("observe", "await observe", "observe", "row")
    <3>1. /\ stage \in {"inject", "await inject", "observe", "await observe"}
          /\ cancelled' = cancelled /\ rows' = rows
      BY <2>1, ContinueGoesOn
    <3> QED
      BY <3>1 DEF Ending
  <2>2. CASE ReadIteration
    BY <2>2 DEF ReadIteration, SendAt, AnsweredAt, FailedAt, End, Ending
  <2>3. CASE WriteFault
    <3>1. stage \in {"value", "target"} /\ cancelled' = cancelled /\ rows' = rows
      BY <2>3, SimpleGoesOn DEF WriteFault
    <3> QED
      BY <3>1 DEF Ending
  <2>4. CASE ReadRow
    BY <2>4 DEF ReadRow, SendAt, AnsweredAt, FailedAt, End, Ending, NewRow
  <2> QED
    BY <1>3, <2>1, <2>2, <2>3, <2>4 DEF Iteration
<1>4. CASE CloseClient \/ TerminateProcess
  BY <1>4 DEF CloseClient, TerminateProcess, Proceed, engineVars, Ending
<1>5. CASE OpenPort \/ ChildStep \/ GdbStep \/ ImageStep
  BY <1>5 DEF OpenPort, ChildStep, GdbStep, ImageStep, engineVars
<1> QED
  BY <1>1, <1>2, <1>3, <1>4, <1>5 DEF Next, Engine

LEMMA StepsOfACampaign ==
  E2EInv /\ E2EInv' /\ [Next]_vars => [C!Next]_<<Len(rows), cancelled, ReturnedResult>>
<1> SUFFICES ASSUME E2EInv, E2EInv', [Next]_vars
             PROVE  C!Next \/ UNCHANGED <<Len(rows), cancelled, ReturnedResult>>
  OBVIOUS
<1>t. rows \in Seq(RowType)
  BY DEF E2EInv, PictureTypes
<1>n. PICK n \in Nat : n = Len(rows)
  BY <1>t, LenProperties
<1>1. CASE UserCancels
  <2>1. /\ ~cancelled /\ cancelled' = TRUE /\ rows' = rows /\ ReturnedResult' = ReturnedResult
    BY <1>1 DEF UserCancels, ReturnedResult
  <2>2. cancelled = FALSE
    BY <2>1 DEF E2EInv, EndAgrees
  <2> QED
    BY <2>1 DEF C!Next, C!Cancel, ReturnedResult
<1>2. CASE UNCHANGED vars
  BY <1>2 DEF vars, engineVars, ReturnedResult
<1>3. CASE /\ cancelled' = cancelled /\ stage = "row" /\ stage' = "next"
           /\ rows' = Append(rows, NewRow)
  <2>1. Len(rows') = Len(rows) + 1
    <3>1. NewRow \in RowType
      BY DEF E2EInv, NewRow, RowType, PictureTypes, ImageType
    <3> QED
      BY <1>3, <1>t, <3>1, AppendProperties
  <2>2. Len(rows) < Count
    BY <1>3 DEF E2EInv, EndAgrees, Loop
  <2>3. ReturnedResult = "running" /\ ReturnedResult' = "running"
    BY <1>3 DEF ReturnedResult, Ending
  <2> QED
    BY <1>3, <2>1, <2>2, <2>3 DEF C!Next, C!CompleteOne, ReturnedResult
<1>4. CASE /\ cancelled' = cancelled /\ rows' = rows
           /\ stage \in Ending => stage' \in Ending /\ err' = err
  <2>1. CASE stage \in Ending \/ stage' \notin Ending
    <3>1. stage' \in Ending <=> stage \in Ending
      BY <1>4, <2>1
    <3>2. ReturnedResult' = ReturnedResult
      BY <1>4, <3>1 DEF ReturnedResult
    <3> QED
      BY <1>4, <3>2
  <2>2. CASE stage \notin Ending /\ stage' \in Ending
    <3>1. ReturnedResult = "running"
      BY <2>2 DEF ReturnedResult
    <3>2. err' \in {"none", "failed", "wrong stop", "cancelled"} /\ (err' = "cancelled" => cancelled)
      BY <1>4 DEF E2EInv, EndAgrees
    <3>3. (err' = "none" <=> Len(rows) = Count) /\ Len(rows) <= Count
      BY <1>4, <2>2 DEF E2EInv, EndAgrees
    <3>4. err' # "none" => Len(rows) < Count
      <4>1. Count \in Nat
        BY E2EAssumption
      <4> QED
        BY <1>n, <3>3, <4>1
    <3>5. ReturnedResult' = IF err' \in {"none", "cancelled"} THEN err' ELSE "failed"
      BY <2>2 DEF ReturnedResult
    <3> QED
      BY <1>4, <3>1, <3>2, <3>3, <3>4, <3>5 DEF C!Next, C!End, C!Errors, ReturnedResult
  <2> QED
    BY <2>1, <2>2
<1> QED
  BY <1>1, <1>2, <1>3, <1>4, StepsSeen

(* A campaign of any length is one as Campaign.tla has it: its rows come   *)
(* one at a time, it ends without an error exactly when it has them all,   *)
(* and as cancelled only when the user did.                                *)
THEOREM CampaignRefined == Spec => IsACampaign
<1>1. Init => C!Init
  BY DEF Init, C!Init, Ending
<1>2. E2EInv /\ E2EInv' /\ [Next]_vars => [C!Next]_<<Len(rows), cancelled, ReturnedResult>>
  BY StepsOfACampaign
<1> QED
  BY <1>1, <1>2, E2EInvariant, PTL DEF Spec, IsACampaign, C!Spec, C!campaignVars, ReturnedResult

-----------------------------------------------------------------------------
(* The table of a campaign *)

Places(fields, wanted) == {i \in DOMAIN fields : fields[i] \in wanted}

(* No field comes twice. *)
Distinct(fields) == \A i, j \in DOMAIN fields : fields[i] = fields[j] => i = j

(* Columns.tla, Kept: the fields that are kept, each at a place of its own. *)
LEMMA KeptFields ==
  ASSUME NEW T, NEW fields \in Seq(T), NEW wanted
  PROVE  /\ IsFiniteSet(Places(fields, wanted))
         /\ Kept(fields, wanted) \in Seq(T)
         /\ Len(Kept(fields, wanted)) = Cardinality(Places(fields, wanted))
         /\ ToSet(Kept(fields, wanted)) = ToSet(fields) \cap wanted
         /\ Distinct(fields) => Distinct(Kept(fields, wanted))
<1> DEFINE at == Places(fields, wanted)
           Rank(i) == Cardinality({j \in at : j <= i})
           place == [i \in at |-> Rank(i)]
           Source(n) == CHOOSE i \in at : Rank(i) = n
<1>1. DOMAIN fields = 1 .. Len(fields) /\ Len(fields) \in Nat
  BY LenProperties
<1>2. IsFiniteSet(at) /\ Cardinality(at) \in Nat
  <2>1. IsFiniteSet(1 .. Len(fields))
    BY <1>1, FS_Interval
  <2>2. at \in SUBSET (1 .. Len(fields))
    BY <1>1 DEF Places
  <2> QED
    BY <2>1, <2>2, FS_Subset, FS_CardinalityType
<1>3. \A i \in at : i \in Nat
  BY <1>1 DEF Places
<1>4. ASSUME NEW i \in at
      PROVE  Rank(i) \in 1 .. Cardinality(at)
  <2> DEFINE below == {j \in at : j <= i}
  <2>1. below \in SUBSET at /\ i \in below
    BY <1>3
  <2>2. IsFiniteSet(below) /\ Cardinality(below) <= Cardinality(at)
    BY <1>2, <2>1, FS_Subset
  <2>3. Cardinality(below) \in Nat
    BY <2>2, FS_CardinalityType
  <2>4. Cardinality(below) # 0
    BY <2>1, <2>2, FS_EmptySet
  <2> QED
    BY <1>2, <2>2, <2>3, <2>4
<1>5. ASSUME NEW i \in at, NEW j \in at, i < j
      PROVE  Rank(i) # Rank(j)
  <2> DEFINE lower == {k \in at : k <= i}
             upper == {k \in at : k <= j}
  <2>1. lower \in SUBSET upper /\ j \in upper /\ j \notin lower
    BY <1>3, <1>5
  <2>2. IsFiniteSet(upper)
    BY <1>2, FS_Subset
  <2>3. Cardinality(upper) = Cardinality(lower) => upper = lower
    BY <2>1, <2>2, FS_Subset
  <2> QED
    BY <2>1, <2>3
<1>6. place \in Injection(at, 1 .. Cardinality(at))
  <2>1. place \in [at -> 1 .. Cardinality(at)]
    BY <1>4
  <2>2. ASSUME NEW i \in at, NEW j \in at, place[i] = place[j] PROVE i = j
    <3>1. Rank(i) = Rank(j)
      BY <2>2
    <3>2. i \in Nat /\ j \in Nat
      BY <1>3
    <3>3. i < j \/ j < i \/ i = j
      BY <3>2
    <3> QED
      BY <1>5, <3>1, <3>3
  <2> QED
    BY <2>1, <2>2 DEF Injection, IsInjective
<1>7. place \in Surjection(at, 1 .. Cardinality(at))
  <2>1. /\ IsFiniteSet(1 .. Cardinality(at))
        /\ Cardinality(1 .. Cardinality(at)) = Cardinality(at)
    BY <1>2, FS_Interval
  <2> QED
    BY <1>6, <2>1, FS_Injection
<1>8. \A n \in 1 .. Cardinality(at) : Source(n) \in at /\ Rank(Source(n)) = n
  <2>1. \A n \in 1 .. Cardinality(at) : \E i \in at : Rank(i) = n
    BY <1>7 DEF Surjection
  <2> QED
    BY <2>1
<1>9. \A i \in at : Source(Rank(i)) = i
  <2> TAKE i \in at
  <2>1. Rank(i) \in 1 .. Cardinality(at)
    BY <1>4
  <2>2. Source(Rank(i)) \in at /\ Rank(Source(Rank(i))) = Rank(i)
    BY <1>8, <2>1
  <2> HIDE DEF Source
  <2>3. place[Source(Rank(i))] = place[i]
    BY <2>2
  <2> QED
    BY <1>6, <2>2, <2>3 DEF Injection, IsInjective
<1>10. Kept(fields, wanted) = [n \in 1 .. Cardinality(at) |-> fields[Source(n)]]
  <2>1. at = {i \in DOMAIN fields : fields[i] \in wanted}
    BY DEF Places
  <2> QED
    BY <2>1 DEF Kept
<1> HIDE DEF at, Rank, place, Source
<1>11. \A i \in at : i \in DOMAIN fields /\ fields[i] \in wanted /\ fields[i] \in T
  BY <1>1, ElementOfSeq DEF at, Places
<1>12. Kept(fields, wanted) \in Seq(T) /\ Len(Kept(fields, wanted)) = Cardinality(at)
  BY <1>2, <1>8, <1>10, <1>11, IsASeq, LenProperties
<1>13. ToSet(Kept(fields, wanted)) = ToSet(fields) \cap wanted
  <2>1. ASSUME NEW n \in 1 .. Cardinality(at)
        PROVE  fields[Source(n)] \in ToSet(fields) \cap wanted
    BY <1>8, <1>11 DEF ToSet
  <2>2. ASSUME NEW field \in ToSet(fields) \cap wanted
        PROVE  field \in ToSet(Kept(fields, wanted))
    <3>1. PICK i \in at : field = fields[i]
      BY DEF ToSet, at, Places
    <3>2. Rank(i) \in 1 .. Cardinality(at) /\ Source(Rank(i)) = i
      BY <1>4, <1>9
    <3> QED
      BY <1>10, <3>1, <3>2 DEF ToSet
  <2> QED
    BY <1>10, <2>1, <2>2 DEF ToSet
<1>14. ASSUME Distinct(fields),
              NEW m \in DOMAIN Kept(fields, wanted), NEW n \in DOMAIN Kept(fields, wanted),
              Kept(fields, wanted)[m] = Kept(fields, wanted)[n]
       PROVE  m = n
  <2>1. m \in 1 .. Cardinality(at) /\ n \in 1 .. Cardinality(at)
    BY <1>10
  <2>2. fields[Source(m)] = fields[Source(n)]
    BY <1>10, <1>14, <2>1
  <2>3. Source(m) = Source(n)
    BY <1>8, <1>11, <1>14, <2>1, <2>2 DEF Distinct
  <2> QED
    BY <1>8, <2>1, <2>3
<1> QED
  BY <1>2, <1>12, <1>13, <1>14 DEF at, Distinct

(* A list written out is a sequence of its members. *)
LEMMA ListIsASeq ==
  ASSUME NEW list, NEW n \in Nat, DOMAIN list = 1 .. n, list = [i \in 1 .. n |-> list[i]]
  PROVE  list \in Seq(ToSet(list)) /\ Len(list) = n
<1>1. \A i \in 1 .. n : list[i] \in ToSet(list)
  BY DEF ToSet
<1>2. list \in Seq(ToSet(list))
  BY <1>1, IsASeq
<1> QED
  BY <1>2, LenProperties


(* Two lists, one after the other. *)
Follows(c, a, b, m, n) ==
  /\ DOMAIN c = 1 .. (m + n)
  /\ \A i \in 1 .. m : c[i] = a[i]
  /\ \A i \in 1 .. n : i + m \in 1 .. (m + n) /\ c[i + m] = b[i]

LEMMA Joined ==
  ASSUME NEW T, NEW a \in Seq(T), NEW b \in Seq(T),
         NEW m \in Nat, NEW n \in Nat, Len(a) = m, Len(b) = n
  PROVE  /\ a \o b \in Seq(T) /\ Len(a \o b) = m + n
         /\ Follows(a \o b, a, b, m, n)
         /\ ToSet(a \o b) = ToSet(a) \cup ToSet(b)
<1>1. PICK c \in Seq(T) : c = a \o b /\ Len(c) = m + n
  BY ConcatProperties
<1>2. \A i \in 1 .. m + n : c[i] = IF i <= m THEN a[i] ELSE b[i - m]
  BY <1>1, ConcatProperties
<1>3. DOMAIN c = 1 .. (m + n) /\ DOMAIN a = 1 .. m /\ DOMAIN b = 1 .. n
  BY <1>1, LenProperties
<1>4. ASSUME NEW i \in 1 .. m PROVE i \in 1 .. m + n /\ c[i] = a[i]
  BY <1>2
<1>5. ASSUME NEW i \in 1 .. n PROVE i + m \in 1 .. m + n /\ c[i + m] = b[i]
  <2>1. PICK j \in 1 .. m + n : j = i + m
    OBVIOUS
  <2>2. ~(j <= m) /\ j - m = i
    BY <2>1
  <2>3. c[j] = b[j - m]
    BY <1>2, <2>2
  <2> QED
    BY <2>1, <2>2, <2>3
<1>6. ToSet(c) = ToSet(a) \cup ToSet(b)
  <2>1. \A i \in 1 .. m + n : c[i] \in ToSet(a) \cup ToSet(b)
    <3> TAKE i \in 1 .. m + n
    <3>1. CASE i <= m
      <4>1. i \in 1 .. m /\ c[i] = a[i]
        BY <1>4, <3>1
      <4> QED
        BY <1>3, <4>1 DEF ToSet
    <3>2. CASE ~(i <= m)
      <4>1. PICK j \in 1 .. n : j = i - m
        BY <3>2
      <4>2. c[i] = b[j]
        BY <1>2, <3>2, <4>1
      <4> QED
        BY <1>3, <4>2 DEF ToSet
    <3> QED
      BY <3>1, <3>2
  <2>2. ASSUME NEW i \in 1 .. m PROVE a[i] \in ToSet(c)
    BY <1>3, <1>4 DEF ToSet
  <2>3. ASSUME NEW i \in 1 .. n PROVE b[i] \in ToSet(c)
    <3>1. PICK j \in 1 .. m + n : c[j] = b[i]
      BY <1>5
    <3> QED
      BY <1>3, <3>1 DEF ToSet
  <2> QED
    BY <1>3, <2>1, <2>2, <2>3 DEF ToSet
<1> QED
  BY <1>1, <1>3, <1>4, <1>5, <1>6 DEF Follows

LEMMA JoinedDistinct ==
  ASSUME NEW T, NEW a \in Seq(T), NEW b \in Seq(T),
         NEW m \in Nat, NEW n \in Nat, Len(a) = m, Len(b) = n,
         Distinct(a), Distinct(b), ToSet(a) \cap ToSet(b) = {}
  PROVE  Distinct(a \o b)
<1>1. /\ DOMAIN (a \o b) = 1 .. (m + n)
      /\ \A i \in 1 .. m : (a \o b)[i] = a[i]
      /\ \A i \in 1 .. n : (a \o b)[i + m] = b[i]
  <2>1. Follows(a \o b, a, b, m, n)
    BY Joined
  <2> QED
    BY <2>1 DEF Follows
<1>2. DOMAIN a = 1 .. m /\ DOMAIN b = 1 .. n
  BY LenProperties
<1>3. \A i \in 1 .. m + n : i \in 1 .. m \/ \E k \in 1 .. n : i = k + m
  <2> TAKE i \in 1 .. m + n
  <2>1. CASE i <= m
    BY <2>1
  <2>2. CASE ~(i <= m)
    <3>1. i - m \in 1 .. n /\ i = (i - m) + m
      BY <2>2
    <3> QED
      BY <3>1
  <2> QED
    BY <2>1, <2>2
<1>4. \A i \in 1 .. m, k \in 1 .. n : a[i] # b[k]
  BY <1>2 DEF ToSet
<1> SUFFICES ASSUME NEW i \in 1 .. m + n, NEW j \in 1 .. m + n, (a \o b)[i] = (a \o b)[j]
             PROVE  i = j
  BY <1>1 DEF Distinct
<1>5. CASE i \in 1 .. m /\ j \in 1 .. m
  <2>1. a[i] = a[j]
    BY <1>1, <1>5
  <2> QED
    BY <1>2, <1>5, <2>1 DEF Distinct
<1>6. ASSUME NEW k \in 1 .. n, i = k + m, NEW l \in 1 .. n, j = l + m PROVE i = j
  <2>1. b[k] = b[l]
    BY <1>1, <1>6
  <2> QED
    BY <1>2, <1>6, <2>1 DEF Distinct
<1>7. ASSUME i \in 1 .. m, NEW l \in 1 .. n, j = l + m PROVE FALSE
  BY <1>1, <1>4, <1>7
<1>8. ASSUME j \in 1 .. m, NEW k \in 1 .. n, i = k + m PROVE FALSE
  BY <1>1, <1>4, <1>8
<1> QED
  BY <1>3, <1>5, <1>6, <1>7, <1>8

(* A list that is written out, and where it starts. *)
List(fields) == fields \in Seq(ToSet(fields)) /\ Distinct(fields) /\ Len(fields) \in Nat

LEMMA ListsWrittenOut ==
  ASSUME NEW list, NEW n \in Nat, DOMAIN list = 1 .. n, list = [i \in 1 .. n |-> list[i]],
         \A i, j \in 1 .. n : list[i] = list[j] => i = j
  PROVE  List(list)
BY ListIsASeq, LenProperties DEF List, Distinct

LEMMA JoinedLists ==
  ASSUME NEW a, NEW b, List(a), List(b), ToSet(a) \cap ToSet(b) = {}
  PROVE  List(a \o b) /\ ToSet(a \o b) = ToSet(a) \cup ToSet(b)
<1> DEFINE T == ToSet(a) \cup ToSet(b)
<1>1. a \in Seq(T) /\ b \in Seq(T)
  <2>1. /\ a \in Seq(ToSet(a)) /\ DOMAIN a = 1 .. Len(a) /\ Len(a) \in Nat
        /\ \A i \in 1 .. Len(a) : a[i] \in T
    BY LenProperties, ElementOfSeq DEF List
  <2>2. /\ b \in Seq(ToSet(b)) /\ DOMAIN b = 1 .. Len(b) /\ Len(b) \in Nat
        /\ \A i \in 1 .. Len(b) : b[i] \in T
    BY LenProperties, ElementOfSeq DEF List
  <2>3. a = [i \in 1 .. Len(a) |-> a[i]] /\ b = [i \in 1 .. Len(b) |-> b[i]]
    BY <2>1, <2>2, LenProperties
  <2> QED
    BY <2>1, <2>2, <2>3, IsASeq
<1>2. PICK m \in Nat, n \in Nat : Len(a) = m /\ Len(b) = n
  BY DEF List
<1> HIDE DEF T
<1>3. a \o b \in Seq(T) /\ Len(a \o b) = m + n /\ ToSet(a \o b) = ToSet(a) \cup ToSet(b)
  BY <1>1, <1>2, Joined
<1>4. Distinct(a \o b)
  BY <1>1, <1>2, JoinedDistinct DEF List
<1>5. m + n \in Nat
  OBVIOUS
<1> QED
  BY <1>3, <1>4, <1>5 DEF List, T

LEMMA BaseList ==
  /\ List(BaseFields)
  /\ ToSet(BaseFields) =
       {"technique", "implementation", "campaign", "iteration", "result", "pass_delta",
        "failure_delta", "stage", "stage_name", "fault_target", "fault_name",
        "fault_value"}
<1> DEFINE list == BaseFields
<1>1. DOMAIN list = 1 .. 12 /\ list = [i \in 1 .. 12 |-> list[i]]
  BY DEF BaseFields
<1>2. \A i, j \in 1 .. 12 : list[i] = list[j] => i = j
  BY DEF BaseFields
<1>3. List(list)
  <2> HIDE DEF list
  <2> QED
    BY <1>1, <1>2, ListsWrittenOut
<1> QED
  BY <1>1, <1>3 DEF ToSet, BaseFields

LEMMA CounterList ==
  /\ List(CounterFields)
  /\ ToSet(CounterFields) =
       {"passes", "failures"}
<1> DEFINE list == CounterFields
<1>1. DOMAIN list = 1 .. 2 /\ list = [i \in 1 .. 2 |-> list[i]]
  BY DEF CounterFields
<1>2. \A i, j \in 1 .. 2 : list[i] = list[j] => i = j
  BY DEF CounterFields
<1>3. List(list)
  <2> HIDE DEF list
  <2> QED
    BY <1>1, <1>2, ListsWrittenOut
<1> QED
  BY <1>1, <1>3 DEF ToSet, CounterFields

LEMMA TmrList ==
  /\ List(TechniqueFields["tmr"])
  /\ ToSet(TechniqueFields["tmr"]) =
       {"expected", "value", "status", "status_name"}
<1> DEFINE list == TechniqueFields["tmr"]
<1>1. DOMAIN list = 1 .. 4 /\ list = [i \in 1 .. 4 |-> list[i]]
  BY DEF TechniqueFields
<1>2. \A i, j \in 1 .. 4 : list[i] = list[j] => i = j
  BY DEF TechniqueFields
<1>3. List(list)
  <2> HIDE DEF list
  <2> QED
    BY <1>1, <1>2, ListsWrittenOut
<1> QED
  BY <1>1, <1>3 DEF ToSet, TechniqueFields

LEMMA CheckpointList ==
  /\ List(TechniqueFields["checkpoint"])
  /\ ToSet(TechniqueFields["checkpoint"]) =
       {"initial_value", "expected", "value", "restart_status", "restart_status_name",
        "active_check", "active_check_name", "checkpoint_check",
        "checkpoint_check_name", "active_value", "checkpoint_value"}
<1> DEFINE list == TechniqueFields["checkpoint"]
<1>1. DOMAIN list = 1 .. 11 /\ list = [i \in 1 .. 11 |-> list[i]]
  BY DEF TechniqueFields
<1>2. \A i, j \in 1 .. 11 : list[i] = list[j] => i = j
  BY DEF TechniqueFields
<1>3. List(list)
  <2> HIDE DEF list
  <2> QED
    BY <1>1, <1>2, ListsWrittenOut
<1> QED
  BY <1>1, <1>3 DEF ToSet, TechniqueFields

LEMMA RecoveryList ==
  /\ List(TechniqueFields["recovery"])
  /\ ToSet(TechniqueFields["recovery"]) =
       {"initial_value", "expected", "value", "recovery_status", "recovery_status_name",
        "checkpoint_check", "checkpoint_check_name", "primary_check",
        "primary_check_name", "restore_check", "restore_check_name", "alternate_check",
        "alternate_check_name", "active_value", "checkpoint_value"}
<1> DEFINE list == TechniqueFields["recovery"]
<1>1. DOMAIN list = 1 .. 15 /\ list = [i \in 1 .. 15 |-> list[i]]
  BY DEF TechniqueFields
<1>2. \A i, j \in 1 .. 15 : list[i] = list[j] => i = j
  BY DEF TechniqueFields
<1>3. List(list)
  <2> HIDE DEF list
  <2> QED
    BY <1>1, <1>2, ListsWrittenOut
<1> QED
  BY <1>1, <1>3 DEF ToSet, TechniqueFields

LEMMA ControlList ==
  /\ List(TechniqueFields["control"])
  /\ ToSet(TechniqueFields["control"]) =
       {"expected", "value", "control_status", "control_status_name", "terminal_status",
        "terminal_status_name", "phase", "phase_name", "signature", "transitions"}
<1> DEFINE list == TechniqueFields["control"]
<1>1. DOMAIN list = 1 .. 10 /\ list = [i \in 1 .. 10 |-> list[i]]
  BY DEF TechniqueFields
<1>2. \A i, j \in 1 .. 10 : list[i] = list[j] => i = j
  BY DEF TechniqueFields
<1>3. List(list)
  <2> HIDE DEF list
  <2> QED
    BY <1>1, <1>2, ListsWrittenOut
<1> QED
  BY <1>1, <1>3 DEF ToSet, TechniqueFields

LEMMA CombinedList ==
  /\ List(TechniqueFields["combined"])
  /\ ToSet(TechniqueFields["combined"]) =
       {"outcome", "outcome_name", "expected", "value", "tmr_status", "tmr_status_name",
        "recovery_status", "recovery_status_name", "restart_status",
        "restart_status_name", "control_status", "control_status_name", "active_check",
        "active_check_name", "checkpoint_check", "checkpoint_check_name", "phase",
        "phase_name", "transitions"}
<1> DEFINE list == TechniqueFields["combined"]
<1>1. DOMAIN list = 1 .. 19 /\ list = [i \in 1 .. 19 |-> list[i]]
  BY DEF TechniqueFields
<1>2. \A i, j \in 1 .. 19 : list[i] = list[j] => i = j
  BY DEF TechniqueFields
<1>3. List(list)
  <2> HIDE DEF list
  <2> QED
    BY <1>1, <1>2, ListsWrittenOut
<1> QED
  BY <1>1, <1>3 DEF ToSet, TechniqueFields

LEMMA BaselineList ==
  /\ List(TechniqueFields["baseline"])
  /\ ToSet(TechniqueFields["baseline"]) =
       {"outcome", "outcome_name", "expected", "value"}
<1> DEFINE list == TechniqueFields["baseline"]
<1>1. DOMAIN list = 1 .. 4 /\ list = [i \in 1 .. 4 |-> list[i]]
  BY DEF TechniqueFields
<1>2. \A i, j \in 1 .. 4 : list[i] = list[j] => i = j
  BY DEF TechniqueFields
<1>3. List(list)
  <2> HIDE DEF list
  <2> QED
    BY <1>1, <1>2, ListsWrittenOut
<1> QED
  BY <1>1, <1>3 DEF ToSet, TechniqueFields

AllFields(kind) == BaseFields \o TechniqueFields[kind] \o CounterFields

LEMMA TechniquesAre ==
  Techniques = {"tmr", "checkpoint", "recovery", "control", "combined", "baseline"}
BY DEF Techniques, TechniqueFields

(* No technique has a field twice, and its fields follow the common ones. *)
LEMMA FieldsOfATechnique ==
  ASSUME NEW kind \in Techniques
  PROVE  /\ List(TechniqueFields[kind])
         /\ ToSet(TechniqueFields[kind]) \cap ToSet(BaseFields) = {}
         /\ ToSet(TechniqueFields[kind]) \cap ToSet(CounterFields) = {}
<1>1. CASE kind = "tmr"
  BY <1>1, TmrList, BaseList, CounterList
<1>2. CASE kind = "checkpoint"
  BY <1>2, CheckpointList, BaseList, CounterList
<1>3. CASE kind = "recovery"
  BY <1>3, RecoveryList, BaseList, CounterList
<1>4. CASE kind = "control"
  BY <1>4, ControlList, BaseList, CounterList
<1>5. CASE kind = "combined"
  BY <1>5, CombinedList, BaseList, CounterList
<1>6. CASE kind = "baseline"
  BY <1>6, BaselineList, BaseList, CounterList
<1> QED
  BY <1>1, <1>2, <1>3, <1>4, <1>5, <1>6, TechniquesAre

LEMMA AllFieldsOfATechnique ==
  ASSUME NEW kind \in Techniques
  PROVE  /\ List(AllFields(kind))
         /\ ToSet(AllFields(kind)) =
              ToSet(BaseFields) \cup ToSet(TechniqueFields[kind]) \cup ToSet(CounterFields)
<1>1. /\ List(BaseFields \o TechniqueFields[kind])
      /\ ToSet(BaseFields \o TechniqueFields[kind]) =
           ToSet(BaseFields) \cup ToSet(TechniqueFields[kind])
  BY FieldsOfATechnique, BaseList, JoinedLists
<1>2. ToSet(BaseFields) \cap ToSet(CounterFields) = {}
  BY BaseList, CounterList
<1>3. ToSet(BaseFields \o TechniqueFields[kind]) \cap ToSet(CounterFields) = {}
  BY <1>1, <1>2, FieldsOfATechnique
<1> QED
  BY <1>1, <1>3, CounterList, JoinedLists DEF AllFields

Own(kind) == IF kind \in {"checkpoint", "recovery", "control"} THEN {"status"} ELSE {}

Deltas == {"result", "pass_delta", "failure_delta"}

(* What a row builder reads has a column, and so has what is derived. *)
LEMMA ReadingsHaveColumns ==
  ASSUME NEW kind \in Techniques
  PROVE  Readings[kind] \cup Deltas \subseteq ToSet(AllFields(kind)) \cup Own(kind)
<1>1. CASE kind = "tmr"
  BY <1>1, AllFieldsOfATechnique, TmrList, BaseList, CounterList
  DEF Readings, CommonReadings, Deltas, Own
<1>2. CASE kind = "checkpoint"
  BY <1>2, AllFieldsOfATechnique, CheckpointList, BaseList, CounterList
  DEF Readings, CommonReadings, Deltas, Own
<1>3. CASE kind = "recovery"
  BY <1>3, AllFieldsOfATechnique, RecoveryList, BaseList, CounterList
  DEF Readings, CommonReadings, Deltas, Own
<1>4. CASE kind = "control"
  BY <1>4, AllFieldsOfATechnique, ControlList, BaseList, CounterList
  DEF Readings, CommonReadings, Deltas, Own
<1>5. CASE kind = "combined"
  BY <1>5, AllFieldsOfATechnique, CombinedList, BaseList, CounterList
  DEF Readings, CommonReadings, Deltas, Own
<1>6. CASE kind = "baseline"
  BY <1>6, AllFieldsOfATechnique, BaselineList, BaseList, CounterList
  DEF Readings, CommonReadings, Deltas, Own
<1> QED
  BY <1>1, <1>2, <1>3, <1>4, <1>5, <1>6, TechniquesAre

LabelledFields ==
  {"stage", "fault_target", "status", "outcome", "tmr_status", "restart_status",
   "recovery_status", "control_status", "terminal_status", "phase", "active_check",
   "checkpoint_check", "primary_check", "restore_check", "alternate_check"}

(* Every label is of one field, and none is a field of another technique. *)
LEMMA LabelsApart ==
  /\ Labelled = LabelledFields
  /\ \A field, other \in Labelled : LabelOf[field] = LabelOf[other] => field = other
  /\ \A field \in Labelled : LabelOf[field] \notin Deltas \cup {"technique"}
<1>1. Labelled = LabelledFields
  BY DEF Labelled, LabelledFields, LabelOf
<1>2. ASSUME NEW field \in LabelledFields, NEW other \in LabelledFields,
             LabelOf[field] = LabelOf[other]
      PROVE  field = other
  BY <1>2 DEF LabelledFields, LabelOf
<1>3. \A field \in LabelledFields : LabelOf[field] \notin Deltas \cup {"technique"}
  BY DEF LabelledFields, LabelOf, Deltas
<1> QED
  BY <1>1, <1>2, <1>3

LEMMA RowFields ==
  ASSUME NEW kind \in Techniques
  PROVE  /\ {"technique", "passes", "failures", "iteration"} \subseteq Readings[kind]
         /\ Readings[kind] \cap Deltas = {}
<1>1. /\ {"technique", "passes", "failures", "iteration"} \subseteq CommonReadings
      /\ CommonReadings \cap Deltas = {}
  BY DEF CommonReadings, Deltas
<1>2. CASE kind = "tmr"
  BY <1>1, <1>2 DEF Readings, Deltas
<1>3. CASE kind = "checkpoint"
  BY <1>1, <1>3 DEF Readings, Deltas
<1>4. CASE kind = "recovery"
  BY <1>1, <1>4 DEF Readings, Deltas
<1>5. CASE kind = "control"
  BY <1>1, <1>5 DEF Readings, Deltas
<1>6. CASE kind = "combined"
  BY <1>1, <1>6 DEF Readings, Deltas
<1>7. CASE kind = "baseline"
  BY <1>1, <1>7 DEF Readings, Deltas
<1> QED
  BY <1>2, <1>3, <1>4, <1>5, <1>6, <1>7, TechniquesAre

(* A row as its builder makes it. *)
LEMMA BuiltIs ==
  ASSUME NEW kind \in Techniques, NEW code, NEW row \in RowType
  PROVE  /\ DOMAIN BuiltRow(kind, code, row) = Readings[kind]
         /\ BuiltRow(kind, code, row).technique = kind
         /\ BuiltRow(kind, code, row).passes = row.passes
         /\ BuiltRow(kind, code, row).failures = row.failures
         /\ \A field \in Labelled \cap Readings[kind] :
              field # "fault_target" => BuiltRow(kind, code, row)[field] = code
<1>1. DOMAIN row = {"iteration", "fault_target", "fault_value", "passes", "failures", "remote"}
  BY DEF RowType
<1>2. {"technique", "passes", "failures", "iteration"} \subseteq Readings[kind]
  BY RowFields
<1>3. BuiltRow(kind, code, row).technique = kind
  BY <1>1, <1>2, LabelsApart DEF BuiltRow, LabelledFields
<1>4. /\ BuiltRow(kind, code, row).passes = row.passes
      /\ BuiltRow(kind, code, row).failures = row.failures
  BY <1>1, <1>2, LabelsApart DEF BuiltRow, LabelledFields
<1>5. ASSUME NEW field \in Labelled \cap Readings[kind], field # "fault_target"
      PROVE  BuiltRow(kind, code, row)[field] = code
  <2>1. field \notin DOMAIN row /\ field \notin {"technique", "implementation", "campaign"}
    BY <1>1, <1>5, LabelsApart DEF LabelledFields
  <2> QED
    BY <1>5, <2>1 DEF BuiltRow
<1> QED
  BY <1>3, <1>4, <1>5 DEF BuiltRow

(* The rows of the engine, and what is made of them. *)
LEMMA CleanIs ==
  ASSUME rows \in Seq(RowType), NEW kind \in Techniques, NEW code,
         NEW i \in DOMAIN rows
  PROVE  LET built == BuiltRows(kind, code)
             clean == CleanE2ERows(built)
             coded == Readings[kind] \cap Labelled
         IN  /\ DOMAIN clean = DOMAIN rows
             /\ DOMAIN clean[i] = {LabelOf[field] : field \in coded} \cup Deltas
                                    \cup Readings[kind]
             /\ clean[i].technique = kind
             /\ clean[i].result = DerivedRows(rows)[i].result
             /\ \A field \in coded : clean[i][LabelOf[field]] = Name(NamesOf(kind, field), built[i][field])
<1> DEFINE built   == BuiltRows(kind, code)
           clean   == CleanE2ERows(built)
           coded   == Readings[kind] \cap Labelled
           labels  == Labels(built[i])
           derived == DerivedRows(built)[i]
<1>1. DOMAIN rows = 1 .. Len(rows) /\ Len(rows) \in Nat /\ \A j \in DOMAIN rows : rows[j] \in RowType
  BY LenProperties, ElementOfSeq
<1>2. DOMAIN built = DOMAIN rows /\ \A j \in DOMAIN rows : built[j] = BuiltRow(kind, code, rows[j])
  BY DEF BuiltRows
<1>3. /\ DOMAIN built[i] = Readings[kind] /\ built[i].technique = kind
  BY <1>1, <1>2, BuiltIs
<1>4. derived = DerivedRows(rows)[i]
  <2>1. \A j \in DOMAIN rows : /\ built[j].passes = rows[j].passes
                               /\ built[j].failures = rows[j].failures
    BY <1>1, <1>2, BuiltIs
  <2>2. i # 1 => i - 1 \in DOMAIN rows
    BY <1>1
  <2> HIDE DEF built
  <2>3. derived = Derived(IF i = 1 THEN NoRow ELSE built[i - 1], built[i])
    BY <1>2 DEF DerivedRows
  <2>4. DerivedRows(rows)[i] = Derived(IF i = 1 THEN NoRow ELSE rows[i - 1], rows[i])
    BY DEF DerivedRows
  <2>5. Derived(IF i = 1 THEN NoRow ELSE built[i - 1], built[i]) =
          Derived(IF i = 1 THEN NoRow ELSE rows[i - 1], rows[i])
    BY <2>1, <2>2 DEF Derived
  <2> QED
    BY <2>3, <2>4, <2>5
<1>5. DOMAIN derived = Deltas
  BY <1>4 DEF DerivedRows, Derived, Deltas
<1> HIDE DEF built
<1>6. /\ DOMAIN labels = {LabelOf[field] : field \in coded}
      /\ \A field \in coded :
           labels[LabelOf[field]] = Name(NamesOf(kind, field), built[i][field])
  <2>1. DOMAIN built[i] \cap Labelled = coded
    BY <1>3
  <2>2. labels = [label \in {LabelOf[field] : field \in coded} |->
                    LET field == CHOOSE f \in coded : LabelOf[f] = label
                    IN  Name(NamesOf(kind, field), built[i][field])]
    BY <1>3, <2>1 DEF Labels
  <2> HIDE DEF labels, coded
  <2>3. ASSUME NEW field \in coded
        PROVE  labels[LabelOf[field]] = Name(NamesOf(kind, field), built[i][field])
    <3> DEFINE present == CHOOSE f \in coded : LabelOf[f] = LabelOf[field]
    <3>1. present \in coded /\ LabelOf[present] = LabelOf[field]
      OBVIOUS
    <3>2. present = field
      BY <3>1, LabelsApart DEF coded
    <3> QED
      BY <2>2, <3>2
  <2> QED
    BY <2>2, <2>3
<1> HIDE DEF labels, derived, coded
<1>7. DOMAIN clean = DOMAIN rows /\ clean[i] = Filled(Filled(labels, derived), built[i])
  BY <1>2 DEF CleanE2ERows, labels, derived
<1> HIDE DEF clean
<1>8. /\ DOMAIN clean[i] = DOMAIN labels \cup DOMAIN derived \cup DOMAIN built[i]
      /\ \A field \in DOMAIN labels : clean[i][field] = labels[field]
      /\ \A field \in DOMAIN derived : field \notin DOMAIN labels => clean[i][field] = derived[field]
      /\ \A field \in DOMAIN built[i] :
           field \notin DOMAIN labels \cup DOMAIN derived => clean[i][field] = built[i][field]
  BY <1>7 DEF Filled
<1>9. "technique" \notin DOMAIN labels \cup DOMAIN derived /\ "result" \notin DOMAIN labels
  BY <1>5, <1>6, LabelsApart DEF Deltas, coded
<1>10. clean[i].technique = kind
  BY <1>3, <1>8, <1>9, RowFields
<1>11. clean[i].result = DerivedRows(rows)[i].result
  BY <1>4, <1>5, <1>8, <1>9 DEF Deltas
<1>12. \A field \in coded :
         clean[i][LabelOf[field]] = Name(NamesOf(kind, field), built[i][field])
  BY <1>6, <1>8
<1> QED
  BY <1>3, <1>5, <1>6, <1>7, <1>8, <1>10, <1>11, <1>12 DEF built, clean, coded

(* The columns of the table: those of the technique some row has. *)
LEMMA ColumnsAre ==
  ASSUME rows \in Seq(RowType), rows # <<>>, NEW kind \in Techniques, NEW code
  PROVE  LET built   == BuiltRows(kind, code)
             clean   == CleanE2ERows(built)
             columns == E2ETable(built).columns
         IN  /\ columns \in Seq(ToSet(AllFields(kind))) /\ Distinct(columns)
             /\ ToSet(columns) = ToSet(AllFields(kind)) \cap DOMAIN clean[1]
             /\ \A i \in DOMAIN rows : DOMAIN clean[i] = DOMAIN clean[1]
<1> DEFINE built   == BuiltRows(kind, code)
           clean   == CleanE2ERows(built)
           fields  == AllFields(kind)
           present == UNION {DOMAIN clean[i] : i \in DOMAIN clean}
<1>1. DOMAIN rows = 1 .. Len(rows) /\ Len(rows) \in Nat /\ 1 \in DOMAIN rows
  BY LenProperties, EmptySeq
<1>2. /\ DOMAIN clean = DOMAIN rows /\ clean[1].technique = kind
      /\ \A i \in DOMAIN rows : DOMAIN clean[i] = DOMAIN clean[1]
  <2> DEFINE coded == Readings[kind] \cap Labelled
             all   == {LabelOf[field] : field \in coded} \cup Deltas \cup Readings[kind]
  <2>1. \A i \in DOMAIN rows :
          /\ DOMAIN clean = DOMAIN rows /\ clean[i].technique = kind
          /\ DOMAIN clean[i] = all
    BY CleanIs
  <2> HIDE DEF clean, all
  <2> QED
    BY <1>1, <2>1
<1> HIDE DEF built, clean
<1>3. clean # <<>>
  BY <1>1, <1>2
<1>4. present = DOMAIN clean[1]
  BY <1>1, <1>2
<1>5. E2ETable(built).columns = Kept(fields, DOMAIN clean[1])
  BY <1>2, <1>3, <1>4 DEF E2ETable, SelectedE2EFields, AllFields, clean
<1>6. fields \in Seq(ToSet(fields)) /\ Distinct(fields)
  BY AllFieldsOfATechnique DEF List
<1> HIDE DEF fields
<1>7. /\ Kept(fields, DOMAIN clean[1]) \in Seq(ToSet(fields))
      /\ ToSet(Kept(fields, DOMAIN clean[1])) = ToSet(fields) \cap DOMAIN clean[1]
      /\ Distinct(Kept(fields, DOMAIN clean[1]))
  BY <1>6, KeptFields
<1> QED
  BY <1>2, <1>5, <1>7 DEF built, clean, fields

(* A list without repetitions has as many places as members. *)
LEMMA AsManyMembers ==
  ASSUME NEW T, NEW list \in Seq(T), Distinct(list)
  PROVE  Cardinality(ToSet(list)) = Len(list)
<1>1. DOMAIN list = 1 .. Len(list) /\ Len(list) \in Nat
  BY LenProperties
<1>2. IsFiniteSet(1 .. Len(list)) /\ Cardinality(1 .. Len(list)) = Len(list)
  BY <1>1, FS_Interval
<1> DEFINE f == [i \in 1 .. Len(list) |-> list[i]]
<1>3. f \in Bijection(1 .. Len(list), ToSet(list))
  BY <1>1 DEF ToSet, Distinct, Bijection, Injection, Surjection, IsInjective
<1> HIDE DEF f
<1>4. Cardinality(1 .. Len(list)) = Cardinality(ToSet(list))
  BY <1>2, <1>3, FS_Bijection DEF ExistsBijection
<1> QED
  BY <1>2, <1>4

LEMMA EveryReading ==
  ASSUME rows \in Seq(RowType), rows # <<>>, NEW kind \in Techniques, NEW code,
         \A i \in DOMAIN rows : DerivedRows(rows)[i].result = ResultOf(i)
  PROVE  TableHasEveryReading(kind, code)
<1> DEFINE built   == BuiltRows(kind, code)
           clean   == CleanE2ERows(built)
           shown  == E2ETable(built)
           list    == shown.columns
           columns == ToSet(list)
           at      == CHOOSE c \in DOMAIN list : list[c] = "result"
<1>1. /\ list \in Seq(ToSet(AllFields(kind))) /\ Distinct(list)
      /\ columns = ToSet(AllFields(kind)) \cap DOMAIN clean[1]
      /\ \A i \in DOMAIN rows : DOMAIN clean[i] = DOMAIN clean[1]
  BY ColumnsAre
<1>2. DOMAIN rows = 1 .. Len(rows) /\ Len(rows) \in Nat /\ 1 \in DOMAIN rows
  BY LenProperties, EmptySeq
<1>3. /\ DOMAIN clean = DOMAIN rows
      /\ Readings[kind] \cup Deltas \subseteq DOMAIN clean[1]
      /\ \A i \in DOMAIN rows : clean[i].result = DerivedRows(rows)[i].result
  BY <1>2, CleanIs
<1>4. Readings[kind] \cup Deltas \subseteq columns \cup Own(kind)
  BY <1>1, <1>3, ReadingsHaveColumns
<1>5. Cardinality(columns) = Len(list)
  BY <1>1, AsManyMembers
<1>6. shown.records = [i \in DOMAIN clean |-> ProjectRow(clean[i], list)]
  BY DEF E2ETable
<1>7. PICK n \in Nat : n = Len(list) /\ DOMAIN list = 1 .. n
  BY <1>1, LenProperties
<1> HIDE DEF built, clean, shown
<1>r. \A i \in DOMAIN rows : clean[i].result = ResultOf(i)
  BY <1>3
<1>8. ASSUME NEW i \in DOMAIN rows
      PROVE  /\ columns \subseteq DOMAIN clean[i]
             /\ Len(shown.records[i]) = Len(list)
             /\ shown.records[i][at] = ResultOf(i)
  <2>1. columns \subseteq DOMAIN clean[i]
    BY <1>1
  <2>2. shown.records[i] = ProjectRow(clean[i], list)
    BY <1>3, <1>6
  <2>3. DOMAIN ProjectRow(clean[i], list) = 1 .. n
    BY <1>7 DEF ProjectRow
  <2>4. ProjectRow(clean[i], list) = [c \in 1 .. n |-> ProjectRow(clean[i], list)[c]]
    BY <1>7 DEF ProjectRow
  <2>5. Len(ProjectRow(clean[i], list)) = n
    BY <2>3, <2>4, ListIsASeq
  <2>6. "result" \in columns
    BY <1>4 DEF Deltas, Own
  <2>7. at \in DOMAIN list /\ list[at] = "result"
    BY <2>6 DEF ToSet
  <2> HIDE DEF at
  <2>8. ProjectRow(clean[i], list)[at] = ResultOf(i)
    BY <1>r, <2>1, <2>6, <2>7 DEF ProjectRow
  <2> QED
    BY <1>7, <2>1, <2>2, <2>5, <2>8
<1> QED
  BY <1>4, <1>5, <1>8 DEF TableHasEveryReading, Own, Deltas, built, clean, shown

LEMMA EveryLabel ==
  ASSUME rows \in Seq(RowType), NEW kind \in Techniques, NEW code
  PROVE  LabelsNameTheCodes(kind, code)
<1> DEFINE built == BuiltRows(kind, code)
           clean == CleanE2ERows(built)
<1> SUFFICES ASSUME NEW i \in DOMAIN rows,
                    NEW field \in DOMAIN Enumeration \cap Readings[kind]
             PROVE  clean[i][LabelOf[field]] = Name(Enumeration[field], code)
  BY DEF LabelsNameTheCodes, Name
<1>1. DOMAIN Enumeration = {"tmr_status", "restart_status", "recovery_status",
                            "control_status", "outcome", "active_check", "phase"}
  BY DEF Enumeration
<1>2. field \in Readings[kind] \cap Labelled /\ field # "fault_target"
  BY <1>1, LabelsApart DEF LabelledFields
<1>3. clean[i][LabelOf[field]] = Name(NamesOf(kind, field), built[i][field])
  BY <1>2, CleanIs
<1>4. built[i][field] = code
  <2>1. rows[i] \in RowType
    BY LenProperties, ElementOfSeq
  <2> QED
    BY <1>2, <2>1, BuiltIs DEF BuiltRows
<1>5. NamesOf(kind, field) = Enumeration[field]
  BY <1>1 DEF NamesOf, Enumeration, CheckFields, TmrStatusNames, RestartStatusNames,
              RecoveryStatusNames, ControlStatusNames, CheckStatusNames, PhaseNames,
              OutcomeNames
<1> QED
  BY <1>3, <1>4, <1>5

(* The table of a complete campaign of any length is what its image did,   *)
(* with every code under the name it has there, whatever its technique.    *)
THEOREM TablesAreTheCampaigns == Spec => []TableIsTheCampaign
<1>1. E2EInv => TableIsTheCampaign
  <2> SUFFICES ASSUME E2EInv, rows # <<>>, NEW kind \in Techniques, NEW code \in Codes
               PROVE  TableHasEveryReading(kind, code) /\ LabelsNameTheCodes(kind, code)
    BY DEF TableIsTheCampaign
  <2>1. rows \in Seq(RowType)
    BY DEF E2EInv, PictureTypes
  <2>2. DOMAIN rows = 1 .. Len(rows)
    BY <2>1, LenProperties
  <2>3. \A i \in DOMAIN rows : DerivedRows(rows)[i].result = ResultOf(i)
    BY <2>2, ResultIsTheCount
  <2> QED
    BY <2>1, <2>3, EveryReading, EveryLabel
<1> QED
  BY <1>1, E2EInvariant, PTL

-----------------------------------------------------------------------------
(* The images under every campaign *)

(* What the host can write at the injection point of a workflow image.     *)
WorkflowFaults ==
  {Fault("none", 0), Fault("copy_a", AllOnes), Fault("all_distinct", AllOnes),
   Fault("active_value", AllOnes), Fault("active_checksum", 16),
   Fault("primary_value", AllOnes), Fault("primary_checksum", 16),
   Fault("control_phase", 4), Fault("control_signature", 16)}

LEMMA WorkflowChoice ==
  ASSUME NEW name, NEW i \in Nat \ {0}
  PROVE  ChooseWorkflowFault(name, i) \in WorkflowFaults
<1> DEFINE Known == DOMAIN WorkflowCampaigns
<1>1. Known = {"none", "workflow-clean-run", "workflow-tmr-single", "workflow-tmr-distinct",
               "workflow-checkpoint-value", "workflow-checkpoint-checksum",
               "workflow-recovery-value", "workflow-recovery-checksum",
               "workflow-control-phase", "workflow-control-signature"}
  BY DEF WorkflowCampaigns
<1>2. ASSUME NEW known \in Known PROVE WorkflowCampaigns[known] \in WorkflowFaults
  BY <1>1 DEF WorkflowCampaigns, WorkflowFaults
<1>3. ((i - 1) % 9) + 1 \in 1 .. 9 /\ Len(WorkflowMixedOrder) = 9
  BY DEF WorkflowMixedOrder
<1>4. \A place \in 1 .. 9 : WorkflowMixedOrder[place] \in Known
  BY <1>1 DEF WorkflowMixedOrder
<1> QED
  BY <1>2, <1>3, <1>4 DEF ChooseWorkflowFault

LEMMA SampleRange ==
  ASSUME NEW i \in Nat
  PROVE  SampleInput(i) \in 100 .. 799
<1>1. (i * 41) % 700 \in 0 .. 699
  OBVIOUS
<1> QED
  BY <1>1 DEF SampleInput

LEMMA ResultRange ==
  ASSUME NEW x \in Nat
  PROVE  ExpectedValue(x) \in 100 .. 799
<1>1. ((((x % 700) * 37) + 17) % 700) \in 0 .. 699
  OBVIOUS
<1> QED
  BY <1>1 DEF ExpectedValue

LEMMA Divided ==
  ASSUME NEW x \in Nat
  PROVE  \E q \in Nat : \E r \in 0 .. 699 : x = 700 * q + r /\ r = x % 700
  OBVIOUS

(* The factor 37 is prime to 700, so the result tells the remainder:       *)
(* 473 times it is 25 * 700 + 1.                                           *)
LEMMA ResultTellsInput ==
  ASSUME NEW x \in Nat, NEW y \in Nat, ExpectedValue(x) = ExpectedValue(y)
  PROVE  x % 700 = y % 700
<1>1. x % 700 \in 0 .. 699 /\ y % 700 \in 0 .. 699
  BY Divided
<1>2. PICK a \in 0 .. 699 : a = x % 700
  BY <1>1
<1>3. PICK b \in 0 .. 699 : b = y % 700
  BY <1>1
<1>4. ((a * 37) + 17) % 700 = ((b * 37) + 17) % 700
  <2>1. ((a * 37) + 17) % 700 \in 0 .. 699 /\ ((b * 37) + 17) % 700 \in 0 .. 699
    OBVIOUS
  <2> QED
    BY <1>2, <1>3, <2>1 DEF ExpectedValue
<1>5. (a * 37) + 17 \in Nat /\ (b * 37) + 17 \in Nat
  OBVIOUS
<1>6. PICK p \in Nat, r \in 0 .. 699 :
        (a * 37) + 17 = 700 * p + r /\ r = ((a * 37) + 17) % 700
  BY <1>5, Divided
<1>7. PICK q \in Nat : (b * 37) + 17 = 700 * q + r
  BY <1>4, <1>5, <1>6, Divided
<1>8. 37 * (a - b) = 700 * (p - q)
  BY <1>6, <1>7
<1>9. PICK k \in Int : a - b = 700 * k
  <2>1. PICK k \in Int : k = 473 * (p - q) - 25 * (a - b)
    OBVIOUS
  <2>2. a - b = 700 * k
    BY <1>8, <2>1
  <2> QED
    BY <2>2
<1>10. a = b
  BY <1>9
<1> QED
  BY <1>2, <1>3, <1>10

(* Both workflow images and their host share one workload.                 *)
LEMMA OneWorkload ==
  /\ \A x : /\ Unprotected!ExpectedValue(x) = ExpectedValue(x)
            /\ Protected!ExpectedValue(x) = ExpectedValue(x)
  /\ \A i : /\ Unprotected!SampleInput(i) = SampleInput(i)
            /\ Protected!SampleInput(i) = SampleInput(i)
  /\ \A name, i :
       /\ Unprotected!ChooseWorkflowFault(name, i) = ChooseWorkflowFault(name, i)
       /\ Protected!ChooseWorkflowFault(name, i) = ChooseWorkflowFault(name, i)
<1>1. /\ Unprotected!WorkflowMixedOrder = WorkflowMixedOrder
      /\ Protected!WorkflowMixedOrder = WorkflowMixedOrder
  BY DEF WorkflowMixedOrder, Unprotected!WorkflowMixedOrder, Protected!WorkflowMixedOrder
<1>2. /\ Unprotected!WorkflowCampaigns = WorkflowCampaigns
      /\ Protected!WorkflowCampaigns = WorkflowCampaigns
  BY DEF WorkflowCampaigns, Unprotected!WorkflowCampaigns, Protected!WorkflowCampaigns,
         Fault, Unprotected!Fault, Protected!Fault
<1>3. ASSUME NEW name, NEW i
      PROVE  /\ Unprotected!ChooseWorkflowFault(name, i) = ChooseWorkflowFault(name, i)
             /\ Protected!ChooseWorkflowFault(name, i) = ChooseWorkflowFault(name, i)
  BY <1>1, <1>2 DEF ChooseWorkflowFault, Unprotected!ChooseWorkflowFault,
                    Protected!ChooseWorkflowFault
<1>4. ASSUME NEW x
      PROVE  /\ Unprotected!ExpectedValue(x) = ExpectedValue(x)
             /\ Protected!ExpectedValue(x) = ExpectedValue(x)
  BY DEF ExpectedValue, Unprotected!ExpectedValue, Protected!ExpectedValue
<1>5. ASSUME NEW i
      PROVE  /\ Unprotected!SampleInput(i) = SampleInput(i)
             /\ Protected!SampleInput(i) = SampleInput(i)
  BY DEF SampleInput, Unprotected!SampleInput, Protected!SampleInput
<1> QED
  BY <1>3, <1>4, <1>5

-----------------------------------------------------------------------------
(* The baseline *)

(* What comes out of run_workflow.                                         *)
Surfaced ==
  IF fault.target \in {"control_phase", "control_signature"} THEN 0
  ELSE Unprotected!Corrupted(ExpectedValue(Unprotected!Input))

BaselineInv ==
  /\ iteration \in Nat /\ pc \in {"top", "run", "classify"}
  /\ fault \in WorkflowFaults
  /\ pc = "classify" => last_value = Surfaced
  /\ Unprotected!FaultsComeThrough

LEMMA SurfacedIsWrong ==
  ASSUME iteration \in Nat, fault \in WorkflowFaults
  PROVE  Surfaced = ExpectedValue(SampleInput(iteration)) <=>
           \/ fault.target = "none"
           \/ /\ fault.target \in {"copy_a", "all_distinct"}
              /\ fault.value % 700 = SampleInput(iteration) % 700
<1> DEFINE input == SampleInput(iteration)
           right == ExpectedValue(input)
<1>1. input \in Nat /\ right \in 100 .. 799
  <2>1. input \in 100 .. 799
    BY SampleRange DEF BaselineInv
  <2>2. input \in Nat
    BY <2>1
  <2> QED
    BY <2>2, ResultRange
<1>2. AllOnes \in Nat /\ AllOnes > 1000
  BY WorkloadAssumption
<1>3. CASE fault = Fault("none", 0)
  BY <1>3, OneWorkload DEF Surfaced, Fault, Unprotected!Corrupted, Unprotected!Input
<1>4. CASE fault = Fault("copy_a", AllOnes) \/ fault = Fault("all_distinct", AllOnes)
  <2>1. fault.target \in {"copy_a", "all_distinct"} /\ fault.value = AllOnes
    BY <1>4 DEF Fault
  <2>2. Surfaced = ExpectedValue(AllOnes)
    BY <2>1, OneWorkload DEF Surfaced, Unprotected!Corrupted, Unprotected!Input
  <2>3. ExpectedValue(AllOnes) = right <=> AllOnes % 700 = input % 700
    BY <1>1, <1>2, ResultTellsInput DEF ExpectedValue
  <2> QED
    BY <2>1, <2>2, <2>3
<1>5. CASE fault = Fault("active_value", AllOnes) \/ fault = Fault("primary_value", AllOnes)
  <2>1. Surfaced = AllOnes /\ fault.target \notin {"none", "copy_a", "all_distinct"}
    BY <1>5 DEF Surfaced, Fault, Unprotected!Corrupted
  <2> QED
    BY <1>1, <1>2, <2>1
<1>6. CASE fault = Fault("active_checksum", 16) \/ fault = Fault("primary_checksum", 16)
  <2>1. /\ Surfaced = FlipBit(right)
        /\ fault.target \notin {"none", "copy_a", "all_distinct"}
    BY <1>6, OneWorkload DEF Surfaced, Fault, Unprotected!Corrupted, Unprotected!Input,
                            FlipBit, Unprotected!FlipBit
  <2>2. FlipBit(right) # right
    BY <1>1 DEF FlipBit
  <2> QED
    BY <2>1, <2>2
<1>7. CASE fault = Fault("control_phase", 4) \/ fault = Fault("control_signature", 16)
  <2>1. Surfaced = 0 /\ fault.target \notin {"none", "copy_a", "all_distinct"}
    BY <1>7 DEF Surfaced, Fault
  <2> QED
    BY <1>1, <2>1
<1> QED
  BY <1>3, <1>4, <1>5, <1>6, <1>7 DEF WorkflowFaults

LEMMA BaselineStep ==
  ASSUME BaselineInv, Unprotected!Next
  PROVE  BaselineInv'
<1>1. CASE Unprotected!Begin
  <2>1. /\ iteration \in Nat /\ iteration' = iteration + 1 /\ pc' = "run"
        /\ fault' = ChooseWorkflowFault(campaign, iteration')
    BY <1>1, OneWorkload DEF BaselineInv, Unprotected!Begin
  <2>2. iteration' \in Nat \ {0}
    BY <2>1
  <2>3. fault' \in WorkflowFaults
    BY <2>1, <2>2, WorkflowChoice
  <2> QED
    BY <2>1, <2>2, <2>3
       DEF BaselineInv, Unprotected!FaultsComeThrough, Unprotected!Classified
<1>2. CASE Unprotected!RunWorkflow
  <2>1. pc' = "classify" /\ UNCHANGED <<iteration, fault>> /\ last_value' = Surfaced
    BY <1>2, OneWorkload DEF Unprotected!RunWorkflow, Surfaced
  <2>2. Surfaced' = Surfaced
    BY <2>1 DEF Surfaced, Unprotected!Corrupted, Unprotected!Input
  <2> QED
    BY <2>1, <2>2 DEF BaselineInv, Unprotected!FaultsComeThrough, Unprotected!Classified
<1>3. CASE Unprotected!Classify
  <2>1. /\ pc = "classify" /\ pc' = "top" /\ UNCHANGED <<iteration, fault, last_value>>
        /\ outcome' = IF last_value = ExpectedValue(SampleInput(iteration))
                      THEN "CORRECT" ELSE "SDC"
        /\ passed' = IF fault.target = "none" THEN outcome' = "CORRECT"
                                              ELSE outcome' # "SDC"
    BY <1>3, OneWorkload DEF Unprotected!Classify
  <2>2. passed' <=> last_value = ExpectedValue(SampleInput(iteration))
    BY <2>1
  <2>3. last_value = Surfaced /\ iteration \in Nat /\ fault \in WorkflowFaults
    BY <2>1 DEF BaselineInv
  <2>4. Unprotected!FaultsComeThrough'
    BY <2>1, <2>2, <2>3, SurfacedIsWrong, OneWorkload DEF Unprotected!FaultsComeThrough
  <2> QED
    BY <2>1, <2>3, <2>4 DEF BaselineInv
<1> QED
  BY <1>1, <1>2, <1>3 DEF Unprotected!Next

-----------------------------------------------------------------------------
(* The protected workflow *)


Sampled == SampleInput(iteration)

TrueResult == ExpectedValue(Sampled)

(* The faults nothing masks. *)
Stopping == fault.target \in {"all_distinct", "control_phase", "control_signature"}

Replaced == fault.target \in {"primary_value", "primary_checksum"}

RolledBack == fault.target \in {"active_value", "active_checksum"}

Outvoted == IF fault.target = "copy_a" THEN 1 ELSE 0

Holds(value) ==
  record = Protected!Double(Protected!Copy(value, TRUE), Protected!Copy(value, TRUE))

Found(value, tmr, recovery, restart, control) ==
  facts = [value |-> value, outcome |-> "CORRECT", tmr |-> tmr, recovery |-> recovery,
           restart |-> restart, control |-> control]

Accepted == IF Replaced THEN "ALTERNATE_ACCEPTED" ELSE "PRIMARY_ACCEPTED"

AtRead ==
  /\ triplet = Protected!Triplet(Sampled, Sampled, Sampled, 0)
  /\ Holds(Sampled) /\ monitor = Protected!Monitor(0) /\ ~committed
  /\ Found(0, "OK", "PRIMARY_ACCEPTED", "COMMITTED", "OK")

AtCompute ==
  /\ fault.target # "all_distinct"
  /\ triplet.fault_count = Outvoted /\ voted = Sampled
  /\ Holds(Sampled) /\ monitor = Protected!HitMonitor(Protected!Monitor(1)) /\ ~committed
  /\ Found(0, "OK", "PRIMARY_ACCEPTED", "COMMITTED", "OK")

Computed(phase) ==
  /\ ~Stopping
  /\ triplet.fault_count = Outvoted
  /\ Holds(TrueResult) /\ monitor = Protected!Monitor(phase) /\ ~committed
  /\ Found(0, "OK", Accepted, "COMMITTED", "OK")

AtClassify ==
  \/ /\ ~Stopping /\ committed
     /\ triplet.fault_count = Outvoted
     /\ Holds(TrueResult)
     /\ Found(TrueResult, "OK", Accepted, IF RolledBack THEN "RESTORED" ELSE "COMMITTED", "OK")
  \/ /\ Stopping /\ ~committed
     /\ Holds(Sampled)
     /\ \E tmr \in {"OK", "NO_MAJORITY"},
           control \in {"OK", "INVALID_TRANSITION", "BAD_SIGNATURE"} :
          /\ Found(0, tmr, "PRIMARY_ACCEPTED", "COMMITTED", control)
          /\ tmr # "OK" \/ control # "OK"

CombinedInv ==
  /\ iteration \in Nat /\ fault \in WorkflowFaults
  /\ pc \in {"top", "read", "compute", "validate", "commit", "classify"}
  /\ pc # "top" => iteration > 0
  /\ pc = "read"     => AtRead
  /\ pc = "compute"  => AtCompute
  /\ pc = "validate" => Computed(2)
  /\ pc = "commit"   => Computed(4)
  /\ pc = "classify" => AtClassify
  /\ Protected!NoSilentCorruption /\ Protected!SafeStopKeepsRecord
  /\ Protected!EachFaultHasItsAnswer

(* What an iteration says once it is classified, which the others keep.    *)
LEMMA NotClassified ==
  ASSUME pc' # "top"
  PROVE  /\ Protected!NoSilentCorruption' /\ Protected!SafeStopKeepsRecord'
         /\ Protected!EachFaultHasItsAnswer'
  BY DEF Protected!NoSilentCorruption, Protected!SafeStopKeepsRecord,
         Protected!EachFaultHasItsAnswer, Protected!Classified

LEMMA Ranges ==
  ASSUME iteration \in Nat
  PROVE  /\ Sampled \in 100 .. 799 /\ TrueResult \in 100 .. 799
         /\ AllOnes \in Nat /\ AllOnes > 1000
<1>1. Sampled \in 100 .. 799
  BY SampleRange DEF Sampled
<1>2. Sampled \in Nat
  BY <1>1
<1>3. TrueResult \in 100 .. 799
  BY <1>2, ResultRange DEF TrueResult
<1> QED
  BY <1>1, <1>3, WorkloadAssumption

LEMMA CombinedBegin ==
  ASSUME CombinedInv, Protected!Begin PROVE CombinedInv'
<1>1. /\ pc = "top" /\ pc' = "read" /\ iteration \in Nat /\ iteration' = iteration + 1
      /\ triplet' = Protected!Triplet(Sampled', Sampled', Sampled', 0)
      /\ Holds(Sampled)' /\ monitor' = Protected!Monitor(0) /\ committed' = FALSE
      /\ facts' = Protected!NoFacts(0)
      /\ fault' = ChooseWorkflowFault(campaign, iteration')
  BY OneWorkload DEF CombinedInv, Protected!Begin, Sampled, Holds
<1>2. iteration' \in Nat \ {0}
  BY <1>1
<1>3. fault' \in WorkflowFaults
  BY <1>1, <1>2, WorkflowChoice
<1>4. AtRead'
  BY <1>1 DEF AtRead, Found, Protected!NoFacts
<1> QED
  BY <1>1, <1>2, <1>3, <1>4, NotClassified DEF CombinedInv

(* One copy is outvoted, three different ones are not.                     *)
LEMMA HitTriplets ==
  ASSUME iteration \in Nat, fault \in WorkflowFaults,
         triplet = Protected!Triplet(Sampled, Sampled, Sampled, 0)
  PROVE  LET hit == Protected!HitTriplet(triplet)
         IN  /\ Protected!NoMajority(hit) <=> fault.target = "all_distinct"
             /\ fault.target # "all_distinct" =>
                  /\ Protected!Vote(hit) = Sampled
                  /\ Protected!CountedVote(hit).fault_count = Outvoted
<1> DEFINE hit == Protected!HitTriplet(triplet)
<1>1. Sampled \in 100 .. 799 /\ AllOnes \in Nat /\ AllOnes > 1000
  BY Ranges
<1>2. CASE fault.target = "all_distinct"
  <2>1. fault.value = AllOnes
    BY <1>2 DEF WorkflowFaults, Fault
  <2>2. hit = Protected!Triplet(AllOnes, AllOnes - 1, AllOnes - 2, 0)
    BY <1>2, <2>1 DEF Protected!HitTriplet, Protected!Triplet
  <2>3. hit.a = AllOnes /\ hit.b = AllOnes - 1 /\ hit.c = AllOnes - 2
    BY <2>2 DEF Protected!Triplet
  <2> QED
    BY <1>1, <1>2, <2>3 DEF Protected!NoMajority
<1>3. CASE fault.target = "copy_a"
  <2>1. fault.value = AllOnes
    BY <1>3 DEF WorkflowFaults, Fault
  <2>2. hit = Protected!Triplet(AllOnes, Sampled, Sampled, 0)
    BY <1>3, <2>1 DEF Protected!HitTriplet, Protected!Triplet
  <2>3. AllOnes # Sampled
    BY <1>1
  <2>4. hit.a = AllOnes /\ hit.b = Sampled /\ hit.c = Sampled /\ hit.fault_count = 0
    BY <2>2 DEF Protected!Triplet
  <2>5. Protected!CountedVote(hit) = [hit EXCEPT !.fault_count = @ + 1]
    BY <2>3, <2>4 DEF Protected!CountedVote
  <2>6. Protected!CountedVote(hit).fault_count = 1
    BY <2>2, <2>4, <2>5 DEF Protected!Triplet
  <2> QED
    BY <1>3, <2>3, <2>4, <2>6 DEF Protected!NoMajority, Protected!Vote, Outvoted
<1>4. CASE fault.target \notin {"all_distinct", "copy_a"}
  <2>1. hit = Protected!Triplet(Sampled, Sampled, Sampled, 0)
    BY <1>4 DEF Protected!HitTriplet
  <2>2. hit.a = Sampled /\ hit.b = Sampled /\ hit.c = Sampled /\ hit.fault_count = 0
    BY <2>1 DEF Protected!Triplet
  <2>3. Protected!CountedVote(hit) = hit
    BY <2>2 DEF Protected!CountedVote
  <2> QED
    BY <1>4, <2>2, <2>3 DEF Protected!NoMajority, Protected!Vote, Outvoted
<1> QED
  BY <1>2, <1>3, <1>4

LEMMA CombinedReadInput ==
  ASSUME CombinedInv, Protected!ReadInput PROVE CombinedInv'
<1> DEFINE hit == Protected!HitTriplet(triplet)
<1>1. /\ pc = "read" /\ iteration \in Nat /\ iteration > 0 /\ fault \in WorkflowFaults
      /\ AtRead /\ UNCHANGED <<iteration, fault, record, committed>>
      /\ monitor' = Protected!HitMonitor(Protected!Monitor(1))
      /\ triplet' = Protected!CountedVote(hit)
  BY DEF CombinedInv, Protected!ReadInput
<1>2. UNCHANGED <<Sampled, TrueResult, Stopping, Outvoted>> /\ Holds(Sampled)' = Holds(Sampled)
  BY <1>1 DEF Sampled, TrueResult, Stopping, Outvoted, Holds
<1>3. /\ Protected!NoMajority(hit) <=> fault.target = "all_distinct"
      /\ fault.target # "all_distinct" =>
           /\ Protected!Vote(hit) = Sampled
           /\ Protected!CountedVote(hit).fault_count = Outvoted
  BY <1>1, HitTriplets DEF AtRead
<1> HIDE DEF hit
<1>4. CASE fault.target = "all_distinct"
  <2>1. pc' = "classify" /\ facts' = [facts EXCEPT !.tmr = "NO_MAJORITY"]
    BY <1>3, <1>4 DEF Protected!ReadInput, hit
  <2>2. Found(0, "NO_MAJORITY", "PRIMARY_ACCEPTED", "COMMITTED", "OK")'
    BY <1>1, <2>1 DEF AtRead, Found
  <2>3. Stopping' /\ ~committed' /\ Holds(Sampled)'
    BY <1>1, <1>2, <1>4 DEF Stopping, AtRead
  <2>4. AtClassify'
    BY <2>2, <2>3 DEF AtClassify
  <2> QED
    BY <1>1, <2>1, <2>4, NotClassified DEF CombinedInv
<1>5. CASE fault.target # "all_distinct"
  <2>1. pc' = "compute" /\ facts' = facts /\ voted' = Protected!Vote(hit)
    BY <1>3, <1>5 DEF Protected!ReadInput, hit
  <2>2. monitor' = Protected!HitMonitor(Protected!Monitor(1))'
    BY <1>1 DEF Protected!HitMonitor, Protected!Monitor
  <2>3. AtCompute'
    BY <1>1, <1>2, <1>3, <1>5, <2>1, <2>2 DEF AtRead, AtCompute, Found
  <2> QED
    BY <1>1, <2>1, <2>3, NotClassified DEF CombinedInv
<1> QED
  BY <1>4, <1>5

LEMMA ChoiceKept ==
  ASSUME UNCHANGED <<iteration, fault>>
  PROVE  UNCHANGED <<Sampled, TrueResult, Stopping, Outvoted, Accepted, RolledBack, Replaced>>
  BY DEF Sampled, TrueResult, Stopping, Outvoted, Accepted, RolledBack, Replaced

(* What the control monitor finds after its fault.                         *)
LEMMA HitMonitors ==
  ASSUME fault \in WorkflowFaults
  PROVE  LET control == Protected!Advance(Protected!HitMonitor(Protected!Monitor(1)), 1)
         IN  control = "OK" <=> fault.target \notin {"control_phase", "control_signature"}
<1>1. /\ fault.target = "control_phase" => fault.value = 4
      /\ fault.target \in {"none", "copy_a", "all_distinct", "active_value",
                           "active_checksum", "primary_value", "primary_checksum",
                           "control_phase", "control_signature"}
  BY DEF WorkflowFaults, Fault
<1>2. Protected!Monitor(1).phase = 1 /\ Protected!Monitor(1).signature = 1
  BY DEF Protected!Monitor
<1>3. CASE fault.target = "control_phase"
  <2>1. Protected!HitMonitor(Protected!Monitor(1)).phase = 4
    BY <1>1, <1>3 DEF Protected!HitMonitor, Protected!Monitor
  <2> QED
    BY <1>3, <2>1 DEF Protected!Advance
<1>4. CASE fault.target = "control_signature"
  <2>1. /\ Protected!HitMonitor(Protected!Monitor(1)).phase = 1
        /\ Protected!HitMonitor(Protected!Monitor(1)).signature = -1
    BY <1>4 DEF Protected!HitMonitor, Protected!Monitor, Protected!NoSignature
  <2> QED
    BY <1>4, <2>1 DEF Protected!Advance
<1>5. CASE fault.target \notin {"control_phase", "control_signature"}
  <2>1. Protected!HitMonitor(Protected!Monitor(1)) = Protected!Monitor(1)
    BY <1>5 DEF Protected!HitMonitor
  <2> QED
    BY <1>2, <1>5, <2>1 DEF Protected!Advance
<1> QED
  BY <1>3, <1>4, <1>5

(* The recovery block over a sound record and a sample: a primary result   *)
(* that was hit is replaced by the alternate's.                            *)
LEMMA BlockMasks ==
  ASSUME iteration \in Nat, fault \in WorkflowFaults, voted = Sampled, Holds(Sampled)
  PROVE  Protected!RunRecoveryBlock(record) =
           [status |-> Accepted,
            record |-> Protected!Double(Protected!Copy(TrueResult, TRUE),
                                        Protected!Copy(TrueResult, TRUE))]
<1> DEFINE saved   == Protected!Copy(Sampled, TRUE)
           wanted  == Protected!Copy(TrueResult, TRUE)
           primary == Protected!HitCopy(wanted, "primary_value", "primary_checksum")
<1>1. Sampled \in 0 .. 1000 /\ TrueResult \in 0 .. 1000 /\ AllOnes \in Nat /\ AllOnes > 1000
  BY Ranges
<1>2. Protected!Valid(saved) /\ Protected!Valid(wanted)
  BY <1>1 DEF Protected!Valid, Protected!Copy
<1>3. record.active = saved /\ record.checkpoint = saved
  BY DEF Holds, Protected!Double
<1>4. Protected!Copy(Protected!ExpectedValue(voted), TRUE) = wanted
  BY OneWorkload DEF TrueResult
<1>5. Protected!Valid(primary) <=> ~Replaced
  <2>1. CASE fault.target = "primary_value"
    <3>1. fault.value = AllOnes
      BY <2>1 DEF WorkflowFaults, Fault
    <3>2. primary.value = AllOnes
      BY <2>1, <3>1 DEF Protected!HitCopy, Protected!Copy
    <3> HIDE DEF primary
    <3>3. primary.value \notin 0 .. 1000
      BY <1>1, <3>2
    <3> QED
      BY <2>1, <3>3 DEF Protected!Valid, Replaced
  <2>2. CASE fault.target = "primary_checksum"
    <3>1. primary.sealed = FALSE
      BY <2>2 DEF Protected!HitCopy, Protected!Copy
    <3> QED
      BY <2>2, <3>1 DEF Protected!Valid, Replaced
  <2>3. CASE ~Replaced
    <3>1. primary = wanted
      BY <2>3 DEF Protected!HitCopy, Replaced
    <3> QED
      BY <1>2, <2>3, <3>1
  <2> QED
    BY <2>1, <2>2, <2>3 DEF Replaced
<1>6. \A s, c : Protected!Accept(s, Protected!Double(wanted, c)) =
                  [status |-> s, record |-> Protected!Double(wanted, wanted)]
  BY <1>2 DEF Protected!Accept, Protected!Double
<1>7. CASE ~Replaced
  <2>1. primary = wanted
    BY <1>7 DEF Protected!HitCopy, Replaced
  <2>2. Protected!RunRecoveryBlock(record) =
          Protected!Accept("PRIMARY_ACCEPTED", Protected!Double(wanted, saved))
    BY <1>2, <1>3, <1>4, <2>1 DEF Protected!RunRecoveryBlock
  <2> QED
    BY <1>6, <1>7, <2>2 DEF Accepted
<1>8. CASE Replaced
  <2>1. Protected!RunRecoveryBlock(record) = Protected!RunAlternate(saved)
    BY <1>2, <1>3, <1>4, <1>5, <1>8 DEF Protected!RunRecoveryBlock
  <2>2. Protected!RunAlternate(saved) =
          Protected!Accept("ALTERNATE_ACCEPTED", Protected!Double(wanted, saved))
    BY <1>2, <1>4 DEF Protected!RunAlternate
  <2> QED
    BY <1>6, <1>8, <2>1, <2>2 DEF Accepted
<1> QED
  BY <1>7, <1>8

LEMMA CombinedCompute ==
  ASSUME CombinedInv, Protected!Compute PROVE CombinedInv'
<1> DEFINE control == Protected!Advance(monitor, 1)
<1>1. /\ pc = "compute" /\ iteration \in Nat /\ iteration > 0 /\ fault \in WorkflowFaults
      /\ AtCompute /\ UNCHANGED <<iteration, fault, triplet, committed>>
  BY DEF CombinedInv, Protected!Compute
<1>2. UNCHANGED <<Sampled, TrueResult, Stopping, Outvoted, Accepted, RolledBack, Replaced>>
  BY <1>1, ChoiceKept
<1>3. control = "OK" <=> fault.target \notin {"control_phase", "control_signature"}
  BY <1>1, HitMonitors DEF AtCompute
<1>4. CASE fault.target \in {"control_phase", "control_signature"}
  <2>1. PICK found \in {"OK", "INVALID_TRANSITION", "BAD_SIGNATURE"} : found = control
    BY DEF Protected!Advance
  <2>2. /\ pc' = "classify" /\ record' = record /\ found # "OK"
        /\ facts' = [facts EXCEPT !.control = found]
    BY <1>3, <1>4, <2>1 DEF Protected!Compute
  <2>3. facts' = [value |-> 0, outcome |-> "CORRECT", tmr |-> "OK",
                  recovery |-> "PRIMARY_ACCEPTED", restart |-> "COMMITTED",
                  control |-> found]
    BY <1>1, <2>2 DEF AtCompute, Found
  <2>4. Stopping' /\ ~committed' /\ Holds(Sampled)'
    BY <1>1, <1>2, <1>4, <2>2 DEF Stopping, AtCompute, Holds
  <2>5. AtClassify'
    BY <2>2, <2>3, <2>4 DEF AtClassify, Found
  <2> QED
    BY <1>1, <2>2, <2>5, NotClassified DEF CombinedInv
<1>5. CASE fault.target \notin {"control_phase", "control_signature"}
  <2>1. Protected!RunRecoveryBlock(record) =
           [status |-> Accepted,
            record |-> Protected!Double(Protected!Copy(TrueResult, TRUE),
                                        Protected!Copy(TrueResult, TRUE))]
    BY <1>1, BlockMasks DEF AtCompute
  <2>2. Accepted \in {"PRIMARY_ACCEPTED", "ALTERNATE_ACCEPTED"}
    BY DEF Accepted
  <2>3. /\ pc' = "validate" /\ monitor' = Protected!Monitor(2)
        /\ record' = Protected!Double(Protected!Copy(TrueResult, TRUE),
                                      Protected!Copy(TrueResult, TRUE))
        /\ facts' = [facts EXCEPT !.recovery = Accepted, !.value = facts.value]
    <3> DEFINE run == Protected!RunRecoveryBlock(record)
    <3>1. /\ run.status = Accepted
          /\ run.record = Protected!Double(Protected!Copy(TrueResult, TRUE),
                                           Protected!Copy(TrueResult, TRUE))
      BY <2>1
    <3>2. run.status \in {"PRIMARY_ACCEPTED", "ALTERNATE_ACCEPTED"}
      BY <2>2, <3>1
    <3>3. control = "OK"
      BY <1>3, <1>5
    <3>4. /\ pc' = "validate" /\ monitor' = Protected!Monitor(2) /\ record' = run.record
          /\ facts' = [facts EXCEPT !.recovery = run.status, !.value = facts.value]
      <4> HIDE DEF run, control
      <4> QED
        BY <3>2, <3>3 DEF Protected!Compute, run, control
    <3> QED
      BY <3>1, <3>4
  <2>4. Found(0, "OK", Accepted, "COMMITTED", "OK")'
    BY <1>1, <1>2, <2>3 DEF AtCompute, Found
  <2>5. ~Stopping' /\ triplet'.fault_count = Outvoted' /\ Holds(TrueResult)' /\ ~committed'
    BY <1>1, <1>2, <1>5, <2>3 DEF AtCompute, Stopping, Holds
  <2>6. Protected!Monitor(2)' = Protected!Monitor(2)
    BY DEF Protected!Monitor
  <2>7. Computed(2)'
    BY <2>3, <2>4, <2>5, <2>6 DEF Computed
  <2> QED
    BY <1>1, <2>3, <2>7, NotClassified DEF CombinedInv
<1> QED
  BY <1>4, <1>5

LEMMA MonitorAdvances ==
  ASSUME NEW phase \in Nat
  PROVE  Protected!Advance(Protected!Monitor(phase), phase) = "OK"
  BY DEF Protected!Advance, Protected!Monitor

LEMMA CombinedValidate ==
  ASSUME CombinedInv, Protected!Validate PROVE CombinedInv'
<1>1. /\ pc = "validate" /\ iteration \in Nat /\ iteration > 0 /\ fault \in WorkflowFaults
      /\ Computed(2) /\ UNCHANGED <<iteration, fault, triplet, record, committed>>
  BY DEF CombinedInv, Protected!Validate
<1>2. UNCHANGED <<Sampled, TrueResult, Stopping, Outvoted, Accepted, RolledBack, Replaced>>
  BY <1>1, ChoiceKept
<1>3. pc' = "commit" /\ monitor' = Protected!Monitor(4) /\ facts' = facts
  BY <1>1, MonitorAdvances DEF Computed, Protected!Validate
<1>4. Protected!Monitor(4)' = Protected!Monitor(4)
  BY DEF Protected!Monitor
<1>5. Computed(4)'
  BY <1>1, <1>2, <1>3, <1>4 DEF Computed, Holds, Found
<1> QED
  BY <1>1, <1>3, <1>5, NotClassified DEF CombinedInv

(* A commit of what was hit falls back on what the block captured.         *)
LEMMA CommitMasks ==
  ASSUME iteration \in Nat, fault \in WorkflowFaults, Holds(TrueResult)
  PROVE  Protected!CommitOrRestart(
           [record EXCEPT !.active =
              Protected!HitCopy(@, "active_value", "active_checksum")]) =
           [status |-> IF RolledBack THEN "RESTORED" ELSE "COMMITTED", record |-> record]
<1> DEFINE wanted == Protected!Copy(TrueResult, TRUE)
           active == Protected!HitCopy(wanted, "active_value", "active_checksum")
           hit    == [record EXCEPT !.active =
                        Protected!HitCopy(@, "active_value", "active_checksum")]
<1>1. TrueResult \in 0 .. 1000 /\ AllOnes \in Nat /\ AllOnes > 1000
  BY Ranges
<1>2. Protected!Valid(wanted)
  BY <1>1 DEF Protected!Valid, Protected!Copy
<1>3. hit = Protected!Double(active, wanted) /\ record = Protected!Double(wanted, wanted)
  <2>1. record = Protected!Double(wanted, wanted)
    BY DEF Holds
  <2>2. record.active = wanted
    BY <2>1 DEF Protected!Double
  <2>3. hit = [record EXCEPT !.active = active]
    BY <2>2
  <2> HIDE DEF active, wanted, hit
  <2> QED
    BY <2>1, <2>3 DEF Protected!Double
<1>4. CASE ~RolledBack
  <2>1. active = wanted
    BY <1>4 DEF Protected!HitCopy, RolledBack
  <2> QED
    BY <1>2, <1>3, <1>4, <2>1 DEF Protected!CommitOrRestart, Protected!Double
<1>5. CASE RolledBack
  <2>1. ~Protected!Valid(active)
    <3>1. CASE fault.target = "active_value"
      <4>1. fault.value = AllOnes
        BY <3>1 DEF WorkflowFaults, Fault
      <4>2. active.value = AllOnes
        BY <3>1, <4>1 DEF Protected!HitCopy, Protected!Copy
      <4> HIDE DEF active
      <4>3. active.value \notin 0 .. 1000
        BY <1>1, <4>2
      <4> QED
        BY <4>3 DEF Protected!Valid
    <3>2. CASE fault.target = "active_checksum"
      <4>1. active.sealed = FALSE
        BY <3>2 DEF Protected!HitCopy, Protected!Copy
      <4> QED
        BY <4>1 DEF Protected!Valid
    <3> QED
      BY <1>5, <3>1, <3>2 DEF RolledBack
  <2> HIDE DEF active
  <2> QED
    BY <1>2, <1>3, <1>5, <2>1 DEF Protected!CommitOrRestart, Protected!Double
<1> QED
  BY <1>4, <1>5

LEMMA CombinedCommit ==
  ASSUME CombinedInv, Protected!Commit PROVE CombinedInv'
<1> DEFINE status == IF RolledBack THEN "RESTORED" ELSE "COMMITTED"
<1>1. /\ pc = "commit" /\ iteration \in Nat /\ iteration > 0 /\ fault \in WorkflowFaults
      /\ Computed(4) /\ UNCHANGED <<iteration, fault, triplet>> /\ pc' = "classify"
  BY DEF CombinedInv, Protected!Commit
<1>2. UNCHANGED <<Sampled, TrueResult, Stopping, Outvoted, Accepted, RolledBack, Replaced>>
  BY <1>1, ChoiceKept
<1>3. Protected!CommitOrRestart(
        [record EXCEPT !.active =
           Protected!HitCopy(@, "active_value", "active_checksum")]) =
        [status |-> status, record |-> record]
  BY <1>1, CommitMasks DEF Computed
<1>4. Protected!Advance(monitor, 4) = "OK"
  BY <1>1, MonitorAdvances DEF Computed
<1>5. record.active.value = TrueResult
  BY <1>1 DEF Computed, Holds, Protected!Double, Protected!Copy
<1>6. /\ record' = record /\ committed' = TRUE
      /\ facts' = [facts EXCEPT !.restart = status, !.value = TrueResult, !.control = "OK"]
  <2> DEFINE commit == Protected!CommitOrRestart(
                         [record EXCEPT !.active =
                            Protected!HitCopy(@, "active_value", "active_checksum")])
             control == Protected!Advance(monitor, 4)
  <2>1. /\ commit.record = record /\ commit.status = status /\ commit.status # "RESTORE_FAILED"
        /\ commit.record.active.value = TrueResult
    BY <1>3, <1>5
  <2>2. /\ record' = commit.record /\ committed' = (commit.status # "RESTORE_FAILED")
        /\ facts' = [facts EXCEPT
                       !.restart = commit.status, !.value = commit.record.active.value,
                       !.control = IF commit.status = "RESTORE_FAILED"
                                   THEN facts.control ELSE control]
    BY DEF Protected!Commit
  <2> HIDE DEF commit, control, status
  <2>3. control = "OK"
    BY <1>4 DEF control
  <2> QED
    BY <2>1, <2>2, <2>3
<1>7. Found(TrueResult, "OK", Accepted, status, "OK")'
  BY <1>1, <1>2, <1>6 DEF Computed, Found
<1>8. AtClassify'
  BY <1>1, <1>2, <1>6, <1>7 DEF Computed, AtClassify, Holds
<1> QED
  BY <1>1, <1>8, NotClassified DEF CombinedInv

LEMMA CombinedClassify ==
  ASSUME CombinedInv, Protected!Classify PROVE CombinedInv'
<1>1. /\ pc = "classify" /\ iteration \in Nat /\ iteration > 0 /\ fault \in WorkflowFaults
      /\ AtClassify /\ UNCHANGED <<iteration, fault, triplet, record, committed>>
      /\ pc' = "top" /\ facts' = [facts EXCEPT !.outcome = Protected!Outcome]
      /\ passed' = IF fault.target = "none" THEN Protected!Outcome = "CORRECT"
                                            ELSE Protected!Outcome # "SDC"
  BY DEF CombinedInv, Protected!Classify
<1>2. UNCHANGED <<Sampled, TrueResult, Stopping, Outvoted, Accepted, RolledBack, Replaced>>
  BY <1>1, ChoiceKept
<1>3. fault.target \in {"none", "copy_a", "all_distinct", "active_value",
                        "active_checksum", "primary_value", "primary_checksum",
                        "control_phase", "control_signature"}
  BY <1>1 DEF WorkflowFaults, Fault
<1>4. Protected!ExpectedValue(Protected!SampleInput(iteration)) = TrueResult
  BY OneWorkload DEF TrueResult, Sampled
<1>4a. Protected!ExpectedValue(Protected!SampleInput(iteration')) = TrueResult
  BY <1>1, <1>4
<1>5. Sampled \in 0 .. 1000 /\ TrueResult \in 0 .. 1000
  BY <1>1, Ranges
<1>6. CASE ~Stopping
  <2> DEFINE restart == IF RolledBack THEN "RESTORED" ELSE "COMMITTED"
  <2>1. /\ committed /\ triplet.fault_count = Outvoted /\ Holds(TrueResult)
        /\ Found(TrueResult, "OK", Accepted, restart, "OK")
    BY <1>1, <1>6 DEF AtClassify
  <2>2. ~Protected!Stopped
    BY <2>1 DEF Protected!Stopped, Found, Accepted
  <2>3. Protected!Corrected <=> Replaced \/ RolledBack \/ fault.target = "copy_a"
    BY <2>1 DEF Protected!Corrected, Found, Accepted, Outvoted
  <2>4. Protected!Outcome = IF Protected!Corrected THEN "RECOVERED" ELSE "CORRECT"
    BY <1>4, <2>1, <2>2 DEF Protected!Outcome, Found
  <2>5. /\ facts'.outcome = Protected!Outcome /\ facts'.recovery = Accepted
        /\ facts'.restart = restart
    BY <1>1, <2>1 DEF Found
  <2>6. /\ fault.target = "none" => Protected!Outcome = "CORRECT"
        /\ fault.target # "none" => Protected!Outcome = "RECOVERED"
    BY <1>3, <1>6, <2>3, <2>4 DEF Replaced, RolledBack, Stopping
  <2>7. /\ record.active = Protected!Copy(TrueResult, TRUE)
        /\ record.checkpoint = Protected!Copy(TrueResult, TRUE)
    BY <2>1 DEF Holds, Protected!Double
  <2>8. Protected!NoSilentCorruption'
    <3>1. passed' /\ facts'.outcome # "SDC"
      BY <1>1, <2>5, <2>6
    <3>2. record'.active = Protected!Copy(TrueResult, TRUE) /\ record'.checkpoint = record'.active
      BY <1>1, <2>7
    <3> QED
      BY <1>4a, <3>1, <3>2 DEF Protected!NoSilentCorruption, Protected!Copy
  <2>9. Protected!SafeStopKeepsRecord'
    BY <2>5, <2>6 DEF Protected!SafeStopKeepsRecord
  <2>10. Protected!EachFaultHasItsAnswer'
    BY <1>1, <1>3, <1>6, <2>1, <2>5, <2>6
       DEF Protected!EachFaultHasItsAnswer, Stopping, Accepted, Replaced, RolledBack, Outvoted
  <2> QED
    BY <1>1, <2>8, <2>9, <2>10 DEF CombinedInv
<1>7. CASE Stopping
  <2>1. PICK tmr, control :
          /\ Found(0, tmr, "PRIMARY_ACCEPTED", "COMMITTED", control)
          /\ tmr # "OK" \/ control # "OK"
    BY <1>1, <1>7 DEF AtClassify
  <2>2. ~committed /\ Holds(Sampled)
    BY <1>1, <1>7 DEF AtClassify
  <2>3. Protected!Outcome = "SAFE_STOP"
    BY <2>1 DEF Protected!Outcome, Protected!Stopped, Found
  <2>4. facts'.outcome = "SAFE_STOP"
    BY <1>1, <2>1, <2>3 DEF Found
  <2>5. Protected!Valid(record.active) /\ Protected!Valid(record.checkpoint)
    BY <1>5, <2>2 DEF Holds, Protected!Double, Protected!Copy, Protected!Valid
  <2>6. Protected!NoSilentCorruption'
    BY <1>1, <1>7, <2>2, <2>3, <2>4 DEF Protected!NoSilentCorruption, Stopping
  <2>7. Protected!SafeStopKeepsRecord'
    BY <1>1, <2>2, <2>5 DEF Protected!SafeStopKeepsRecord, Protected!Valid
  <2>8. Protected!EachFaultHasItsAnswer'
    BY <1>1, <1>7, <2>4 DEF Protected!EachFaultHasItsAnswer, Stopping
  <2> QED
    BY <1>1, <2>6, <2>7, <2>8 DEF CombinedInv
<1> QED
  BY <1>6, <1>7

LEMMA CombinedStep ==
  ASSUME CombinedInv, Protected!Next PROVE CombinedInv'
  BY CombinedBegin, CombinedReadInput, CombinedCompute, CombinedValidate, CombinedCommit,
     CombinedClassify DEF Protected!Next

-----------------------------------------------------------------------------
(* The images of one technique each *)

Chosen(i) == Single!ChooseFault(technique, campaign, i, Single!Expected(technique, i))

Wanted == Single!Expected(technique, iteration)

Initial == Single!InitialValue(technique, iteration)

SingleTypes ==
  /\ technique \in Single!Techniques
  /\ iteration \in 0 .. TechniqueIterations
  /\ pc \in {"top", "inject", "run", "alternate", "finish", "validate"}
  /\ pc # "top" => iteration > 0
  /\ request.value \in Nat
  /\ failures = 0 /\ passes \in Nat
  /\ passes = iteration - (IF pc = "top" THEN 0 ELSE 1)

Shapes ==
  /\ DOMAIN last = DOMAIN Single!FreshFacts(technique)
  /\ DOMAIN state = DOMAIN Single!FreshState(technique, 0)
  /\ last.value \in Nat

(* The faults so far are those of the iterations so far.                   *)
Met(n) == {Chosen(i).target : i \in 1 .. n}

Injections == injected = Met(IF pc = "inject" THEN iteration - 1 ELSE iteration)

FaultWritten == request = Chosen(iteration) /\ last.target = request.target

Fresh ==
  /\ state = Single!FreshState(technique, iteration)
  /\ last = Single!FreshFacts(technique)

TmrStarts ==
  /\ state = [a |-> iteration, b |-> iteration, c |-> iteration]
  /\ last = [target |-> request.target, value |-> 0, status |-> "OK"]

CheckpointStarts ==
  /\ state = Single!Double(Single!Copy(Wanted), Single!Copy(Initial))
  /\ last = [target |-> request.target, value |-> 0, status |-> "COMMITTED",
             active |-> "OK", checkpoint |-> "OK"]

BlockFacts(primary) ==
  last = [target |-> request.target, value |-> 0, status |-> "PRIMARY_ACCEPTED",
          checkpoint |-> "OK", primary |-> primary, restore |-> "OK", alternate |-> "OK"]

BlockHolds(value) == state = Single!Double(Single!Copy(value), Single!Copy(value))

(* The primary was rejected and rolled back.                               *)
AlternateStarts ==
  /\ BlockHolds(Initial)
  /\ \/ /\ request.target \in {"primary_value", "primary_value_and_alternate_checksum"}
        /\ BlockFacts("ABOVE_MAX")
     \/ request.target = "primary_checksum" /\ BlockFacts("INVALID_CHECKSUM")

ControlFactsAre(value, phase) ==
  last = [target |-> request.target, value |-> value, status |-> "OK", control |-> "OK",
          terminal |-> "OK", phase |-> phase]

(* Before each advance: the phase reached, what was computed and committed.*)
ControlAfter(leg) ==
  /\ leg = 0 => /\ state = [monitor |-> Single!Monitor(0), legs |-> 0, computed |-> 0]
                /\ ControlFactsAre(0, 0)
  /\ leg = 1 => /\ state = [monitor |-> Single!HitMonitor(Single!Monitor(1)), legs |-> 1,
                            computed |-> 0]
                /\ ControlFactsAre(0, state.monitor.phase)
  /\ leg > 1 => /\ state = [monitor |-> Single!Monitor(leg), legs |-> leg,
                            computed |-> Wanted]
                /\ ControlFactsAre(IF leg < 4 THEN 0 ELSE Wanted, leg)

ControlPlaces ==
  /\ pc = "run" => \E leg \in 0 .. 4 : /\ leg > 1 => request.target = "none"
                                       /\ ControlAfter(leg)
  /\ pc = "finish" => \/ request.target = "none" /\ ControlAfter(5)
                      \/ request.target = "control_early_terminal" /\ ControlAfter(2)

SinglePlaces ==
  /\ technique \in {"tmr", "checkpoint"} => pc \notin {"alternate", "finish"}
  /\ technique = "tmr" /\ pc = "run" => TmrStarts
  /\ technique = "checkpoint" /\ pc = "run" => CheckpointStarts
  /\ technique = "recovery-block" =>
       /\ pc # "finish"
       /\ pc = "run" => BlockHolds(Initial) /\ BlockFacts("OK")
       /\ pc = "alternate" => AlternateStarts
  /\ technique = "control-flow" => pc # "alternate" /\ ControlPlaces

SingleInv ==
  /\ SingleTypes /\ Shapes /\ Injections /\ SinglePlaces
  /\ pc = "inject" => Fresh
  /\ pc \notin {"top", "inject"} => FaultWritten
  /\ pc = "validate" => Single!AsExpected /\ Single!RowIsTrue
  /\ Single!RowTellsTheTruth

Frame == UNCHANGED <<technique, campaign, iteration, request, passes, failures, injected>>

LEMMA FrameKeeps ==
  ASSUME UNCHANGED <<technique, campaign>>
  PROVE  /\ \A i : Chosen(i)' = Chosen(i)
         /\ \A n : Met(n)' = Met(n)
         /\ iteration' = iteration => Wanted' = Wanted /\ Initial' = Initial
<1>1. \A i : Chosen(i)' = Chosen(i)
  BY DEF Chosen
<1>2. \A n : Met(n)' = Met(n)
  BY <1>1 DEF Met
<1> QED
  BY <1>1, <1>2 DEF Wanted, Initial

LEMMA Inputs ==
  ASSUME NEW t \in Single!Techniques, NEW i \in Nat
  PROVE  /\ Single!Expected(t, i) \in Nat /\ Single!InitialValue(t, i) \in Nat
         /\ t \in {"checkpoint", "recovery-block"} =>
              Single!Expected(t, i) <= 1000 /\ Single!InitialValue(t, i) <= 1000
         /\ t = "tmr" => Single!Expected(t, i) = i
<1>1. (i * 37) % 700 \in 0 .. 699 /\ (i * 29) % 700 \in 0 .. 699
  OBVIOUS
<1>2. (i * 41) % 900 \in 0 .. 899 /\ (i * 53 + 211) % 700 \in 0 .. 699
  OBVIOUS
<1>3. (((i % 700) * 37) + 17) % 700 \in 0 .. 699
  OBVIOUS
<1>4. t \in {"tmr", "checkpoint", "recovery-block", "control-flow"}
  BY DEF Single!Techniques
<1>5. Single!InitialValue(t, i) \in Nat /\ (t # "tmr" => Single!InitialValue(t, i) <= 999)
  BY <1>1, <1>2, <1>4 DEF Single!InitialValue
<1>6. Single!InitialValue("control-flow", i) \in 100 .. 999
  BY <1>2 DEF Single!InitialValue
<1>7. CASE t = "control-flow"
  <2>1. Single!Expected(t, i) = Single!InitialValue("control-flow", i) + 7
    BY <1>7 DEF Single!Expected
  <2> QED
    BY <1>5, <1>6, <1>7, <2>1
<1>8. CASE t # "control-flow"
  BY <1>2, <1>3, <1>4, <1>5, <1>8 DEF Single!Expected
<1> QED
  BY <1>7, <1>8

-----------------------------------------------------------------------------
(* The loop *)

LEMMA SingleBegin ==
  ASSUME SingleInv, Single!Begin PROVE SingleInv'
<1>1. /\ pc = "top" /\ iteration < TechniqueIterations /\ iteration' = iteration + 1
      /\ state' = Single!FreshState(technique, iteration')
      /\ last' = Single!FreshFacts(technique) /\ pc' = "inject"
      /\ UNCHANGED <<technique, campaign, request, passes, failures, injected>>
  BY DEF Single!Begin
<1>2. SingleTypes /\ Injections /\ TechniqueIterations \in Nat
  BY ImagesAssumption, WorkloadAssumption DEF SingleInv
<1>3. SingleTypes'
  BY <1>1, <1>2 DEF SingleTypes
<1>4. Injections'
  <2>1. injected = Met(iteration) /\ iteration' - 1 = iteration
    BY <1>1, <1>2 DEF Injections, SingleTypes
  <2> QED
    BY <1>1, <2>1, FrameKeeps DEF Injections
<1>5. Shapes'
  <2>1. technique \in {"tmr", "checkpoint", "recovery-block", "control-flow"}
    BY <1>2 DEF SingleTypes, Single!Techniques
  <2>2. last'.value = 0
    BY <1>1, <2>1 DEF Single!FreshFacts
  <2>3. DOMAIN Single!FreshState(technique, iteration') = DOMAIN Single!FreshState(technique, 0)
    BY <2>1 DEF Single!FreshState, Single!Double
  <2>4. /\ Single!FreshFacts(technique)' = Single!FreshFacts(technique)
        /\ Single!FreshState(technique, 0)' = Single!FreshState(technique, 0)
    BY <1>1 DEF Single!FreshFacts, Single!FreshState
  <2> QED
    BY <1>1, <2>2, <2>3, <2>4 DEF Shapes
<1>6. Fresh'
  BY <1>1 DEF Fresh, Single!FreshFacts, Single!FreshState
<1>7. SinglePlaces' /\ Single!RowTellsTheTruth'
  BY <1>1 DEF SinglePlaces, Single!RowTellsTheTruth, ControlPlaces
<1> QED
  BY <1>1, <1>3, <1>4, <1>5, <1>6, <1>7 DEF SingleInv

LEMMA ChosenValue ==
  ASSUME NEW t \in Single!Techniques, NEW name, NEW i \in 1 .. TechniqueIterations
  PROVE  \E n \in DOMAIN Single!Table(t, Single!Expected(t, i)) :
           Single!ChooseFault(t, name, i, Single!Expected(t, i)) =
             Single!Table(t, Single!Expected(t, i))[n]
<1> DEFINE e     == Single!Expected(t, i)
           table == Single!Table(t, e)
           order == Single!MixedOrder(t)
<1>1. CASE name \in DOMAIN table
  BY <1>1 DEF Single!ChooseFault
<1>2. CASE name \notin DOMAIN table
  <2>1. PICK place : place = ((i - 1) % Len(order)) + 1
    OBVIOUS
  <2>2. Single!ChooseFault(t, name, i, e) = table[order[place]]
    BY <1>2, <2>1 DEF Single!ChooseFault
  <2>3. order[place] \in DOMAIN table
    <3>1. i - 1 \in Nat
      BY ImagesAssumption, WorkloadAssumption
    <3>2. CASE t = "tmr"
      <4>1. order = <<"none", "single-a", "all-distinct">> /\ Len(order) = 3
        BY <3>2 DEF Single!MixedOrder, Single!TmrMixedOrder
      <4>2. place \in 1 .. 3
        BY <2>1, <3>1, <4>1
      <4>3. DOMAIN table = {"none", "single-a", "all-distinct"}
        BY <3>2 DEF Single!Table, Single!TmrCampaigns
      <4> HIDE DEF order, table
      <4> QED
        BY <4>1, <4>2, <4>3
    <3>3. CASE t = "checkpoint"
      <4>1. order = Single!CheckpointMixedOrder /\ Len(order) = 6
        BY <3>3 DEF Single!MixedOrder, Single!CheckpointMixedOrder
      <4>2. place \in 1 .. 6
        BY <2>1, <3>1, <4>1
      <4>3. \A p \in 1 .. 6 : Single!CheckpointMixedOrder[p] \in DOMAIN Single!CheckpointCampaigns
        BY DEF Single!CheckpointMixedOrder, Single!CheckpointCampaigns
      <4>4. table = Single!CheckpointCampaigns
        BY <3>3 DEF Single!Table
      <4> HIDE DEF order, table
      <4> QED
        BY <4>1, <4>2, <4>3, <4>4
    <3>4. CASE t = "recovery-block"
      <4>1. order = Single!RecoveryBlockMixedOrder /\ Len(order) = 5
        BY <3>4 DEF Single!MixedOrder, Single!RecoveryBlockMixedOrder
      <4>2. place \in 1 .. 5
        BY <2>1, <3>1, <4>1
      <4>3. \A p \in 1 .. 5 :
              Single!RecoveryBlockMixedOrder[p] \in DOMAIN Single!RecoveryBlockCampaigns
        BY DEF Single!RecoveryBlockMixedOrder, Single!RecoveryBlockCampaigns
      <4>4. table = Single!RecoveryBlockCampaigns
        BY <3>4 DEF Single!Table
      <4> HIDE DEF order, table
      <4> QED
        BY <4>1, <4>2, <4>3, <4>4
    <3>5. CASE t = "control-flow"
      <4>1. order = Single!ControlFlowMixedOrder /\ Len(order) = 6
        BY <3>5 DEF Single!MixedOrder, Single!ControlFlowMixedOrder
      <4>2. place \in 1 .. 6
        BY <2>1, <3>1, <4>1
      <4>3. \A p \in 1 .. 6 :
              Single!ControlFlowMixedOrder[p] \in DOMAIN Single!ControlFlowCampaigns
        BY DEF Single!ControlFlowMixedOrder, Single!ControlFlowCampaigns
      <4>4. table = Single!ControlFlowCampaigns
        BY <3>5 DEF Single!Table
      <4> HIDE DEF order, table
      <4> QED
        BY <4>1, <4>2, <4>3, <4>4
    <3> QED
      BY <3>2, <3>3, <3>4, <3>5 DEF Single!Techniques
  <2> QED
    BY <2>2, <2>3
<1> QED
  BY <1>1, <1>2

(* What each host's table holds. *)
Listed(t, e, f) ==
  /\ t = "tmr" =>
       f \in {Single!NoFault, Single!Fault("copy_a", AllOnes - e),
             Single!Fault("all_distinct", e + 1)}
  /\ t = "checkpoint" =>
       f \in {Single!NoFault, Single!Fault("active_value", AllOnes),
             Single!Fault("active_length", AllOnes), Single!Fault("active_checksum", 16),
             Single!Fault("checkpoint_checksum", 16),
             Single!Fault("active_value_and_checkpoint_checksum", AllOnes)}
  /\ t = "recovery-block" =>
       f \in {Single!NoFault, Single!Fault("primary_value", AllOnes),
             Single!Fault("primary_checksum", 16),
             Single!Fault("primary_value_and_alternate_checksum", AllOnes),
             Single!Fault("primary_value_and_checkpoint_checksum", AllOnes)}
  /\ t = "control-flow" =>
       f \in {Single!NoFault, Single!Fault("control_phase", 4),
             Single!Fault("control_signature", 16), Single!Fault("control_skip_compute", 0),
             Single!Fault("control_repeat_read", 0),
             Single!Fault("control_early_terminal", 0)}

LEMMA ListedFaults ==
  ASSUME NEW t \in Single!Techniques, NEW e, NEW n \in DOMAIN Single!Table(t, e)
  PROVE  Listed(t, e, Single!Table(t, e)[n])
<1>1. CASE t = "tmr"
  <2>1. n \in {"none", "single-a", "all-distinct"} /\ Single!Table(t, e) = Single!TmrCampaigns(e)
    BY <1>1 DEF Single!Table, Single!TmrCampaigns
  <2> QED
    BY <1>1, <2>1 DEF Single!TmrCampaigns, Listed
<1>2. CASE t = "checkpoint"
  <2>1. Single!Table(t, e) = Single!CheckpointCampaigns
    BY <1>2 DEF Single!Table
  <2> QED
    BY <1>2, <2>1 DEF Single!CheckpointCampaigns, Listed
<1>3. CASE t = "recovery-block"
  <2>1. Single!Table(t, e) = Single!RecoveryBlockCampaigns
    BY <1>3 DEF Single!Table
  <2> QED
    BY <1>3, <2>1 DEF Single!RecoveryBlockCampaigns, Listed
<1>4. CASE t = "control-flow"
  <2>1. Single!Table(t, e) = Single!ControlFlowCampaigns
    BY <1>4 DEF Single!Table
  <2> QED
    BY <1>4, <2>1 DEF Single!ControlFlowCampaigns, Listed
<1> QED
  BY <1>1, <1>2, <1>3, <1>4 DEF Single!Techniques

LEMMA ChosenIsListed ==
  ASSUME SingleTypes, iteration > 0
  PROVE  /\ Listed(technique, Wanted, Chosen(iteration))
         /\ Chosen(iteration).value \in Nat
<1>1. /\ technique \in Single!Techniques /\ iteration \in 1 .. TechniqueIterations
      /\ iteration \in Nat /\ TechniqueIterations \in Nat
  BY ImagesAssumption, WorkloadAssumption DEF SingleTypes
<1>2. Wanted \in Nat /\ (technique = "tmr" => Wanted = iteration)
  BY <1>1, Inputs DEF Wanted
<1>3. PICK n \in DOMAIN Single!Table(technique, Wanted) :
        Chosen(iteration) = Single!Table(technique, Wanted)[n]
  BY <1>1, ChosenValue DEF Chosen, Wanted
<1>4. Listed(technique, Wanted, Chosen(iteration))
  BY <1>1, <1>3, ListedFaults
<1>5. AllOnes \in Nat /\ AllOnes - iteration \in Nat
  BY <1>1, ImagesAssumption, WorkloadAssumption
<1>6. Chosen(iteration).value \in Nat
  BY <1>1, <1>2, <1>4, <1>5 DEF Listed, Single!NoFault, Single!Fault, Single!Techniques
<1> QED
  BY <1>4, <1>6

LEMMA SingleInject ==
  ASSUME SingleInv, Single!Inject PROVE SingleInv'
<1>1. /\ pc = "inject" /\ pc' = "run" /\ request' = Chosen(iteration)
      /\ injected' = injected \cup {request'.target}
      /\ last' = [last EXCEPT !.target = request'.target]
      /\ UNCHANGED <<technique, campaign, iteration, state, passes, failures>>
  BY DEF Single!Inject, Chosen
<1>2. /\ SingleTypes /\ Injections /\ Fresh /\ iteration > 0 /\ iteration \in Nat
      /\ technique \in {"tmr", "checkpoint", "recovery-block", "control-flow"}
      /\ TechniqueIterations \in Nat
  BY <1>1, ImagesAssumption, WorkloadAssumption
     DEF SingleInv, SingleTypes, Single!Techniques
<1>3. /\ \A i : Chosen(i)' = Chosen(i)
      /\ \A n : Met(n)' = Met(n)
      /\ Wanted' = Wanted /\ Initial' = Initial
  BY <1>1, FrameKeeps
<1>4. SingleTypes'
  BY <1>1, <1>2, ChosenIsListed DEF SingleTypes
<1>5. Injections'
  <2>1. injected = Met(iteration - 1) /\ Met(iteration)' = Met(iteration)
    BY <1>1, <1>2, <1>3 DEF Injections
  <2>2. Met(iteration) = Met(iteration - 1) \cup {Chosen(iteration).target}
    <3>1. 1 .. iteration = (1 .. iteration - 1) \cup {iteration}
      BY <1>2
    <3> QED
      BY <3>1 DEF Met
  <2> QED
    BY <1>1, <1>3, <2>1, <2>2 DEF Injections
<1> DEFINE target == request'.target
<1>7. CASE technique = "tmr"
  <2>1. /\ state' = [a |-> iteration, b |-> iteration, c |-> iteration]
        /\ last' = [target |-> target, value |-> 0, status |-> "OK"]
    BY <1>1, <1>2, <1>7 DEF Fresh, Single!FreshState, Single!FreshFacts
  <2>2. Shapes'
    BY <1>1, <1>7, <2>1 DEF Shapes, Single!FreshState, Single!FreshFacts
  <2>3. SinglePlaces'
    BY <1>1, <1>7, <2>1 DEF SinglePlaces, TmrStarts
  <2>4. FaultWritten'
    BY <1>1, <1>3, <2>1 DEF FaultWritten
  <2> QED
    BY <1>1, <1>4, <1>5, <2>2, <2>3, <2>4 DEF SingleInv, Single!RowTellsTheTruth
<1>8. CASE technique = "checkpoint"
  <2>1. /\ state' = Single!Double(Single!Copy(Wanted), Single!Copy(Initial))
        /\ last' = [target |-> target, value |-> 0, status |-> "COMMITTED",
                    active |-> "OK", checkpoint |-> "OK"]
    BY <1>1, <1>2, <1>8 DEF Fresh, Single!FreshState, Single!FreshFacts, Wanted, Initial
  <2>2. Shapes'
    BY <1>1, <1>8, <2>1 DEF Shapes, Single!FreshState, Single!FreshFacts, Single!Double
  <2>3. SinglePlaces'
    BY <1>1, <1>3, <1>8, <2>1
       DEF SinglePlaces, CheckpointStarts, Single!Double, Single!Copy
  <2>4. FaultWritten'
    BY <1>1, <1>3, <2>1 DEF FaultWritten
  <2> QED
    BY <1>1, <1>4, <1>5, <2>2, <2>3, <2>4 DEF SingleInv, Single!RowTellsTheTruth
<1>9. CASE technique = "recovery-block"
  <2>1. /\ state' = Single!Double(Single!Copy(Initial), Single!Copy(Initial))
        /\ last' = [target |-> target, value |-> 0, status |-> "PRIMARY_ACCEPTED",
                    checkpoint |-> "OK", primary |-> "OK", restore |-> "OK",
                    alternate |-> "OK"]
    BY <1>1, <1>2, <1>9 DEF Fresh, Single!FreshState, Single!FreshFacts, Initial
  <2>2. Shapes'
    BY <1>1, <1>9, <2>1 DEF Shapes, Single!FreshState, Single!FreshFacts, Single!Double
  <2>3. SinglePlaces'
    BY <1>1, <1>3, <1>9, <2>1
       DEF SinglePlaces, BlockHolds, BlockFacts, Single!Double, Single!Copy
  <2>4. FaultWritten'
    BY <1>1, <1>3, <2>1 DEF FaultWritten
  <2> QED
    BY <1>1, <1>4, <1>5, <2>2, <2>3, <2>4 DEF SingleInv, Single!RowTellsTheTruth
<1>10. CASE technique = "control-flow"
  <2>1. /\ state' = [monitor |-> Single!Monitor(0), legs |-> 0, computed |-> 0]
        /\ last' = [target |-> target, value |-> 0, status |-> "OK", control |-> "OK",
                    terminal |-> "OK", phase |-> 0]
    BY <1>1, <1>2, <1>10 DEF Fresh, Single!FreshState, Single!FreshFacts
  <2>2. Shapes'
    BY <1>1, <1>10, <2>1 DEF Shapes, Single!FreshState, Single!FreshFacts
  <2>3. ControlAfter(0)'
    <3>1. Single!Monitor(0)' = Single!Monitor(0)
      BY DEF Single!Monitor
    <3>2. /\ (state = [monitor |-> Single!Monitor(0), legs |-> 0, computed |-> 0])'
          /\ ControlFactsAre(0, 0)'
      BY <2>1, <3>1 DEF ControlFactsAre
    <3> QED
      BY <3>2 DEF ControlAfter
  <2>4. SinglePlaces'
    BY <1>1, <1>10, <2>3 DEF SinglePlaces, ControlPlaces
  <2>5. FaultWritten'
    BY <1>1, <1>3, <2>1 DEF FaultWritten
  <2> QED
    BY <1>1, <1>4, <1>5, <2>2, <2>4, <2>5 DEF SingleInv, Single!RowTellsTheTruth
<1> QED
  BY <1>2, <1>7, <1>8, <1>9, <1>10

(* The technique is done: what validate finds is what it waits for.        *)
LEMMA SingleRan ==
  ASSUME SingleInv, pc \in {"run", "alternate", "finish"}, pc' = "validate", Frame,
         Shapes', last'.target = last.target, Single!AsExpected', Single!RowIsTrue'
  PROVE  SingleInv'
<1>1. SingleTypes' /\ Injections' /\ FaultWritten'
  BY FrameKeeps DEF SingleInv, SingleTypes, Injections, FaultWritten, Frame
<1>2. SinglePlaces'
  BY DEF SinglePlaces, ControlPlaces
<1> QED
  BY <1>1, <1>2 DEF SingleInv, Single!RowTellsTheTruth

LEMMA SingleValidate ==
  ASSUME SingleInv, Single!Validate PROVE SingleInv'
<1>1. /\ pc = "validate" /\ pc' = "top" /\ Single!AsExpected /\ Single!RowIsTrue
      /\ request' = [request EXCEPT !.target = "none"]
      /\ passes' = passes + 1 /\ failures' = failures + 0
      /\ UNCHANGED <<technique, campaign, iteration, state, last, injected>>
  BY DEF Single!Validate, SingleInv
<1>2. SingleTypes /\ Injections /\ Shapes /\ FaultWritten
  BY <1>1 DEF SingleInv
<1>3. request'.value = request.value
  <2>1. request = Chosen(iteration) /\ iteration > 0
    BY <1>1, <1>2 DEF FaultWritten, SingleTypes
  <2> QED
    BY <1>1, <1>2, <2>1, ChosenIsListed
       DEF Listed, SingleTypes, Single!Techniques, Single!Fault, Single!NoFault
<1>4. SingleTypes'
  BY <1>1, <1>2, <1>3 DEF SingleTypes
<1>5. Injections'
  BY <1>1, <1>2, FrameKeeps DEF Injections
<1>6. Single!RowTellsTheTruth'
  <2>1. Single!RowIsTrue' = Single!RowIsTrue
    BY <1>1 DEF Single!RowIsTrue, Single!Good, Single!KeepsRecord
  <2> QED
    BY <1>1, <2>1 DEF Single!RowTellsTheTruth
<1>7. Shapes' /\ SinglePlaces'
  BY <1>1, <1>2 DEF Shapes, SinglePlaces, ControlPlaces, Single!FreshState, Single!FreshFacts
<1> QED
  BY <1>1, <1>4, <1>5, <1>6, <1>7 DEF SingleInv

LEMMA TmrRuns ==
  ASSUME SingleInv, Single!RunTmr
  PROVE  Shapes' /\ last'.target = last.target /\ Single!TmrAsExpected' /\ Single!RowIsTrue'
<1>1. /\ pc = "run" /\ pc' = "validate" /\ technique = "tmr" /\ technique' = "tmr"
      /\ iteration' = iteration /\ TmrStarts /\ SingleTypes /\ FaultWritten
  BY DEF Single!RunTmr, SingleInv, SinglePlaces
<1>2. iteration \in Nat /\ iteration > 0 /\ AllOnes \in Nat /\ AllOnes > 2 * iteration
  BY <1>1, ImagesAssumption, WorkloadAssumption DEF SingleTypes
<1>3. request \in {Single!Fault("none", 0), Single!Fault("copy_a", AllOnes - iteration),
                   Single!Fault("all_distinct", iteration + 1)}
  BY <1>1, <1>2, ChosenIsListed, Inputs
     DEF Listed, Wanted, FaultWritten, SingleTypes, Single!NoFault
<1>4. Single!Expected(technique, iteration)' = iteration
  BY <1>1 DEF Single!Expected
<1> DEFINE hit == CASE request.target = "copy_a" -> [state EXCEPT !.a = request.value]
               [] request.target = "all_distinct" ->
                    [a |-> request.value, b |-> request.value + 1, c |-> request.value + 2]
               [] OTHER -> state
           majority == hit.a \in {hit.b, hit.c} \/ hit.b = hit.c
<1>5. /\ state' = hit
      /\ last' = [last EXCEPT
                    !.status = IF majority THEN "OK" ELSE "NO_MAJORITY",
                    !.value = IF majority
                              THEN IF hit.a \in {hit.b, hit.c} THEN hit.a ELSE hit.b
                              ELSE @]
  BY DEF Single!RunTmr
<1> HIDE DEF hit
<1>6. CASE request.target = "all_distinct"
  <2>1. hit = [a |-> iteration + 1, b |-> iteration + 2, c |-> iteration + 3]
    BY <1>2, <1>3, <1>6 DEF hit, Single!Fault
  <2>2. ~majority
    BY <1>2, <2>1
  <2>3. last' = [target |-> "all_distinct", value |-> 0, status |-> "NO_MAJORITY"]
    BY <1>1, <1>5, <1>6, <2>2 DEF TmrStarts
  <2> QED
    BY <1>1, <1>2, <1>4, <1>5, <1>6, <2>1, <2>3
       DEF Shapes, TmrStarts, Single!TmrAsExpected, Single!RowIsTrue, Single!Good,
           Single!KeepsRecord, Single!FreshFacts, Single!FreshState
<1>7. CASE request.target # "all_distinct"
  <2>1. /\ hit.b = iteration /\ hit.c = iteration /\ DOMAIN hit = {"a", "b", "c"}
    BY <1>1, <1>3, <1>7 DEF hit, TmrStarts, Single!Fault
  <2>2. last' = [target |-> request.target, value |-> iteration, status |-> "OK"]
    BY <1>1, <1>5, <2>1 DEF TmrStarts
  <2> QED
    BY <1>1, <1>2, <1>4, <1>5, <1>7, <2>1, <2>2
       DEF Shapes, TmrStarts, Single!TmrAsExpected, Single!RowIsTrue, Single!Good,
           Single!KeepsRecord, Single!FreshFacts, Single!FreshState
<1> QED
  BY <1>6, <1>7

(* The checks of a record *)
LEMMA Checks ==
  \A v \in Nat : v <= 1000 =>
    /\ Single!Check(Single!Copy(v)) = "OK"
    /\ Single!Check(Single!HitChecksum(Single!Copy(v))) = "INVALID_CHECKSUM"
    /\ Single!Check(Single!HitValue(Single!Copy(v), AllOnes)) = "ABOVE_MAX"
<1>1. AllOnes \in Nat /\ AllOnes > 1000
  BY WorkloadAssumption
<1>2. ASSUME NEW v \in Nat, v <= 1000
      PROVE  /\ Single!Check(Single!Copy(v)) = "OK"
             /\ Single!Check(Single!HitChecksum(Single!Copy(v))) = "INVALID_CHECKSUM"
             /\ Single!Check(Single!HitValue(Single!Copy(v), AllOnes)) = "ABOVE_MAX"
  BY <1>1, <1>2
     DEF Single!Check, Single!Copy, Single!HitChecksum, Single!HitValue
<1> QED
  BY <1>2

LEMMA LengthCheck ==
  \A v \in Nat : v <= 1000 =>
    Single!Check([Single!Copy(v) EXCEPT !.length = AllOnes, !.sealed = FALSE]) =
      "INVALID_LENGTH"
  BY WorkloadAssumption DEF Single!Check, Single!Copy

LEMMA ValueHit == \A v : Single!HitValue(Single!Copy(v), AllOnes).value = AllOnes
  BY DEF Single!Copy, Single!HitValue

(* The three rows a record can end in. *)
LEMMA GoodRow ==
  ASSUME technique' \in {"checkpoint", "recovery-block"}, BlockHolds(Wanted)',
         NEW status, last'.status = status, last'.value = Wanted',
         status \in {"COMMITTED", "PRIMARY_ACCEPTED", "ALTERNATE_ACCEPTED"}
  PROVE  Single!RowIsTrue' /\ Single!Both(Wanted)'
  BY DEF Single!RowIsTrue, Single!Both, Single!Good, BlockHolds, Wanted,
         Single!Double, Single!Copy

LEMMA RestoredRow ==
  ASSUME technique' \in {"checkpoint", "recovery-block"}, BlockHolds(Initial)',
         NEW status, last'.status = status, last'.value = Initial',
         status \in {"RESTORED", "UNRECOVERABLE"}
  PROVE  Single!RowIsTrue' /\ Single!Both(Initial)'
  BY DEF Single!RowIsTrue, Single!Both, Single!Good, Single!KeepsRecord, BlockHolds,
         Initial, Single!Double, Single!Copy

LEMMA FailedRow ==
  ASSUME technique' \in {"checkpoint", "recovery-block"},
         Single!Check(state'.active) # "OK", Single!Check(state'.checkpoint) # "OK",
         last'.status = "RESTORE_FAILED"
  PROVE  Single!RowIsTrue'
  BY DEF Single!RowIsTrue, Single!Good, Single!KeepsRecord, Single!Check

LEMMA CheckpointRuns ==
  ASSUME SingleInv, Single!RunCheckpoint
  PROVE  Shapes' /\ last'.target = last.target /\ Single!CheckpointAsExpected' /\ Single!RowIsTrue'
<1>1. /\ pc = "run" /\ pc' = "validate" /\ technique = "checkpoint" /\ technique' = "checkpoint"
      /\ UNCHANGED <<technique, campaign, iteration, request>>
      /\ CheckpointStarts /\ SingleTypes /\ FaultWritten
  BY DEF Single!RunCheckpoint, SingleInv, SinglePlaces
<1>2. /\ iteration \in Nat /\ iteration > 0 /\ AllOnes \in Nat /\ AllOnes > 1000
      /\ technique \in Single!Techniques
  BY <1>1, ImagesAssumption, WorkloadAssumption DEF SingleTypes
<1>3. /\ Wanted \in Nat /\ Wanted <= 1000 /\ Initial \in Nat /\ Initial <= 1000
      /\ Wanted' = Wanted /\ Initial' = Initial
  BY <1>1, <1>2, Inputs, FrameKeeps DEF Wanted, Initial
<1>4. Listed("checkpoint", Wanted, request)
  BY <1>1, ChosenIsListed DEF FaultWritten, SingleTypes
<1> DEFINE wanted  == Single!Copy(Wanted)
           initial == Single!Copy(Initial)
           hit     == Single!HitRecord(state)
           commit  == Single!CommitOrRestart(hit)
<1>5. /\ state' = commit.record
      /\ last' = [last EXCEPT !.status = commit.status,
                              !.active = Single!Check(hit.active),
                              !.checkpoint = commit.checkpoint,
                              !.value = commit.record.active.value]
  BY DEF Single!RunCheckpoint
<1>6. state = Single!Double(wanted, initial)
  BY <1>1 DEF CheckpointStarts
<1>7. ASSUME NEW status, NEW r, NEW a, NEW c, NEW v \in Nat,
             commit = [status |-> status, record |-> r, checkpoint |-> c],
             DOMAIN r = {"active", "checkpoint"}, r.active.value = v,
             Single!Check(hit.active) = a
      PROVE  /\ Shapes' /\ last'.target = last.target /\ state' = r
             /\ last' = [target |-> request.target, value |-> v, status |-> status,
                         active |-> a, checkpoint |-> c]
  <2> HIDE DEF hit, commit
  <2>1. last' = [target |-> request.target, value |-> v, status |-> status,
                 active |-> a, checkpoint |-> c]
    BY <1>1, <1>5, <1>7 DEF CheckpointStarts
  <2> QED
    BY <1>1, <1>5, <1>7, <2>1
       DEF Shapes, CheckpointStarts, Single!FreshFacts, Single!FreshState, Single!Double
<1>8. \A c : /\ Single!Double(initial, c).active.value = Initial
            /\ Single!Double(wanted, c).active.value = Wanted
  BY DEF Single!Double, Single!Copy
<1>9. /\ Wanted' = Single!Expected(technique, iteration)'
      /\ Initial' = Single!InitialValue(technique, iteration)'
  BY DEF Wanted, Initial
<1>10. ASSUME hit.active = wanted
       PROVE  /\ Shapes' /\ last'.target = last.target /\ Single!RowIsTrue'
              /\ Single!Both(Wanted)'
              /\ last' = [target |-> request.target, value |-> Wanted,
                          status |-> "COMMITTED", active |-> "OK", checkpoint |-> "OK"]
  <2>1. Single!Check(hit.active) = "OK"
    BY <1>3, <1>10, Checks
  <2>2. commit = [status |-> "COMMITTED", record |-> Single!Double(wanted, wanted),
                  checkpoint |-> "OK"]
    BY <1>10, <2>1 DEF Single!CommitOrRestart
  <2>3. DOMAIN Single!Double(wanted, wanted) = {"active", "checkpoint"}
    BY DEF Single!Double
  <2>4. /\ Shapes' /\ last'.target = last.target /\ state' = Single!Double(wanted, wanted)
        /\ last' = [target |-> request.target, value |-> Wanted,
                    status |-> "COMMITTED", active |-> "OK", checkpoint |-> "OK"]
    BY <1>3, <1>7, <1>8, <2>1, <2>2, <2>3
  <2>5. BlockHolds(Wanted)' /\ last'.value = Wanted' /\ last'.status = "COMMITTED"
    BY <1>3, <2>4 DEF BlockHolds, Single!Double, Single!Copy
  <2>6. Single!RowIsTrue' /\ Single!Both(Wanted)'
    BY <1>1, <2>5, GoodRow
  <2> QED
    BY <2>4, <2>6
<1>11. ASSUME NEW answer, Single!Check(hit.active) = answer, answer # "OK",
              hit.checkpoint = initial
       PROVE  /\ Shapes' /\ last'.target = last.target /\ Single!RowIsTrue'
              /\ Single!Both(Initial)'
              /\ last' = [target |-> request.target, value |-> Initial,
                          status |-> "RESTORED", active |-> answer, checkpoint |-> "OK"]
  <2>1. Single!Check(hit.checkpoint) = "OK"
    BY <1>3, <1>11, Checks
  <2>2. commit = [status |-> "RESTORED", record |-> Single!Double(initial, initial),
                  checkpoint |-> "OK"]
    BY <1>11, <2>1 DEF Single!CommitOrRestart
  <2>3. DOMAIN Single!Double(initial, initial) = {"active", "checkpoint"}
    BY DEF Single!Double
  <2>4. /\ Shapes' /\ last'.target = last.target /\ state' = Single!Double(initial, initial)
        /\ last' = [target |-> request.target, value |-> Initial,
                    status |-> "RESTORED", active |-> answer, checkpoint |-> "OK"]
    BY <1>3, <1>7, <1>8, <1>11, <2>1, <2>2, <2>3
  <2>5. BlockHolds(Initial)' /\ last'.value = Initial' /\ last'.status = "RESTORED"
    BY <1>3, <2>4 DEF BlockHolds, Single!Double, Single!Copy
  <2>6. Single!RowIsTrue' /\ Single!Both(Initial)'
    BY <1>1, <2>5, RestoredRow
  <2> QED
    BY <2>4, <2>6
<1>12. CASE request.target = "active_value"
  <2>1. request.value = AllOnes
    BY <1>4, <1>12 DEF Listed, Single!Fault, Single!NoFault
  <2>2. hit = Single!Double(Single!HitValue(wanted, AllOnes), initial)
    BY <1>6, <1>12, <2>1 DEF Single!HitRecord, Single!Double
  <2>3. hit.active = Single!HitValue(wanted, AllOnes) /\ hit.checkpoint = initial
    BY <2>2 DEF Single!Double
  <2>4. Single!Check(hit.active) = "ABOVE_MAX"
    BY <1>3, <2>3, Checks
  <2> QED
    BY <1>9, <1>11, <1>12, <2>3, <2>4 DEF Single!CheckpointAsExpected, Single!CheckpointFacts, Initial
<1>13. CASE request.target = "active_length"
  <2>1. request.value = AllOnes
    BY <1>4, <1>13 DEF Listed, Single!Fault, Single!NoFault
  <2>2. hit = Single!Double([wanted EXCEPT !.length = AllOnes, !.sealed = FALSE], initial)
    BY <1>6, <1>13, <2>1 DEF Single!HitRecord, Single!Double
  <2>3. hit.active = [wanted EXCEPT !.length = AllOnes, !.sealed = FALSE] /\ hit.checkpoint = initial
    BY <2>2 DEF Single!Double
  <2>4. Single!Check(hit.active) = "INVALID_LENGTH"
    BY <1>3, <2>3, LengthCheck
  <2> QED
    BY <1>9, <1>11, <1>13, <2>3, <2>4 DEF Single!CheckpointAsExpected, Single!CheckpointFacts, Initial
<1>14. CASE request.target = "active_checksum"
  <2>1. hit = Single!Double(Single!HitChecksum(wanted), initial)
    BY <1>6, <1>14 DEF Single!HitRecord, Single!Double
  <2>2. hit.active = Single!HitChecksum(wanted) /\ hit.checkpoint = initial
    BY <2>1 DEF Single!Double
  <2>3. Single!Check(hit.active) = "INVALID_CHECKSUM"
    BY <1>3, <2>2, Checks
  <2> QED
    BY <1>9, <1>11, <1>14, <2>2, <2>3 DEF Single!CheckpointAsExpected, Single!CheckpointFacts, Initial
<1>15. CASE request.target \in {"none", "checkpoint_checksum"}
  <2>1. hit.active = wanted
    BY <1>6, <1>15 DEF Single!HitRecord, Single!Double
  <2> QED
    BY <1>9, <1>10, <1>15, <2>1 DEF Single!CheckpointAsExpected, Single!CheckpointFacts, Wanted
<1>16. CASE request.target = "active_value_and_checkpoint_checksum"
  <2>1. request.value = AllOnes
    BY <1>4, <1>16 DEF Listed, Single!Fault, Single!NoFault
  <2>2. hit = Single!Double(Single!HitValue(wanted, AllOnes), Single!HitChecksum(initial))
    BY <1>6, <1>16, <2>1 DEF Single!HitRecord, Single!Double
  <2>3. /\ Single!Check(hit.active) = "ABOVE_MAX" /\ hit.active.value = AllOnes
        /\ Single!Check(hit.checkpoint) = "INVALID_CHECKSUM"
        /\ DOMAIN hit = {"active", "checkpoint"}
    <3>1. /\ hit.active = Single!HitValue(wanted, AllOnes)
          /\ hit.checkpoint = Single!HitChecksum(initial)
          /\ DOMAIN hit = {"active", "checkpoint"}
      BY <2>2 DEF Single!Double
    <3>2. /\ Single!Check(Single!HitValue(wanted, AllOnes)) = "ABOVE_MAX"
          /\ Single!HitValue(wanted, AllOnes).value = AllOnes
      BY <1>3, Checks, ValueHit
    <3>3. Single!Check(Single!HitChecksum(initial)) = "INVALID_CHECKSUM"
      BY <1>3, Checks
    <3> HIDE DEF hit
    <3> QED
      BY <3>1, <3>2, <3>3
  <2>4. commit = [status |-> "RESTORE_FAILED", record |-> hit,
                  checkpoint |-> "INVALID_CHECKSUM"]
    BY <2>3 DEF Single!CommitOrRestart
  <2>5. /\ Shapes' /\ last'.target = last.target /\ state' = hit
        /\ last' = [target |-> request.target, value |-> AllOnes,
                    status |-> "RESTORE_FAILED", active |-> "ABOVE_MAX",
                    checkpoint |-> "INVALID_CHECKSUM"]
    BY <1>2, <1>7, <2>3, <2>4
  <2>6. Single!RowIsTrue'
    <3>1. /\ last'.status = "RESTORE_FAILED"
          /\ Single!Check(state'.active) # "OK" /\ Single!Check(state'.checkpoint) # "OK"
      BY <2>3, <2>5
    <3> QED
      BY <1>1, <3>1, FailedRow
  <2>7. state'.active.value = request'.value
    BY <1>1, <2>1, <2>3, <2>5
  <2> QED
    BY <1>16, <2>5, <2>6, <2>7 DEF Single!CheckpointAsExpected, Single!CheckpointFacts
<1>17. request.target \in {"none", "active_value", "active_length", "active_checksum",
                           "checkpoint_checksum", "active_value_and_checkpoint_checksum"}
  BY <1>4 DEF Listed, Single!Fault, Single!NoFault
<1> QED
  BY <1>12, <1>13, <1>14, <1>15, <1>16, <1>17

LEMMA SingleGoesOn ==
  ASSUME SingleInv, pc = "run", pc' \in {"run", "alternate", "finish"}, Frame,
         Shapes', last'.target = last.target, SinglePlaces'
  PROVE  SingleInv'
<1>1. SingleTypes' /\ Injections' /\ FaultWritten'
  BY FrameKeeps DEF SingleInv, SingleTypes, Injections, FaultWritten, Frame
<1> QED
  BY <1>1 DEF SingleInv, Single!RowTellsTheTruth

LEMMA Bounds ==
  ASSUME SingleTypes, iteration > 0
  PROVE  /\ technique \in Single!Techniques /\ iteration \in Nat
         /\ AllOnes \in Nat /\ AllOnes > 1000
         /\ Wanted \in Nat /\ Initial \in Nat
         /\ technique \in {"checkpoint", "recovery-block"} =>
              Wanted <= 1000 /\ Initial <= 1000
<1>1. /\ technique \in Single!Techniques /\ iteration \in Nat
      /\ AllOnes \in Nat /\ AllOnes > 1000
  BY ImagesAssumption, WorkloadAssumption DEF SingleTypes
<1> QED
  BY <1>1, Inputs DEF Wanted, Initial

(* A block that returns, and one that goes on to its alternate. *)
BlockRow(value, status, primary, restore, alternate) ==
  last' = [target |-> request.target, value |-> value, status |-> status,
           checkpoint |-> "OK", primary |-> primary, restore |-> restore,
           alternate |-> alternate]

LEMMA BlockShapes ==
  ASSUME technique = "recovery-block", technique' = "recovery-block",
         DOMAIN state' = {"active", "checkpoint"}, NEW value \in Nat,
         NEW status, NEW primary, NEW restore, NEW alternate,
         BlockRow(value, status, primary, restore, alternate),
         last.target = request.target
  PROVE  Shapes' /\ last'.target = last.target
  BY DEF Shapes, BlockRow, Single!FreshFacts, Single!FreshState, Single!Double

LEMMA Doubled ==
  ASSUME NEW a, NEW c
  PROVE  /\ Single!Double(a, c).active = a /\ Single!Double(a, c).checkpoint = c
         /\ DOMAIN Single!Double(a, c) = {"active", "checkpoint"}
  BY DEF Single!Double

(* What the primary leaves behind, by fault. *)
LEMMA PrimaryStored ==
  ASSUME SingleTypes, iteration > 0, technique = "recovery-block",
         Listed("recovery-block", Wanted, request)
  PROVE  LET wanted  == Single!Copy(Wanted)
             initial == Single!Copy(Initial)
             stored  == Single!AfterPrimary(Single!Double(wanted, initial))
         IN  /\ DOMAIN stored = {"active", "checkpoint"}
             /\ request.target = "none" =>
                  stored.active = wanted /\ Single!Check(stored.active) = "OK"
             /\ request.target \in {"primary_value", "primary_value_and_alternate_checksum"} =>
                  /\ Single!Check(stored.active) = "ABOVE_MAX"
                  /\ stored.checkpoint = initial /\ Single!Check(stored.checkpoint) = "OK"
             /\ request.target = "primary_checksum" =>
                  /\ Single!Check(stored.active) = "INVALID_CHECKSUM"
                  /\ stored.checkpoint = initial /\ Single!Check(stored.checkpoint) = "OK"
             /\ request.target = "primary_value_and_checkpoint_checksum" =>
                  /\ Single!Check(stored.active) = "ABOVE_MAX"
                  /\ Single!Check(stored.checkpoint) = "INVALID_CHECKSUM"
                  /\ stored.active.value = AllOnes
<1> DEFINE wanted  == Single!Copy(Wanted)
           initial == Single!Copy(Initial)
           stored  == Single!AfterPrimary(Single!Double(wanted, initial))
<1>1. /\ Wanted \in Nat /\ Initial \in Nat /\ Wanted <= 1000 /\ Initial <= 1000
  BY Bounds
<1>2. /\ request.target \in {"none", "primary_value", "primary_checksum",
                             "primary_value_and_alternate_checksum",
                             "primary_value_and_checkpoint_checksum"}
      /\ request.target \notin {"none", "primary_checksum"} => request.value = AllOnes
  BY DEF Listed, Single!Fault, Single!NoFault
<1>3. /\ Single!Check(wanted) = "OK" /\ Single!Check(initial) = "OK"
      /\ Single!Check(Single!HitValue(wanted, AllOnes)) = "ABOVE_MAX"
      /\ Single!Check(Single!HitChecksum(wanted)) = "INVALID_CHECKSUM"
      /\ Single!Check(Single!HitChecksum(initial)) = "INVALID_CHECKSUM"
      /\ Single!HitValue(wanted, AllOnes).value = AllOnes
  BY <1>1, Checks, ValueHit
<1>4. CASE request.target = "none"
  <2>1. stored = Single!Double(wanted, initial)
    BY <1>4 DEF Single!AfterPrimary
  <2>2. stored.active = wanted /\ DOMAIN stored = {"active", "checkpoint"}
    BY <2>1, Doubled
  <2> HIDE DEF stored
  <2> QED
    BY <1>4, <1>3, <2>2 DEF stored
<1>5. CASE request.target \in {"primary_value", "primary_value_and_alternate_checksum"}
  <2>1. stored = Single!Double(Single!HitValue(wanted, AllOnes), initial)
    BY <1>2, <1>5 DEF Single!AfterPrimary, Single!Double
  <2>2. /\ stored.active = Single!HitValue(wanted, AllOnes) /\ stored.checkpoint = initial
        /\ DOMAIN stored = {"active", "checkpoint"}
    BY <2>1, Doubled
  <2> HIDE DEF stored
  <2> QED
    BY <1>5, <1>3, <2>2 DEF stored
<1>6. CASE request.target = "primary_checksum"
  <2>1. stored = Single!Double(Single!HitChecksum(wanted), initial)
    BY <1>6 DEF Single!AfterPrimary, Single!Double
  <2>2. /\ stored.active = Single!HitChecksum(wanted) /\ stored.checkpoint = initial
        /\ DOMAIN stored = {"active", "checkpoint"}
    BY <2>1, Doubled
  <2> HIDE DEF stored
  <2> QED
    BY <1>6, <1>3, <2>2 DEF stored
<1>7. CASE request.target = "primary_value_and_checkpoint_checksum"
  <2>1. stored = Single!Double(Single!HitValue(wanted, AllOnes), Single!HitChecksum(initial))
    BY <1>2, <1>7, Doubled DEF Single!AfterPrimary
  <2>2. /\ stored.active = Single!HitValue(wanted, AllOnes)
        /\ stored.checkpoint = Single!HitChecksum(initial)
        /\ DOMAIN stored = {"active", "checkpoint"}
    BY <2>1, Doubled
  <2> HIDE DEF stored
  <2> QED
    BY <1>7, <1>3, <2>2 DEF stored
<1> QED
  BY <1>2, <1>4, <1>5, <1>6, <1>7

LEMMA PrimaryRuns ==
  ASSUME SingleInv, Single!RunPrimary PROVE SingleInv'
<1> DEFINE wanted  == Single!Copy(Wanted)
           initial == Single!Copy(Initial)
           stored  == Single!AfterPrimary(Single!Double(wanted, initial))
<1>1. /\ pc = "run" /\ technique = "recovery-block" /\ technique' = "recovery-block" /\ Frame
      /\ UNCHANGED <<technique, campaign, iteration, request>>
      /\ SingleTypes /\ iteration > 0 /\ FaultWritten
      /\ BlockHolds(Initial) /\ BlockFacts("OK")
  BY DEF Single!RunPrimary, SingleInv, SingleTypes, SinglePlaces, Frame
<1>2. /\ Wanted \in Nat /\ Initial \in Nat /\ Wanted <= 1000 /\ Initial <= 1000
      /\ AllOnes \in Nat /\ AllOnes > 1000
      /\ Wanted' = Wanted /\ Initial' = Initial /\ last.target = request.target
  BY <1>1, Bounds, FrameKeeps DEF FaultWritten
<1>3. Listed("recovery-block", Wanted, request)
  BY <1>1, ChosenIsListed DEF FaultWritten
<1>4. request.target \in {"none", "primary_value", "primary_checksum",
                          "primary_value_and_alternate_checksum",
                          "primary_value_and_checkpoint_checksum"}
  BY <1>3 DEF Listed, Single!Fault, Single!NoFault
<1>5. state.active = initial /\ Single!Check(initial) = "OK"
  <2>1. Single!Check(initial) = "OK"
    BY <1>2, Checks
  <2>2. state = Single!Double(initial, initial)
    BY <1>1 DEF BlockHolds
  <2> QED
    BY <2>1, <2>2, Doubled
<1>6. /\ DOMAIN stored = {"active", "checkpoint"}
      /\ request.target = "none" =>
           stored.active = wanted /\ Single!Check(stored.active) = "OK"
      /\ request.target \in {"primary_value", "primary_value_and_alternate_checksum"} =>
           /\ Single!Check(stored.active) = "ABOVE_MAX"
           /\ stored.checkpoint = initial /\ Single!Check(stored.checkpoint) = "OK"
      /\ request.target = "primary_checksum" =>
           /\ Single!Check(stored.active) = "INVALID_CHECKSUM"
           /\ stored.checkpoint = initial /\ Single!Check(stored.checkpoint) = "OK"
      /\ request.target = "primary_value_and_checkpoint_checksum" =>
           /\ Single!Check(stored.active) = "ABOVE_MAX"
           /\ Single!Check(stored.checkpoint) = "INVALID_CHECKSUM"
           /\ stored.active.value = AllOnes
  BY <1>1, <1>3, PrimaryStored
<1>7. stored = Single!AfterPrimary(
                 Single!Double(Single!Copy(Single!Expected(technique, iteration)), state.active))
  BY <1>5 DEF Wanted
<1>8. Single!Check(state.active) = "OK"
  BY <1>5
<1> HIDE DEF stored
<1>9. /\ Single!Check(stored.active) = "OK" =>
           Single!Returns(Single!Double(stored.active, stored.active),
                          [last EXCEPT !.status = "PRIMARY_ACCEPTED"])
      /\ Single!Check(stored.active) # "OK" /\ Single!Check(stored.checkpoint) # "OK" =>
           Single!Returns(stored, [last EXCEPT !.status = "RESTORE_FAILED",
                                               !.primary = Single!Check(stored.active),
                                               !.restore = Single!Check(stored.checkpoint)])
      /\ Single!Check(stored.active) # "OK" /\ Single!Check(stored.checkpoint) = "OK" =>
           Single!Leaves(Single!Double(stored.checkpoint, stored.checkpoint),
                         [last EXCEPT !.primary = Single!Check(stored.active)], "alternate")
  BY <1>7, <1>8 DEF Single!RunPrimary
<1>10. CASE request.target = "none"
  <2>1. Single!Returns(Single!Double(wanted, wanted), [last EXCEPT !.status = "PRIMARY_ACCEPTED"])
    BY <1>6, <1>9, <1>10
  <2>2. Single!Double(wanted, wanted).active.value = Wanted
    BY DEF Single!Double, Single!Copy
  <2>3. /\ state' = Single!Double(wanted, wanted) /\ pc' = "validate"
        /\ BlockRow(Wanted, "PRIMARY_ACCEPTED", "OK", "OK", "OK")
    BY <1>1, <2>1, <2>2 DEF Single!Returns, Single!Leaves, BlockFacts, BlockRow
  <2>4. Shapes' /\ last'.target = last.target
    BY <1>1, <1>2, <2>3, Doubled, BlockShapes
  <2>5. BlockHolds(Wanted)' /\ last'.value = Wanted' /\ last'.status = "PRIMARY_ACCEPTED"
    BY <1>2, <2>3 DEF BlockHolds, BlockRow, Single!Double, Single!Copy
  <2>6. Single!RowIsTrue' /\ Single!Both(Wanted)'
    BY <1>1, <2>5, GoodRow
  <2>7. Single!RecoveryAsExpected'
    BY <1>1, <1>10, <2>3, <2>6
       DEF BlockRow, Single!RecoveryAsExpected, Single!RecoveryFacts, Wanted
  <2> QED
    BY <1>1, <2>3, <2>4, <2>6, <2>7, SingleRan DEF Single!AsExpected
<1>11. CASE request.target = "primary_value_and_checkpoint_checksum"
  <2>1. Single!Returns(stored, [last EXCEPT !.status = "RESTORE_FAILED",
                                            !.primary = "ABOVE_MAX",
                                            !.restore = "INVALID_CHECKSUM"])
    BY <1>6, <1>9, <1>11
  <2>2. /\ state' = stored /\ pc' = "validate"
        /\ BlockRow(AllOnes, "RESTORE_FAILED", "ABOVE_MAX", "INVALID_CHECKSUM", "OK")
    BY <1>1, <1>6, <1>11, <2>1 DEF Single!Returns, Single!Leaves, BlockFacts, BlockRow
  <2>3. Shapes' /\ last'.target = last.target
    BY <1>1, <1>2, <1>6, <2>2, BlockShapes
  <2>4. last'.status = "RESTORE_FAILED"
    BY <2>2 DEF BlockRow
  <2>5. Single!RowIsTrue'
    BY <1>1, <1>6, <1>11, <2>2, <2>4, FailedRow
  <2>6. request.value = AllOnes
    BY <1>3, <1>11 DEF Listed, Single!Fault, Single!NoFault
  <2>7. state'.active.value = request'.value
    BY <1>1, <1>6, <1>11, <2>2, <2>6
  <2>8. Single!RecoveryAsExpected'
    BY <1>1, <1>11, <2>2, <2>7
       DEF BlockRow, Single!RecoveryAsExpected, Single!RecoveryFacts
  <2> QED
    BY <1>1, <2>2, <2>3, <2>5, <2>8, SingleRan DEF Single!AsExpected
<1>12. CASE request.target \notin {"none", "primary_value_and_checkpoint_checksum"}
  <2>1. PICK answer \in {"ABOVE_MAX", "INVALID_CHECKSUM"} :
          /\ answer = Single!Check(stored.active)
          /\ request.target = "primary_checksum" <=> answer = "INVALID_CHECKSUM"
    BY <1>4, <1>6, <1>12
  <2>2. Single!Leaves(Single!Double(initial, initial), [last EXCEPT !.primary = answer],
                      "alternate")
    BY <1>4, <1>6, <1>9, <1>12, <2>1
  <2>3. /\ state' = Single!Double(initial, initial) /\ pc' = "alternate"
        /\ BlockRow(0, "PRIMARY_ACCEPTED", answer, "OK", "OK")
    BY <1>1, <2>2 DEF Single!Leaves, BlockFacts, BlockRow
  <2>4. Shapes' /\ last'.target = last.target
    BY <1>1, <1>2, <2>3, Doubled, BlockShapes
  <2>5. BlockHolds(Initial)' /\ BlockFacts(answer)'
    BY <1>1, <1>2, <2>3 DEF BlockHolds, BlockRow, BlockFacts, Single!Double, Single!Copy
  <2>6. AlternateStarts'
    BY <1>1, <1>4, <1>12, <2>1, <2>5 DEF AlternateStarts, BlockFacts
  <2>7. SinglePlaces'
    BY <1>1, <2>3, <2>6 DEF SinglePlaces
  <2> QED
    BY <1>1, <2>3, <2>4, <2>7, SingleGoesOn
<1> QED
  BY <1>10, <1>11, <1>12

LEMMA AlternateRuns ==
  ASSUME SingleInv, Single!RunAlternate PROVE SingleInv'
<1> DEFINE wanted  == Single!Copy(Wanted)
           initial == Single!Copy(Initial)
           stored  == Single!AfterAlternate(Single!Double(wanted, initial))
<1>1. /\ pc = "alternate" /\ Frame
      /\ UNCHANGED <<technique, campaign, iteration, request>>
      /\ SingleTypes /\ iteration > 0 /\ FaultWritten
  BY DEF Single!RunAlternate, SingleInv, SingleTypes, Frame
<1>2. technique = "recovery-block" /\ technique' = "recovery-block" /\ AlternateStarts
  BY <1>1 DEF SingleInv, SingleTypes, SinglePlaces, Single!Techniques
<1>3. /\ Wanted \in Nat /\ Initial \in Nat /\ Wanted <= 1000 /\ Initial <= 1000
      /\ Wanted' = Wanted /\ Initial' = Initial /\ last.target = request.target
  BY <1>1, <1>2, Bounds, FrameKeeps DEF FaultWritten
<1>4. state.checkpoint = initial /\ Single!Check(initial) = "OK" /\ Single!Check(wanted) = "OK"
  BY <1>2, <1>3, Doubled, Checks DEF AlternateStarts, BlockHolds
<1>5. PICK answer \in {"ABOVE_MAX", "INVALID_CHECKSUM"} :
        /\ BlockFacts(answer)
        /\ request.target \in {"primary_value", "primary_value_and_alternate_checksum",
                               "primary_checksum"}
        /\ request.target = "primary_checksum" <=> answer = "INVALID_CHECKSUM"
  BY <1>2 DEF AlternateStarts
<1>6. stored = Single!AfterAlternate(
                 Single!Double(Single!Copy(Single!Expected(technique, iteration)),
                               state.checkpoint))
  BY <1>4 DEF Wanted
<1> HIDE DEF stored
<1>7. /\ Single!Check(stored.active) = "OK" =>
           Single!Returns(Single!Double(stored.active, stored.active),
                          [last EXCEPT !.status = "ALTERNATE_ACCEPTED"])
      /\ Single!Check(stored.active) # "OK" /\ Single!Check(stored.checkpoint) = "OK" =>
           Single!Returns(Single!Double(stored.checkpoint, stored.checkpoint),
                          [last EXCEPT !.status = "UNRECOVERABLE",
                                       !.alternate = Single!Check(stored.active)])
  BY <1>6 DEF Single!RunAlternate
<1>8. CASE request.target = "primary_value_and_alternate_checksum"
  <2>1. stored = Single!Double(Single!HitChecksum(wanted), initial)
    BY <1>8 DEF Single!AfterAlternate, Single!Double, stored
  <2>2. stored.active = Single!HitChecksum(wanted) /\ stored.checkpoint = initial
    BY <2>1, Doubled
  <2>3. Single!Check(stored.active) = "INVALID_CHECKSUM"
    BY <1>3, <2>2, Checks
  <2>4. Single!Returns(Single!Double(initial, initial),
                       [last EXCEPT !.status = "UNRECOVERABLE",
                                    !.alternate = "INVALID_CHECKSUM"])
    BY <1>4, <1>7, <2>2, <2>3
  <2>5. Single!Double(initial, initial).active.value = Initial
    BY DEF Single!Double, Single!Copy
  <2>6. /\ state' = Single!Double(initial, initial) /\ pc' = "validate"
        /\ BlockRow(Initial, "UNRECOVERABLE", "ABOVE_MAX", "OK", "INVALID_CHECKSUM")
    BY <1>5, <1>8, <2>4, <2>5 DEF Single!Returns, Single!Leaves, BlockFacts, BlockRow
  <2>7. Shapes' /\ last'.target = last.target
    BY <1>2, <1>3, <2>6, Doubled, BlockShapes
  <2>8. BlockHolds(Initial)' /\ last'.value = Initial' /\ last'.status = "UNRECOVERABLE"
    BY <1>3, <2>6 DEF BlockHolds, BlockRow, Single!Double, Single!Copy
  <2>9. Single!RowIsTrue' /\ Single!Both(Initial)'
    BY <1>2, <2>8, RestoredRow
  <2>10. Single!RecoveryAsExpected'
    BY <1>8, <2>6, <2>9
       DEF BlockRow, Single!RecoveryAsExpected, Single!RecoveryFacts, Initial
  <2> QED
    BY <1>1, <1>2, <2>6, <2>7, <2>9, <2>10, SingleRan DEF Single!AsExpected
<1>9. CASE request.target # "primary_value_and_alternate_checksum"
  <2>1. stored = Single!Double(wanted, initial)
    BY <1>9 DEF Single!AfterAlternate, stored
  <2>2. stored.active = wanted
    BY <2>1, Doubled
  <2>3. Single!Returns(Single!Double(wanted, wanted),
                       [last EXCEPT !.status = "ALTERNATE_ACCEPTED"])
    BY <1>4, <1>7, <2>2
  <2>4. Single!Double(wanted, wanted).active.value = Wanted
    BY DEF Single!Double, Single!Copy
  <2>5. /\ state' = Single!Double(wanted, wanted) /\ pc' = "validate"
        /\ BlockRow(Wanted, "ALTERNATE_ACCEPTED", answer, "OK", "OK")
    BY <1>5, <2>3, <2>4 DEF Single!Returns, Single!Leaves, BlockFacts, BlockRow
  <2>6. Shapes' /\ last'.target = last.target
    BY <1>2, <1>3, <2>5, Doubled, BlockShapes
  <2>7. BlockHolds(Wanted)' /\ last'.value = Wanted' /\ last'.status = "ALTERNATE_ACCEPTED"
    BY <1>3, <2>5 DEF BlockHolds, BlockRow, Single!Double, Single!Copy
  <2>8. Single!RowIsTrue' /\ Single!Both(Wanted)'
    BY <1>2, <2>7, GoodRow
  <2>9. Single!RecoveryAsExpected'
    BY <1>5, <1>9, <2>5, <2>8
       DEF BlockRow, Single!RecoveryAsExpected, Single!RecoveryFacts, Wanted
  <2> QED
    BY <1>1, <1>2, <2>5, <2>6, <2>8, <2>9, SingleRan DEF Single!AsExpected
<1> QED
  BY <1>8, <1>9

LEMMA Paths ==
  ASSUME NEW target \in {"none", "control_phase", "control_signature", "control_skip_compute",
                         "control_repeat_read", "control_early_terminal"}
  PROVE  LET path == Single!ControlPath(target)
         IN  /\ path[1][1] = 0 /\ path[1][2] = 1 /\ Len(path) \in {2, 5}
             /\ Len(path) = 5 <=>
                  target \in {"none", "control_phase", "control_signature"}
             /\ path[2][1] = CASE target = "control_skip_compute" -> 2
                               [] target = "control_repeat_read"  -> 0
                               [] OTHER                           -> 1
             /\ target \in {"none", "control_early_terminal"} => path[2][2] = 2
             /\ target = "none" =>
                  \A leg \in 3 .. 5 : path[leg][1] = leg - 1 /\ path[leg][2] = leg
             /\ Single!Finishes(target) <=>
                  target \notin {"control_repeat_read", "control_skip_compute"}
  BY DEF Single!ControlPath, Single!Finishes

LEMMA ControlShapes ==
  ASSUME technique = "control-flow", technique' = "control-flow",
         DOMAIN state' = {"monitor", "legs", "computed"}, NEW value \in Nat,
         NEW status, NEW control, NEW terminal, NEW phase,
         last' = [target |-> request.target, value |-> value, status |-> status,
                  control |-> control, terminal |-> terminal, phase |-> phase],
         last.target = request.target
  PROVE  Shapes' /\ last'.target = last.target
  BY DEF Shapes, Single!FreshFacts, Single!FreshState

(* A run that stopped leaves no value in its row.                          *)
LEMMA StoppedRow ==
  ASSUME technique' = "control-flow", last'.value = 0,
         last'.status \in {"INVALID_TRANSITION", "BAD_SIGNATURE", "UNEXPECTED_TERMINAL"}
  PROVE  Single!RowIsTrue'
  BY DEF Single!RowIsTrue, Single!Good, Single!KeepsRecord

ControlRequest ==
  /\ request \in {Single!Fault("none", 0), Single!Fault("control_phase", 4),
                  Single!Fault("control_signature", 16),
                  Single!Fault("control_skip_compute", 0),
                  Single!Fault("control_repeat_read", 0),
                  Single!Fault("control_early_terminal", 0)}
  /\ last.target = request.target

LEMMA ControlSetting ==
  ASSUME SingleInv, technique = "control-flow", pc \in {"run", "finish"}, Frame
  PROVE  /\ ControlRequest /\ SingleTypes /\ iteration > 0 /\ Wanted \in Nat
         /\ Wanted' = Wanted /\ technique' = "control-flow" /\ request' = request
         /\ request.target \in
              {"none", "control_phase", "control_signature", "control_skip_compute",
               "control_repeat_read", "control_early_terminal"}
         /\ request.target = "control_phase" => request.value = 4
<1>1. SingleTypes /\ iteration > 0 /\ FaultWritten
  BY DEF SingleInv, SingleTypes
<1>2. ControlRequest
  BY <1>1, ChosenIsListed DEF FaultWritten, Listed, ControlRequest, Single!NoFault
<1>3. /\ request.target \in
              {"none", "control_phase", "control_signature", "control_skip_compute",
               "control_repeat_read", "control_early_terminal"}
      /\ request.target = "control_phase" => request.value = 4
  BY <1>2 DEF ControlRequest, Single!Fault
<1>4. Wanted' = Wanted
  BY FrameKeeps DEF Frame
<1> QED
  BY <1>1, <1>2, <1>3, <1>4, Bounds DEF Frame

(* The monitor at the second advance, by fault. *)
LEMMA SecondCheck ==
  ASSUME request.target \in
           {"none", "control_phase", "control_signature", "control_skip_compute",
            "control_repeat_read", "control_early_terminal"},
         request.target = "control_phase" => request.value = 4
  PROVE  LET hit    == Single!HitMonitor(Single!Monitor(1))
             status == Single!ValidateCurrent(hit, Single!ControlPath(request.target)[2][1])
         IN  /\ request.target \in {"none", "control_early_terminal"} => status = "OK"
             /\ request.target \in {"control_phase", "control_skip_compute",
                                    "control_repeat_read"} => status = "INVALID_TRANSITION"
             /\ request.target = "control_signature" =>
                  status = "BAD_SIGNATURE" /\ hit.phase = 1
<1> DEFINE hit == Single!HitMonitor(Single!Monitor(1))
           at  == Single!ControlPath(request.target)[2][1]
<1>1. at = CASE request.target = "control_skip_compute" -> 2
             [] request.target = "control_repeat_read"  -> 0
             [] OTHER                                   -> 1
  BY Paths
<1> HIDE DEF at
<1>2. CASE request.target = "control_phase"
  <2>1. hit.phase = 4 /\ at = 1
    BY <1>1, <1>2 DEF Single!HitMonitor, Single!Monitor
  <2> QED
    BY <1>2, <2>1 DEF Single!ValidateCurrent, at
<1>3. CASE request.target = "control_signature"
  <2>1. hit.phase = 1 /\ hit.signature = -1 /\ at = 1
    BY <1>1, <1>3 DEF Single!HitMonitor, Single!Monitor, Single!NoSignature
  <2> QED
    BY <1>3, <2>1 DEF Single!ValidateCurrent, at
<1>4. CASE request.target \notin {"control_phase", "control_signature"}
  <2>1. hit.phase = 1 /\ hit.signature = 1
    BY <1>4 DEF Single!HitMonitor, Single!Monitor
  <2> QED
    BY <1>1, <1>4, <2>1 DEF Single!ValidateCurrent, at
<1> QED
  BY <1>2, <1>3, <1>4

(* One advance, opened.                                                    *)
AdvanceIs(leg, from, to, status, legs) ==
  /\ leg = state.legs + 1 /\ legs = Len(Single!ControlPath(request.target))
  /\ from = Single!ControlPath(request.target)[leg][1]
  /\ to = Single!ControlPath(request.target)[leg][2]
  /\ status = Single!ValidateCurrent(state.monitor, from)
  /\ status # "OK" =>
       /\ state' = [state EXCEPT !.legs = leg] /\ pc' = "validate"
       /\ last' = [last EXCEPT !.control = status, !.status = status,
                               !.phase = state'.monitor.phase]
  /\ status = "OK" =>
       LET after == IF leg = 1 THEN Single!HitMonitor(Single!Monitor(to))
                               ELSE Single!Monitor(to)
       IN  /\ state' = [monitor |-> after, legs |-> leg,
                        computed |-> IF leg = 2 THEN Wanted ELSE state.computed]
           /\ last' = [last EXCEPT
                         !.control = "OK", !.phase = after.phase,
                         !.value = IF leg = 4 THEN state.computed ELSE last.value]
           /\ pc' = IF leg # legs THEN "run"
                    ELSE IF Single!Finishes(request.target) THEN "finish" ELSE "validate"

LEMMA Advance ==
  ASSUME Single!RunControlLeg
  PROVE  \E leg, from, to, status, legs : AdvanceIs(leg, from, to, status, legs)
<1>1. PICK leg : leg = state.legs + 1
  OBVIOUS
<1>2. PICK from : from = Single!ControlPath(request.target)[leg][1]
  OBVIOUS
<1>3. PICK to : to = Single!ControlPath(request.target)[leg][2]
  OBVIOUS
<1>4. PICK status : status = Single!ValidateCurrent(state.monitor, from)
  OBVIOUS
<1>5. PICK legs : legs = Len(Single!ControlPath(request.target))
  OBVIOUS
<1>6. AdvanceIs(leg, from, to, status, legs)
  BY <1>1, <1>2, <1>3, <1>4, <1>5 DEF AdvanceIs, Single!RunControlLeg, Wanted
<1> QED
  BY <1>6

LEMMA FirstLeg ==
  ASSUME SingleInv, Single!RunControlLeg, ControlAfter(0) PROVE SingleInv'
<1>1. /\ pc = "run" /\ technique = "control-flow" /\ Frame
      /\ state = [monitor |-> Single!Monitor(0), legs |-> 0, computed |-> 0]
      /\ ControlFactsAre(0, 0)
  BY DEF Single!RunControlLeg, Frame, ControlAfter
<1>2. /\ ControlRequest /\ technique' = "control-flow" /\ request' = request
      /\ request.target \in
           {"none", "control_phase", "control_signature", "control_skip_compute",
            "control_repeat_read", "control_early_terminal"}
      /\ request.target = "control_phase" => request.value = 4
  BY <1>1, ControlSetting
<1> DEFINE path  == Single!ControlPath(request.target)
           after == Single!HitMonitor(Single!Monitor(1))
<1>3. path[1][1] = 0 /\ path[1][2] = 1 /\ Len(path) \in {2, 5}
  BY <1>2, Paths
<1>4. state.legs = 0 /\ state.computed = 0 /\ Single!ValidateCurrent(state.monitor, 0) = "OK"
  BY <1>1 DEF Single!ValidateCurrent, Single!Monitor
<1>5. /\ state' = [monitor |-> after, legs |-> 1, computed |-> 0]
      /\ last' = [last EXCEPT !.control = "OK", !.phase = after.phase, !.value = last.value]
      /\ pc' = "run"
  <2>1. PICK leg, from, to, status, legs : AdvanceIs(leg, from, to, status, legs)
    BY Advance
  <2>2. leg = 1
    BY <1>4, <2>1 DEF AdvanceIs
  <2>3. from = 0 /\ to = 1 /\ legs \in {2, 5}
    BY <1>3, <2>1, <2>2 DEF AdvanceIs
  <2>4. status = "OK"
    BY <1>4, <2>1, <2>3 DEF AdvanceIs
  <2> HIDE DEF path
  <2> QED
    BY <1>4, <2>1, <2>2, <2>3, <2>4 DEF AdvanceIs
<1>6. after' = after
  BY <1>2 DEF Single!HitMonitor, Single!Monitor
<1>7. after.phase \in Nat
  BY <1>2 DEF Single!HitMonitor, Single!Monitor
<1> HIDE DEF after, path
<1>8. last' = [target |-> request.target, value |-> 0, status |-> "OK", control |-> "OK",
               terminal |-> "OK", phase |-> after.phase]
  BY <1>1, <1>5 DEF ControlFactsAre
<1>9. Shapes' /\ last'.target = last.target
  <2>1. DOMAIN state' = {"monitor", "legs", "computed"} /\ last.target = request.target
    BY <1>2, <1>5 DEF ControlRequest
  <2> QED
    BY <1>1, <1>2, <1>8, <2>1, ControlShapes
<1>10. ControlAfter(1)'
  <2>1. /\ state' = [monitor |-> Single!HitMonitor(Single!Monitor(1))', legs |-> 1,
                     computed |-> 0]
        /\ state'.monitor.phase = after.phase
    BY <1>5, <1>6 DEF after
  <2>2. ControlFactsAre(0, state.monitor.phase)'
    BY <1>2, <1>8, <2>1 DEF ControlFactsAre
  <2> QED
    BY <2>1, <2>2 DEF ControlAfter
<1>11. SinglePlaces'
  <2>1. ControlPlaces'
    BY <1>5, <1>10 DEF ControlPlaces
  <2> QED
    BY <1>2, <1>5, <2>1 DEF SinglePlaces
<1> QED
  BY <1>1, <1>5, <1>9, <1>11, SingleGoesOn

LEMMA SecondLeg ==
  ASSUME SingleInv, Single!RunControlLeg, ControlAfter(1) PROVE SingleInv'
<1> DEFINE path    == Single!ControlPath(request.target)
           reached == Single!HitMonitor(Single!Monitor(1))
           status  == Single!ValidateCurrent(reached, path[2][1])
<1>1. /\ pc = "run" /\ technique = "control-flow" /\ Frame
      /\ state = [monitor |-> reached, legs |-> 1, computed |-> 0]
      /\ ControlFactsAre(0, reached.phase)
  BY DEF Single!RunControlLeg, Frame, ControlAfter
<1>2. /\ ControlRequest /\ technique' = "control-flow" /\ request' = request
      /\ Wanted \in Nat /\ Wanted' = Wanted
      /\ request.target \in
           {"none", "control_phase", "control_signature", "control_skip_compute",
            "control_repeat_read", "control_early_terminal"}
      /\ request.target = "control_phase" => request.value = 4
  BY <1>1, ControlSetting
<1>3. /\ request.target \in {"none", "control_early_terminal"} => status = "OK"
      /\ request.target \in {"control_phase", "control_skip_compute",
                             "control_repeat_read"} => status = "INVALID_TRANSITION"
      /\ request.target = "control_signature" =>
           status = "BAD_SIGNATURE" /\ reached.phase = 1
  BY <1>2, SecondCheck
<1>4. /\ Len(path) \in {2, 5}
      /\ Len(path) = 5 <=> request.target \in {"none", "control_phase", "control_signature"}
      /\ request.target \in {"none", "control_early_terminal"} => path[2][2] = 2
      /\ Single!Finishes(request.target) <=>
           request.target \notin {"control_repeat_read", "control_skip_compute"}
  BY <1>2, Paths
<1>5. state.legs + 1 = 2 /\ state.monitor = reached
  BY <1>1
<1>6. /\ status # "OK" =>
           /\ state' = [state EXCEPT !.legs = 2] /\ pc' = "validate"
           /\ last' = [last EXCEPT !.control = status, !.status = status,
                                   !.phase = state'.monitor.phase]
      /\ status = "OK" =>
           /\ state' = [monitor |-> Single!Monitor(path[2][2]), legs |-> 2,
                        computed |-> Wanted]
           /\ last' = [last EXCEPT !.control = "OK", !.phase = Single!Monitor(path[2][2]).phase,
                                   !.value = last.value]
           /\ pc' = IF 2 # Len(path) THEN "run"
                    ELSE IF Single!Finishes(request.target) THEN "finish" ELSE "validate"
  <2>1. PICK leg, from, to, found, legs : AdvanceIs(leg, from, to, found, legs)
    BY Advance
  <2>2. leg = 2
    BY <1>5, <2>1 DEF AdvanceIs
  <2>3. from = path[2][1] /\ to = path[2][2] /\ legs = Len(path)
    BY <2>1, <2>2 DEF AdvanceIs
  <2>4. found = status
    BY <1>5, <2>1, <2>3 DEF AdvanceIs
  <2>5. PICK next : next = path[2][2]
    OBVIOUS
  <2> HIDE DEF path, reached, status
  <2>6. CASE status # "OK"
    BY <2>1, <2>2, <2>4, <2>6 DEF AdvanceIs
  <2>7. CASE status = "OK"
    <3>1. /\ state' = [monitor |-> Single!Monitor(next), legs |-> 2, computed |-> Wanted]
          /\ last' = [last EXCEPT !.control = "OK", !.phase = Single!Monitor(next).phase,
                                  !.value = last.value]
      <4>1. to = next /\ leg # 1 /\ leg # 4 /\ found = "OK"
        BY <2>2, <2>3, <2>4, <2>5, <2>7
      <4>2. /\ state' = [monitor |-> Single!Monitor(to), legs |-> leg,
                         computed |-> IF leg = 2 THEN Wanted ELSE state.computed]
            /\ last' = [last EXCEPT !.control = "OK", !.phase = Single!Monitor(to).phase,
                                    !.value = last.value]
        BY <2>1, <4>1 DEF AdvanceIs
      <4> QED
        BY <2>2, <4>1, <4>2
    <3>2. pc' = IF 2 # Len(path) THEN "run"
                ELSE IF Single!Finishes(request.target) THEN "finish" ELSE "validate"
      BY <2>1, <2>2, <2>3, <2>4, <2>7 DEF AdvanceIs
    <3> QED
      BY <2>5, <2>7, <3>1, <3>2
  <2> QED
    BY <2>6, <2>7
<1> HIDE DEF path, reached, status
<1>7. CASE request.target \in {"none", "control_early_terminal"}
  <2>1. /\ status = "OK" /\ path[2][2] = 2 /\ Single!Finishes(request.target)
        /\ 2 = Len(path) <=> request.target = "control_early_terminal"
    BY <1>3, <1>4, <1>7
  <2>2. /\ state' = [monitor |-> Single!Monitor(2), legs |-> 2, computed |-> Wanted]
        /\ pc' = IF request.target = "control_early_terminal" THEN "finish" ELSE "run"
        /\ last' = [last EXCEPT !.control = "OK", !.phase = 2, !.value = last.value]
    BY <1>6, <2>1 DEF Single!Monitor
  <2>3. last' = [target |-> request.target, value |-> 0, status |-> "OK", control |-> "OK",
                 terminal |-> "OK", phase |-> 2]
    BY <1>1, <2>2 DEF ControlFactsAre
  <2>4. Shapes' /\ last'.target = last.target
    <3>1. DOMAIN state' = {"monitor", "legs", "computed"} /\ last.target = request.target
      BY <1>2, <2>2 DEF ControlRequest
    <3> QED
      BY <1>1, <1>2, <2>3, <3>1, ControlShapes
  <2>5. ControlAfter(2)'
    <3>1. (state = [monitor |-> Single!Monitor(2), legs |-> 2, computed |-> Wanted])'
      BY <1>2, <2>2 DEF Single!Monitor
    <3>2. ControlFactsAre(0, 2)'
      BY <1>2, <2>3 DEF ControlFactsAre
    <3> QED
      BY <3>1, <3>2 DEF ControlAfter
  <2>6. ControlPlaces'
    BY <1>2, <1>7, <2>2, <2>5 DEF ControlPlaces
  <2>7. SinglePlaces' /\ pc' \in {"run", "alternate", "finish"}
    BY <1>2, <2>2, <2>6 DEF SinglePlaces
  <2> QED
    BY <1>1, <2>4, <2>7, SingleGoesOn
<1>8. CASE request.target \notin {"none", "control_early_terminal"}
  <2>1. /\ status \in {"INVALID_TRANSITION", "BAD_SIGNATURE"}
        /\ request.target = "control_signature" => status = "BAD_SIGNATURE" /\ reached.phase = 1
        /\ request.target # "control_signature" => status = "INVALID_TRANSITION"
    BY <1>2, <1>3, <1>8
  <2>2. /\ state' = [monitor |-> reached, legs |-> 2, computed |-> 0] /\ pc' = "validate"
        /\ last' = [last EXCEPT !.control = status, !.status = status, !.phase = reached.phase]
    BY <1>1, <1>6, <2>1
  <2>3. last' = [target |-> request.target, value |-> 0, status |-> status,
                 control |-> status, terminal |-> "OK", phase |-> reached.phase]
    BY <1>1, <2>2 DEF ControlFactsAre
  <2>4. Shapes' /\ last'.target = last.target
    <3>1. DOMAIN state' = {"monitor", "legs", "computed"} /\ last.target = request.target
      BY <1>2, <2>2 DEF ControlRequest
    <3> QED
      BY <1>1, <1>2, <2>3, <3>1, ControlShapes
  <2>5. Single!RowIsTrue'
    BY <1>2, <2>1, <2>3, StoppedRow
  <2>6. Single!ControlAsExpected'
    BY <1>2, <1>8, <2>1, <2>3 DEF Single!ControlAsExpected, Single!ControlFacts
  <2> QED
    BY <1>1, <1>2, <2>2, <2>4, <2>5, <2>6, SingleRan DEF Single!AsExpected
<1> QED
  BY <1>7, <1>8

LEMMA LaterLeg ==
  ASSUME SingleInv, Single!RunControlLeg, NEW k \in 2 .. 4, ControlAfter(k),
         request.target = "none"
  PROVE  SingleInv'
<1> DEFINE path == Single!ControlPath(request.target)
<1>1. /\ pc = "run" /\ technique = "control-flow" /\ Frame
      /\ state = [monitor |-> Single!Monitor(k), legs |-> k, computed |-> Wanted]
      /\ ControlFactsAre(IF k < 4 THEN 0 ELSE Wanted, k)
  BY DEF Single!RunControlLeg, Frame, ControlAfter
<1>2. /\ ControlRequest /\ technique' = "control-flow" /\ request' = request
      /\ Wanted \in Nat /\ Wanted' = Wanted
  BY <1>1, ControlSetting
<1>3. /\ Len(path) = 5 /\ path[k + 1][1] = k /\ path[k + 1][2] = k + 1
      /\ Single!Finishes(request.target)
  <2>1. /\ Len(path) = 5 /\ Single!Finishes(request.target)
        /\ \A leg \in 3 .. 5 : path[leg][1] = leg - 1 /\ path[leg][2] = leg
    BY Paths
  <2>2. k + 1 \in 3 .. 5
    OBVIOUS
  <2> QED
    BY <2>1, <2>2
<1>4. /\ state.legs + 1 = k + 1 /\ state.computed = Wanted
      /\ Single!ValidateCurrent(state.monitor, k) = "OK"
  BY <1>1 DEF Single!ValidateCurrent, Single!Monitor
<1> DEFINE value == IF k = 3 THEN Wanted ELSE last.value
<1>5. /\ state' = [monitor |-> Single!Monitor(k + 1), legs |-> k + 1, computed |-> Wanted]
      /\ last' = [last EXCEPT !.control = "OK", !.phase = k + 1, !.value = value]
      /\ pc' = IF k = 4 THEN "finish" ELSE "run"
  <2>1. PICK leg, from, to, status, legs : AdvanceIs(leg, from, to, status, legs)
    BY Advance
  <2>2. leg = k + 1 /\ leg # 1 /\ leg # 2 /\ (leg = 4 <=> k = 3) /\ (leg = 5 <=> k = 4)
    BY <1>4, <2>1 DEF AdvanceIs
  <2>3. from = k /\ to = k + 1 /\ legs = 5
    BY <1>3, <2>1, <2>2 DEF AdvanceIs
  <2>4. status = "OK"
    BY <1>4, <2>1, <2>3 DEF AdvanceIs
  <2>5. Single!Monitor(k + 1).phase = k + 1
    BY DEF Single!Monitor
  <2> HIDE DEF path
  <2> QED
    BY <1>3, <1>4, <2>1, <2>2, <2>3, <2>4, <2>5 DEF AdvanceIs
<1>6. value = IF k + 1 < 4 THEN 0 ELSE Wanted
  BY <1>1 DEF ControlFactsAre
<1> HIDE DEF path, value
<1>7. value \in Nat
  BY <1>2, <1>6
<1>8. last' = [target |-> request.target, value |-> value, status |-> "OK", control |-> "OK",
               terminal |-> "OK", phase |-> k + 1]
  BY <1>1, <1>5 DEF ControlFactsAre
<1>9. Shapes' /\ last'.target = last.target
  <2>1. DOMAIN state' = {"monitor", "legs", "computed"} /\ last.target = request.target
    BY <1>2, <1>5 DEF ControlRequest
  <2> QED
    BY <1>1, <1>2, <1>7, <1>8, <2>1, ControlShapes
<1>10. ControlAfter(k + 1)'
  <2>1. (state = [monitor |-> Single!Monitor(k + 1), legs |-> k + 1, computed |-> Wanted])'
    BY <1>2, <1>5 DEF Single!Monitor
  <2>2. ControlFactsAre(IF k + 1 < 4 THEN 0 ELSE Wanted, k + 1)'
    BY <1>2, <1>6, <1>8 DEF ControlFactsAre
  <2>3. k + 1 > 1 /\ k + 1 # 0 /\ k + 1 # 1
    OBVIOUS
  <2> QED
    BY <2>1, <2>2, <2>3 DEF ControlAfter
<1>11. ControlPlaces'
  <2>1. CASE k = 4
    <3>1. ControlAfter(5)'
      BY <1>10, <2>1
    <3> QED
      BY <1>2, <1>5, <2>1, <3>1 DEF ControlPlaces
  <2>2. CASE k # 4
    <3>1. k + 1 \in 0 .. 4 /\ pc' = "run" /\ request'.target = "none"
      BY <1>2, <1>5, <2>2
    <3>2. \E leg \in 0 .. 4 : (leg > 1 => request'.target = "none") /\ ControlAfter(leg)'
      BY <1>10, <3>1
    <3> QED
      BY <3>1, <3>2 DEF ControlPlaces
  <2> QED
    BY <2>1, <2>2
<1>12. SinglePlaces' /\ pc' \in {"run", "alternate", "finish"}
  BY <1>2, <1>5, <1>11 DEF SinglePlaces
<1> QED
  BY <1>1, <1>9, <1>12, SingleGoesOn

LEMMA ControlRuns ==
  ASSUME SingleInv, Single!RunControlLeg PROVE SingleInv'
<1>1. pc = "run" /\ technique = "control-flow"
  BY DEF Single!RunControlLeg
<1>2. PICK leg \in 0 .. 4 : (leg > 1 => request.target = "none") /\ ControlAfter(leg)
  BY <1>1 DEF SingleInv, SinglePlaces, ControlPlaces
<1>3. leg = 0 \/ leg = 1 \/ leg \in 2 .. 4
  OBVIOUS
<1> QED
  BY <1>2, <1>3, FirstLeg, SecondLeg, LaterLeg

LEMMA ControlFinishes ==
  ASSUME SingleInv, Single!FinishControl PROVE SingleInv'
<1>1. /\ pc = "finish" /\ pc' = "validate" /\ state' = state /\ Frame
      /\ last' = [last EXCEPT !.terminal = Single!Finish(state.monitor),
                              !.status = Single!Finish(state.monitor)]
  BY DEF Single!FinishControl, Frame
<1>2. technique = "control-flow"
  BY <1>1 DEF SingleInv, SingleTypes, SinglePlaces, Single!Techniques
<1>3. /\ ControlRequest /\ technique' = "control-flow" /\ request' = request
      /\ Wanted \in Nat /\ Wanted' = Wanted
  BY <1>1, <1>2, ControlSetting
<1>4. Wanted' = Single!Expected(technique, iteration)'
  BY DEF Wanted
<1>5. \/ request.target = "none" /\ ControlAfter(5)
      \/ request.target = "control_early_terminal" /\ ControlAfter(2)
  BY <1>1, <1>2 DEF SingleInv, SinglePlaces, ControlPlaces
<1>6. CASE request.target = "none" /\ ControlAfter(5)
  <2>1. /\ state = [monitor |-> Single!Monitor(5), legs |-> 5, computed |-> Wanted]
        /\ ControlFactsAre(Wanted, 5)
    BY <1>6 DEF ControlAfter
  <2>2. Single!Finish(state.monitor) = "OK"
    BY <2>1 DEF Single!Finish, Single!Monitor
  <2>3. last' = [target |-> request.target, value |-> Wanted, status |-> "OK",
                 control |-> "OK", terminal |-> "OK", phase |-> 5]
    BY <1>1, <2>1, <2>2 DEF ControlFactsAre
  <2>4. Shapes' /\ last'.target = last.target
    <3>1. DOMAIN state' = {"monitor", "legs", "computed"} /\ last.target = request.target
      BY <1>1, <1>3, <2>1 DEF ControlRequest
    <3> QED
      BY <1>2, <1>3, <2>3, <3>1, ControlShapes
  <2>5. Single!RowIsTrue'
    BY <1>3, <1>4, <2>3 DEF Single!RowIsTrue, Single!Good, Single!KeepsRecord
  <2>6. Single!ControlAsExpected'
    BY <1>3, <1>4, <1>6, <2>3 DEF Single!ControlAsExpected, Single!ControlFacts
  <2> QED
    BY <1>1, <1>3, <2>4, <2>5, <2>6, SingleRan DEF Single!AsExpected
<1>7. CASE request.target = "control_early_terminal" /\ ControlAfter(2)
  <2>1. /\ state = [monitor |-> Single!Monitor(2), legs |-> 2, computed |-> Wanted]
        /\ ControlFactsAre(0, 2)
    BY <1>7 DEF ControlAfter
  <2>2. Single!Finish(state.monitor) = "UNEXPECTED_TERMINAL"
    BY <2>1 DEF Single!Finish, Single!Monitor
  <2>3. last' = [target |-> request.target, value |-> 0, status |-> "UNEXPECTED_TERMINAL",
                 control |-> "OK", terminal |-> "UNEXPECTED_TERMINAL", phase |-> 2]
    BY <1>1, <2>1, <2>2 DEF ControlFactsAre
  <2>4. Shapes' /\ last'.target = last.target
    <3>1. DOMAIN state' = {"monitor", "legs", "computed"} /\ last.target = request.target
      BY <1>1, <1>3, <2>1 DEF ControlRequest
    <3> QED
      BY <1>2, <1>3, <2>3, <3>1, ControlShapes
  <2>5. Single!RowIsTrue'
    BY <1>3, <2>3, StoppedRow
  <2>6. Single!ControlAsExpected'
    BY <1>3, <1>7, <2>3 DEF Single!ControlAsExpected, Single!ControlFacts
  <2> QED
    BY <1>1, <1>3, <2>4, <2>5, <2>6, SingleRan DEF Single!AsExpected
<1> QED
  BY <1>5, <1>6, <1>7

LEMMA TmrEnds ==
  ASSUME SingleInv, Single!RunTmr PROVE SingleInv'
<1>1. pc = "run" /\ pc' = "validate" /\ Frame /\ technique' = "tmr"
  BY DEF Single!RunTmr, Frame
<1>2. /\ Shapes' /\ last'.target = last.target /\ Single!TmrAsExpected' /\ Single!RowIsTrue'
  BY TmrRuns
<1>3. Single!AsExpected'
  BY <1>1, <1>2 DEF Single!AsExpected
<1> QED
  BY <1>1, <1>2, <1>3, SingleRan

LEMMA CheckpointEnds ==
  ASSUME SingleInv, Single!RunCheckpoint PROVE SingleInv'
<1>1. pc = "run" /\ pc' = "validate" /\ Frame /\ technique' = "checkpoint"
  BY DEF Single!RunCheckpoint, Frame
<1>2. /\ Shapes' /\ last'.target = last.target /\ Single!CheckpointAsExpected'
      /\ Single!RowIsTrue'
  BY CheckpointRuns
<1>3. Single!AsExpected'
  BY <1>1, <1>2 DEF Single!AsExpected
<1> QED
  BY <1>1, <1>2, <1>3, SingleRan

LEMMA SingleStep ==
  ASSUME SingleInv, Single!Next PROVE SingleInv'
  BY SingleBegin, SingleInject, TmrEnds, CheckpointEnds, PrimaryRuns, AlternateRuns,
     ControlRuns, ControlFinishes, SingleValidate DEF Single!Next

-----------------------------------------------------------------------------
(* The campaigns *)

Family(t) ==
  CASE t = "tmr"                      -> R!TmrChoices
    [] t = "checkpoint"               -> R!CheckpointSampleChoices
    [] t = "recovery-block"           -> R!RecoveryBlockChoices
    [] t = "control-flow"             -> R!ControlFlowChoices
    [] t \in {"combined", "baseline"} -> R!WorkflowChoices

LEMMA ListsJoin ==
  ASSUME NEW S, NEW one \in Seq(S), NEW other \in Seq(S)
  PROVE  R!ToSet(one \o other) = R!ToSet(one) \cup R!ToSet(other)
<1>1. PICK m \in Nat, n \in Nat : Len(one) = m /\ Len(other) = n
  BY LenProperties
<1>2. ToSet(one \o other) = ToSet(one) \cup ToSet(other)
  BY <1>1, Joined
<1> QED
  BY <1>2 DEF R!ToSet, ToSet

CampaignNames ==
  {"mixed", "none", "single-a", "all-distinct", "checkpoint-clean-run",
   "checkpoint-active-value-fault", "checkpoint-active-length-fault",
   "checkpoint-active-checksum-fault", "checkpoint-saved-checksum-fault",
   "checkpoint-double-fault", "checkpoint-mixed-faults", "recovery-clean-primary",
   "recovery-primary-range", "recovery-primary-checksum", "recovery-alternate-checksum",
   "recovery-restore-failure", "recovery-mixed-faults", "control-clean-path",
   "control-phase-corrupt", "control-signature-corrupt", "control-skip-compute",
   "control-repeat-read", "control-early-terminal", "control-mixed-faults",
   "workflow-clean-run", "workflow-tmr-single", "workflow-tmr-distinct",
   "workflow-checkpoint-value", "workflow-checkpoint-checksum", "workflow-recovery-value",
   "workflow-recovery-checksum", "workflow-control-phase", "workflow-control-signature",
   "workflow-mixed-faults"}

LEMMA ListsOfNames ==
  /\ <<"mixed", "none">> \in Seq(CampaignNames) /\ R!TmrChoices \in Seq(CampaignNames)
  /\ R!CheckpointSampleChoices \in Seq(CampaignNames) /\ R!RecoveryBlockChoices \in Seq(CampaignNames)
  /\ R!ControlFlowChoices \in Seq(CampaignNames) /\ R!WorkflowChoices \in Seq(CampaignNames)
<1>1. <<"mixed", "none">> \in Seq(CampaignNames)
  BY DEF CampaignNames
<1>2. R!TmrChoices \in Seq(CampaignNames)
  BY DEF CampaignNames, R!TmrChoices
<1>3. R!CheckpointSampleChoices \in Seq(CampaignNames)
  BY DEF CampaignNames, R!CheckpointSampleChoices
<1>4. R!RecoveryBlockChoices \in Seq(CampaignNames)
  BY DEF CampaignNames, R!RecoveryBlockChoices
<1>5. R!ControlFlowChoices \in Seq(CampaignNames)
  BY DEF CampaignNames, R!ControlFlowChoices
<1>6. R!WorkflowChoices \in Seq(CampaignNames)
  BY DEF CampaignNames, R!WorkflowChoices
<1> QED
  BY <1>1, <1>2, <1>3, <1>4, <1>5, <1>6

(* A request that resolves names a campaign of its technique.              *)
LEMMA ResolvedIsOffered ==
  ASSUME NEW t \in R!ToSet(R!Techniques), NEW name \in R!ToSet(R!CampaignChoices),
         R!ValidateTechniqueCampaign(t, name)
  PROVE  name \in R!ToSet(R!CampaignsForTechnique(t))
<1>1. t \in {"tmr", "checkpoint", "recovery-block", "control-flow", "combined", "baseline"}
  BY DEF R!ToSet, R!Techniques
<1> DEFINE both == <<"mixed", "none">>
<1>2. R!CampaignsForTechnique(t) = both \o Family(t)
  BY <1>1 DEF R!CampaignsForTechnique, Family
<1>3. Family(t) \in Seq(CampaignNames)
  BY <1>1, ListsOfNames DEF Family
<1>4. R!ToSet(R!CampaignsForTechnique(t)) = R!ToSet(both) \cup R!ToSet(Family(t))
  BY <1>2, <1>3, ListsOfNames, ListsJoin
<1>5. R!ToSet(R!CampaignChoices) =
        R!ToSet(both) \cup R!ToSet(R!TmrChoices) \cup R!ToSet(R!CheckpointSampleChoices)
          \cup R!ToSet(R!RecoveryBlockChoices) \cup R!ToSet(R!ControlFlowChoices)
          \cup R!ToSet(R!WorkflowChoices)
  <2> HIDE DEF both
  <2> DEFINE first  == both \o R!TmrChoices
             second == first \o R!CheckpointSampleChoices
             third  == second \o R!RecoveryBlockChoices
             fourth == third \o R!ControlFlowChoices
  <2>1. R!CampaignChoices = fourth \o R!WorkflowChoices
    BY DEF R!CampaignChoices, both
  <2>2. first \in Seq(CampaignNames)
    BY ListsOfNames DEF both
  <2>2a. R!ToSet(first) = R!ToSet(both) \cup R!ToSet(R!TmrChoices)
    BY ListsOfNames, ListsJoin DEF both
  <2> HIDE DEF first
  <2>3. second \in Seq(CampaignNames)
    BY <2>2, ListsOfNames
  <2>3a. R!ToSet(second) = R!ToSet(first) \cup R!ToSet(R!CheckpointSampleChoices)
    BY <2>2, ListsOfNames, ListsJoin
  <2> HIDE DEF second
  <2>4. third \in Seq(CampaignNames)
    BY <2>3, ListsOfNames
  <2>4a. R!ToSet(third) = R!ToSet(second) \cup R!ToSet(R!RecoveryBlockChoices)
    BY <2>3, ListsOfNames, ListsJoin
  <2> HIDE DEF third
  <2>5. fourth \in Seq(CampaignNames)
    BY <2>4, ListsOfNames
  <2>5a. R!ToSet(fourth) = R!ToSet(third) \cup R!ToSet(R!ControlFlowChoices)
    BY <2>4, ListsOfNames, ListsJoin
  <2> HIDE DEF fourth
  <2>6. R!ToSet(R!CampaignChoices) = R!ToSet(fourth) \cup R!ToSet(R!WorkflowChoices)
    BY <2>1, <2>5, ListsOfNames, ListsJoin
  <2> QED
    BY <2>2a, <2>3a, <2>4a, <2>5a, <2>6
<1> HIDE DEF both
<1>6. name \in R!ToSet(both) \/ name \in R!ToSet(Family(t))
  BY <1>1, <1>5 DEF R!ValidateTechniqueCampaign, Family
<1> QED
  BY <1>4, <1>6

OfferedNames(t) ==
  CASE t = "tmr"            -> {"single-a", "all-distinct"}
    [] t = "checkpoint"     ->
         {"checkpoint-clean-run", "checkpoint-active-value-fault",
          "checkpoint-active-length-fault", "checkpoint-active-checksum-fault",
          "checkpoint-saved-checksum-fault", "checkpoint-double-fault"}
    [] t = "recovery-block" ->
         {"recovery-clean-primary", "recovery-primary-range", "recovery-primary-checksum",
          "recovery-alternate-checksum", "recovery-restore-failure"}
    [] t = "control-flow"   ->
         {"control-clean-path", "control-phase-corrupt", "control-signature-corrupt",
          "control-skip-compute", "control-repeat-read", "control-early-terminal"}

LEMMA OfferedIsKnown ==
  ASSUME NEW t \in Single!Techniques, NEW name \in R!ToSet(R!CampaignsForTechnique(t))
  PROVE  name \in OfferedNames(t) \cup {"none"} \cup Single!MixedNames
<1>1. t \in {"tmr", "checkpoint", "recovery-block", "control-flow"}
  BY DEF Single!Techniques
<1> DEFINE both == <<"mixed", "none">>
<1>2. R!CampaignsForTechnique(t) = both \o Family(t)
  BY <1>1 DEF R!CampaignsForTechnique, Family
<1>3. Family(t) \in Seq(CampaignNames)
  BY <1>1, ListsOfNames DEF Family
<1>4. name \in R!ToSet(both) \/ name \in R!ToSet(Family(t))
  <2>1. R!ToSet(R!CampaignsForTechnique(t)) = R!ToSet(both) \cup R!ToSet(Family(t))
    BY <1>2, <1>3, ListsOfNames, ListsJoin
  <2> HIDE DEF both
  <2> QED
    BY <2>1
<1>5. CASE name \in R!ToSet(both)
  BY <1>5 DEF R!ToSet, Single!MixedNames
<1>6. CASE name \in R!ToSet(Family(t))
  <2>1. CASE t = "tmr"
    BY <1>6, <2>1 DEF R!ToSet, Family, R!TmrChoices, OfferedNames
  <2>2. CASE t = "checkpoint"
    BY <1>6, <2>2
       DEF R!ToSet, Family, R!CheckpointSampleChoices, OfferedNames, Single!MixedNames
  <2>3. CASE t = "recovery-block"
    BY <1>6, <2>3
       DEF R!ToSet, Family, R!RecoveryBlockChoices, OfferedNames, Single!MixedNames
  <2>4. CASE t = "control-flow"
    BY <1>6, <2>4
       DEF R!ToSet, Family, R!ControlFlowChoices, OfferedNames, Single!MixedNames
  <2> QED
    BY <1>1, <2>1, <2>2, <2>3, <2>4
<1> QED
  BY <1>4, <1>5, <1>6

TargetOf(t, name) == Single!Table(t, 0)[name].target

Known(t) == DOMAIN Single!Table(t, 0)

(* The value a fault carries may depend on the iteration, its target not.  *)
LEMMA TargetsAreFixed ==
  ASSUME NEW t \in Single!Techniques, NEW e
  PROVE  /\ DOMAIN Single!Table(t, e) = Known(t)
         /\ \A name \in Known(t) : Single!Table(t, e)[name].target = TargetOf(t, name)
<1>1. CASE t = "tmr"
  <2>1. Single!Table(t, e) = Single!TmrCampaigns(e) /\ Single!Table(t, 0) = Single!TmrCampaigns(0)
    BY <1>1 DEF Single!Table
  <2>2. /\ DOMAIN Single!TmrCampaigns(e) = {"none", "single-a", "all-distinct"}
        /\ DOMAIN Single!TmrCampaigns(0) = {"none", "single-a", "all-distinct"}
    BY DEF Single!TmrCampaigns
  <2>3. ASSUME NEW name \in {"none", "single-a", "all-distinct"}
        PROVE  Single!TmrCampaigns(e)[name].target = Single!TmrCampaigns(0)[name].target
    BY DEF Single!TmrCampaigns, Single!Fault, Single!NoFault
  <2> QED
    BY <2>1, <2>2, <2>3 DEF Known, TargetOf
<1>2. CASE t # "tmr"
  BY <1>2 DEF Single!Techniques, Single!Table, Known, TargetOf
<1> QED
  BY <1>1, <1>2

LEMMA MixedIsUnknown ==
  ASSUME NEW t \in Single!Techniques
  PROVE  /\ Single!MixedNames \cap Known(t) = {}
         /\ OfferedNames(t) \cup {"none"} \subseteq Known(t)
         /\ \A name \in OfferedNames(t) \cup {"none"} :
              TargetOf(t, name) = "none" <=> name \in Single!CleanNames
<1>1. CASE t = "tmr"
  <2>1. Single!Table(t, 0) = Single!TmrCampaigns(0)
    BY <1>1 DEF Single!Table
  <2> QED
    BY <1>1, <2>1 DEF Known, TargetOf, OfferedNames, Single!TmrCampaigns, Single!MixedNames,
                      Single!CleanNames, Single!Fault, Single!NoFault
<1>2. CASE t = "checkpoint"
  <2>1. Single!Table(t, 0) = Single!CheckpointCampaigns
    BY <1>2 DEF Single!Table
  <2> QED
    BY <1>2, <2>1 DEF Known, TargetOf, OfferedNames, Single!CheckpointCampaigns,
                      Single!MixedNames, Single!CleanNames, Single!Fault, Single!NoFault
<1>3. CASE t = "recovery-block"
  <2>1. Single!Table(t, 0) = Single!RecoveryBlockCampaigns
    BY <1>3 DEF Single!Table
  <2> QED
    BY <1>3, <2>1 DEF Known, TargetOf, OfferedNames, Single!RecoveryBlockCampaigns,
                      Single!MixedNames, Single!CleanNames, Single!Fault, Single!NoFault
<1>4. CASE t = "control-flow"
  <2>1. Single!Table(t, 0) = Single!ControlFlowCampaigns
    BY <1>4 DEF Single!Table
  <2> QED
    BY <1>4, <2>1 DEF Known, TargetOf, OfferedNames, Single!ControlFlowCampaigns,
                      Single!MixedNames, Single!CleanNames, Single!Fault, Single!NoFault
<1> QED
  BY <1>1, <1>2, <1>3, <1>4 DEF Single!Techniques

(* The mixed order of a table meets each of its faults.                    *)
LEMMA MixedOrderIsComplete ==
  ASSUME NEW t \in Single!Techniques
  PROVE  /\ Len(Single!MixedOrder(t)) \in 3 .. 6
         /\ \A p \in 1 .. Len(Single!MixedOrder(t)) : Single!MixedOrder(t)[p] \in Known(t)
         /\ \A name \in Known(t) : \E p \in 1 .. Len(Single!MixedOrder(t)) :
              TargetOf(t, Single!MixedOrder(t)[p]) = TargetOf(t, name)
<1>1. CASE t = "tmr"
  <2>1. Single!Table(t, 0) = Single!TmrCampaigns(0)
    BY <1>1 DEF Single!Table
  <2>2. /\ Single!MixedOrder(t) = <<"none", "single-a", "all-distinct">>
        /\ Len(Single!MixedOrder(t)) = 3 /\ Known(t) = {"none", "single-a", "all-distinct"}
    BY <1>1, <2>1 DEF Single!MixedOrder, Single!TmrMixedOrder, Known, Single!TmrCampaigns
  <2> QED
    BY <2>2
<1>2. CASE t = "checkpoint"
  <2>1. Single!Table(t, 0) = Single!CheckpointCampaigns
    BY <1>2 DEF Single!Table
  <2>2. /\ Single!MixedOrder(t) = Single!CheckpointMixedOrder
        /\ Len(Single!MixedOrder(t)) = 6
        /\ Known(t) = {"none", "checkpoint-clean-run", "checkpoint-active-value-fault",
             "checkpoint-active-length-fault", "checkpoint-active-checksum-fault",
             "checkpoint-saved-checksum-fault", "checkpoint-double-fault"}
        /\ TargetOf(t, "checkpoint-clean-run") = TargetOf(t, "none")
    BY <1>2, <2>1 DEF Single!MixedOrder, Single!CheckpointMixedOrder, Known, TargetOf,
                      Single!CheckpointCampaigns
  <2> QED
    BY <2>2 DEF Single!CheckpointMixedOrder
<1>3. CASE t = "recovery-block"
  <2>1. Single!Table(t, 0) = Single!RecoveryBlockCampaigns
    BY <1>3 DEF Single!Table
  <2>2. /\ Single!MixedOrder(t) = Single!RecoveryBlockMixedOrder
        /\ Len(Single!MixedOrder(t)) = 5
        /\ Known(t) = {"none", "recovery-clean-primary", "recovery-primary-range",
             "recovery-primary-checksum", "recovery-alternate-checksum",
             "recovery-restore-failure"}
        /\ TargetOf(t, "recovery-clean-primary") = TargetOf(t, "none")
    BY <1>3, <2>1 DEF Single!MixedOrder, Single!RecoveryBlockMixedOrder, Known, TargetOf,
                      Single!RecoveryBlockCampaigns
  <2> QED
    BY <2>2 DEF Single!RecoveryBlockMixedOrder
<1>4. CASE t = "control-flow"
  <2>1. Single!Table(t, 0) = Single!ControlFlowCampaigns
    BY <1>4 DEF Single!Table
  <2>2. /\ Single!MixedOrder(t) = Single!ControlFlowMixedOrder
        /\ Len(Single!MixedOrder(t)) = 6
        /\ Known(t) = {"none", "control-clean-path", "control-phase-corrupt",
             "control-signature-corrupt", "control-skip-compute",
             "control-repeat-read", "control-early-terminal"}
        /\ TargetOf(t, "control-clean-path") = TargetOf(t, "none")
    BY <1>4, <2>1 DEF Single!MixedOrder, Single!ControlFlowMixedOrder, Known, TargetOf,
                      Single!ControlFlowCampaigns
  <2> QED
    BY <2>2 DEF Single!ControlFlowMixedOrder
<1> QED
  BY <1>1, <1>2, <1>3, <1>4 DEF Single!Techniques

(* The target of iteration i: that of the campaign, or of its turn.        *)
LEMMA Turns ==
  ASSUME technique \in Single!Techniques, NEW i
  PROVE  /\ campaign \in Known(technique) => Chosen(i).target = TargetOf(technique, campaign)
         /\ campaign \notin Known(technique) =>
              LET order == Single!MixedOrder(technique)
                  turn  == ((i - 1) % Len(order)) + 1
              IN  order[turn] \in Known(technique) =>
                    Chosen(i).target = TargetOf(technique, order[turn])
<1>1. PICK e : e = Single!Expected(technique, i)
  OBVIOUS
<1>2. Chosen(i) = Single!ChooseFault(technique, campaign, i, e)
  BY <1>1 DEF Chosen
<1> QED
  BY <1>2, TargetsAreFixed DEF Single!ChooseFault

LEMMA CampaignTells ==
  ASSUME SingleInv, campaign \in R!ToSet(R!CampaignsForTechnique(technique))
  PROVE  Single!CampaignInjectsWhatItNames
<1>1. /\ technique \in Single!Techniques /\ iteration \in Nat
      /\ pc # "top" => iteration > 0
  BY DEF SingleInv, SingleTypes
<1>2. campaign \in OfferedNames(technique) \cup {"none"} \cup Single!MixedNames
  BY <1>1, OfferedIsKnown
<1>3. PICK n \in Int : /\ injected = Met(n)
                       /\ n = IF pc = "inject" THEN iteration - 1 ELSE iteration
  BY <1>1 DEF SingleInv, Injections
<1>4. CASE campaign \notin Single!MixedNames
  <2>1. campaign \in Known(technique)
    BY <1>1, <1>2, <1>4, MixedIsUnknown
  <2>2. \A i : Chosen(i).target = TargetOf(technique, campaign)
    BY <1>1, <2>1, Turns
  <2>3. \A one, other \in injected : one = other
    BY <1>3, <2>2 DEF Met
  <2>4. ASSUME pc = "validate"
        PROVE  campaign \in Single!CleanNames <=> injected = {"none"}
    <3>1. n \in Nat \ {0}
      BY <1>1, <1>3, <2>4
    <3>2. 1 \in 1 .. n
      BY <3>1
    <3>3. injected = {TargetOf(technique, campaign)}
      BY <1>3, <2>2, <3>2 DEF Met
    <3>4. TargetOf(technique, campaign) = "none" <=> campaign \in Single!CleanNames
      BY <1>1, <1>2, <1>4, MixedIsUnknown
    <3> QED
      BY <3>3, <3>4
  <2> QED
    BY <1>4, <2>3, <2>4 DEF Single!CampaignInjectsWhatItNames
<1>5. CASE campaign \in Single!MixedNames
  <2>1. campaign \notin Known(technique)
    BY <1>1, <1>5, MixedIsUnknown
  <2> SUFFICES ASSUME iteration > Len(Single!MixedOrder(technique))
               PROVE  injected = Single!TargetsOf(technique)
    BY <1>5 DEF Single!CampaignInjectsWhatItNames
  <2> DEFINE order == Single!MixedOrder(technique)
  <2>2. PICK l \in 3 .. 6 : l = Len(order)
    BY <1>1, MixedOrderIsComplete
  <2>3. /\ \A p \in 1 .. l : order[p] \in Known(technique)
        /\ \A name \in Known(technique) : \E p \in 1 .. l :
             TargetOf(technique, order[p]) = TargetOf(technique, name)
    BY <1>1, <2>2, MixedOrderIsComplete
  <2>4. n \in Nat /\ l <= n
    BY <1>1, <1>3, <2>2
  <2>5. Single!TargetsOf(technique) = {TargetOf(technique, name) : name \in Known(technique)}
    BY DEF Single!TargetsOf, TargetOf, Known
  <2> HIDE DEF order
  <2>6. ASSUME NEW i \in 1 .. n
        PROVE  \E p \in 1 .. l : /\ Chosen(i).target = TargetOf(technique, order[p])
                                 /\ i <= l => p = i
    <3>1. PICK p : p = ((i - 1) % l) + 1
      OBVIOUS
    <3>2. p \in 1 .. l /\ (i <= l => p = i)
      BY <2>2, <3>1
    <3>3. order[p] \in Known(technique)
      BY <2>3, <3>2
    <3>4. Chosen(i).target = TargetOf(technique, order[p])
      BY <1>1, <2>1, <2>2, <3>1, <3>3, Turns DEF order
    <3> QED
      BY <3>2, <3>4
  <2>7. injected \subseteq Single!TargetsOf(technique)
    BY <1>3, <2>3, <2>5, <2>6 DEF Met
  <2>8. ASSUME NEW name \in Known(technique)
        PROVE  TargetOf(technique, name) \in injected
    <3>1. PICK i \in 1 .. l : TargetOf(technique, order[i]) = TargetOf(technique, name)
      BY <2>3
    <3>2. i \in 1 .. n /\ i <= l
      BY <2>2, <2>4
    <3>3. Chosen(i).target = TargetOf(technique, name)
      BY <2>6, <3>1, <3>2
    <3> QED
      BY <1>3, <3>2, <3>3 DEF Met
  <2> QED
    BY <2>5, <2>7, <2>8
<1> QED
  BY <1>4, <1>5

-----------------------------------------------------------------------------
(* The images together *)

ImagesInv ==
  /\ technique \in Single!Techniques \cup {"combined", "baseline"}
  /\ campaign \in R!ToSet(R!CampaignsForTechnique(technique))
  /\ technique = "combined" => CombinedInv
  /\ technique = "baseline" => BaselineInv
  /\ technique \in Single!Techniques => SingleInv

LEMMA SingleStarts ==
  ASSUME technique \in Single!Techniques, Single!Init PROVE SingleInv
<1>1. technique \in {"tmr", "checkpoint", "recovery-block", "control-flow"}
  BY DEF Single!Techniques
<1>2. /\ iteration = 0 /\ pc = "top" /\ request = Single!Fault("none", 0)
      /\ state = Single!FreshState(technique, 0) /\ last = Single!FreshFacts(technique)
      /\ passes = 0 /\ failures = 0 /\ injected = {}
  BY DEF Single!Init, Single!NoFault
<1>3. SingleTypes
  BY <1>2, ImagesAssumption, WorkloadAssumption DEF SingleTypes, Single!Fault
<1>4. Shapes
  BY <1>1, <1>2 DEF Shapes, Single!FreshFacts
<1>5. Injections
  <2>1. 1 .. 0 = {}
    OBVIOUS
  <2> QED
    BY <1>2, <2>1 DEF Injections, Met
<1> QED
  BY <1>2, <1>3, <1>4, <1>5
     DEF SingleInv, SinglePlaces, ControlPlaces, Single!RowTellsTheTruth

LEMMA ImagesStart ==
  ASSUME ImagesInit PROVE ImagesInv
<1>1. PICK asked \in Requests :
        /\ R!ResolveE2E(asked, Default)
        /\ technique = asked.technique
        /\ campaign = R!CampaignOr(asked.campaign, "mixed")
  BY DEF ImagesInit
<1>2. /\ technique \in R!ToSet(R!Techniques) /\ campaign \in R!ToSet(R!CampaignChoices)
      /\ R!ValidateTechniqueCampaign(technique, campaign)
  BY <1>1 DEF R!ResolveE2E, R!CommonResolves
<1>3. campaign \in R!ToSet(R!CampaignsForTechnique(technique))
  BY <1>2, ResolvedIsOffered
<1>4. technique \in Single!Techniques \cup {"combined", "baseline"}
  BY <1>2 DEF R!ToSet, R!Techniques, Single!Techniques
<1>5. iteration = 0 /\ pc = "top" /\ fault = Fault("none", 0)
  BY DEF ImagesInit
<1>6. CombinedInv
  BY <1>5 DEF CombinedInv, WorkflowFaults, Protected!NoSilentCorruption,
              Protected!SafeStopKeepsRecord, Protected!EachFaultHasItsAnswer,
              Protected!Classified
<1>7. BaselineInv
  BY <1>5 DEF BaselineInv, WorkflowFaults, Unprotected!FaultsComeThrough,
              Unprotected!Classified
<1>8. technique \in Single!Techniques => SingleInv
  BY SingleStarts DEF ImagesInit
<1> QED
  BY <1>3, <1>4, <1>6, <1>7, <1>8 DEF ImagesInv

LEMMA CampaignStays ==
  ASSUME ImagesNext PROVE technique' = technique /\ campaign' = campaign
<1>1. CASE RunCombined
  BY <1>1 DEF RunCombined, Protected!Next, Protected!Begin, Protected!ReadInput,
              Protected!Compute, Protected!Validate, Protected!Commit, Protected!Classify
<1>2. CASE RunBaseline
  BY <1>2 DEF RunBaseline, Unprotected!Next, Unprotected!Begin, Unprotected!RunWorkflow,
              Unprotected!Classify
<1>3. CASE RunTechnique
  BY <1>3 DEF RunTechnique, Single!Next, Single!Begin, Single!Inject, Single!RunTmr,
              Single!RunCheckpoint, Single!RunPrimary, Single!RunAlternate,
              Single!RunControlLeg, Single!FinishControl, Single!Validate
<1> QED
  BY <1>1, <1>2, <1>3 DEF ImagesNext

LEMMA ImagesStep ==
  ASSUME ImagesInv, ImagesNext PROVE ImagesInv'
<1>1. technique' = technique /\ campaign' = campaign
  BY CampaignStays
<1>2. R!ToSet(R!CampaignsForTechnique(technique))'
        = R!ToSet(R!CampaignsForTechnique(technique))
  BY <1>1 DEF R!ToSet, R!CampaignsForTechnique
<1>3. Single!Techniques \cap {"combined", "baseline"} = {}
  BY DEF Single!Techniques
<1>4. CASE RunCombined
  <2>1. technique = "combined" /\ CombinedInv'
    BY <1>4, CombinedStep DEF RunCombined, ImagesInv
  <2> QED
    BY <1>1, <1>2, <1>3, <2>1 DEF ImagesInv
<1>5. CASE RunBaseline
  <2>1. technique = "baseline" /\ BaselineInv'
    BY <1>5, BaselineStep DEF RunBaseline, ImagesInv
  <2> QED
    BY <1>1, <1>2, <1>3, <2>1 DEF ImagesInv
<1>6. CASE RunTechnique
  <2>1. technique \in Single!Techniques /\ SingleInv'
    BY <1>6, SingleStep DEF RunTechnique, ImagesInv
  <2> QED
    BY <1>1, <1>2, <1>3, <2>1 DEF ImagesInv
<1> QED
  BY <1>4, <1>5, <1>6 DEF ImagesNext

LEMMA ImagesStutter ==
  ASSUME ImagesInv, UNCHANGED imagesVars PROVE ImagesInv'
<1>1. UNCHANGED <<technique, campaign, iteration, pc, fault, passed, triplet, voted, record,
                  monitor, facts, committed, last_value, outcome, request, state, last,
                  passes, failures, injected>>
  BY DEF imagesVars, workflow, combined, baseline, single
<1>2. CombinedInv' = CombinedInv
  BY <1>1 DEF CombinedInv, AtRead, AtCompute, Computed, AtClassify, Sampled, TrueResult, Stopping,
              Replaced, RolledBack, Outvoted, Holds, Found, Accepted, Protected!HitMonitor,
              Protected!NoSilentCorruption, Protected!SafeStopKeepsRecord,
              Protected!EachFaultHasItsAnswer, Protected!Classified
<1>3. BaselineInv' = BaselineInv
  BY <1>1 DEF BaselineInv, Surfaced, Unprotected!Corrupted, Unprotected!Input,
              Unprotected!FaultsComeThrough, Unprotected!Classified
<1>4. SingleInv' = SingleInv
  <2>1. /\ \A i : Chosen(i)' = Chosen(i)
        /\ \A n : Met(n)' = Met(n)
        /\ Wanted' = Wanted /\ Initial' = Initial
    BY <1>1, FrameKeeps
  <2>2. /\ SingleTypes' = SingleTypes /\ Shapes' = Shapes /\ Injections' = Injections
        /\ FaultWritten' = FaultWritten /\ Fresh' = Fresh
    BY <1>1, <2>1 DEF SingleTypes, Shapes, Injections, FaultWritten, Fresh,
                      Single!FreshState, Single!FreshFacts
  <2>3. /\ TmrStarts' = TmrStarts /\ CheckpointStarts' = CheckpointStarts
        /\ BlockHolds(Initial)' = BlockHolds(Initial)
        /\ BlockFacts("OK")' = BlockFacts("OK") /\ AlternateStarts' = AlternateStarts
    BY <1>1, <2>1 DEF TmrStarts, CheckpointStarts, BlockHolds, BlockFacts, AlternateStarts,
                      Single!Double, Single!Copy
  <2>4. ControlPlaces' = ControlPlaces
    <3>1. \A leg \in 0 .. 5 : ControlAfter(leg)' = ControlAfter(leg)
      BY <1>1, <2>1 DEF ControlAfter, ControlFactsAre, Single!Monitor, Single!HitMonitor
    <3> QED
      BY <1>1, <3>1 DEF ControlPlaces
  <2>5. SinglePlaces' = SinglePlaces
    BY <1>1, <2>3, <2>4 DEF SinglePlaces
  <2>6. Single!RowIsTrue' = Single!RowIsTrue
    BY <1>1 DEF Single!RowIsTrue, Single!Good, Single!KeepsRecord
  <2>7. Single!AsExpected' = Single!AsExpected
    BY <1>1 DEF Single!AsExpected, Single!TmrAsExpected, Single!CheckpointAsExpected,
                Single!CheckpointFacts, Single!RecoveryAsExpected, Single!RecoveryFacts,
                Single!ControlAsExpected, Single!ControlFacts, Single!Both
  <2> QED
    BY <1>1, <2>2, <2>5, <2>6, <2>7 DEF SingleInv, Single!RowTellsTheTruth
<1> QED
  BY <1>1, <1>2, <1>3, <1>4 DEF ImagesInv

(* Each image is, at each place of its loop, where its own invariant says, *)
(* and its campaign is one the form offers for it.                         *)
THEOREM ImagesInvariant == ImagesSpec => []ImagesInv
<1>1. ImagesInv /\ [ImagesNext]_imagesVars => ImagesInv'
  BY ImagesStep, ImagesStutter
<1> QED
  BY ImagesStart, <1>1, PTL DEF ImagesSpec

(* No iteration of any campaign, however long, commits a wrong value from  *)
(* the protected workflow (combined/main.c), and what stops it leaves a    *)
(* valid record behind.                                                    *)
THEOREM ProtectedRunsAreSafe == ImagesSpec => []ProtectedRunIsSafe
<1>1. ImagesInv => ProtectedRunIsSafe
  BY DEF ImagesInv, CombinedInv, ProtectedRunIsSafe
<1> QED
  BY ImagesInvariant, <1>1, PTL

(* Every fault of the workflow table is answered by the technique it is    *)
(* meant for, in every iteration.                                          *)
THEOREM FaultsAreAnswered == ImagesSpec => []EachFaultHasItsAnswer
<1>1. ImagesInv => EachFaultHasItsAnswer
  BY DEF ImagesInv, CombinedInv, EachFaultHasItsAnswer
<1> QED
  BY ImagesInvariant, <1>1, PTL

(* The unprotected workflow (baseline/main.c) turns every fault into       *)
(* silent corruption, but for one input in 700.                            *)
THEOREM UnprotectedFaultsComeThrough == ImagesSpec => []FaultsComeThrough
<1>1. ImagesInv => FaultsComeThrough
  BY DEF ImagesInv, BaselineInv, FaultsComeThrough
<1> QED
  BY ImagesInvariant, <1>1, PTL

(* Every campaign a request resolves to injects what its name says, and    *)
(* the image counts a pass in every iteration of it.                       *)
THEOREM CampaignsMeetThem == ImagesSpec => []CampaignsMeetTheirFaults
<1>1. ASSUME ImagesInv PROVE CampaignsMeetTheirFaults
  <2>1. ASSUME technique \in Single!Techniques
        PROVE  /\ Single!TypeOK /\ Single!CampaignPasses
               /\ Single!CampaignInjectsWhatItNames
    <3>1. SingleInv /\ SingleTypes /\ Shapes
      BY <1>1, <2>1 DEF ImagesInv, SingleInv
    <3>2. Single!TypeOK
      BY <3>1, ImagesAssumption, WorkloadAssumption DEF SingleTypes, Shapes, Single!TypeOK
    <3>3. Single!CampaignPasses
      BY <3>1 DEF SingleTypes, Single!CampaignPasses
    <3> QED
      BY <1>1, <3>1, <3>2, <3>3, CampaignTells DEF ImagesInv
  <2> QED
    BY <1>1, <2>1 DEF ImagesInv, CampaignsMeetTheirFaults
<1> QED
  BY ImagesInvariant, <1>1, PTL

(* The row read after an iteration of a technique's image is true of it.   *)
THEOREM RowsTellTheTruth == ImagesSpec => []RowTellsTheTruth
<1>1. ImagesInv => RowTellsTheTruth
  BY DEF ImagesInv, SingleInv, RowTellsTheTruth
<1> QED
  BY ImagesInvariant, <1>1, PTL
=============================================================================
