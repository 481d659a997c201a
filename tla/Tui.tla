-------------------------------- MODULE Tui ---------------------------------
(***************************************************************************)
(* The runs of the terminal interface, internal/tui/model.go: Update       *)
(* handles one key or one message at a time, while the goroutine of a run  *)
(* or of a build sends its messages into the channel of that run and a     *)
(* listen command waits for the next of them.                              *)
(*                                                                         *)
(* Runs are numbered as they start; a number stands for the goroutine, the *)
(* context and the channel that start makes, and 0 for nil.  Which widget  *)
(* has the keyboard is left out: a key is the action it asks for.          *)
(***************************************************************************)
EXTENDS Naturals, Sequences, FiniteSets

CONSTANTS
  Count,        \* iterations or trials of a campaign, lines of a build
  MaxRuns,      \* bound: runs and builds started in one session
  Capacity,     \* messages the channel of a run holds
  TailLength    \* lines of build output shown

ASSUME TuiAssumption ==
  Count \in Nat \ {0} /\ MaxRuns \in Nat /\ Capacity \in Nat \ {0}
    /\ TailLength \in Nat \ {0}

VARIABLES
  (* the model Update works on *)
  mode, state, cancel, events, exporting,
  rows,         \* e2eRows or fuzzRows, the one of the mode
  histogram, progressCur, progressTot,
  table,        \* the rows the results table was built from
  buildTail, status, quit,
  (* the goroutines *)
  started,      \* the number of the last run
  kind,         \* of each run: "e2e", "fuzz", "build"
  phase,        \* "working", a message it is sending, "ended"
  done,         \* iterations, trials or lines completed
  failed,       \* the image's cumulative failure counter
  class,        \* the class of the last completed iteration or trial
  result,       \* how the run returned
  cancelled,    \* its context was cancelled
  chan,         \* its channel
  listeners     \* listen commands waiting on its channel

uiVars == <<mode, state, cancel, events, exporting, rows, histogram,
            progressCur, progressTot, table, buildTail, status, quit>>
runVars == <<started, kind, phase, done, failed, class, result, chan>>
vars == <<uiVars, runVars, cancelled, listeners>>

Runs == 1 .. MaxRuns

Modes == {"e2e", "fuzz"}

RunClasses == {"pass", "fail"}

NoCounts == [c \in RunClasses |-> 0]

Init ==
  /\ mode = "e2e" /\ state = "idle" /\ cancel = 0 /\ events = 0
  /\ exporting = FALSE /\ rows = <<>> /\ histogram = NoCounts
  /\ progressCur = 0 /\ progressTot = 0 /\ table = <<>> /\ buildTail = <<>>
  /\ status = "none" /\ quit = FALSE
  /\ started = 0
  /\ kind = [r \in Runs |-> "build"]
  /\ phase = [r \in Runs |-> "ended"]
  /\ done = [r \in Runs |-> 0] /\ failed = [r \in Runs |-> 0]
  /\ class = [r \in Runs |-> "pass"]
  /\ result = [r \in Runs |-> "running"]
  /\ cancelled = [r \in Runs |-> FALSE]
  /\ chan = [r \in Runs |-> <<>>]
  /\ listeners = [r \in Runs |-> 0]

-----------------------------------------------------------------------------
(* The goroutine of a run: each completed iteration sends its row and then *)
(* its progress, each line of a build is one message, and the last message *)
(* tells the end.  A full channel blocks the sender.                       *)

Send(r, message) ==
  /\ Len(chan[r]) < Capacity
  /\ chan' = [chan EXCEPT ![r] = Append(@, message)]

Goto(r, next) == phase' = [phase EXCEPT ![r] = next]

CompleteOne(r) ==
  /\ phase[r] = "working" /\ done[r] < Count
  /\ done' = [done EXCEPT ![r] = @ + 1]
  /\ IF kind[r] = "build" THEN Goto(r, "output") /\ UNCHANGED <<failed, class>>
     ELSE /\ Goto(r, "row")
          /\ \E c \in RunClasses :
               /\ class' = [class EXCEPT ![r] = c]
               /\ failed' = [failed EXCEPT ![r] = IF c = "fail" THEN @ + 1 ELSE @]
  /\ UNCHANGED <<started, kind, result, chan>>

Row(r) ==
  [run |-> r, id |-> done[r], class |-> class[r],
   passes |-> done[r] - failed[r], failures |-> failed[r]]

SendRow(r) ==
  /\ phase[r] = "row"
  /\ Send(r, [type |-> "row", row |-> Row(r)])
  /\ Goto(r, "progress")
  /\ UNCHANGED <<started, kind, done, failed, class, result>>

SendProgress(r) ==
  /\ phase[r] = "progress"
  /\ Send(r, [type |-> "progress", cur |-> done[r], class |-> class[r]])
  /\ Goto(r, "working")
  /\ UNCHANGED <<started, kind, done, failed, class, result>>

SendOutput(r) ==
  /\ phase[r] = "output"
  /\ Send(r, [type |-> "output", line |-> <<r, done[r]>>])
  /\ Goto(r, "working")
  /\ UNCHANGED <<started, kind, done, failed, class, result>>

Return(r, error) ==
  /\ phase[r] = "working"
  /\ result' = [result EXCEPT ![r] = error]
  /\ Goto(r, "finished")
  /\ UNCHANGED <<started, kind, done, failed, class, chan>>

(* What e2e.Run and fuzz.Run return to model.go, an assumption here: it is *)
(* what Campaign.tla promises and E2EEngine.tla and FuzzEngine.tla keep.   *)
EndCampaign(r) ==
  /\ kind[r] # "build"
  /\ \/ done[r] = Count /\ Return(r, "none")
     \/ done[r] < Count /\ cancelled[r] /\ Return(r, "cancelled")
     \/ done[r] < Count /\ Return(r, "failed")

(* A build returns as it likes.  That it ends at all is assumed: no line   *)
(* of it is overlong.                                                      *)
EndBuild(r) ==
  /\ kind[r] = "build"
  /\ \/ Return(r, "none")
     \/ cancelled[r] /\ Return(r, "cancelled")
     \/ Return(r, "failed")

SendFinished(r) ==
  /\ phase[r] = "finished"
  /\ Send(r, [type |-> "finished", error |-> result[r], success |-> failed[r] = 0])
  /\ Goto(r, "ended")
  /\ UNCHANGED <<started, kind, done, failed, class, result>>

Goroutine(r) ==
  /\ ~quit /\ r <= started
  /\ \/ CompleteOne(r) \/ SendRow(r) \/ SendProgress(r) \/ SendOutput(r)
     \/ EndCampaign(r) \/ EndBuild(r) \/ SendFinished(r)
  /\ UNCHANGED <<uiVars, cancelled, listeners>>

-----------------------------------------------------------------------------
(* Results *)

BuildResultsTable == table' = rows'

ClearResults ==
  /\ rows' = <<>> /\ histogram' = NoCounts
  /\ progressCur' = 0 /\ progressTot' = 0
  /\ BuildResultsTable

SameResults == UNCHANGED <<rows, histogram, progressCur, progressTot, table>>

SameRun == UNCHANGED <<state, cancel, events>>

-----------------------------------------------------------------------------
(* Messages: Update and handleFinished, handleBuildFinished, appendTail *)

HandleRow(message) ==
  /\ rows' = Append(rows, message.row)
  /\ UNCHANGED <<histogram, progressCur, progressTot, table, buildTail, status>>
  /\ SameRun

HandleProgress(message) ==
  /\ progressCur' = message.cur /\ progressTot' = Count
  /\ histogram' = IF mode = "fuzz" THEN [histogram EXCEPT ![message.class] = @ + 1]
                  ELSE histogram
  /\ UNCHANGED <<rows, table, buildTail, status>>
  /\ SameRun

LastLines(lines) ==
  SubSeq(lines, IF Len(lines) > TailLength THEN Len(lines) - TailLength + 1 ELSE 1,
         Len(lines))

HandleOutput(message) ==
  /\ buildTail' = LastLines(Append(buildTail, message.line))
  /\ SameResults /\ SameRun /\ UNCHANGED status

NoRun == state' = "idle" /\ cancel' = 0 /\ events' = 0

HandleFinished(message) ==
  /\ NoRun
  /\ status' = CASE message.error = "cancelled" -> "stopped"
                 [] message.error = "failed"    -> "error"
                 [] message.error = "none" /\ (message.success \/ mode = "fuzz") -> "done"
                 [] message.error = "none" /\ ~message.success /\ mode = "e2e"
                      -> "completed with failures"
  /\ UNCHANGED <<rows, histogram, progressCur, progressTot, buildTail>>
  /\ BuildResultsTable

HandleBuildFinished(message) ==
  /\ NoRun
  /\ status' = CASE message.error = "cancelled" -> "build cancelled"
                 [] message.error = "failed"    -> "build failed"
                 [] message.error = "none"      -> "build succeeded"
  /\ SameResults /\ UNCHANGED buildTail

(* listen: a command on the channel the model holds, none without one. *)
ListenLost(after, r) == after

Listen(after, r) == IF events = 0 THEN after ELSE [after EXCEPT ![events] = @ + 1]

(* A listen command takes the next message and Update handles it. *)
Receive(r) ==
  /\ ~quit /\ listeners[r] > 0 /\ chan[r] # <<>>
  /\ chan' = [chan EXCEPT ![r] = Tail(@)]
  /\ LET message == Head(chan[r])
         taken == [listeners EXCEPT ![r] = @ - 1]
     IN  \/ message.type = "row" /\ HandleRow(message)
              /\ listeners' = Listen(taken, r)
         \/ message.type = "progress" /\ HandleProgress(message)
              /\ listeners' = Listen(taken, r)
         \/ message.type = "output" /\ HandleOutput(message)
              /\ listeners' = Listen(taken, r)
         \/ message.type = "finished" /\ listeners' = taken
              /\ IF kind[r] = "build" THEN HandleBuildFinished(message)
                 ELSE HandleFinished(message)
  /\ UNCHANGED <<mode, exporting, quit, cancelled, started, kind, phase, done,
                 failed, class, result>>

-----------------------------------------------------------------------------
(* Keys, each as what activate or handleKey makes of it; a status that     *)
(* tells of no run is a "message".                                         *)

Key == ~quit /\ ~exporting /\ UNCHANGED quit

(* A new goroutine with its context and its channel, and one listener. *)
Launch(what) ==
  LET r == started + 1
  IN  /\ started' = r /\ cancel' = r /\ events' = r
      /\ kind' = [kind EXCEPT ![r] = what]
      /\ Goto(r, "working")
      /\ listeners' = [listeners EXCEPT ![r] = 1]
      /\ UNCHANGED <<done, failed, class, result, chan, cancelled>>

(* startE2E and startFuzz clear the results and then set the total. *)
StartRun ==
  /\ Key /\ state = "idle" /\ started < MaxRuns
  /\ Launch(mode) /\ state' = "running" /\ status' = "running"
  /\ rows' = <<>> /\ histogram' = NoCounts /\ progressCur' = 0
  /\ progressTot' = Count /\ BuildResultsTable
  /\ UNCHANGED <<mode, exporting, buildTail>>

(* A count that is no positive integer, or a run that does not resolve. *)
StartRefused ==
  /\ Key /\ state = "idle" /\ status' = "error"
  /\ SameResults /\ SameRun
  /\ UNCHANGED <<mode, exporting, buildTail, runVars, cancelled, listeners>>

StartBuildKeepsTail ==
  /\ Key /\ state = "idle" /\ started < MaxRuns
  /\ Launch("build") /\ state' = "building" /\ status' = "building"
  /\ SameResults /\ UNCHANGED <<mode, exporting, buildTail>>

StartBuild ==
  /\ Key /\ state = "idle" /\ started < MaxRuns
  /\ Launch("build") /\ state' = "building" /\ status' = "building"
  /\ buildTail' = <<>>
  /\ SameResults /\ UNCHANGED <<mode, exporting>>

CancelRun == cancelled' = [cancelled EXCEPT ![cancel] = TRUE]

Stop ==
  /\ Key /\ state # "idle" /\ cancel # 0
  /\ CancelRun /\ status' = "stopping"
  /\ SameResults /\ SameRun
  /\ UNCHANGED <<mode, exporting, buildTail, runVars, listeners>>

(* handleModeKey: refused while busy. *)
SwitchMode ==
  /\ Key
  /\ IF state # "idle" THEN status' = "message" /\ SameResults /\ UNCHANGED mode
     ELSE /\ mode' = IF mode = "e2e" THEN "fuzz" ELSE "e2e"
          /\ ClearResults /\ status' = "none"
  /\ SameRun /\ UNCHANGED <<exporting, buildTail, runVars, cancelled, listeners>>

Clear ==
  /\ Key /\ ClearResults /\ status' = "message"
  /\ SameRun /\ UNCHANGED <<mode, exporting, buildTail, runVars, cancelled, listeners>>

BeginExport ==
  /\ Key
  /\ IF rows = <<>> THEN status' = "message" /\ UNCHANGED exporting
     ELSE exporting' = TRUE /\ status' = "message"
  /\ SameResults /\ SameRun
  /\ UNCHANGED <<mode, buildTail, runVars, cancelled, listeners>>

(* handleExportKey and doExport: written or cancelled, or the write failed *)
(* and the prompt stays open.                                              *)
ExportKey ==
  /\ ~quit /\ exporting
  /\ exporting' \in BOOLEAN /\ status' = "message"
  /\ SameResults /\ SameRun
  /\ UNCHANGED <<mode, buildTail, quit, runVars, cancelled, listeners>>

(* ctrl+c cancels what runs, also while the prompt is open; Quit does not. *)
Quit ==
  /\ ~quit /\ quit' = TRUE
  /\ \/ IF cancel # 0 THEN CancelRun ELSE UNCHANGED cancelled
     \/ ~exporting /\ UNCHANGED cancelled
  /\ SameResults /\ SameRun
  /\ UNCHANGED <<mode, exporting, buildTail, status, runVars, listeners>>

KeyPressed ==
  \/ StartRun \/ StartRefused \/ StartBuild \/ Stop \/ SwitchMode \/ Clear
  \/ BeginExport \/ ExportKey \/ Quit

Next == KeyPressed \/ \E r \in Runs : Goroutine(r) \/ Receive(r)

(* Go runs its goroutines and the event loop takes its messages, while the *)
(* interface is open.  Nobody has to press a key.                          *)
Fairness == \A r \in Runs : WF_vars(Goroutine(r)) /\ WF_vars(Receive(r))

Spec == Init /\ [][Next]_vars /\ Fairness

-----------------------------------------------------------------------------
(* Properties *)

UiTypeOK ==
  /\ mode \in Modes /\ state \in {"idle", "running", "building"}
  /\ cancel \in 0 .. started /\ events \in 0 .. started /\ started \in 0 .. MaxRuns
  /\ exporting \in BOOLEAN /\ quit \in BOOLEAN
  /\ \A i \in DOMAIN rows : rows[i].run \in Runs /\ rows[i].id \in 1 .. Count
  /\ progressCur \in 0 .. Count /\ progressTot \in {0, Count}
  /\ Len(buildTail) <= TailLength
  /\ result \in [Runs -> {"running", "none", "cancelled", "failed"}]
  /\ \A r \in Runs : Len(chan[r]) <= Capacity

(* One run at a time: the interface is idle exactly when it holds no run,  *)
(* the run it can stop is the run it listens to, that run still owes it a  *)
(* message and has exactly one listener, and no earlier run has anything   *)
(* left to say.                                                            *)
OneRunAtATime ==
  /\ state = "idle" <=> events = 0
  /\ cancel = events
  /\ \A r \in 1 .. started :
       IF r = events
       THEN listeners[r] = 1 /\ (phase[r] # "ended" \/ chan[r] # <<>>)
       ELSE listeners[r] = 0 /\ phase[r] = "ended" /\ chan[r] = <<>>

LastCampaign(r) ==
  /\ kind[r] # "build" /\ \A later \in r + 1 .. started : kind[later] = "build"

(* The rows in memory are rows of one run, the last campaign of this mode, *)
(* in order and without a gap; once it is idle they reach to the last one  *)
(* that run completed, whether it was stopped or not.                      *)
RowsAreOfTheLastRun ==
  \A i \in DOMAIN rows :
    LET row == rows[i]
    IN  /\ LastCampaign(row.run) /\ kind[row.run] = mode
        /\ row.id = rows[1].id + i - 1
        /\ i = Len(rows) /\ state # "running" => row.id = done[row.run]

(* Whatever arrived or was cleared meanwhile, the table shows the rows an  *)
(* export would write as soon as no campaign runs.                         *)
TableIsOfTheRows == state # "running" => table = rows

Uncut == rows # <<>> /\ rows[1].id = 1

OfClass(c) == Cardinality({i \in DOMAIN rows : rows[i].class = c})

(* The totals on the status line agree with the rows when the interface is *)
(* idle, unless the rows were cleared while the run went on.               *)
IdleTotalsAgree ==
  state # "running" /\ Uncut =>
    /\ progressCur = Len(rows)
    /\ mode = "fuzz" => \A c \in RunClasses : histogram[c] = OfClass(c)

(* "done" is only said of a campaign that completed everything. *)
DoneMeansComplete ==
  status = "done" =>
    \E r \in 1 .. started :
      /\ LastCampaign(r) /\ done[r] = Count
      /\ mode = "e2e" => failed[r] = 0

(* The lines under a build are the last ones of that build, in order. *)
TailIsOfTheLastBuild ==
  \A i \in DOMAIN buildTail :
    /\ buildTail[i][1] = buildTail[1][1]
    /\ \A r \in buildTail[i][1] + 1 .. started : kind[r] # "build"
    /\ buildTail[i][2] = buildTail[1][2] + i - 1

(* What the interface holds and tells is of one run, the last one, and     *)
(* agrees with itself, whatever key came between any two messages.         *)
ResultsAreOfTheLastRun ==
  /\ UiTypeOK
  /\ OneRunAtATime
  /\ RowsAreOfTheLastRun
  /\ TableIsOfTheRows
  /\ IdleTotalsAgree
  /\ DoneMeansComplete
  /\ TailIsOfTheLastBuild

(* A run or a build always gives the interface back: no message of it is   *)
(* lost and nobody waits on a full channel for ever.                       *)
EveryRunReturns == state # "idle" ~> (state = "idle" \/ quit)
=============================================================================
