------------------------------ MODULE E2EEngine ------------------------------
(***************************************************************************)
(* An e2e campaign, internal/e2e/engine.go: start QEMU halted, wait for its*)
(* port, attach gdb, install the two breakpoints, and then continue, read, *)
(* write the fault, continue and read the row, once per iteration; in the  *)
(* end close gdb and terminate QEMU.  A QEMU of an earlier session, with   *)
(* the same image, may hold the port: then gdb attaches to that one,       *)
(* wherever it stands and whatever it counted so far.                      *)
(***************************************************************************)
EXTENDS QemuProcess, GdbClient, E2ERows, FiniteSets

CONSTANTS
  Count,           \* cfg.Iterations
  Choice(_),       \* the fault chosen for an iteration
  Former,          \* bound of the iterations an earlier session went through
  FormerWords      \* what it may have written into the two fault words

(* resolve.go rejects a campaign of no iterations. *)
ASSUME E2EAssumption ==
  /\ Count \in Nat \ {0} /\ StopCapacity \in Nat \ {0}
  /\ Former \in Nat /\ FormerWords \subseteq [target : Nat, value : Nat]

VARIABLES
  leftover,        \* the image of an earlier session, as this one finds it
  listening,       \* the child of this run opened the port
  stage,           \* of Run and runIteration
  waiting,         \* a command of this stage was sent
  chosen,          \* the fault chosen for this iteration
  rows, err, cancelled, unhalted         \* history: gdb was asked about an image that ran

engineVars == <<leftover, listening, stage, waiting, chosen, rows, err,
                cancelled, unhalted>>
vars == <<processVars, gdbVars, engineVars>>

NoImage == Image("none", 0)

(* What an earlier session may leave behind: an image that did not get to  *)
(* its first stop, or one on its way from a stop to the next, with its     *)
(* words as that session left them.  It has counted an iteration when it   *)
(* gets to the stop at its end (the validation of the image).  One that    *)
(* went astray behaves as one that strays as soon as it goes on.           *)
FormerImages ==
  {Image("boot", 0)} \cup
  {old \in [at : {"inject", "observe"}, iteration : 1 .. Former, fault : FormerWords,
            lastTarget : {0} \cup {word.target : word \in FormerWords},
            passes : 0 .. Former, failures : 0 .. Former] :
     /\ old.at = "inject" => /\ old.lastTarget = 0
                             /\ old.passes + old.failures + 1 = old.iteration
     /\ old.at = "observe" => /\ old.fault.target = 0
                              /\ old.passes + old.failures = old.iteration}

PortTaken == leftover # NoImage

Init ==
  /\ NoProcess /\ NoGdb
  /\ leftover \in FormerImages \cup {NoImage} /\ listening = FALSE
  /\ image = IF PortTaken THEN leftover ELSE Image("boot", 0)
  /\ stage = "start" /\ waiting = FALSE /\ chosen = NoFault
  /\ rows = <<>> /\ err = "none" /\ cancelled = FALSE
  /\ unhalted = FALSE

-----------------------------------------------------------------------------
(* The end of Run: the deferred Close and Terminate, innermost first *)

Loop == {"inject", "await inject", "read", "value", "target", "observe",
         "await observe", "row"}

(* An error on the way; in the loop a cancelled context goes before it. *)
End(error, next) ==
  /\ stage' = next /\ waiting' = FALSE
  /\ err' = IF cancelled /\ stage \in Loop THEN "cancelled" ELSE error
  /\ UNCHANGED <<leftover, listening, chosen, rows, cancelled, unhalted>>

Proceed(next) ==
  /\ stage' = next /\ waiting' = FALSE
  /\ UNCHANGED <<leftover, listening, chosen, rows, err, cancelled, unhalted>>

CloseClient ==
  /\ stage = "close" /\ Close /\ Proceed("terminate")
  /\ UNCHANGED processVars

TerminateProcess ==
  /\ stage = "terminate"
  /\ \/ term = "idle" /\ Terminate /\ UNCHANGED <<engineVars, gdbVars>>
     \/ Terminated /\ Proceed("ended") /\ UNCHANGED <<processVars, gdbVars>>

-----------------------------------------------------------------------------
(* Setting up *)

StartQemu ==
  /\ stage = "start"
  /\ \/ Start /\ Proceed("port")
     \/ End("failed", "ended") /\ UNCHANGED processVars
  /\ UNCHANGED gdbVars

PortOpen == listening \/ PortTaken

(* WaitForGdbPort: the exit of the child, a connection, or the deadline. *)
WaitForGdbPort ==
  /\ stage = "port"
  /\ \/ Exited /\ End("failed", "terminate")
     \/ PortOpen /\ Proceed("gdb")
     \/ End("failed", "terminate")
  /\ UNCHANGED <<processVars, gdbVars>>

NewClient ==
  /\ stage = "gdb"
  /\ \/ StartGdb /\ Proceed("setup")
     \/ End("failed", "terminate") /\ UNCHANGED gdbVars
  /\ UNCHANGED processVars

-----------------------------------------------------------------------------
(* Commands: sent, then answered, refused or timed out *)

SendAt(this, operation) ==
  /\ stage = this /\ ~waiting /\ Send(operation) /\ waiting' = TRUE
  /\ UNCHANGED <<leftover, listening, stage, chosen, rows, err, cancelled, unhalted, processVars>>

AnsweredAt(this) == stage = this /\ waiting /\ Answered /\ UNCHANGED processVars

FailedAt(this) ==
  /\ stage = this /\ waiting
  /\ Refused \/ TimedOut
  /\ End("failed", "close")
  /\ UNCHANGED processVars

Simple(this, operation, next) ==
  \/ SendAt(this, operation)
  \/ AnsweredAt(this) /\ Proceed(next)
  \/ FailedAt(this)

(* setup's commands up to the connection, and the two breakpoints. *)
SetUp ==
  \/ Simple("setup", Operation("setup"), "connect")
  \/ Simple("connect", Operation("connect"), "breakpoints")
  \/ Simple("breakpoints", Operation("insert"), "next")

-----------------------------------------------------------------------------
(* The loop *)

NextIterationCheckingLess ==
  /\ stage = "next"
  /\ IF Len(rows) >= Count \/ (cancelled /\ Len(rows) > 0)
     THEN End("none", "close") ELSE Proceed("inject")
  /\ UNCHANGED <<processVars, gdbVars>>

NextIteration ==
  /\ stage = "next"
  /\ IF Len(rows) >= Count THEN End("none", "close") ELSE Proceed("inject")
  /\ UNCHANGED <<processVars, gdbVars>>

(* ContinueUntilBreakpoint: continue, and wait for a stop, the cancelled   *)
(* context or the timer; any that is ready may win, and End tells the last *)
(* two apart.                                                              *)
ContinueUntil(this, wait, stop, next) ==
  \/ /\ stage = this /\ ~waiting /\ Continue /\ waiting' = TRUE
     /\ UNCHANGED <<leftover, listening, stage, chosen, rows, err, cancelled, unhalted, processVars>>
  \/ AnsweredAt(this) /\ Proceed(wait)
  \/ FailedAt(this)
  \/ /\ stage = wait /\ TakeStop
     /\ IF Head(stops) = stop THEN Proceed(next) ELSE End("wrong stop", "close")
     /\ UNCHANGED processVars
  \/ /\ stage = wait /\ End("failed", "close")
     /\ UNCHANGED <<processVars, gdbVars>>

ReadIteration ==
  \/ SendAt("read", Operation("read"))
  \/ /\ AnsweredAt("read")
     /\ chosen' = Choice(image.iteration) /\ stage' = "value" /\ waiting' = FALSE
     /\ UNCHANGED <<leftover, listening, rows, err, cancelled, unhalted>>
  \/ FailedAt("read")

WriteFaultValueUnchecked ==
  \/ SendAt("value", [op |-> "value", value |-> chosen.value])
  \/ /\ stage = "value" /\ waiting /\ (Answered \/ Refused) /\ Proceed("target")
     /\ UNCHANGED processVars
  \/ FailedAt("value")
  \/ Simple("target", [op |-> "target", value |-> chosen.target], "observe")

WriteFault ==
  \/ Simple("value", [op |-> "value", value |-> chosen.value], "target")
  \/ Simple("target", [op |-> "target", value |-> chosen.target], "observe")

ReadRow ==
  \/ SendAt("row", Operation("row"))
  \/ /\ AnsweredAt("row")
     /\ rows' = Append(rows,
          [iteration |-> image.iteration, fault_target |-> image.lastTarget,
           fault_value |-> chosen.value, passes |-> image.passes,
           failures |-> image.failures, remote |-> remote])
     /\ stage' = "next" /\ waiting' = FALSE
     /\ UNCHANGED <<leftover, listening, chosen, err, cancelled, unhalted>>
  \/ FailedAt("row")

(* runIteration *)
Iteration ==
  \/ ContinueUntil("inject", "await inject", "inject", "read")
  \/ ReadIteration
  \/ WriteFault
  \/ ContinueUntil("observe", "await observe", "observe", "row")
  \/ ReadRow

Engine ==
  \/ StartQemu \/ WaitForGdbPort \/ NewClient \/ SetUp \/ NextIteration
  \/ Iteration \/ CloseClient \/ TerminateProcess

(* finalize and Success *)
Failures == IF rows = <<>> THEN 0 ELSE rows[Len(rows)].failures

Success == Len(rows) > 0 /\ Failures = 0

-----------------------------------------------------------------------------
(* Around it *)

UserCancels ==
  /\ stage # "ended" /\ ~cancelled
  /\ cancelled' = TRUE
  /\ UNCHANGED <<leftover, listening, stage, waiting, chosen, rows, err, unhalted,
                 processVars, gdbVars>>

(* The child opens the port it was given, and cannot when it is taken. *)
OpenPort ==
  /\ child = "running" /\ ~PortTaken /\ ~listening /\ listening' = TRUE
  /\ UNCHANGED <<leftover, stage, waiting, chosen, rows, err, cancelled, unhalted, processVars, gdbVars>>

ChildStep ==
  /\ (Die /\ ~Terminated) \/ ProcessStep
  /\ UNCHANGED <<gdbVars, engineVars>>

RemoteUp == remote = "leftover" \/ (remote = "child" /\ child = "running")

Watch == unhalted' = (unhalted \/ (running /\ command.op \notin {"none", "continue"}))

(* gdb carries out its command, on the image when that is still there. *)
GdbStep ==
  /\ gdb = "up" /\ command # Nothing
  /\ \/ OnSymbols
     \/ listening /\ child = "running" /\ Connect("child")
     \/ PortTaken /\ Connect("leftover")
     \/ RemoteUp /\ (Resume \/ Access \/ WriteWord)
     \/ Fail
  /\ Watch
  /\ UNCHANGED <<leftover, listening, stage, waiting, chosen, rows, err,
                 cancelled, processVars>>

ImageStep ==
  /\ RemoteUp /\ gdb = "up"
  /\ ReachInject \/ ReachObserve \/ Stray
  /\ UNCHANGED <<processVars, engineVars>>

Next == Engine \/ UserCancels \/ OpenPort \/ ChildStep \/ GdbStep \/ ImageStep

(* The engine's goroutine runs and its timers run out; the reaper and the  *)
(* waits of Terminate do.  Neither gdb, nor QEMU, nor the image owes it    *)
(* anything, and a killed child dies.                                      *)
Fairness ==
  /\ WF_vars(Engine)
  /\ WF_vars(ProcessStep /\ UNCHANGED <<gdbVars, engineVars>>)
  /\ WF_vars(KilledDies /\ UNCHANGED <<gdbVars, engineVars>>)

Spec == Init /\ [][Next]_vars /\ Fairness

-----------------------------------------------------------------------------
(* Properties *)

Ending == {"close", "terminate", "ended"}

Ended == stage = "ended"

E2ETypeOK ==
  /\ ProcessTypeOK
  /\ gdb \in {"none", "up", "gone", "wedged"}
  /\ reply \in {"none", "ok", "error"}
  /\ Len(stops) <= StopCapacity
  /\ Len(rows) <= Count
  /\ err \in {"none", "failed", "wrong stop", "cancelled"}

(* The result a row is to have: how the image counted the iteration, but   *)
(* that the first row of an image that had failures before this session is *)
(* taken for a failure, whatever came of it: e2e_csv.go counts them to it. *)
ResultOf(i) == IF i = 1 /\ leftover.failures > 0 THEN "fail" ELSE counted[i]

(* A row is one iteration: the rows are consecutive iterations of one      *)
(* process, each with the fault the image applied in that iteration and    *)
(* the counters after it, so that the result derived of it is how the image*)
(* counted it, with the one exception of ResultOf.                         *)
RowsAreTheIterations ==
  \A i \in DOMAIN rows :
    LET row == rows[i]
    IN  /\ row.remote = rows[1].remote
        /\ row.iteration = rows[1].iteration + i - 1
        /\ row.iteration = applied[i].iteration
        /\ row.fault_target = applied[i].fault.target
        /\ row.fault_target # 0 => row.fault_value = applied[i].fault.value
        /\ DerivedRows(rows)[i].result = ResultOf(i)

(* The image never sees half a fault: what it applies is the fault chosen  *)
(* for that iteration, whole, or none at all after a command that was given*)
(* up; only the iteration an earlier session left off in has the words of  *)
(* that session.                                                           *)
FaultsAreWhole ==
  \A i \in DOMAIN applied :
    LET fault == applied[i].fault
        whole == Choice(applied[i].iteration)
    IN  applied[i].iteration > leftover.iteration /\ fault.target # 0 =>
          fault.target = whole.target /\ fault.value = whole.value

(* Every iteration the host made a row of had its fault.                   *)
EveryRowIsFaulted ==
  \A i \in DOMAIN rows : rows[i].fault_target = Choice(rows[i].iteration).target

(* A campaign that is told as a success is one in which every iteration    *)
(* passed, those of an earlier session with the same image included.       *)
SuccessIsEveryPass ==
  Ended /\ err = "none" /\ Success =>
    /\ Len(rows) = Count
    /\ \A i \in 1 .. Count : counted[i] = "pass"
    /\ leftover.failures = 0

(* What the host says of the image is what happened there: row by row, the *)
(* fault by its two words, and all in all.                                 *)
CampaignIsTheImages ==
  /\ RowsAreTheIterations
  /\ FaultsAreWhole
  /\ EveryRowIsFaulted
  /\ SuccessIsEveryPass

(* Memory is only asked for while the image stands, whatever timed out     *)
(* before.                                                                 *)
HaltedWhenAccessed == ~unhalted

(* A stop at another place is reported only when the image did go astray,  *)
(* or was taken over between inject and observe: a stop told before the    *)
(* continue is never taken for the answer to it.                           *)
WrongStopIsTheImages == err = "wrong stop" => strayed \/ leftover.at = "inject"

(* However it ends, the child is gone or has been sent SIGKILL.            *)
NoQemuLeft == Ended /\ child # "none" => GoneOrKilled

(* A session is sound from its start to its end, whatever fails or times   *)
(* out on the way: gdb and QEMU are used in order and neither stays.       *)
SessionIsSound ==
  /\ E2ETypeOK
  /\ HaltedWhenAccessed
  /\ WrongStopIsTheImages
  /\ NoQemuLeft

(* To whoever started it, this is a campaign as Campaign.tla promises it.  *)
C == INSTANCE Campaign WITH
       done <- Len(rows),
       result <- IF stage \notin Ending THEN "running"
                 ELSE IF err \in {"none", "cancelled"} THEN err ELSE "failed"

IsACampaign == C!Spec

(* A campaign ends, whatever gdb, QEMU and the image do or do not do.      *)
E2EEnds == <>Ended
=============================================================================
