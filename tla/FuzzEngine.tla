----------------------------- MODULE FuzzEngine -----------------------------
(***************************************************************************)
(* A fuzz campaign, internal/fuzz/engine.go: set up, measure the fault     *)
(* window when the campaign needs its length, then run the trials one by   *)
(* one, each step by step as in FuzzTrial.tla, and keep a row and a count  *)
(* for each.  Cancelling the context stops it in or between trials.        *)
(***************************************************************************)
EXTENDS FuzzTrial, FuzzRows, FiniteSets

CONSTANTS
  Trials,       \* cfg.Trials
  Offered       \* the campaigns a run may be started with

ASSUME EngineAssumption == Trials \in Nat \ {0} /\ Offered \subseteq FuzzCampaigns

VARIABLES
  campaign,     \* cfg.Campaign
  stage,        \* Run: "setup", "measure", "loop", "trial", "ended"
  trialID,      \* the loop variable
  bound,        \* windowSkipBound
  rows,         \* the rows collected
  counts,       \* summary.Counts
  err,          \* what Run returns
  rowsAtCancel  \* history: how many rows there were when the user cancelled

engineVars == <<campaign, stage, trialID, bound, rows, counts, err, rowsAtCancel>>
vars == <<processVars, trialVars, engineVars>>

Chosen == FuzzCampaign[campaign]

Init ==
  /\ Idle
  /\ campaign \in Offered
  /\ stage = "setup" /\ trialID = 0 /\ bound = 0
  /\ rows = <<>> /\ counts = [class \in Classes |-> 0]
  /\ err = "none" /\ rowsAtCancel = Trials

-----------------------------------------------------------------------------
(* The trial that is running: only a trial of a faulty campaign is faulted.*)

InTrial == stage \in {"measure", "trial"}

Faulty == stage = "trial" /\ campaign # "none"

TrialRuns == InTrial /\ (StartTrial(Faulty) \/ Runner) /\ UNCHANGED engineVars

ChildRuns == InTrial /\ Child /\ UNCHANGED engineVars

ProcessRuns == InTrial /\ Process /\ UNCHANGED engineVars

TimeRunsOut == InTrial /\ DeadlinePasses /\ UNCHANGED engineVars

UserCancels ==
  /\ stage # "ended" /\ Cancel
  /\ rowsAtCancel' = Len(rows)
  /\ UNCHANGED <<campaign, stage, trialID, bound, rows, counts, err>>

outcome == ReturnedOutcome

-----------------------------------------------------------------------------
(* The campaign *)

End(error) == stage' = "ended" /\ err' = error

(* The campaign's name, the symbols of the image, the text range, the      *)
(* temporary directory and the manifest, of which each may fail the run.   *)
SetUp ==
  /\ stage = "setup"
  /\ \/ End("setup")
     \/ UNCHANGED err /\ stage' = IF Chosen.UsesWindowOffset THEN "measure" ELSE "loop"
  /\ UNCHANGED <<processVars, trialVars, campaign, trialID, bound, rows, counts, rowsAtCancel>>

WindowLength(facts) == IntFact(facts, "window_insns_total")

Measure ==
  /\ stage = "measure" /\ TakeResult
  /\ IF Failed(outcome)
     THEN End(outcome.status) /\ UNCHANGED bound
     ELSE /\ bound' = WindowLength(ParseFacts(outcome.stderr))
          /\ stage' = "loop" /\ UNCHANGED err
  /\ UNCHANGED <<campaign, trialID, rows, counts, rowsAtCancel>>

NextTrial ==
  /\ stage = "loop"
  /\ IF trialID = Trials THEN End("none")
     ELSE IF cancelled THEN End("cancelled")
     ELSE UNCHANGED err /\ stage' = "trial"
  /\ UNCHANGED <<processVars, trialVars, campaign, trialID, bound, rows, counts, rowsAtCancel>>

Row(class) == [id |-> trialID, class |-> class]

(* The row handed to the table and the CSV: the host's fields and the facts. *)
ResultRow(class) ==
  FormatFuzzResultRow(
    Identity(trialID, campaign, class, outcome.status, outcome.status = "timeout"),
    Told(ParseFacts(outcome.stderr)))

CollectSkipsFailed ==
  /\ stage = "trial" /\ TakeResult
  /\ trialID' = trialID + 1 /\ stage' = "loop" /\ UNCHANGED err
  /\ LET class == Verdict(outcome, Chosen.RequiresInjection)
     IN  IF Failed(outcome) THEN UNCHANGED <<counts, rows>>
         ELSE /\ counts' = [counts EXCEPT ![class] = @ + 1]
              /\ rows' = Append(rows, Row(class))
  /\ UNCHANGED <<campaign, bound, rowsAtCancel>>

(* runOneTrial and the rest of the loop's body. *)
Collect ==
  /\ stage = "trial" /\ TakeResult
  /\ IF Failed(outcome)
     THEN End(outcome.status) /\ UNCHANGED <<trialID, rows, counts>>
     ELSE LET class == Verdict(outcome, Chosen.RequiresInjection)
          IN  /\ counts' = [counts EXCEPT ![class] = @ + 1]
              /\ rows' = Append(rows, Row(class))
              /\ trialID' = trialID + 1
              /\ stage' = "loop" /\ UNCHANGED err
  /\ UNCHANGED <<campaign, bound, rowsAtCancel>>

Engine == SetUp \/ Measure \/ NextTrial \/ Collect \/ TrialRuns

Next == Engine \/ ChildRuns \/ ProcessRuns \/ TimeRunsOut \/ UserCancels

(* The engine and the goroutines of the process are scheduled, timers fire,*)
(* SIGKILL kills and time passes; neither the image nor the user has to do *)
(* anything.                                                               *)
Fairness ==
  /\ WF_vars(Engine) /\ WF_vars(ProcessRuns) /\ WF_vars(TimeRunsOut)
  /\ WF_vars(InTrial /\ Killed /\ UNCHANGED engineVars)

Spec == Init /\ [][Next]_vars /\ Fairness

-----------------------------------------------------------------------------
(* Properties *)

EngineTypeOK ==
  /\ campaign \in Offered
  /\ stage \in {"setup", "measure", "loop", "trial", "ended"}
  /\ trialID \in 0 .. Trials
  /\ bound \in Nat
  /\ err \in {"none", "setup", "not_started", "cancelled"}
  /\ counts \in [Classes -> 0 .. Trials]

(* The histogram is the histogram of the rows, and the rows are the trials *)
(* from the first on without a gap: also when a trial failed or was        *)
(* cancelled on the way.                                                   *)
SummaryIsOfTheRows ==
  /\ \A i \in DOMAIN rows : rows[i].id = i - 1
  /\ \A class \in Classes :
       counts[class] = Cardinality({i \in DOMAIN rows : rows[i].class = class})

(* Run returns no error exactly when every trial has its row, and "context *)
(* cancelled" only to a user who cancelled.                                *)
NoErrorIffComplete ==
  stage = "ended" =>
    /\ err = "none" <=> Len(rows) = Trials
    /\ err = "cancelled" => cancelled

(* Cancelling works: at most the trial that was already completing adds a  *)
(* row afterwards.                                                         *)
CancelStopsSoon == cancelled => Len(rows) <= rowsAtCancel + 1

(* What the campaign returns is one account, told three times: the rows,   *)
(* the histogram and the error agree.                                      *)
CampaignAgrees ==
  /\ EngineTypeOK
  /\ SummaryIsOfTheRows
  /\ NoErrorIffComplete
  /\ CancelStopsSoon

(* Nothing the verdict rests on is lost or renamed on the way to the table:*)
(* reading the cells of a row back gives the class the row states, and the *)
(* trial it names is the host's, whatever the record says of itself.       *)
RowTellsTheVerdict ==
  LET class        == Verdict(outcome, Chosen.RequiresInjection)
      shown        == FuzzRecord(ResultRow(class), CuratedFuzzOrder)
      Cell(column) == shown[CHOOSE i \in DOMAIN shown : CuratedFuzzOrder[i] = column]
      shownFacts   == {key \in RequiredFacts \cup PluginFacts :
                         Column(key) \in ToSet(CuratedFuzzOrder) /\ Cell(Column(key)) # Empty}
  IN  stage = "trial" /\ Returned /\ ~Failed(outcome) =>
        /\ Len(CuratedFuzzOrder) = Len(FuzzCSVFields)
        /\ ToSet(CuratedFuzzOrder) = ToSet(FuzzCSVFields)
        /\ Cell("trial_id") = trialID
        /\ Cell("trial_seed") = "host" /\ Cell("campaign_seed") = "host"
        /\ Cell("result_class") =
             Classify([facts |-> [key \in shownFacts |-> Cell(Column(key))],
                       status |-> Cell("process_status"), timeout |-> Cell("timeout") = 1,
                       requiresInjection |->
                         FuzzCampaign[Cell("campaign")].RequiresInjection])

(* What the class of a trial says of its image: passed and corrected mean  *)
(* the expected output of a finished image; one that finished silently     *)
(* wrong, with its claims in order, is sdc; a finished image is never      *)
(* called a crash; a completed trial is given an outcome only if the fault *)
(* its campaign wants was injected.                                        *)
ClassIsTheImages(class) ==
  LET finished == record # <<>> /\ Finished(record)
      right    == OutputIsExpected(record)
      faulted  == Chosen.RequiresInjection => Flag(record, "injected")
      inOrder  == /\ WellFormed(record) /\ ~Contradicts(record)
                  /\ ~Flag(record, "instruction_budget_exhausted")
  IN  /\ class \in OutcomeClasses => finished
      /\ class \in {"passed", "corrected"} => right
      /\ class = "crash" => ~finished
      /\ result.status = "completed" /\ class \in OutcomeClasses => faulted
      /\ result.status = "completed" /\ finished /\ inOrder /\ faulted /\ ~right
           /\ ~Flag(record, "harness_detected") => class = "sdc"

(* Wherever the runner stopped reading, the class a trial is about to be   *)
(* given says what the image did, and a completed measurement is the       *)
(* length the plugin counted.                                              *)
VerdictIsSound ==
  /\ stage = "trial" /\ Returned /\ ~Failed(outcome) =>
       ClassIsTheImages(Verdict(outcome, Chosen.RequiresInjection))
  /\ stage = "measure" /\ Returned /\ result.status = "completed" =>
       WindowLength(ParseFacts(result.stderr)) = WindowLength(record)

(* To whoever started it, this is a campaign as Campaign.tla promises it:  *)
(* rows one at a time, no error exactly when complete, cancelled only when *)
(* it was.                                                                 *)
C == INSTANCE Campaign WITH
       Count <- Trials, done <- Len(rows),
       result <- IF stage # "ended" THEN "running"
                 ELSE IF err \in {"none", "cancelled"} THEN err ELSE "failed"

IsACampaign == C!Spec

(* Each of its trials is one as Trial.tla has it, and the campaign is one. *)
RefinesTrialAndCampaign == IsATrial /\ IsACampaign

(* A campaign ends, cancelled or not, and so does each of its trials: the  *)
(* deadline bounds the polling and the timers bound Terminate.             *)
CampaignEnds == <>(stage = "ended")
=============================================================================
