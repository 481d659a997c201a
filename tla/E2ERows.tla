------------------------------- MODULE E2ERows -------------------------------
(***************************************************************************)
(* The e2e result rows, internal/result/e2e_csv.go and names.go: what the  *)
(* row builders of e2e/row.go read, the columns chosen for a set of rows,  *)
(* the deltas and the result derived from the cumulative counters, and the *)
(* labels of the codes.  A row is a function from its fields to numbers or *)
(* words; a number's decimal text is the number.                           *)
(***************************************************************************)
EXTENDS SequencesExt, Columns

(* The label each coded field gets. *)
LabelOf ==
  [stage            |-> "stage_name",
   fault_target     |-> "fault_name",
   status           |-> "status_name",
   outcome          |-> "outcome_name",
   tmr_status       |-> "tmr_status_name",
   restart_status   |-> "restart_status_name",
   recovery_status  |-> "recovery_status_name",
   control_status   |-> "control_status_name",
   terminal_status  |-> "terminal_status_name",
   phase            |-> "phase_name",
   active_check     |-> "active_check_name",
   checkpoint_check |-> "checkpoint_check_name",
   primary_check    |-> "primary_check_name",
   restore_check    |-> "restore_check_name",
   alternate_check  |-> "alternate_check_name"]

Labelled == DOMAIN LabelOf

BaseFields ==
  <<"technique", "implementation", "campaign", "iteration", "result",
    "pass_delta", "failure_delta", "stage", "stage_name", "fault_target",
    "fault_name", "fault_value">>

CounterFields == <<"passes", "failures">>

TechniqueFields ==
  [tmr        |-> <<"expected", "value", "status", "status_name">>,
   checkpoint |->
     <<"initial_value", "expected", "value", "restart_status",
       "restart_status_name", "active_check", "active_check_name",
       "checkpoint_check", "checkpoint_check_name", "active_value",
       "checkpoint_value">>,
   recovery   |->
     <<"initial_value", "expected", "value", "recovery_status",
       "recovery_status_name", "checkpoint_check", "checkpoint_check_name",
       "primary_check", "primary_check_name", "restore_check",
       "restore_check_name", "alternate_check", "alternate_check_name",
       "active_value", "checkpoint_value">>,
   control    |->
     <<"expected", "value", "control_status", "control_status_name",
       "terminal_status", "terminal_status_name", "phase", "phase_name",
       "signature", "transitions">>,
   combined   |->
     <<"outcome", "outcome_name", "expected", "value", "tmr_status",
       "tmr_status_name", "recovery_status", "recovery_status_name",
       "restart_status", "restart_status_name", "control_status",
       "control_status_name", "active_check", "active_check_name",
       "checkpoint_check", "checkpoint_check_name", "phase", "phase_name",
       "transitions">>,
   baseline   |-> <<"outcome", "outcome_name", "expected", "value">>]

Techniques == DOMAIN TechniqueFields

(* What each row builder puts into its row. *)
CommonReadings ==
  {"technique", "implementation", "campaign", "iteration", "stage",
   "fault_target", "fault_value", "expected", "value", "passes", "failures"}

Readings ==
  [tmr        |-> CommonReadings \cup {"status"},
   checkpoint |-> CommonReadings \cup
     {"initial_value", "status", "restart_status", "active_check",
      "checkpoint_check", "active_value", "checkpoint_value"},
   recovery   |-> CommonReadings \cup
     {"initial_value", "status", "recovery_status", "checkpoint_check",
      "primary_check", "restore_check", "alternate_check", "active_value",
      "checkpoint_value"},
   control    |-> CommonReadings \cup
     {"status", "control_status", "terminal_status", "phase", "signature",
      "transitions"},
   combined   |-> CommonReadings \cup
     {"outcome", "tmr_status", "recovery_status", "restart_status",
      "control_status", "active_check", "checkpoint_check", "phase",
      "transitions"},
   baseline   |-> CommonReadings \cup {"outcome"}]

-----------------------------------------------------------------------------
(* The names of the codes *)

FromZero(names) == [n \in 0 .. Len(names) - 1 |-> names[n + 1]]

StageNames == FromZero(
  <<"boot", "after_init", "before_read", "after_read", "after_checkpoint",
    "after_mutation", "before_commit", "after_commit", "before_recovery",
    "after_primary", "after_alternate", "after_recovery",
    "before_control_flow", "after_control_read", "after_control_compute",
    "after_control_flow", "before_workflow", "after_workflow">>)

FaultNames ==
  [n \in {0, 1, 2} \cup 10 .. 15 \cup 20 .. 23 \cup 30 .. 34 |->
     CASE n < 10  -> <<"none", "copy_a", "all_distinct">>[n + 1]
       [] n \in 10 .. 15 ->
            <<"active_value", "active_length", "active_checksum",
              "checkpoint_value", "checkpoint_checksum",
              "active_value_and_checkpoint_checksum">>[n - 9]
       [] n \in 20 .. 23 ->
            <<"recovery_primary_value", "recovery_primary_checksum",
              "recovery_primary_value_and_alternate_checksum",
              "recovery_primary_value_and_checkpoint_checksum">>[n - 19]
       [] OTHER ->
            <<"control_phase", "control_signature", "control_skip_compute",
              "control_repeat_read", "control_early_terminal">>[n - 29]]

TmrStatusNames      == FromZero(<<"ok", "no_majority">>)
RestartStatusNames  == FromZero(<<"committed", "restored", "restore_failed">>)
RecoveryStatusNames == FromZero(
  <<"primary_accepted", "alternate_accepted", "unrecoverable",
    "checkpoint_failed", "restore_failed">>)
ControlStatusNames  == FromZero(
  <<"ok", "invalid_transition", "bad_signature", "unexpected_terminal">>)
CheckStatusNames    == FromZero(
  <<"ok", "below_min", "above_max", "invalid_length", "invalid_checksum",
    "inconsistent_fields", "invalid_tag">>)
PhaseNames          == FromZero(
  <<"start", "read_input", "compute", "validate", "commit", "done">>)
OutcomeNames        == FromZero(<<"correct", "recovered", "safe_stop", "sdc">>)

(* A code without a name keeps its number in its label. *)
Unknown(code) == "unknown_" \o ToString(code)

Name(names, code) == IF code \in DOMAIN names THEN names[code] ELSE Unknown(code)

CheckFields ==
  {"active_check", "checkpoint_check", "primary_check", "restore_check",
   "alternate_check"}

StatusNames(technique) ==
  CASE technique = "recovery" -> RecoveryStatusNames
    [] technique = "control"  -> ControlStatusNames
    [] OTHER                  -> TmrStatusNames

(* The names a field's codes are labelled with. *)
NamesOf(technique, field) ==
  CASE field = "stage"           -> StageNames
    [] field = "fault_target"    -> FaultNames
    [] field = "status"          -> StatusNames(technique)
    [] field = "outcome"         -> OutcomeNames
    [] field = "tmr_status"      -> TmrStatusNames
    [] field = "restart_status"  -> RestartStatusNames
    [] field = "recovery_status" -> RecoveryStatusNames
    [] field \in {"control_status", "terminal_status"} -> ControlStatusNames
    [] field = "phase"           -> PhaseNames
    [] field \in CheckFields     -> CheckStatusNames

(* addLabel and addStatusLabels: a label for each code the row has. *)
Labels(row) ==
  LET coded == DOMAIN row \cap Labelled
  IN  [label \in {LabelOf[field] : field \in coded} |->
         LET field == CHOOSE f \in coded : LabelOf[f] = label
         IN  Name(NamesOf(row.technique, field), row[field])]

-----------------------------------------------------------------------------
(* cleanE2ERows *)

NoRow == [passes |-> 0, failures |-> 0]

Gain(before, after) == IF after > before THEN after - before ELSE 0

Result(passDelta, failureDelta) ==
  CASE failureDelta > 0                      -> "fail"
    [] failureDelta = 0 /\ passDelta > 0     -> "pass"
    [] failureDelta = 0 /\ passDelta = 0     -> "unknown"

Derived(previous, row) ==
  LET passDelta    == Gain(previous.passes, row.passes)
      failureDelta == Gain(previous.failures, row.failures)
  IN  [pass_delta |-> passDelta, failure_delta |-> failureDelta,
       result |-> Result(passDelta, failureDelta)]

(* The derived columns of every row, each from the row before it. *)
DerivedRows(rows) ==
  [i \in DOMAIN rows |-> Derived(IF i = 1 THEN NoRow ELSE rows[i - 1], rows[i])]

CleanE2ERows(rows) ==
  [i \in DOMAIN rows |-> Filled(Filled(Labels(rows[i]), DerivedRows(rows)[i]), rows[i])]

(* selectedE2EFields: the columns of the first row's technique that any row*)
(* has a value for. *)
SelectedE2EFields(rows) ==
  IF rows = <<>> THEN BaseFields \o CounterFields
  ELSE Kept(BaseFields \o TechniqueFields[rows[1].technique] \o CounterFields,
            UNION {DOMAIN rows[i] : i \in DOMAIN rows})

Empty == ""

ProjectRow(row, fields) ==
  [i \in DOMAIN fields |-> IF fields[i] \in DOMAIN row THEN row[fields[i]] ELSE Empty]

E2ETableOfRaw(rows) ==
  LET fields == SelectedE2EFields(rows)
  IN  [columns |-> fields,
       records |-> [i \in DOMAIN rows |-> ProjectRow(CleanE2ERows(rows)[i], fields)]]

(* E2ETable; WriteE2ECSV writes the same columns and records. *)
E2ETable(rows) ==
  LET clean == CleanE2ERows(rows)
      fields == SelectedE2EFields(clean)
  IN  [columns |-> fields,
       records |-> [i \in DOMAIN clean |-> ProjectRow(clean[i], fields)]]
=============================================================================
