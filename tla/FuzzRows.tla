------------------------------ MODULE FuzzRows ------------------------------
(***************************************************************************)
(* The row of a fuzz trial, internal/result/fuzz_csv.go: what the host     *)
(* knows of the trial, then the facts of its record under the names of the *)
(* schema, as the table and the CSV show them.  Operators only.  An empty  *)
(* cell is Empty; a cell only one side can fill is the name of that side.  *)
(***************************************************************************)
EXTENDS Verdict, Columns

FuzzCSVFields ==
  <<"technique", "implementation", "trial_id", "trial_seed", "campaign",
    "campaign_seed", "result_class", "output", "expected", "detected",
    "corrected", "safe_state", "error_code", "harness_done", "injected",
    "fault_mode", "fault_domain", "target_kind", "target_name", "target_addr",
    "inject_pc", "inject_offset", "bit", "before", "after", "process_status",
    "timeout", "instruction_budget_exhausted", "elapsed_ms",
    "instructions_executed", "qemu_plugin_api">>

Curated ==
  <<"trial_id", "result_class", "technique", "implementation", "fault_mode",
    "target_kind", "target_name", "bit", "process_status", "timeout",
    "elapsed_ms">>

CuratedFuzzOrder ==
  Curated \o Kept(FuzzCSVFields, ToSet(FuzzCSVFields) \ ToSet(Curated))

FuzzFactKeyToColumn ==
  [harness_output |-> "output", harness_expected |-> "expected",
   harness_detected |-> "detected", harness_corrected |-> "corrected",
   harness_safe_state |-> "safe_state", harness_error_code |-> "error_code"]

Column(key) ==
  IF key \in DOMAIN FuzzFactKeyToColumn THEN FuzzFactKeyToColumn[key] ELSE key

(* The fixed fields.  The seeds and names are the host's, the rest varies. *)
Identity(trialID, campaign, class, status, timeout) ==
  [technique |-> "host", implementation |-> "host", trial_seed |-> "host",
   campaign_seed |-> "host", elapsed_ms |-> "host",
   trial_id |-> trialID, campaign |-> campaign, result_class |-> class,
   process_status |-> status, timeout |-> IF timeout THEN 1 ELSE 0]

(* The record names the trial, too, its seeds in another notation.         *)
Told(facts) ==
  IF Present(facts, "harness_done")
  THEN Filled([campaign_seed |-> "plugin", trial_seed |-> "plugin"], facts)
  ELSE facts

(* Columns do not collide, so the order of the map does not matter.        *)
FactColumns(facts) ==
  [column \in {Column(key) : key \in DOMAIN facts} |->
     facts[CHOOSE key \in DOMAIN facts : Column(key) = column]]

NoCells == [field \in ToSet(FuzzCSVFields) |-> Empty]

FormatFactsFirst(identity, facts) ==
  Filled(Filled(FactColumns(facts), identity), NoCells)

FormatFuzzResultRow(identity, facts) ==
  Filled(Filled(identity, FactColumns(facts)), NoCells)

FuzzRecord(row, columns) ==
  [i \in DOMAIN columns |->
     IF columns[i] \in DOMAIN row THEN row[columns[i]] ELSE Empty]
=============================================================================
