----------------------------- MODULE E2EResults -----------------------------
(***************************************************************************)
(* What the table and the CSV of E2ERows.tla make of the rows that a       *)
(* campaign of E2EEngine.tla returned.  Beside the words the engine's model *)
(* has, a row holds the codes of its technique, which may be any: a fault  *)
(* may hit the word they are read from.                                    *)
(***************************************************************************)
EXTENDS E2EEngine

CONSTANT Codes      \* the codes an image may show, known and unknown

ASSUME ResultsAssumption == Codes \subseteq Nat

(* A row builder of e2e/row.go, with the same code in every coded field.   *)
BuiltRow(technique, code, row) ==
  [field \in Readings[technique] |->
     CASE field = "technique"                         -> technique
       [] field \in DOMAIN row                        -> row[field]
       [] field \in Labelled \ DOMAIN row             -> code
       [] field \in {"implementation", "campaign"}    -> field
       [] OTHER                                       -> row.iteration]

BuiltRows(technique, code) ==
  [i \in DOMAIN rows |-> BuiltRow(technique, code, rows[i])]

(* The codes of the images, harness_abi.h, checker.h and control_flow.h.   *)
Enumeration ==
  [tmr_status      |-> FromZero(<<"ok", "no_majority">>),
   restart_status  |-> FromZero(<<"committed", "restored", "restore_failed">>),
   recovery_status |-> FromZero(<<"primary_accepted", "alternate_accepted",
                                  "unrecoverable", "checkpoint_failed",
                                  "restore_failed">>),
   control_status  |-> FromZero(<<"ok", "invalid_transition", "bad_signature",
                                  "unexpected_terminal">>),
   outcome         |-> FromZero(<<"correct", "recovered", "safe_stop", "sdc">>),
   active_check    |-> FromZero(<<"ok", "below_min", "above_max",
                                  "invalid_length", "invalid_checksum",
                                  "inconsistent_fields", "invalid_tag">>),
   phase           |-> FromZero(<<"start", "read_input", "compute", "validate",
                                  "commit", "done">>)]

-----------------------------------------------------------------------------
(* Properties *)

(* Nothing a row builder reads is lost on the way to the table, except the *)
(* raw status that a technique's own status column repeats; no column comes*)
(* twice and every record fills all of them; and the result column says of *)
(* each iteration what the image counted it as, with the exception of      *)
(* ResultOf.                                                               *)
TableHasEveryReading(technique, code) ==
  LET built   == BuiltRows(technique, code)
      result  == E2ETable(built)
      columns == ToSet(result.columns)
      own     == IF technique \in {"checkpoint", "recovery", "control"}
                 THEN {"status"} ELSE {}
      derived == {"result", "pass_delta", "failure_delta"}
  IN  /\ Readings[technique] \cup derived \subseteq columns \cup own
      /\ Cardinality(columns) = Len(result.columns)
      /\ \A i \in DOMAIN rows :
           LET at == CHOOSE c \in DOMAIN result.columns : result.columns[c] = "result"
           IN  /\ columns \subseteq DOMAIN CleanE2ERows(built)[i]
               /\ Len(result.records[i]) = Len(result.columns)
               /\ result.records[i][at] = ResultOf(i)

(* A label names the code as the image's own enumeration does, and a code  *)
(* no image knows is never given a name.                                   *)
LabelsNameTheCodes(technique, code) ==
  LET clean == CleanE2ERows(BuiltRows(technique, code))
  IN  \A i \in DOMAIN rows :
        \A field \in DOMAIN Enumeration \cap Readings[technique] :
          clean[i][LabelOf[field]] = IF code \in DOMAIN Enumeration[field]
                                     THEN Enumeration[field][code] ELSE Unknown(code)

(* The table of a complete campaign, whatever its technique, is the rows   *)
(* the engine read off the image, each code under the name it has there.   *)
TableIsTheCampaign ==
  Ended /\ err = "none" /\ rows # <<>> =>
    \A technique \in Techniques, code \in Codes :
      TableHasEveryReading(technique, code) /\ LabelsNameTheCodes(technique, code)
=============================================================================
