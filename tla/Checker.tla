------------------------------ MODULE Checker ------------------------------
(***************************************************************************)
(* The checked record of src/c/checker/checker.h: six data words sealed by *)
(* a checksum, and the validation every technique uses as its acceptance   *)
(* test.                                                                   *)
(*                                                                         *)
(* The 32-bit words are the set Word and one round of the checksum         *)
(* (hash ^= word; hash *= 0x01000193; hash = rotl(hash, 5)) is the         *)
(* function Mix.  What matters of the round is stated by MixAssumption:    *)
(* xor, multiplication by an odd constant modulo 2^32 and rotation are all *)
(* bijections of the words, so a round is injective in each argument.      *)
(***************************************************************************)
EXTENDS Naturals

CONSTANTS
  Word,       \* the machine words, 0 .. 2^w - 1
  Basis,      \* the checksum's initial hash, 0x811c9dc5 in the code
  Mix         \* one checksum round, a function of <<hash, word>>

(* Tags 0, 1 and 2 exist, and words are natural numbers. *)
ASSUME WordAssumption == Word \subseteq Nat /\ {0, 1, 2} \subseteq Word

ASSUME MixAssumption ==
  /\ Basis \in Word
  /\ Mix \in [Word \X Word -> Word]
  /\ \A h, k, w \in Word : Mix[h, w] = Mix[k, w] => h = k
  /\ \A h, v, w \in Word : Mix[h, v] = Mix[h, w] => v = w

Fields == {"tag", "value", "min", "max", "length", "capacity", "checksum"}

Record == [Fields -> Word]

Tags == 0 .. 2                           \* IDLE, SAMPLE, COMMAND

CheckStatus ==
  {"OK", "BELOW_MIN", "ABOVE_MAX", "INVALID_LENGTH", "INVALID_CHECKSUM",
   "INCONSISTENT_FIELDS", "INVALID_TAG"}

Passed(status) == status = "OK"

-----------------------------------------------------------------------------
(* checker_record_compute_checksum: the six data words in their order. *)

ChecksumUnreduced(r) ==                  \* last word added, not hashed
  Mix[Mix[Mix[Mix[Mix[Basis, r["tag"]], r["value"]], r["min"]], r["max"]],
      r["length"]] + r["capacity"]

Checksum(r) ==
  Mix[Mix[Mix[Mix[Mix[Mix[Basis, r["tag"]], r["value"]], r["min"]], r["max"]],
          r["length"]], r["capacity"]]

(* checker_record_refresh_checksum and checker_record_init *)

Refresh(r) == [r EXCEPT !["checksum"] = Checksum(r)]

RecordInit(tag, value, min, max, length, capacity) ==
  Refresh([f \in Fields |->
             CASE f = "tag"      -> tag
               [] f = "value"    -> value
               [] f = "min"      -> min
               [] f = "max"      -> max
               [] f = "length"   -> length
               [] f = "capacity" -> capacity
               [] f = "checksum" -> 0])

Sealed(r) == r["checksum"] = Checksum(r)

-----------------------------------------------------------------------------
(* The requirements, each the status of one check. *)

RequireSampleTag(tag) == IF tag \in Tags THEN "OK" ELSE "INVALID_TAG"

RequireRange(value, min, max) ==
  CASE min > max                 -> "INCONSISTENT_FIELDS"
    [] min <= max /\ value < min -> "BELOW_MIN"
    [] min <= max /\ value > max -> "ABOVE_MAX"
    [] OTHER                     -> "OK"

RequireLength(length, capacity) ==
  IF length > capacity THEN "INVALID_LENGTH" ELSE "OK"

RequireChecksum(r) == IF Sealed(r) THEN "OK" ELSE "INVALID_CHECKSUM"

(* checker_record_validate returns the first requirement that fails. *)

ValidateWithoutChecksum(r) ==
  LET range == RequireRange(r["value"], r["min"], r["max"])
  IN  CASE ~Passed(RequireSampleTag(r["tag"])) -> RequireSampleTag(r["tag"])
        [] Passed(RequireSampleTag(r["tag"])) /\ ~Passed(range) -> range
        [] OTHER -> RequireLength(r["length"], r["capacity"])

Validate(r) ==
  LET tag    == RequireSampleTag(r["tag"])
      range  == RequireRange(r["value"], r["min"], r["max"])
      length == RequireLength(r["length"], r["capacity"])
  IN  IF ~Passed(tag) THEN tag
      ELSE IF ~Passed(range) THEN range
      ELSE IF ~Passed(length) THEN length
      ELSE RequireChecksum(r)

Valid(r) == Passed(Validate(r))
=============================================================================
