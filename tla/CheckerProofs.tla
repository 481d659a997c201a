--------------------------- MODULE CheckerProofs ---------------------------
(***************************************************************************)
(* What the checksum and the validation guarantee for every word size,     *)
(* basis and round function that meets MixAssumption.                      *)
(***************************************************************************)
EXTENDS Checker, TLAPS

(* Two records that differ in exactly the word f. *)
DifferOnlyIn(r, s, f) ==
  /\ r[f] # s[f]
  /\ \A g \in Fields \ {f} : r[g] = s[g]

(* The hash of a record's words is a word. *)
LEMMA ChecksumType == ASSUME NEW r \in Record PROVE Checksum(r) \in Word
  BY MixAssumption DEF Checksum, Record, Fields

(* Sealing a record gives a record whose checksum is right. *)
LEMMA RefreshSeals ==
  ASSUME NEW r \in Record
  PROVE  /\ Refresh(r) \in Record
         /\ Sealed(Refresh(r))
         /\ \A f \in Fields \ {"checksum"} : Refresh(r)[f] = r[f]
<1>1. Checksum(r) \in Word
  BY ChecksumType
<1>2. /\ Refresh(r) \in Record
      /\ Refresh(r)["checksum"] = Checksum(r)
      /\ \A f \in Fields \ {"checksum"} : Refresh(r)[f] = r[f]
  BY <1>1 DEF Refresh, Record, Fields
<1>3. Checksum(Refresh(r)) = Checksum(r)
  BY <1>2 DEF Checksum, Fields
<1> QED
  BY <1>2, <1>3 DEF Sealed

(* checker_record_init seals the record it makes. *)
LEMMA InitSeals ==
  ASSUME NEW t \in Word, NEW v \in Word, NEW lo \in Word, NEW hi \in Word,
         NEW n \in Word, NEW c \in Word
  PROVE  /\ RecordInit(t, v, lo, hi, n, c) \in Record
         /\ Sealed(RecordInit(t, v, lo, hi, n, c))
         /\ RecordInit(t, v, lo, hi, n, c)["value"] = v
<1> DEFINE raw == [f \in Fields |->
             CASE f = "tag"      -> t
               [] f = "value"    -> v
               [] f = "min"      -> lo
               [] f = "max"      -> hi
               [] f = "length"   -> n
               [] f = "capacity" -> c
               [] f = "checksum" -> 0]
<1>1. raw \in Record /\ raw["value"] = v
  BY WordAssumption DEF Record, Fields
<1>2. RecordInit(t, v, lo, hi, n, c) = Refresh(raw)
  BY DEF RecordInit
<1> HIDE DEF raw
<1>3. /\ Refresh(raw) \in Record
      /\ Sealed(Refresh(raw))
      /\ Refresh(raw)["value"] = raw["value"]
  BY <1>1, RefreshSeals DEF Fields
<1> QED
  BY <1>1, <1>2, <1>3

(* Changing one word of a sealed record breaks the seal, whichever word it *)
(* is: a later round never merges what an earlier round separated.         *)
THEOREM OneWordBreaksSeal ==
  ASSUME NEW r \in Record, NEW s \in Record, NEW f \in Fields,
         Sealed(r), DifferOnlyIn(r, s, f)
  PROVE  ~Sealed(s)
<1> DEFINE H1(x) == Mix[Basis, x["tag"]]
           H2(x) == Mix[H1(x), x["value"]]
           H3(x) == Mix[H2(x), x["min"]]
           H4(x) == Mix[H3(x), x["max"]]
           H5(x) == Mix[H4(x), x["length"]]
           H6(x) == Mix[H5(x), x["capacity"]]
<1>w. \A g \in Fields : r[g] \in Word /\ s[g] \in Word
  BY DEF Record
<1>d. \A g \in Fields : r[g] = s[g] <=> f # g
  BY DEF DifferOnlyIn
<1>h. Checksum(r) = H6(r) /\ Checksum(s) = H6(s)
  BY DEF Checksum
<1>1. /\ H1(r) \in Word /\ H1(s) \in Word
      /\ H1(r) = H1(s) <=> f \notin {"tag"}
  <2> DEFINE h == Basis  k == Basis
             v == r["tag"]  w == s["tag"]
  <2>1. h \in Word /\ k \in Word /\ v \in Word /\ w \in Word
    BY <1>w, MixAssumption DEF Fields
  <2>2. (v = w <=> f # "tag") /\ (h = k)
    BY <1>d DEF Fields
  <2>3. H1(r) = Mix[h, v] /\ H1(s) = Mix[k, w]
    OBVIOUS
  <2> HIDE DEF h, k, v, w
  <2>4. /\ Mix[h, v] \in Word /\ Mix[k, w] \in Word
        /\ h = k \/ v = w => (Mix[h, v] = Mix[k, w] <=> h = k /\ v = w)
    BY <2>1, MixAssumption
  <2> QED
    BY <2>2, <2>3, <2>4
<1>2. /\ H2(r) \in Word /\ H2(s) \in Word
      /\ H2(r) = H2(s) <=> f \notin {"tag", "value"}
  <2> HIDE DEF H1
  <2> DEFINE h == H1(r)  k == H1(s)
             v == r["value"]  w == s["value"]
  <2>1. h \in Word /\ k \in Word /\ v \in Word /\ w \in Word
    BY <1>1, <1>w DEF Fields
  <2>2. (v = w <=> f # "value") /\ (h = k <=> f \notin {"tag"})
    BY <1>1, <1>d DEF Fields
  <2>3. H2(r) = Mix[h, v] /\ H2(s) = Mix[k, w]
    OBVIOUS
  <2> HIDE DEF h, k, v, w
  <2>4. /\ Mix[h, v] \in Word /\ Mix[k, w] \in Word
        /\ h = k \/ v = w => (Mix[h, v] = Mix[k, w] <=> h = k /\ v = w)
    BY <2>1, MixAssumption
  <2> QED
    BY <2>2, <2>3, <2>4
<1>3. /\ H3(r) \in Word /\ H3(s) \in Word
      /\ H3(r) = H3(s) <=> f \notin {"tag", "value", "min"}
  <2> HIDE DEF H2
  <2> DEFINE h == H2(r)  k == H2(s)
             v == r["min"]  w == s["min"]
  <2>1. h \in Word /\ k \in Word /\ v \in Word /\ w \in Word
    BY <1>2, <1>w DEF Fields
  <2>2. (v = w <=> f # "min") /\ (h = k <=> f \notin {"tag", "value"})
    BY <1>2, <1>d DEF Fields
  <2>3. H3(r) = Mix[h, v] /\ H3(s) = Mix[k, w]
    OBVIOUS
  <2> HIDE DEF h, k, v, w
  <2>4. /\ Mix[h, v] \in Word /\ Mix[k, w] \in Word
        /\ h = k \/ v = w => (Mix[h, v] = Mix[k, w] <=> h = k /\ v = w)
    BY <2>1, MixAssumption
  <2> QED
    BY <2>2, <2>3, <2>4
<1>4. /\ H4(r) \in Word /\ H4(s) \in Word
      /\ H4(r) = H4(s) <=> f \notin {"tag", "value", "min", "max"}
  <2> HIDE DEF H3
  <2> DEFINE h == H3(r)  k == H3(s)
             v == r["max"]  w == s["max"]
  <2>1. h \in Word /\ k \in Word /\ v \in Word /\ w \in Word
    BY <1>3, <1>w DEF Fields
  <2>2. (v = w <=> f # "max") /\ (h = k <=> f \notin {"tag", "value", "min"})
    BY <1>3, <1>d DEF Fields
  <2>3. H4(r) = Mix[h, v] /\ H4(s) = Mix[k, w]
    OBVIOUS
  <2> HIDE DEF h, k, v, w
  <2>4. /\ Mix[h, v] \in Word /\ Mix[k, w] \in Word
        /\ h = k \/ v = w => (Mix[h, v] = Mix[k, w] <=> h = k /\ v = w)
    BY <2>1, MixAssumption
  <2> QED
    BY <2>2, <2>3, <2>4
<1>5. /\ H5(r) \in Word /\ H5(s) \in Word
      /\ H5(r) = H5(s) <=> f \notin {"tag", "value", "min", "max", "length"}
  <2> HIDE DEF H4
  <2> DEFINE h == H4(r)  k == H4(s)
             v == r["length"]  w == s["length"]
  <2>1. h \in Word /\ k \in Word /\ v \in Word /\ w \in Word
    BY <1>4, <1>w DEF Fields
  <2>2. (v = w <=> f # "length") /\ (h = k <=> f \notin {"tag", "value", "min", "max"})
    BY <1>4, <1>d DEF Fields
  <2>3. H5(r) = Mix[h, v] /\ H5(s) = Mix[k, w]
    OBVIOUS
  <2> HIDE DEF h, k, v, w
  <2>4. /\ Mix[h, v] \in Word /\ Mix[k, w] \in Word
        /\ h = k \/ v = w => (Mix[h, v] = Mix[k, w] <=> h = k /\ v = w)
    BY <2>1, MixAssumption
  <2> QED
    BY <2>2, <2>3, <2>4
<1>6. /\ H6(r) \in Word /\ H6(s) \in Word
      /\ H6(r) = H6(s) <=> f \notin {"tag", "value", "min", "max", "length", "capacity"}
  <2> HIDE DEF H5
  <2> DEFINE h == H5(r)  k == H5(s)
             v == r["capacity"]  w == s["capacity"]
  <2>1. h \in Word /\ k \in Word /\ v \in Word /\ w \in Word
    BY <1>5, <1>w DEF Fields
  <2>2. (v = w <=> f # "capacity") /\ (h = k <=> f \notin {"tag", "value", "min", "max", "length"})
    BY <1>5, <1>d DEF Fields
  <2>3. H6(r) = Mix[h, v] /\ H6(s) = Mix[k, w]
    OBVIOUS
  <2> HIDE DEF h, k, v, w
  <2>4. /\ Mix[h, v] \in Word /\ Mix[k, w] \in Word
        /\ h = k \/ v = w => (Mix[h, v] = Mix[k, w] <=> h = k /\ v = w)
    BY <2>1, MixAssumption
  <2> QED
    BY <2>2, <2>3, <2>4
<1> HIDE DEF H6
<1> QED
  BY <1>6, <1>h, <1>d DEF Sealed, Fields

(* Validation accepts exactly the records whose tag, range, length and     *)
(* checksum are all right.                                                 *)
LEMMA ValidMeans ==
  ASSUME NEW r \in Record
  PROVE  Valid(r) <=> /\ r["tag"] \in Tags
                      /\ r["min"] <= r["value"]
                      /\ r["value"] <= r["max"]
                      /\ r["length"] <= r["capacity"]
                      /\ Sealed(r)
<1>1. \A f \in Fields : r[f] \in Nat
  BY WordAssumption DEF Record
<1>2. /\ r["min"] \in Nat /\ r["value"] \in Nat /\ r["max"] \in Nat
      /\ r["length"] \in Nat /\ r["capacity"] \in Nat
  BY <1>1 DEF Fields
<1> QED
  BY <1>2 DEF Valid, Validate, Passed, RequireSampleTag, RequireRange,
              RequireLength, RequireChecksum

(* Corrupting any one word of a sealed record is detected by              *)
(* checker_record_validate, even when the new word passes every other     *)
(* requirement.                                                            *)
THEOREM OneWordDetected ==
  ASSUME NEW r \in Record, NEW s \in Record, NEW f \in Fields,
         Sealed(r), DifferOnlyIn(r, s, f)
  PROVE  ~Valid(s)
  BY OneWordBreaksSeal, ValidMeans
=============================================================================
