-------------------------- MODULE FuzzEngineProofs --------------------------
(***************************************************************************)
(* Theorems of FuzzEngine, and of the trial runner and the process it is   *)
(* built on, for every set of records, any number of trials and of         *)
(* streamed locations.                                                     *)
(*                                                                         *)
(* The argument: what the child has written is a part of one stream, the   *)
(* buffer is a part of that, and where the runner stands tells which parts *)
(* it has seen; so a result is true of its child when it is reported and   *)
(* stays true until it is taken.                                           *)
(***************************************************************************)
EXTENDS FuzzEngine, FiniteSetTheorems, SequenceTheorems, TLAPS

Chunks ==
  {Location, Sentinel} \cup {Keys(r, RequiredFacts) : r \in Records}
                       \cup {Keys(r, PluginFacts) : r \in Records}

NoRecord == <<>>

(* The i-th chunk of the stream of a child that streams n locations and    *)
(* then the record r.                                                      *)
StreamAt(r, n, i) ==
  CASE i <= n    -> Location
    [] i = n + 1 -> Keys(r, RequiredFacts)
    [] i = n + 2 -> Keys(r, PluginFacts)
    [] OTHER     -> Sentinel

(* The sequence s is a part of that stream, from its beginning. *)
PartOf(s, r, n) ==
  /\ s \in Seq(Chunks)
  /\ Len(s) <= IF r = NoRecord THEN n ELSE n + 3
  /\ \A i \in 1 .. Len(s) : s[i] = StreamAt(r, n, i)

-----------------------------------------------------------------------------
(* The inductive invariant of a trial *)

Reports == {"timeout", "cancelled", "completed", "exit"}

ResultRecord ==
  [status : Reports \cup {"none", "not_started"}, timeout : BOOLEAN,
   stderr : Seq(Chunks), record : Records \cup {NoRecord}]

Written ==
  \E n \in 0 .. MaxLocations :
    /\ PartOf(written, record, n)
    /\ IF record = NoRecord THEN Len(written) = n ELSE Len(written) >= n + 1

(* Only a child that is dead and was read to its end is reaped, and only   *)
(* one that was reaped or killed is given up.                              *)
ProcessSound ==
  /\ reaped => child = "dead" /\ copied = Len(written)
  /\ term = "kill" => signal = "kill"
  /\ Terminated => GoneOrKilled

(* What the runner has seen and done at each of its steps. *)
RunnerSound ==
  /\ pc = "idle" => NoProcess /\ record = NoRecord
  /\ pc \in {"deadline", "ctx", "result", "exit"} =>
       child # "none" /\ signal = "none" /\ term = "idle"
  /\ pc \in {"timeout", "cancelled", "completed", "defer", "closing"} => child # "none"
  /\ pc = "cancelled" => cancelled
  /\ pc = "completed" => HasSentinel(Stderr)
  /\ pc = "returned" /\ child # "none" => GoneOrKilled
  /\ result.status # "none" <=> pc \in {"defer", "closing", "returned"}
  /\ HasSentinel(SubSeq(written, 1, polled))
       => pc = "completed" \/ result.status = "completed"

(* What is reported is of this child, and remains so. *)
ResultSound ==
  /\ result.status \in Reports =>
       /\ \E n \in 0 .. MaxLocations : PartOf(result.stderr, result.record, n)
       /\ result.record \in {NoRecord, record}
  /\ result.status = "not_started" => result = [NoResult EXCEPT !.status = "not_started"]
  /\ result.status = "cancelled" => cancelled
  /\ result.status = "completed" => HasSentinel(result.stderr)
  /\ result.status = "exit" =>
       /\ reaped /\ signal = "none" /\ term = "idle"
       /\ result.stderr = written /\ result.record = record

TrialInv ==
  /\ TrialTypeOK
  /\ result \in ResultRecord
  /\ Written /\ ProcessSound /\ RunnerSound /\ ResultSound

-----------------------------------------------------------------------------
(* The inductive invariant of a campaign *)

(* Where the loop stands tells how many rows there are and how it ends. *)
LoopSound ==
  /\ Len(rows) = trialID
  /\ stage \in {"setup", "measure"} => trialID = 0
  /\ stage = "trial" => trialID < Trials
  /\ stage \notin {"measure", "trial"} => pc = "idle"
  /\ stage # "ended" => err = "none"
  /\ stage = "ended" => (err = "none" <=> trialID = Trials)
  /\ stage = "ended" /\ err = "cancelled" => cancelled

(* No trial starts once the user has cancelled. *)
CancelSeen ==
  cancelled =>
    /\ Len(rows) <= rowsAtCancel + 1
    /\ stage = "trial" => Len(rows) <= rowsAtCancel

CampaignInv ==
  /\ TrialInv
  /\ EngineTypeOK
  /\ rows \in Seq([id : Nat, class : Classes]) /\ rowsAtCancel \in Nat
  /\ SummaryIsOfTheRows
  /\ LoopSound /\ CancelSeen

-----------------------------------------------------------------------------
(* Chunks and parts of a stream *)

LEMMA ChunkDomains ==
  /\ DOMAIN Location = {"injected"} /\ DOMAIN Sentinel = {"end"}
  /\ \A r, names : DOMAIN Keys(r, names) = names
  /\ Sentinel # Location
  /\ \A r : Sentinel # Keys(r, RequiredFacts) /\ Sentinel # Keys(r, PluginFacts)
<1>1. DOMAIN Location = {"injected"} /\ DOMAIN Sentinel = {"end"}
  BY DEF Location, Sentinel
<1>2. \A r, names : DOMAIN Keys(r, names) = names
  BY DEF Keys
<1>3. "harness_done" \in RequiredFacts /\ "injected" \in PluginFacts
  BY DEF RequiredFacts, PluginFacts
<1>4. {"injected"} # {"end"} /\ RequiredFacts # {"end"} /\ PluginFacts # {"end"}
  BY <1>3
<1> QED
  BY <1>1, <1>2, <1>4

(* The records are no NoRecord. *)
LEMMA RecordsAreRecords == NoRecord \notin Records
<1>1. DOMAIN NoRecord = {}
  BY DEF NoRecord
<1>2. "harness_done" \in RequiredFacts \cup PluginFacts
  BY DEF RequiredFacts
<1> QED
  BY <1>1, <1>2, RecordsAssumption

(* What a look at the first k chunks of s sees. *)
LEMMA Prefix ==
  ASSUME NEW s \in Seq(Chunks), NEW k \in 0 .. Len(s)
  PROVE  /\ SubSeq(s, 1, k) \in Seq(Chunks) /\ Len(SubSeq(s, 1, k)) = k
         /\ \A i \in 1 .. k : SubSeq(s, 1, k)[i] = s[i]
         /\ HasSentinel(SubSeq(s, 1, k)) <=> \E i \in 1 .. k : s[i] = Sentinel
         /\ k = Len(s) => SubSeq(s, 1, k) = s
<1>1. Len(s) \in Nat /\ k \in Nat
  BY LenProperties
<1>2. /\ SubSeq(s, 1, k) \in Seq(Chunks) /\ Len(SubSeq(s, 1, k)) = k
      /\ \A i \in 1 .. k : SubSeq(s, 1, k)[i] = s[i]
  <2>1. \A i \in 1 .. k : s[i] \in Chunks
    BY <1>1, ElementOfSeq
  <2>2. /\ SubSeq(s, 1, k) \in Seq(Chunks)
        /\ Len(SubSeq(s, 1, k)) = IF 1 <= k THEN k - 1 + 1 ELSE 0
        /\ \A i \in 1 .. k - 1 + 1 : SubSeq(s, 1, k)[i] = s[1 + i - 1]
    BY <1>1, <2>1, SubSeqProperties
  <2> QED
    BY <1>1, <2>2
<1>3. HasSentinel(SubSeq(s, 1, k)) <=> \E i \in 1 .. k : s[i] = Sentinel
  <2>1. DOMAIN SubSeq(s, 1, k) = 1 .. k
    BY <1>1, <1>2, LenProperties
  <2> QED
    BY <1>2, <2>1 DEF HasSentinel, ToSet
<1>4. k = Len(s) => SubSeq(s, 1, k) = s
  BY <1>1, <1>2, SeqEqual
<1> QED
  BY <1>2, <1>3, <1>4

(* What was written stays what it was. *)
LEMMA Growing ==
  ASSUME NEW s \in Seq(Chunks), NEW c \in Chunks
  PROVE  /\ Append(s, c) \in Seq(Chunks) /\ Len(Append(s, c)) = Len(s) + 1
         /\ Len(s) \in Nat
         /\ Append(s, c)[Len(s) + 1] = c
         /\ \A i \in 1 .. Len(s) : Append(s, c)[i] = s[i]
         /\ \A k \in 0 .. Len(s) : SubSeq(Append(s, c), 1, k) = SubSeq(s, 1, k)
<1>1. /\ Append(s, c) \in Seq(Chunks) /\ Len(Append(s, c)) = Len(s) + 1
      /\ Len(s) \in Nat
      /\ Append(s, c)[Len(s) + 1] = c
      /\ \A i \in 1 .. Len(s) : Append(s, c)[i] = s[i]
  BY AppendProperties, LenProperties
<1>2. ASSUME NEW k \in 0 .. Len(s) PROVE SubSeq(Append(s, c), 1, k) = SubSeq(s, 1, k)
  <2>1. k \in 0 .. Len(Append(s, c)) /\ k \in Nat
    BY <1>1
  <2>2. /\ SubSeq(s, 1, k) \in Seq(Chunks) /\ Len(SubSeq(s, 1, k)) = k
        /\ \A i \in 1 .. k : SubSeq(s, 1, k)[i] = s[i]
    BY Prefix
  <2>3. /\ SubSeq(Append(s, c), 1, k) \in Seq(Chunks) /\ Len(SubSeq(Append(s, c), 1, k)) = k
        /\ \A i \in 1 .. k : SubSeq(Append(s, c), 1, k)[i] = Append(s, c)[i]
    BY <1>1, <2>1, Prefix
  <2>4. \A i \in 1 .. k : SubSeq(Append(s, c), 1, k)[i] = SubSeq(s, 1, k)[i]
    BY <1>1, <2>2, <2>3
  <2> QED
    BY <2>2, <2>3, <2>4, SeqEqual
<1> QED
  BY <1>1, <1>2

LEMMA PartOfPart ==
  ASSUME NEW s \in Seq(Chunks), NEW k \in 0 .. Len(s), NEW r, NEW n \in Nat, PartOf(s, r, n)
  PROVE  PartOf(SubSeq(s, 1, k), r, n)
<1>1. k <= Len(s) /\ Len(s) \in Nat /\ k \in Nat
  BY LenProperties
<1>2. k <= IF r = NoRecord THEN n ELSE n + 3
  BY <1>1 DEF PartOf
<1> QED
  BY <1>1, <1>2, Prefix DEF PartOf

(* The sentinel is the last of the stream: who sees it sees all.  *)
LEMMA SentinelIsTheEnd ==
  ASSUME NEW s, NEW r, NEW n \in Nat, PartOf(s, r, n), HasSentinel(s)
  PROVE  r # NoRecord /\ Len(s) = n + 3
<1>1. PICK l \in Nat : l = Len(s) /\ DOMAIN s = 1 .. l
  BY LenProperties DEF PartOf
<1>2. PICK i \in 1 .. l : s[i] = Sentinel
  BY <1>1 DEF HasSentinel, ToSet
<1>3. s[i] = StreamAt(r, n, i)
  BY <1>1 DEF PartOf
<1>4. ~(i <= n) /\ i # n + 1 /\ i # n + 2
  BY <1>2, <1>3, ChunkDomains DEF StreamAt
<1>5. l <= IF r = NoRecord THEN n ELSE n + 3
  BY <1>1 DEF PartOf
<1>6. l >= n + 3
  BY <1>4
<1>7. r # NoRecord
  BY <1>5, <1>6
<1> QED
  BY <1>1, <1>5, <1>6, <1>7

-----------------------------------------------------------------------------
(* Facts *)

LEMMA LastToldIsTheFact ==
  ASSUME NEW s \in Seq(Chunks), NEW key, NEW i \in 1 .. Len(s), key \in DOMAIN s[i],
         \A later \in i + 1 .. Len(s) : key \notin DOMAIN s[later]
  PROVE  Present(ParseFacts(s), key) /\ ParseFacts(s)[key] = s[i][key]
<1>1. DOMAIN s = 1 .. Len(s) /\ Len(s) \in Nat
  BY LenProperties
<1>2. LastTelling(key, s) = i
  <2> DEFINE Tells(j) == /\ key \in DOMAIN s[j]
                        /\ \A later \in j + 1 .. Len(s) : key \notin DOMAIN s[later]
  <2>1. ASSUME NEW j \in DOMAIN s, Tells(j) PROVE j = i
    BY <1>1, <2>1
  <2>2. Tells(i) /\ i \in DOMAIN s
    BY <1>1
  <2>3. Tells(LastTelling(key, s)) /\ LastTelling(key, s) \in DOMAIN s
    BY <2>2 DEF LastTelling
  <2> QED
    BY <2>1, <2>3
<1>3. key \in UNION {DOMAIN s[j] : j \in DOMAIN s}
  BY <1>1
<1> QED
  BY <1>2, <1>3 DEF ParseFacts, Present

LEMMA FactIsTold ==
  ASSUME NEW s \in Seq(Chunks), NEW key
  PROVE  Present(ParseFacts(s), key) <=> \E i \in 1 .. Len(s) : key \in DOMAIN s[i]
<1>1. DOMAIN s = 1 .. Len(s)
  BY LenProperties
<1> QED
  BY <1>1 DEF ParseFacts, Present

(* What the host reads of the image is there once the record has begun,    *)
(* and is what the record says.                                            *)
LEMMA RequiredAreTheRecords ==
  ASSUME NEW s, NEW r \in Records \cup {NoRecord}, NEW n \in Nat, PartOf(s, r, n),
         NEW key \in RequiredFacts
  PROVE  /\ Present(ParseFacts(s), key) <=> Len(s) >= n + 1
         /\ Len(s) >= n + 1 =>
              /\ r # NoRecord /\ ParseFacts(s)[key] = r[key]
              /\ Keys(r, RequiredFacts) \in ToSet(s)
<1>1. s \in Seq(Chunks) /\ Len(s) \in Nat /\ DOMAIN s = 1 .. Len(s)
  BY LenProperties DEF PartOf
<1>2. key \notin PluginFacts /\ key # "injected" /\ key # "end"
  BY DEF RequiredFacts, PluginFacts
<1>3. ASSUME NEW i \in 1 .. Len(s), key \in DOMAIN s[i] PROVE i = n + 1
  <2>1. s[i] = StreamAt(r, n, i)
    BY DEF PartOf
  <2> QED
    BY <1>2, <1>3, <2>1, ChunkDomains DEF StreamAt
<1>4. ASSUME Len(s) >= n + 1
      PROVE  /\ Present(ParseFacts(s), key) /\ r # NoRecord
             /\ ParseFacts(s)[key] = r[key] /\ Keys(r, RequiredFacts) \in ToSet(s)
  <2>1. n + 1 \in 1 .. Len(s) /\ r # NoRecord
    BY <1>1, <1>4 DEF PartOf
  <2>2. s[n + 1] = Keys(r, RequiredFacts)
    BY <2>1 DEF PartOf, StreamAt
  <2>3. key \in DOMAIN s[n + 1] /\ s[n + 1][key] = r[key]
    BY <2>2 DEF Keys
  <2>4. \A later \in n + 1 + 1 .. Len(s) : key \notin DOMAIN s[later]
    BY <1>1, <1>3
  <2> QED
    BY <1>1, <2>1, <2>2, <2>3, <2>4, LastToldIsTheFact DEF ToSet
<1>5. ASSUME Present(ParseFacts(s), key) PROVE Len(s) >= n + 1
  BY <1>1, <1>3, <1>5, FactIsTold
<1> QED
  BY <1>4, <1>5

(* A record seen with its sentinel is read whole. *)
LEMMA WholeIsTheRecord ==
  ASSUME NEW s, NEW r \in Records \cup {NoRecord}, NEW n \in Nat, PartOf(s, r, n),
         HasSentinel(s), NEW key \in RequiredFacts \cup PluginFacts
  PROVE  Present(ParseFacts(s), key) /\ ParseFacts(s)[key] = r[key]
<1>1. s \in Seq(Chunks) /\ r # NoRecord /\ Len(s) = n + 3
  BY SentinelIsTheEnd DEF PartOf
<1>2. CASE key \in RequiredFacts
  <2>1. Len(s) >= n + 1
    BY <1>1
  <2> QED
    BY <1>2, <2>1, RequiredAreTheRecords
<1>3. CASE key \in PluginFacts
  <2>1. n + 2 \in 1 .. Len(s) /\ n + 3 \in 1 .. Len(s)
    BY <1>1
  <2>2. s[n + 2] = Keys(r, PluginFacts) /\ s[n + 3] = Sentinel
    BY <2>1 DEF PartOf, StreamAt
  <2>3. key \in DOMAIN s[n + 2] /\ s[n + 2][key] = r[key]
    BY <1>3, <2>2 DEF Keys
  <2>4. key \notin DOMAIN s[n + 3]
    BY <1>3, <2>2, ChunkDomains DEF PluginFacts
  <2>5. \A later \in n + 2 + 1 .. Len(s) : later = n + 3
    BY <1>1
  <2> QED
    BY <1>1, <2>1, <2>3, <2>4, <2>5, LastToldIsTheFact
<1> QED
  BY <1>2, <1>3

-----------------------------------------------------------------------------
(* The child and the process keep the invariant of a trial *)

LEMMA WrittenTypes ==
  ASSUME TrialInv
  PROVE  /\ written \in Seq(Chunks) /\ Len(written) \in Nat
         /\ copied \in 0 .. Len(written) /\ copied \in Nat /\ polled \in 0 .. copied
         /\ polled \in 0 .. Len(written)
<1>1. written \in Seq(Chunks) /\ Len(written) \in Nat
  BY LenProperties DEF TrialInv, Written, PartOf
<1> QED
  BY <1>1 DEF TrialInv, TrialTypeOK, ProcessTypeOK

(* A result stays true while its record may still begin: an exit is only   *)
(* reported of a child that writes no more.                                *)
LEMMA ResultStays ==
  ASSUME ResultSound, result' = result, cancelled => cancelled',
         record' = record \/ record = NoRecord,
         result.status = "exit" => UNCHANGED <<reaped, signal, term, written, record>>
  PROVE  ResultSound'
<1>1. ASSUME result.status \in Reports PROVE result.record \in {NoRecord, record'}
  BY <1>1 DEF ResultSound
<1> QED
  BY <1>1 DEF ResultSound

(* One more chunk changes nothing the runner has seen. *)
LEMMA Writing ==
  ASSUME TrialInv, NEW c \in Chunks, Write(c), Written',
         record' = record \/ record = NoRecord, record' \in Records \cup {NoRecord},
         UNCHANGED <<injecting, cancelled, late, pc, polled, result>>
  PROVE  TrialInv'
<1>1. /\ child = "running" /\ written' = Append(written, c)
      /\ UNCHANGED <<child, signal, copied, reaped, term>>
  BY DEF Write
<1>2. /\ Len(written') = Len(written) + 1 /\ Len(written) \in Nat
      /\ SubSeq(written', 1, copied) = SubSeq(written, 1, copied)
      /\ SubSeq(written', 1, polled) = SubSeq(written, 1, polled)
  BY <1>1, WrittenTypes, Growing
<1>3. ~reaped /\ pc # "idle" /\ result.status # "exit"
  BY <1>1 DEF TrialInv, ProcessSound, RunnerSound, NoProcess, ResultSound
<1>4. TrialTypeOK' /\ (result \in ResultRecord)'
  BY <1>1, <1>2 DEF TrialInv, TrialTypeOK, ProcessTypeOK, NoRecord
<1>5. ProcessSound'
  BY <1>1, <1>3 DEF TrialInv, ProcessSound, Terminated, GoneOrKilled
<1>6. RunnerSound'
  BY <1>1, <1>2, <1>3 DEF TrialInv, RunnerSound, Stderr, GoneOrKilled
<1>7. ResultSound'
  BY <1>3, ResultStays DEF TrialInv
<1> QED
  BY <1>4, <1>5, <1>6, <1>7 DEF TrialInv

LEMMA FaultLandsKeeps == ASSUME TrialInv, FaultLands PROVE TrialInv'
<1>1. /\ record = NoRecord /\ Len(written) < MaxLocations /\ Write(Location)
      /\ written' = Append(written, Location)
      /\ UNCHANGED <<injecting, record, cancelled, late, pc, polled, result>>
  BY DEF FaultLands, trialVars, NoRecord, Write
<1>2. Location \in Chunks
  BY DEF Chunks
<1>3. PICK n \in 0 .. MaxLocations : PartOf(written, record, n) /\ Len(written) = n
  BY <1>1 DEF TrialInv, Written
<1>4. PartOf(written', record', n + 1) /\ n + 1 \in 0 .. MaxLocations /\ Len(written') = n + 1
  <2>1. /\ written' \in Seq(Chunks) /\ Len(written') = n + 1 /\ written'[n + 1] = Location
        /\ \A i \in 1 .. n : written'[i] = written[i] /\ written[i] = StreamAt(record, n, i)
    BY <1>1, <1>2, <1>3, Growing, WrittenTypes DEF PartOf
  <2>2. \A i \in 1 .. n + 1 : written'[i] = StreamAt(record', n + 1, i)
    BY <2>1 DEF StreamAt
  <2> QED
    BY <1>1, <1>3, <2>1, <2>2, RecordsAssumption DEF PartOf
<1>5. Written'
  BY <1>1, <1>4 DEF Written
<1> QED
  BY <1>1, <1>2, <1>5, Writing DEF TrialInv, TrialTypeOK, NoRecord

LEMMA BeginRecordKeeps == ASSUME TrialInv, BeginRecord PROVE TrialInv'
<1>1. /\ record = NoRecord /\ record' \in Records /\ record' # NoRecord
      /\ Write(Keys(record', RequiredFacts))
      /\ written' = Append(written, Keys(record', RequiredFacts))
      /\ UNCHANGED <<injecting, cancelled, late, pc, polled, result>>
  BY RecordsAreRecords DEF BeginRecord, NoRecord, Write
<1>2. PICK c \in Chunks : c = Keys(record', RequiredFacts)
  BY <1>1 DEF Chunks
<1>3. PICK n \in 0 .. MaxLocations : PartOf(written, record, n) /\ Len(written) = n
  BY <1>1 DEF TrialInv, Written
<1>4. PartOf(written', record', n) /\ Len(written') = n + 1 /\ n \in Nat
  <2>1. /\ written' \in Seq(Chunks) /\ Len(written') = n + 1 /\ written'[n + 1] = c
        /\ \A i \in 1 .. n : written'[i] = written[i] /\ written[i] = StreamAt(record, n, i)
    BY <1>1, <1>2, <1>3, Growing, WrittenTypes DEF PartOf
  <2>2. \A i \in 1 .. n + 1 : written'[i] = StreamAt(record', n, i)
    BY <1>2, <2>1, RecordsAssumption DEF StreamAt
  <2>3. n + 1 <= n + 3 /\ n \in Nat
    BY RecordsAssumption
  <2> QED
    BY <1>1, <2>1, <2>2, <2>3 DEF PartOf
<1>5. Written'
  BY <1>1, <1>4 DEF Written
<1> QED
  BY <1>1, <1>2, <1>5, Writing

LEMMA EndRecordKeeps == ASSUME TrialInv, EndRecord PROVE TrialInv'
<1>1. /\ record # NoRecord /\ record \in Records /\ ~HasSentinel(written)
      /\ IF PluginPart \in ToSet(written) THEN Write(Sentinel) ELSE Write(PluginPart)
      /\ UNCHANGED <<injecting, record, cancelled, late, pc, polled, result>>
  BY DEF EndRecord, trialVars, NoRecord, TrialInv, TrialTypeOK
<1>2. PICK n \in 0 .. MaxLocations, l \in Nat :
        PartOf(written, record, n) /\ l = Len(written) /\ l >= n + 1 /\ DOMAIN written = 1 .. l
  BY <1>1, WrittenTypes, LenProperties DEF TrialInv, Written
<1>3. n \in Nat /\ l <= n + 3
  BY <1>1, <1>2, RecordsAssumption DEF PartOf
<1>4. l # n + 3
  <2>1. l = n + 3 => written[l] = Sentinel /\ l \in 1 .. l
    BY <1>2, <1>3 DEF PartOf, StreamAt
  <2> QED
    BY <1>1, <1>2, <2>1 DEF HasSentinel, ToSet
<1>5. l = n + 2 <=> PluginPart \in ToSet(written)
  <2>1. ASSUME l = n + 2 PROVE PluginPart \in ToSet(written)
    <3>1. written[l] = PluginPart /\ l \in 1 .. l
      BY <1>2, <1>3, <2>1 DEF PartOf, StreamAt, PluginPart
    <3> QED
      BY <1>2, <3>1 DEF ToSet
  <2>2. ASSUME NEW i \in 1 .. l, written[i] = PluginPart PROVE i = n + 2
    <3>1. written[i] = StreamAt(record, n, i)
      BY <1>2 DEF PartOf
    <3>2. PluginFacts # {"injected"} /\ PluginFacts # RequiredFacts /\ PluginFacts # {"end"}
      BY DEF PluginFacts, RequiredFacts
    <3>3. DOMAIN PluginPart = PluginFacts
      BY ChunkDomains DEF PluginPart
    <3> QED
      BY <2>2, <3>1, <3>2, <3>3, ChunkDomains DEF StreamAt
  <2> QED
    BY <1>2, <1>3, <1>4, <2>1, <2>2 DEF ToSet
<1>6. PICK c \in Chunks : Write(c) /\ c = StreamAt(record, n, l + 1) /\ written' = Append(written, c)
  <2>1. CASE l = n + 2
    BY <1>1, <1>5, <1>3, <2>1 DEF StreamAt, Chunks, Write
  <2>2. CASE l = n + 1
    <3>1. PluginPart \in Chunks /\ Write(PluginPart)
      BY <1>1, <1>3, <1>5, <2>2 DEF Chunks, PluginPart
    <3> QED
      BY <1>3, <2>2, <3>1 DEF StreamAt, PluginPart, Write
  <2> QED
    BY <1>2, <1>3, <1>4, <2>1, <2>2
<1>7. PartOf(written', record', n) /\ Len(written') = l + 1
  <2>1. /\ written' \in Seq(Chunks) /\ Len(written') = l + 1 /\ written'[l + 1] = c
        /\ \A i \in 1 .. l : written'[i] = written[i] /\ written[i] = StreamAt(record, n, i)
    BY <1>2, <1>6, Growing, WrittenTypes DEF PartOf
  <2>2. \A i \in 1 .. l + 1 : written'[i] = StreamAt(record', n, i)
    BY <1>1, <1>6, <2>1
  <2>3. l + 1 <= n + 3
    BY <1>2, <1>3, <1>4
  <2> QED
    BY <1>1, <2>1, <2>2, <2>3 DEF PartOf
<1>8. Written'
  <2>1. Len(written') >= n + 1 /\ n \in 0 .. MaxLocations
    BY <1>2, <1>3, <1>7
  <2> QED
    BY <1>1, <1>7, <2>1 DEF Written
<1> QED
  BY <1>1, <1>6, <1>8, Writing

(* The process: the pipe, the reaper and the timers of Terminate. *)
LEMMA ProcessKeeps ==
  ASSUME TrialInv, ProcessStep \/ Die, UNCHANGED trialVars
  PROVE  TrialInv'
<1>1. /\ UNCHANGED <<injecting, record, cancelled, late, pc, polled, result>>
      /\ written' = written
  BY DEF trialVars, ProcessStep, CopyStderr, Reap, ReapSeen, TermTimeout, KillTimeout, Die
<1>2. Written'
  BY <1>1 DEF TrialInv, Written
<1>3. /\ written \in Seq(Chunks) /\ Len(written) \in Nat
      /\ copied \in 0 .. Len(written) /\ polled \in 0 .. copied
  BY WrittenTypes
<1>4. TrialTypeOK' /\ (result \in ResultRecord)'
  <2>1. ProcessTypeOK' /\ copied <= copied' /\ copied' \in Nat
    <3>1. ProcessTypeOK
      BY DEF TrialInv, TrialTypeOK
    <3>2. CASE CopyStderr
      BY <1>1, <1>3, <3>1, <3>2 DEF ProcessTypeOK, CopyStderr
    <3>3. CASE Reap \/ ReapSeen \/ TermTimeout \/ KillTimeout \/ Die
      <4>1. copied' = copied /\ copied <= copied'
        BY <1>3, <3>3 DEF Reap, ReapSeen, TermTimeout, KillTimeout, Die
      <4>2. /\ child' \in {"none", "running", "dead"} /\ signal' \in {"none", "term", "kill"}
            /\ reaped' \in BOOLEAN /\ term' \in {"idle", "term", "kill", "over"}
        BY <3>1, <3>3 DEF ProcessTypeOK, Reap, ReapSeen, TermTimeout, KillTimeout, Die
      <4> QED
        BY <1>1, <1>3, <4>1, <4>2 DEF ProcessTypeOK
    <3> QED
      BY <3>2, <3>3 DEF ProcessStep
  <2> QED
    BY <1>1, <1>3, <2>1 DEF TrialInv, TrialTypeOK
<1>5. ProcessSound'
  BY <1>1, <1>3
  DEF TrialInv, ProcessSound, Terminated, GoneOrKilled, ProcessStep, CopyStderr, Reap,
      ReapSeen, TermTimeout, KillTimeout, Die
<1>6. RunnerSound'
  <2>1. pc = "idle" => FALSE
    BY <1>3, EmptySeq
    DEF TrialInv, RunnerSound, NoProcess, ProcessStep, CopyStderr, Reap, ReapSeen,
        TermTimeout, KillTimeout, Die
  <2>2. HasSentinel(Stderr) => HasSentinel(Stderr')
    <3>1. copied' \in 0 .. Len(written) /\ copied <= copied' /\ copied' \in Nat
      BY <1>3 DEF ProcessStep, CopyStderr, Reap, ReapSeen, TermTimeout, KillTimeout, Die
    <3>2. HasSentinel(Stderr) <=> \E i \in 1 .. copied : written[i] = Sentinel
      BY <1>3, Prefix DEF Stderr
    <3>3. HasSentinel(SubSeq(written, 1, copied')) <=> \E i \in 1 .. copied' : written[i] = Sentinel
      BY <1>3, <3>1, Prefix
    <3> QED
      BY <1>1, <1>3, <3>1, <3>2, <3>3 DEF Stderr
  <2>3. child # "none" => child' # "none"
    BY DEF ProcessStep, CopyStderr, Reap, ReapSeen, TermTimeout, KillTimeout, Die
  <2>4. pc \in {"deadline", "ctx", "result", "exit"} => signal' = signal /\ term' = term
    BY DEF TrialInv, RunnerSound, ProcessStep, CopyStderr, Reap, ReapSeen, TermTimeout, KillTimeout, Die
  <2>5. GoneOrKilled => GoneOrKilled'
    BY DEF GoneOrKilled, ProcessStep, CopyStderr, Reap, ReapSeen, TermTimeout, KillTimeout, Die
  <2>6. child' # "none" => child # "none"
    BY DEF ProcessStep, CopyStderr, Reap, ReapSeen, TermTimeout, KillTimeout, Die
  <2> QED
    BY <1>1, <2>1, <2>2, <2>3, <2>4, <2>5, <2>6 DEF TrialInv, RunnerSound, HasSentinel
<1>7. ResultSound'
  <2>1. result.status = "exit" => UNCHANGED <<reaped, signal, term>>
    BY DEF TrialInv, ResultSound, ProcessSound, ProcessStep, CopyStderr, Reap, ReapSeen,
           TermTimeout, KillTimeout, Die
  <2> QED
    BY <1>1, <2>1, ResultStays DEF TrialInv
<1> QED
  BY <1>2, <1>4, <1>5, <1>6, <1>7 DEF TrialInv

LEMMA ChildKeeps == ASSUME TrialInv, Child PROVE TrialInv'
  BY FaultLandsKeeps, BeginRecordKeeps, EndRecordKeeps, ProcessKeeps DEF Child, ChildDies

-----------------------------------------------------------------------------
(* The runner keeps the invariant of a trial *)

(* Terminate, called by the runner from a step at which the child runs.    *)
LEMMA Ending ==
  ASSUME TrialInv, NEW next \in {"timeout", "cancelled", "completed", "closing"},
         Terminate, pc' = next, pc \in {"deadline", "ctx", "result", "defer"},
         UNCHANGED <<injecting, record, cancelled, late, result>>,
         polled' \in 0 .. copied,
         next = "cancelled" => cancelled,
         next = "completed" <=> pc = "result",
         next = "completed" => HasSentinel(Stderr),
         next = "closing" <=> pc = "defer",
         next = "closing" => ~Exited,
         HasSentinel(SubSeq(written, 1, polled'))
           => next = "completed" \/ result.status = "completed"
  PROVE  TrialInv'
<1>1. /\ UNCHANGED <<child, written, copied, reaped>>
      /\ IF reaped THEN term' = "over" /\ signal' = signal
                   ELSE term' = "term" /\ signal' = "term"
  BY DEF Terminate, Exited
<1>2. TrialTypeOK' /\ (result \in ResultRecord)'
  BY <1>1 DEF TrialInv, TrialTypeOK, ProcessTypeOK
<1>3. Written' /\ ProcessSound'
  BY <1>1 DEF TrialInv, Written, ProcessSound, Terminated, GoneOrKilled
<1>4. RunnerSound'
  BY <1>1 DEF TrialInv, RunnerSound, Stderr
<1>5. ResultSound'
  <2>1. result.status = "exit" => next = "closing" /\ reaped
    BY DEF TrialInv, RunnerSound, ResultSound
  <2> QED
    BY <1>1, <2>1, ResultStays DEF TrialInv, Exited
<1> QED
  BY <1>2, <1>3, <1>4, <1>5 DEF TrialInv

(* A step of the runner that only looks.                                   *)
LEMMA Looking ==
  ASSUME TrialInv, NEW next \in {"deadline", "ctx", "result", "exit", "returned"}, pc' = next,
         UNCHANGED <<processVars, injecting, record, cancelled, late, result>>,
         polled' \in 0 .. copied,
         next # "returned" => pc \in {"deadline", "ctx", "result", "exit"},
         next = "returned" => pc \in {"defer", "closing"} /\ GoneOrKilled,
         HasSentinel(SubSeq(written, 1, polled')) => result.status = "completed"
  PROVE  TrialInv'
<1>1. UNCHANGED <<child, signal, written, copied, reaped, term>>
  BY DEF processVars
<1>2. TrialTypeOK' /\ (result \in ResultRecord)'
  BY <1>1 DEF TrialInv, TrialTypeOK, ProcessTypeOK
<1>3. Written' /\ ProcessSound'
  BY <1>1 DEF TrialInv, Written, ProcessSound, Terminated, GoneOrKilled
<1>4. RunnerSound'
  BY <1>1 DEF TrialInv, RunnerSound, Stderr, GoneOrKilled
<1>5. ResultSound'
  BY <1>1, ResultStays DEF TrialInv
<1> QED
  BY <1>2, <1>3, <1>4, <1>5 DEF TrialInv

(* The result that is reported is of the child as it is then. *)
LEMMA Reporting ==
  ASSUME TrialInv, NEW status \in Reports, NEW timeout \in BOOLEAN, Report(status, timeout),
         pc' = "defer", UNCHANGED <<processVars, injecting, record, cancelled, late, polled>>,
         status \in {"timeout", "cancelled", "completed"} => pc = status,
         status = "exit" => pc = "exit" /\ Exited
  PROVE  TrialInv'
<1>1. UNCHANGED <<child, signal, written, copied, reaped, term>>
  BY DEF processVars
<1>2. result' = [status |-> status, timeout |-> timeout, stderr |-> Stderr, record |-> record]
  BY DEF Report
<1>3. /\ Stderr \in Seq(Chunks) /\ Len(Stderr) = copied
      /\ copied = Len(written) => Stderr = written
      /\ written \in Seq(Chunks) /\ copied \in 0 .. Len(written)
  BY WrittenTypes, Prefix DEF Stderr
<1>4. status # "none" /\ status # "not_started" /\ record \in Records \cup {NoRecord}
  BY DEF Reports, TrialInv, TrialTypeOK, NoRecord
<1>5. (result \in ResultRecord)'
  BY <1>2, <1>3, <1>4 DEF ResultRecord
<1>6. TrialTypeOK'
  <2>1. result'.status \in Reports
    BY <1>2
  <2> QED
    BY <1>1, <2>1 DEF TrialInv, TrialTypeOK, ProcessTypeOK, Reports
<1>7. Written' /\ ProcessSound'
  BY <1>1 DEF TrialInv, Written, ProcessSound, Terminated, GoneOrKilled
<1>8. pc \in {"timeout", "cancelled", "completed", "exit"} /\ child # "none"
  BY DEF Reports, TrialInv, RunnerSound
<1>9. RunnerSound'
  <2>1. HasSentinel(SubSeq(written, 1, polled)) => status = "completed"
    BY <1>8 DEF TrialInv, RunnerSound, Reports
  <2> QED
    BY <1>1, <1>2, <1>4, <1>8, <2>1 DEF RunnerSound
<1>10. ResultSound'
  <2>1. PICK n \in 0 .. MaxLocations : PartOf(written, record, n)
    BY DEF TrialInv, Written
  <2>2. PartOf(Stderr, record, n)
    BY <1>3, <2>1, PartOfPart, RecordsAssumption DEF Stderr
  <2>3. status = "cancelled" => cancelled
    BY DEF TrialInv, RunnerSound
  <2>4. status = "completed" => HasSentinel(Stderr)
    BY DEF TrialInv, RunnerSound
  <2>5. status = "exit" => reaped /\ signal = "none" /\ term = "idle" /\ Stderr = written
    BY <1>3 DEF TrialInv, RunnerSound, ProcessSound, Exited
  <2> QED
    BY <1>1, <1>2, <1>4, <2>1, <2>2, <2>3, <2>4, <2>5 DEF ResultSound
<1> QED
  BY <1>5, <1>6, <1>7, <1>9, <1>10 DEF TrialInv

LEMMA CheckDeadlineKeeps == ASSUME TrialInv, CheckDeadline PROVE TrialInv'
<1>1. /\ polled \in 0 .. copied /\ result.status = "none" /\ pc = "deadline"
      /\ ~HasSentinel(SubSeq(written, 1, polled))
  BY DEF CheckDeadline, TrialInv, TrialTypeOK, RunnerSound
<1>2. CASE late
  BY <1>1, <1>2, Ending DEF CheckDeadline, EndChild
<1>3. CASE ~late
  BY <1>1, <1>3, Looking DEF CheckDeadline, Look
<1> QED
  BY <1>2, <1>3

LEMMA CheckCancelledKeeps == ASSUME TrialInv, CheckCancelled PROVE TrialInv'
<1>1. /\ polled \in 0 .. copied /\ result.status = "none" /\ pc = "ctx"
      /\ ~HasSentinel(SubSeq(written, 1, polled))
  BY DEF CheckCancelled, TrialInv, TrialTypeOK, RunnerSound
<1>2. CASE cancelled
  BY <1>1, <1>2, Ending DEF CheckCancelled, EndChild
<1>3. CASE ~cancelled
  BY <1>1, <1>3, Looking DEF CheckCancelled, Look
<1> QED
  BY <1>2, <1>3

LEMMA CheckResultKeeps == ASSUME TrialInv, CheckResult PROVE TrialInv'
<1>1. /\ polled' = copied /\ copied \in 0 .. copied /\ pc = "result"
      /\ SubSeq(written, 1, polled') = Stderr
      /\ UNCHANGED <<injecting, record, cancelled, late, result>>
  BY WrittenTypes DEF CheckResult, Stderr
<1>2. CASE HasSentinel(Stderr)
  BY <1>1, <1>2, Ending DEF CheckResult
<1>3. CASE ~HasSentinel(Stderr)
  BY <1>1, <1>3, Looking DEF CheckResult
<1> QED
  BY <1>2, <1>3

LEMMA CheckExitKeeps == ASSUME TrialInv, CheckExit PROVE TrialInv'
<1>1. /\ polled \in 0 .. copied /\ result.status = "none" /\ pc = "exit"
      /\ ~HasSentinel(SubSeq(written, 1, polled))
      /\ UNCHANGED <<processVars, injecting, record, cancelled, late, polled>>
  BY DEF CheckExit, TrialInv, TrialTypeOK, RunnerSound
<1>2. CASE Exited
  BY <1>1, <1>2, Reporting DEF CheckExit, Reports
<1>3. CASE ~Exited
  BY <1>1, <1>3, Looking DEF CheckExit
<1> QED
  BY <1>2, <1>3

LEMMA ReportEndedKeeps == ASSUME TrialInv, ReportEnded PROVE TrialInv'
<1>1. pc \in Reports /\ (pc = "timeout") \in BOOLEAN /\ pc # "exit"
  BY DEF ReportEnded, Reports
<1> QED
  BY <1>1, Reporting DEF ReportEnded

LEMMA DeferredKeeps == ASSUME TrialInv, Deferred PROVE TrialInv'
<1>1. /\ polled \in 0 .. copied /\ pc = "defer"
      /\ HasSentinel(SubSeq(written, 1, polled)) => result.status = "completed"
  BY DEF Deferred, TrialInv, TrialTypeOK, RunnerSound
<1>2. CASE Exited
  BY <1>1, <1>2, Looking DEF Deferred, Look, GoneOrKilled, Exited
<1>3. CASE ~Exited
  BY <1>1, <1>3, Ending DEF Deferred, EndChild
<1> QED
  BY <1>2, <1>3

LEMMA ReturnTrialKeeps == ASSUME TrialInv, ReturnTrial PROVE TrialInv'
<1>1. /\ polled \in 0 .. copied /\ pc = "closing" /\ GoneOrKilled
      /\ HasSentinel(SubSeq(written, 1, polled)) => result.status = "completed"
  BY DEF ReturnTrial, TrialInv, TrialTypeOK, RunnerSound, ProcessSound
<1> QED
  BY <1>1, Looking DEF ReturnTrial, Look

(* Nothing is seen in an empty pipe. *)
LEMMA NothingWritten ==
  /\ <<>> \in Seq(Chunks) /\ Len(<<>>) = 0
  /\ PartOf(<<>>, NoRecord, 0)
  /\ ~HasSentinel(SubSeq(<<>>, 1, 0))
<1>1. <<>> \in Seq(Chunks) /\ Len(<<>>) = 0
  OBVIOUS
<1>2. ~HasSentinel(SubSeq(<<>>, 1, 0))
  <2>1. PICK s \in Seq(Chunks) : s = <<>>
    BY <1>1
  <2>2. 0 \in 0 .. Len(s) /\ 1 .. 0 = {}
    BY <2>1
  <2>3. HasSentinel(SubSeq(s, 1, 0)) <=> \E i \in 1 .. 0 : s[i] = Sentinel
    BY <2>2, Prefix
  <2> QED
    BY <2>1, <2>2, <2>3
<1> QED
  BY <1>1, <1>2 DEF PartOf

LEMMA StartFailsKeeps == ASSUME TrialInv, StartFails PROVE TrialInv'
<1>1. /\ pc = "idle" /\ pc' = "returned" /\ child = "none"
      /\ result' = [NoResult EXCEPT !.status = "not_started"]
      /\ UNCHANGED <<child, signal, written, copied, reaped, term>>
      /\ UNCHANGED <<injecting, record, cancelled, late, polled>>
      /\ polled \in 0 .. copied /\ copied = 0 /\ written = <<>>
  BY DEF StartFails, processVars, TrialInv, TrialTypeOK, RunnerSound, NoProcess
<1>2. /\ result'.status = "not_started" /\ result'.stderr = <<>>
      /\ result'.timeout = FALSE /\ result'.record = NoRecord
      /\ result' = [status |-> "not_started", timeout |-> FALSE, stderr |-> <<>>, record |-> NoRecord]
  BY <1>1 DEF NoResult, NoRecord
<1>3. TrialTypeOK' /\ (result \in ResultRecord)'
  BY <1>1, <1>2, NothingWritten DEF TrialInv, TrialTypeOK, ProcessTypeOK, ResultRecord
<1>4. Written' /\ ProcessSound'
  BY <1>1 DEF TrialInv, Written, ProcessSound, Terminated, GoneOrKilled
<1>5. RunnerSound'
  <2>1. ~HasSentinel(SubSeq(written', 1, polled'))
    BY <1>1, NothingWritten
  <2> QED
    BY <1>1, <1>2, <2>1 DEF RunnerSound
<1>6. ResultSound'
  BY <1>1, <1>2 DEF ResultSound, Reports
<1> QED
  BY <1>3, <1>4, <1>5, <1>6 DEF TrialInv

LEMMA RunnerKeeps == ASSUME TrialInv, Runner PROVE TrialInv'
  BY StartFailsKeeps, CheckDeadlineKeeps, CheckCancelledKeeps, CheckResultKeeps,
     CheckExitKeeps, ReportEndedKeeps, DeferredKeeps, ReturnTrialKeeps DEF Runner

-----------------------------------------------------------------------------
(* The beginning and the end of a trial, time and the user *)

LEMMA StartTrialKeeps ==
  ASSUME TrialInv, NEW fault \in BOOLEAN, StartTrial(fault) PROVE TrialInv'
<1>1. /\ pc = "idle" /\ pc' = "deadline" /\ injecting' = fault /\ record = NoRecord
      /\ child' = "running" /\ signal' = "none" /\ written' = <<>> /\ copied' = 0
      /\ reaped' = FALSE /\ term' = "idle"
      /\ UNCHANGED <<record, cancelled, late, polled, result>>
      /\ polled \in 0 .. copied /\ copied = 0 /\ result.status = "none"
  BY DEF StartTrial, Start, TrialInv, TrialTypeOK, RunnerSound, NoProcess
<1>2. TrialTypeOK' /\ (result \in ResultRecord)'
  <2>1. copied' \in 0 .. Len(written') /\ polled' \in 0 .. copied'
    BY <1>1, NothingWritten
  <2> QED
    BY <1>1, <2>1 DEF TrialInv, TrialTypeOK, ProcessTypeOK
<1>3. Written' /\ ProcessSound'
  BY <1>1, NothingWritten, RecordsAssumption DEF Written, ProcessSound, Terminated
<1>4. RunnerSound'
  <2>1. ~HasSentinel(SubSeq(written', 1, polled'))
    BY <1>1, NothingWritten
  <2> QED
    BY <1>1, <2>1 DEF RunnerSound
<1>5. ResultSound'
  BY <1>1, ResultStays DEF TrialInv
<1> QED
  BY <1>2, <1>3, <1>4, <1>5 DEF TrialInv

(* Before a trial and after it. *)
LEMMA NoTrialRuns ==
  ASSUME pc = "idle", NoProcess, record = NoRecord, polled = 0, result = NoResult,
         injecting = FALSE, late = FALSE, cancelled \in BOOLEAN
  PROVE  TrialInv
<1>1. /\ result.status = "none" /\ result \in ResultRecord
      /\ child = "none" /\ signal = "none" /\ written = <<>> /\ copied = 0
      /\ reaped = FALSE /\ term = "idle"
  BY NothingWritten DEF NoResult, ResultRecord, NoRecord, NoProcess
<1>2. TrialTypeOK
  <2>1. copied \in 0 .. Len(written) /\ polled \in 0 .. copied
    BY <1>1, NothingWritten
  <2> QED
    BY <1>1, <2>1 DEF TrialTypeOK, ProcessTypeOK, NoRecord
<1>3. Written /\ ProcessSound
  BY <1>1, NothingWritten, RecordsAssumption DEF Written, ProcessSound, Terminated
<1>4. RunnerSound
  <2>1. ~HasSentinel(SubSeq(written, 1, polled))
    BY <1>1, NothingWritten
  <2> QED
    BY <1>1, <2>1 DEF RunnerSound
<1>5. ResultSound
  BY <1>1 DEF ResultSound, Reports
<1> QED
  BY <1>1, <1>2, <1>3, <1>4, <1>5 DEF TrialInv

LEMMA TakeResultKeeps == ASSUME TrialInv, TakeResult PROVE TrialInv'
<1>1. /\ (pc = "idle")' /\ NoProcess' /\ (record = NoRecord)' /\ (polled = 0)'
      /\ (result = NoResult)' /\ (injecting = FALSE)' /\ (late = FALSE)'
      /\ (cancelled \in BOOLEAN)'
  BY DEF TakeResult, NoProcess, NoRecord, TrialInv, TrialTypeOK
<1> QED
  BY <1>1, NoTrialRuns, PTL

(* The deadline and the user change nothing else. *)
LEMMA TimeKeeps == ASSUME TrialInv, DeadlinePasses \/ Cancel PROVE TrialInv'
<1>1. /\ UNCHANGED <<child, signal, written, copied, reaped, term>>
      /\ UNCHANGED <<injecting, record, pc, polled, result>>
      /\ cancelled => cancelled'
      /\ late' \in BOOLEAN /\ cancelled' \in BOOLEAN
  BY DEF DeadlinePasses, Cancel, processVars, TrialInv, TrialTypeOK
<1>2. TrialTypeOK' /\ (result \in ResultRecord)'
  BY <1>1 DEF TrialInv, TrialTypeOK, ProcessTypeOK
<1>3. Written' /\ ProcessSound'
  BY <1>1 DEF TrialInv, Written, ProcessSound, Terminated, GoneOrKilled
<1>4. RunnerSound'
  BY <1>1 DEF TrialInv, RunnerSound, Stderr, GoneOrKilled, NoProcess
<1>5. ResultSound'
  BY <1>1, ResultStays DEF TrialInv
<1> QED
  BY <1>2, <1>3, <1>4, <1>5 DEF TrialInv

-----------------------------------------------------------------------------
(* What the invariant of a trial says of its result *)

LEMMA ResultHolds == ASSUME TrialInv PROVE ResultIsTheChilds
<1>1. CompletedIsWhole
  <2> SUFFICES ASSUME result.status = "completed"
               PROVE  /\ record # NoRecord
                      /\ \A name \in DOMAIN record :
                           /\ Present(ParseFacts(result.stderr), name)
                           /\ ParseFacts(result.stderr)[name] = record[name]
    BY DEF CompletedIsWhole, NoRecord
  <2>1. PICK n \in 0 .. MaxLocations : PartOf(result.stderr, result.record, n)
    BY DEF TrialInv, ResultSound, Reports
  <2>2. HasSentinel(result.stderr) /\ n \in Nat
    BY RecordsAssumption DEF TrialInv, ResultSound
  <2>3. result.record # NoRecord /\ result.record = record /\ record \in Records
    BY <2>1, <2>2, SentinelIsTheEnd
    DEF TrialInv, ResultSound, Reports, TrialTypeOK, NoRecord
  <2>4. DOMAIN record = RequiredFacts \cup PluginFacts
    BY <2>3, RecordsAssumption
  <2> QED
    BY <2>1, <2>2, <2>3, <2>4, WholeIsTheRecord
<1>2. ExitIsTheChilds
  BY DEF TrialInv, ResultSound, ExitIsTheChilds
<1>3. LastLookWins
  BY DEF TrialInv, RunnerSound, LastLookWins
<1>4. NoChildLeft
  BY DEF TrialInv, RunnerSound, NoChildLeft, Returned
<1> QED
  BY <1>1, <1>2, <1>3, <1>4 DEF TrialInv, ResultIsTheChilds

(* A part of a stream is one of the cuts of a stream Trial.tla allows. *)
LEMMA PartIsACut ==
  ASSUME NEW r \in Records \cup {NoRecord}, NEW n \in 0 .. MaxLocations, NEW s, PartOf(s, r, n)
  PROVE  s \in UNION {Cut(stream) : stream \in Streams(r)}
<1> DEFINE located == [i \in 1 .. n |-> Location]
           stream  == located \o WrittenRecord(r)
<1>1. n \in Nat
  BY RecordsAssumption
<1>2. located \in Seq(Chunks) /\ Len(located) = n
  BY <1>1 DEF Chunks
<1>3. /\ WrittenRecord(r) \in Seq(Chunks)
      /\ Len(WrittenRecord(r)) = IF r = NoRecord THEN 0 ELSE 3
      /\ r # NoRecord => /\ WrittenRecord(r)[1] = Keys(r, RequiredFacts)
                         /\ WrittenRecord(r)[2] = Keys(r, PluginFacts)
                         /\ WrittenRecord(r)[3] = Sentinel
  <2>1. CASE r = NoRecord
    BY <2>1 DEF WrittenRecord, NoRecord
  <2>2. CASE r # NoRecord
    <3>1. WrittenRecord(r) = <<Keys(r, RequiredFacts), Keys(r, PluginFacts), Sentinel>>
      BY <2>2 DEF WrittenRecord, NoRecord
    <3>2. Keys(r, RequiredFacts) \in Chunks /\ Keys(r, PluginFacts) \in Chunks /\ Sentinel \in Chunks
      BY <2>2 DEF Chunks
    <3> QED
      BY <2>2, <3>1, <3>2
  <2> QED
    BY <2>1, <2>2
<1>4. PICK l \in Nat, w \in Nat : l = Len(s) /\ w = Len(WrittenRecord(r)) /\ s \in Seq(Chunks)
  <2>1. Len(s) \in Nat /\ Len(WrittenRecord(r)) \in Nat /\ s \in Seq(Chunks)
    BY <1>3, LenProperties DEF PartOf
  <2> QED
    BY <2>1
<1>5. PICK a \in Seq(Chunks), b \in Seq(Chunks) : a = located /\ b = WrittenRecord(r)
  BY <1>2, <1>3
<1>6. PICK t \in Seq(Chunks) :
        /\ t = a \o b /\ Len(t) = n + w
        /\ \A i \in 1 .. n + w : t[i] = IF i <= n THEN a[i] ELSE b[i - n]
  <2>1. Len(a) = n /\ Len(b) = w
    BY <1>2, <1>4, <1>5
  <2>2. /\ a \o b \in Seq(Chunks) /\ Len(a \o b) = Len(a) + Len(b)
        /\ \A i \in 1 .. Len(a) + Len(b) :
             (a \o b)[i] = IF i <= Len(a) THEN a[i] ELSE b[i - Len(a)]
    BY ConcatProperties
  <2> QED
    BY <2>1, <2>2
<1>7. t = stream
  BY <1>5, <1>6
<1>8. l <= n + w
  <2>1. l <= IF r = NoRecord THEN n ELSE n + 3
    BY <1>4 DEF PartOf
  <2>2. w = IF r = NoRecord THEN 0 ELSE 3
    BY <1>3, <1>4
  <2> QED
    BY <1>1, <1>4, <2>1, <2>2
<1>9. ASSUME NEW i \in 1 .. l PROVE s[i] = t[i]
  <2>1. s[i] = StreamAt(r, n, i)
    BY <1>4 DEF PartOf
  <2>2. CASE i <= n
    <3>1. i \in 1 .. n + w /\ i \in 1 .. n
      BY <1>1, <1>4, <1>8, <2>2
    <3>2. t[i] = Location
      BY <1>5, <1>6, <2>2, <3>1
    <3> QED
      BY <2>1, <2>2, <3>2 DEF StreamAt
  <2>3. CASE i > n
    <3>1. r # NoRecord /\ w = 3 /\ i \in {n + 1, n + 2, n + 3}
      <4>1. w = IF r = NoRecord THEN 0 ELSE 3
        BY <1>3, <1>4
      <4>2. r # NoRecord
        BY <1>1, <1>8, <2>3, <4>1
      <4> QED
        BY <1>1, <1>8, <2>3, <4>1, <4>2
    <3>2. t[i] = b[i - n]
      BY <1>1, <1>6, <1>8, <2>3
    <3>3. /\ b[1] = Keys(r, RequiredFacts) /\ b[2] = Keys(r, PluginFacts) /\ b[3] = Sentinel
      BY <1>3, <1>5, <3>1
    <3>4. CASE i = n + 1
      BY <1>1, <2>1, <3>2, <3>3, <3>4 DEF StreamAt
    <3>5. CASE i = n + 2
      BY <1>1, <2>1, <3>2, <3>3, <3>5 DEF StreamAt
    <3>6. CASE i = n + 3
      BY <1>1, <2>1, <3>2, <3>3, <3>6 DEF StreamAt
    <3> QED
      BY <3>1, <3>4, <3>5, <3>6
  <2> QED
    BY <1>1, <2>2, <2>3
<1>10. s = SubSeq(t, 1, l)
  <2>1. l \in 0 .. Len(t)
    BY <1>1, <1>6, <1>8
  <2>2. /\ SubSeq(t, 1, l) \in Seq(Chunks) /\ Len(SubSeq(t, 1, l)) = l
        /\ \A i \in 1 .. l : SubSeq(t, 1, l)[i] = t[i]
    BY <2>1, Prefix
  <2> QED
    BY <1>4, <1>9, <2>2, SeqEqual
<1>11. s \in Cut(stream)
  <2>1. l \in 0 .. Len(t)
    BY <1>1, <1>6, <1>8
  <2> QED
    BY <1>10, <1>7, <2>1 DEF Cut
<1>12. stream \in Streams(r)
  BY DEF Streams
<1> QED
  BY <1>11, <1>12

(* What a trial returns is one of the outcomes of Trial.tla. *)
LEMMA OutcomeHolds ==
  ASSUME TrialInv, Returned
  PROVE  /\ ReturnedOutcome \in Outcomes /\ ReturnedOutcome # Pending
         /\ ReturnedOutcome.status = result.status
         /\ ReturnedOutcome.stderr = result.stderr
<1>1. /\ ReturnedOutcome = Outcome(result.status, result.stderr, result.record)
      /\ result.status # "none" /\ result.status \in Reports \cup {"none", "not_started"}
      /\ result.record \in Records \cup {NoRecord}
  BY DEF Returned, ReturnedOutcome, TrialInv, RunnerSound, ResultRecord
<1>2. /\ ReturnedOutcome.status = result.status /\ ReturnedOutcome.stderr = result.stderr
      /\ ReturnedOutcome # Pending
  BY <1>1 DEF Outcome, Pending
<1>3. CASE result.status = "not_started"
  <2>1. ReturnedOutcome = Outcome("not_started", <<>>, <<>>)
    BY <1>1, <1>3 DEF TrialInv, ResultSound, NoResult, Outcome
  <2> QED
    BY <1>2, <2>1 DEF Outcomes
<1>4. CASE result.status \in Reports
  <2>1. PICK n \in 0 .. MaxLocations : PartOf(result.stderr, result.record, n)
    BY <1>4 DEF TrialInv, ResultSound
  <2>2. result.stderr \in UNION {Cut(stream) : stream \in Streams(result.record)}
    BY <1>1, <2>1, PartIsACut
  <2>3. result.status = "exit" =>
          result.record = <<>> \/ Keys(result.record, RequiredFacts) \in ToSet(result.stderr)
    <3> SUFFICES ASSUME result.status = "exit", record # NoRecord
                 PROVE  Keys(record, RequiredFacts) \in ToSet(written)
      BY DEF TrialInv, ResultSound, NoRecord
    <3>1. PICK m \in 0 .. MaxLocations : PartOf(written, record, m) /\ Len(written) >= m + 1
      BY DEF TrialInv, Written
    <3>2. m \in Nat /\ "harness_done" \in RequiredFacts /\ record \in Records \cup {NoRecord}
      BY RecordsAssumption DEF RequiredFacts, TrialInv, TrialTypeOK, NoRecord
    <3> QED
      BY <3>1, <3>2, RequiredAreTheRecords
  <2>4. result.status = "completed" => HasSentinel(result.stderr)
    BY DEF TrialInv, ResultSound
  <2>5. ReturnedOutcome \in Endings(result.record)
    BY <1>1, <1>4, <2>2, <2>3, <2>4 DEF Endings, Reports
  <2> QED
    BY <1>1, <1>2, <2>5 DEF Outcomes, NoRecord
<1> QED
  BY <1>1, <1>3, <1>4

-----------------------------------------------------------------------------
(* The rows and their counts *)

RowRecord == [id : Nat, class : Classes]

(* Where the rows of a class are. *)
OfClassIn(s, class) == {i \in DOMAIN s : s[i].class = class}

(* A row more is one more of its class, and no class has more than all.    *)
LEMMA OneMoreOfItsClass ==
  ASSUME NEW s \in Seq(RowRecord), NEW row \in RowRecord, NEW class
  PROVE  /\ Cardinality(OfClassIn(s, class)) \in 0 .. Len(s)
         /\ Cardinality(OfClassIn(Append(s, row), class))
              = IF row.class = class THEN Cardinality(OfClassIn(s, class)) + 1
                ELSE Cardinality(OfClassIn(s, class))
<1>1. /\ DOMAIN s = 1 .. Len(s) /\ Len(s) \in Nat
      /\ DOMAIN Append(s, row) = 1 .. Len(s) + 1
      /\ Append(s, row)[Len(s) + 1] = row
      /\ \A i \in 1 .. Len(s) : Append(s, row)[i] = s[i]
  BY AppendProperties, LenProperties
<1>2. /\ IsFiniteSet(OfClassIn(s, class))
      /\ Cardinality(OfClassIn(s, class)) \in 0 .. Len(s)
  <2>1. IsFiniteSet(1 .. Len(s)) /\ Cardinality(1 .. Len(s)) = Len(s)
    BY <1>1, FS_Interval
  <2>2. OfClassIn(s, class) \subseteq 1 .. Len(s)
    BY <1>1 DEF OfClassIn
  <2>3. /\ IsFiniteSet(OfClassIn(s, class))
        /\ Cardinality(OfClassIn(s, class)) <= Cardinality(1 .. Len(s))
    BY <2>1, <2>2, FS_Subset
  <2>4. Cardinality(OfClassIn(s, class)) \in Nat
    BY <2>3, FS_CardinalityType
  <2> QED
    BY <1>1, <2>1, <2>3, <2>4
<1>3. Len(s) + 1 \notin OfClassIn(s, class)
  BY <1>1 DEF OfClassIn
<1>4. OfClassIn(Append(s, row), class) =
        IF row.class = class THEN OfClassIn(s, class) \cup {Len(s) + 1} ELSE OfClassIn(s, class)
  BY <1>1 DEF OfClassIn
<1>5. Cardinality(OfClassIn(s, class) \cup {Len(s) + 1}) = Cardinality(OfClassIn(s, class)) + 1
  BY <1>2, <1>3, FS_AddElement
<1> QED
  BY <1>2, <1>4, <1>5

LEMMA VerdictIsAClass == ASSUME NEW ending, NEW injection PROVE Verdict(ending, injection) \in Classes
<1>1. ASSUME NEW facts PROVE OutcomeClass(facts) \in OutcomeClasses
  BY DEF OutcomeClass, OutcomeClasses
<1> QED
  BY <1>1 DEF Verdict, Classify, Classes

-----------------------------------------------------------------------------
(* The campaign keeps its invariant *)

(* A step of a trial, of its child or of time is none of the campaign's.   *)
LEMMA EngineRests ==
  ASSUME CampaignInv, TrialInv', UNCHANGED engineVars, UNCHANGED cancelled,
         InTrial \/ UNCHANGED pc
  PROVE  CampaignInv'
<1>1. UNCHANGED <<campaign, stage, trialID, bound, rows, counts, err, rowsAtCancel>>
  BY DEF engineVars
<1>2. EngineTypeOK' /\ SummaryIsOfTheRows'
  BY <1>1 DEF CampaignInv, EngineTypeOK, SummaryIsOfTheRows
<1>3. LoopSound'
  BY <1>1 DEF CampaignInv, LoopSound, InTrial
<1>4. CancelSeen'
  BY <1>1 DEF CampaignInv, CancelSeen
<1> QED
  BY <1>1, <1>2, <1>3, <1>4 DEF CampaignInv

LEMMA TrialRunsKeeps == ASSUME CampaignInv, TrialRuns PROVE CampaignInv'
<1>1. Faulty \in BOOLEAN /\ UNCHANGED engineVars /\ InTrial /\ TrialInv
  BY DEF Faulty, TrialRuns, CampaignInv
<1>2. TrialInv'
  BY <1>1, StartTrialKeeps, RunnerKeeps DEF TrialRuns
<1>3. cancelled' = cancelled
  BY DEF TrialRuns, StartTrial, Runner, StartFails, CheckDeadline, CheckCancelled,
         CheckResult, CheckExit, ReportEnded, Deferred, ReturnTrial, EndChild, Look
<1> QED
  BY <1>1, <1>2, <1>3, EngineRests

LEMMA SurroundingsKeep ==
  ASSUME CampaignInv, ChildRuns \/ ProcessRuns \/ TimeRunsOut PROVE CampaignInv'
<1>1. UNCHANGED engineVars /\ InTrial /\ TrialInv
  BY DEF ChildRuns, ProcessRuns, TimeRunsOut, CampaignInv
<1>2. TrialInv'
  BY <1>1, ChildKeeps, ProcessKeeps, TimeKeeps DEF ChildRuns, ProcessRuns, TimeRunsOut, Process
<1>3. cancelled' = cancelled
  BY DEF ChildRuns, ProcessRuns, TimeRunsOut, Child, FaultLands, BeginRecord, EndRecord,
         ChildDies, Process, DeadlinePasses, trialVars
<1> QED
  BY <1>1, <1>2, <1>3, EngineRests

LEMMA UserCancelsKeeps == ASSUME CampaignInv, UserCancels PROVE CampaignInv'
<1>1. /\ UNCHANGED <<campaign, stage, trialID, bound, rows, counts, err, pc>>
      /\ rowsAtCancel' = Len(rows) /\ stage # "ended" /\ Cancel
  BY DEF UserCancels, Cancel
<1>2. TrialInv'
  BY <1>1, TimeKeeps DEF CampaignInv
<1>3. EngineTypeOK' /\ SummaryIsOfTheRows' /\ LoopSound'
  BY <1>1 DEF CampaignInv, EngineTypeOK, SummaryIsOfTheRows, LoopSound
<1>4. Len(rows) \in Nat
  BY DEF CampaignInv, LoopSound, EngineTypeOK
<1>5. CancelSeen'
  BY <1>1, <1>4 DEF CancelSeen
<1> QED
  BY <1>1, <1>2, <1>3, <1>4, <1>5 DEF CampaignInv

LEMMA SetUpKeeps == ASSUME CampaignInv, SetUp PROVE CampaignInv'
<1>1. /\ stage = "setup" /\ UNCHANGED <<processVars, trialVars>>
      /\ UNCHANGED <<campaign, trialID, bound, rows, counts, rowsAtCancel>>
      /\ \/ stage' = "ended" /\ err' = "setup"
         \/ err' = err /\ stage' \in {"measure", "loop"}
  BY DEF SetUp, End
<1>2. UNCHANGED <<child, signal, written, copied, reaped, term, injecting, record, cancelled,
                  late, pc, polled, result>>
  BY <1>1 DEF processVars, trialVars
<1>3. TrialInv'
  BY <1>2 DEF CampaignInv, TrialInv, TrialTypeOK, ProcessTypeOK, Written, ProcessSound,
              Terminated, GoneOrKilled, RunnerSound, NoProcess, Stderr, ResultSound
<1>4. EngineTypeOK' /\ SummaryIsOfTheRows'
  BY <1>1 DEF CampaignInv, EngineTypeOK, SummaryIsOfTheRows
<1>5. LoopSound' /\ CancelSeen'
  BY <1>1, <1>2, EngineAssumption DEF CampaignInv, LoopSound, CancelSeen
<1> QED
  BY <1>1, <1>3, <1>4, <1>5 DEF CampaignInv

LEMMA NextTrialKeeps == ASSUME CampaignInv, NextTrial PROVE CampaignInv'
<1>1. /\ stage = "loop" /\ UNCHANGED <<processVars, trialVars>>
      /\ UNCHANGED <<campaign, trialID, bound, rows, counts, rowsAtCancel>>
      /\ \/ trialID = Trials /\ stage' = "ended" /\ err' = "none"
         \/ trialID # Trials /\ cancelled /\ stage' = "ended" /\ err' = "cancelled"
         \/ trialID # Trials /\ ~cancelled /\ stage' = "trial" /\ err' = err
  BY DEF NextTrial, End
<1>2. UNCHANGED <<child, signal, written, copied, reaped, term, injecting, record, cancelled,
                  late, pc, polled, result>>
  BY <1>1 DEF processVars, trialVars
<1>3. TrialInv'
  BY <1>2 DEF CampaignInv, TrialInv, TrialTypeOK, ProcessTypeOK, Written, ProcessSound,
              Terminated, GoneOrKilled, RunnerSound, NoProcess, Stderr, ResultSound
<1>4. EngineTypeOK' /\ SummaryIsOfTheRows'
  BY <1>1 DEF CampaignInv, EngineTypeOK, SummaryIsOfTheRows
<1>5. LoopSound' /\ CancelSeen'
  BY <1>1, <1>2, EngineAssumption DEF CampaignInv, EngineTypeOK, LoopSound, CancelSeen
<1> QED
  BY <1>1, <1>3, <1>4, <1>5 DEF CampaignInv

(* A result that is no row is one of a trial that did not start or of a    *)
(* user who cancelled.                                                     *)
LEMMA FailedOutcome ==
  ASSUME TrialInv, TakeResult, Failed(outcome)
  PROVE  /\ outcome.status \in {"not_started", "cancelled"}
         /\ outcome.status = "cancelled" => cancelled
<1>1. Returned
  BY DEF TakeResult, Returned
<1> QED
  BY <1>1, OutcomeHolds DEF Failed, outcome, TrialInv, ResultSound

LEMMA MeasureKeeps == ASSUME CampaignInv, Measure PROVE CampaignInv'
<1>1. /\ stage = "measure" /\ TakeResult /\ pc' = "idle" /\ cancelled' = cancelled
      /\ UNCHANGED <<campaign, trialID, rows, counts, rowsAtCancel>>
  BY DEF Measure, TakeResult
<1>2. TrialInv'
  BY <1>1, TakeResultKeeps DEF CampaignInv
<1>3. bound' \in Nat
  BY DEF Measure, WindowLength, IntFact, CampaignInv, EngineTypeOK
<1>4. \/ /\ stage' = "ended" /\ err' \in {"not_started", "cancelled"}
         /\ err' = "cancelled" => cancelled
      \/ stage' = "loop" /\ err' = err
  BY <1>1, FailedOutcome DEF Measure, End, CampaignInv
<1>5. EngineTypeOK' /\ SummaryIsOfTheRows'
  BY <1>1, <1>3, <1>4 DEF CampaignInv, EngineTypeOK, SummaryIsOfTheRows
<1>6. LoopSound' /\ CancelSeen'
  BY <1>1, <1>4, EngineAssumption DEF CampaignInv, LoopSound, CancelSeen
<1> QED
  BY <1>1, <1>2, <1>5, <1>6 DEF CampaignInv

LEMMA CollectKeeps == ASSUME CampaignInv, Collect PROVE CampaignInv'
<1>1. /\ stage = "trial" /\ TakeResult /\ pc' = "idle" /\ cancelled' = cancelled
      /\ UNCHANGED <<campaign, bound, rowsAtCancel>>
      /\ trialID \in Nat /\ trialID < Trials /\ Len(rows) = trialID
      /\ rows \in Seq(RowRecord)
  BY EngineAssumption DEF Collect, TakeResult, CampaignInv, LoopSound, EngineTypeOK, RowRecord
<1>2. TrialInv'
  BY <1>1, TakeResultKeeps DEF CampaignInv
<1>3. CASE Failed(outcome)
  <2>1. /\ stage' = "ended" /\ err' \in {"not_started", "cancelled"}
        /\ err' = "cancelled" => cancelled
        /\ UNCHANGED <<trialID, rows, counts>>
    BY <1>1, <1>3, FailedOutcome DEF Collect, End, CampaignInv
  <2>2. EngineTypeOK' /\ SummaryIsOfTheRows'
    BY <1>1, <2>1 DEF CampaignInv, EngineTypeOK, SummaryIsOfTheRows
  <2>3. LoopSound' /\ CancelSeen'
    BY <1>1, <2>1 DEF CampaignInv, LoopSound, CancelSeen
  <2> QED
    BY <1>1, <1>2, <2>1, <2>2, <2>3 DEF CampaignInv
<1>4. CASE ~Failed(outcome)
  <2>1. PICK class \in Classes :
          /\ counts' = [counts EXCEPT ![class] = @ + 1]
          /\ rows' = Append(rows, Row(class))
          /\ trialID' = trialID + 1 /\ stage' = "loop" /\ err' = err
    BY <1>4, VerdictIsAClass DEF Collect
  <2>2. PICK row \in RowRecord : row = Row(class)
    BY <1>1, <2>1 DEF RowRecord, Row
  <2>3. /\ rows' \in Seq(RowRecord) /\ Len(rows') = trialID + 1
        /\ DOMAIN rows = 1 .. trialID /\ DOMAIN rows' = 1 .. trialID + 1
        /\ rows'[trialID + 1] = row /\ \A i \in 1 .. trialID : rows'[i] = rows[i]
    BY <1>1, <2>1, <2>2, AppendProperties, LenProperties
  <2>4. SummaryIsOfTheRows'
    <3>1. \A i \in DOMAIN rows' : rows'[i].id = i - 1
      <4>1. row.id = trialID
        BY <2>2 DEF Row
      <4>2. \A i \in 1 .. trialID : rows[i].id = i - 1
        BY <2>3 DEF CampaignInv, SummaryIsOfTheRows
      <4>3. \A i \in 1 .. trialID + 1 : i \in 1 .. trialID \/ i = trialID + 1
        BY <1>1
      <4> QED
        BY <1>1, <2>3, <4>1, <4>2, <4>3
    <3>2. ASSUME NEW x \in Classes
          PROVE  counts'[x] = Cardinality(OfClassIn(rows', x))
      <4>1. counts[x] = Cardinality(OfClassIn(rows, x))
        BY DEF CampaignInv, SummaryIsOfTheRows, OfClassIn
      <4>2. row.class = class
        BY <2>2 DEF Row
      <4>3. counts'[x] = IF x = class THEN counts[x] + 1 ELSE counts[x]
        BY <2>1 DEF CampaignInv, EngineTypeOK
      <4> QED
        BY <1>1, <2>1, <2>2, <4>1, <4>2, <4>3, OneMoreOfItsClass
    <3> QED
      BY <3>1, <3>2 DEF SummaryIsOfTheRows, OfClassIn
  <2>5. EngineTypeOK'
    <3>1. ASSUME NEW x \in Classes PROVE counts[x] \in 0 .. trialID
      <4>1. counts[x] = Cardinality(OfClassIn(rows, x))
        BY DEF CampaignInv, SummaryIsOfTheRows, OfClassIn
      <4> QED
        BY <1>1, <2>2, <4>1, OneMoreOfItsClass
    <3>2. counts' \in [Classes -> 0 .. Trials]
      <4>1. counts \in [Classes -> 0 .. Trials] /\ counts[class] + 1 \in 0 .. Trials
        BY <1>1, <2>1, <3>1, EngineAssumption DEF CampaignInv, EngineTypeOK
      <4> QED
        BY <2>1, <4>1
    <3>3. trialID' \in 0 .. Trials
      BY <1>1, <2>1, EngineAssumption
    <3> QED
      BY <1>1, <2>1, <3>2, <3>3 DEF CampaignInv, EngineTypeOK
  <2>6. LoopSound'
    BY <1>1, <2>1, <2>3 DEF CampaignInv, LoopSound
  <2>7. CancelSeen'
    <3> SUFFICES ASSUME cancelled
                 PROVE  Len(rows') <= rowsAtCancel + 1
      BY <1>1, <2>1 DEF CancelSeen
    <3>1. Len(rows) <= rowsAtCancel /\ rowsAtCancel \in Nat
      BY <1>1 DEF CampaignInv, CancelSeen
    <3> QED
      BY <1>1, <2>3, <3>1
  <2> QED
    BY <1>1, <1>2, <2>3, <2>4, <2>5, <2>6, <2>7 DEF CampaignInv, RowRecord
<1> QED
  BY <1>3, <1>4

LEMMA InitCampaign == Init => CampaignInv
<1> SUFFICES ASSUME Init PROVE CampaignInv
  OBVIOUS
<1>1. TrialInv
  BY NoTrialRuns DEF Init, Idle, NoRecord
<1>2. Trials \in Nat \ {0} /\ pc = "idle" /\ cancelled = FALSE
  BY EngineAssumption DEF Init, Idle
<1>3. EngineTypeOK
  BY <1>2 DEF Init, EngineTypeOK
<1>4. SummaryIsOfTheRows
  <2>1. ASSUME NEW class \in Classes PROVE Cardinality({i \in DOMAIN rows : rows[i].class = class}) = 0
    <3>1. {i \in DOMAIN rows : rows[i].class = class} = {}
      BY DEF Init
    <3> QED
      BY <3>1, FS_EmptySet
  <2> QED
    BY <2>1 DEF Init, SummaryIsOfTheRows
<1>5. LoopSound /\ CancelSeen
  BY <1>2 DEF Init, LoopSound, CancelSeen
<1> QED
  BY <1>1, <1>2, <1>3, <1>4, <1>5 DEF CampaignInv, Init

LEMMA NextKeepsCampaign == CampaignInv /\ [Next]_vars => CampaignInv'
<1> SUFFICES ASSUME CampaignInv, [Next]_vars PROVE CampaignInv'
  OBVIOUS
<1>1. CASE UNCHANGED vars
  <2>1. UNCHANGED <<child, signal, written, copied, reaped, term, injecting, record, cancelled,
                    late, pc, polled, result>> /\ UNCHANGED engineVars
    BY <1>1 DEF vars, processVars, trialVars
  <2>2. TrialInv'
    BY <2>1 DEF CampaignInv, TrialInv, TrialTypeOK, ProcessTypeOK, Written, ProcessSound,
                Terminated, GoneOrKilled, RunnerSound, NoProcess, Stderr, ResultSound
  <2> QED
    BY <2>1, <2>2, EngineRests
<1> QED
  BY <1>1, SetUpKeeps, MeasureKeeps, NextTrialKeeps, CollectKeeps, TrialRunsKeeps,
     SurroundingsKeep, UserCancelsKeeps DEF Next, Engine

-----------------------------------------------------------------------------
(* Verdicts *)

(* Two accounts give the classifier the same number for a key they share.  *)
LEMMA SameNumber ==
  ASSUME NEW facts, NEW r \in Records, NEW key \in RequiredFacts \cup PluginFacts,
         Present(facts, key), facts[key] = r[key]
  PROVE  IntFact(facts, key) = IntFact(r, key) /\ Flag(facts, key) = Flag(r, key)
<1>1. Present(r, key)
  BY RecordsAssumption DEF Present
<1> QED
  BY <1>1 DEF IntFact, Flag

(* What a result tells of its image, wherever the runner stopped reading.  *)
LEMMA FactsAreTheRecords ==
  ASSUME TrialInv, result.status \in Reports, NEW facts, facts = ParseFacts(result.stderr)
  PROVE  /\ Present(facts, "harness_done") =>
              /\ record \in Records /\ record # NoRecord
              /\ \A key \in RequiredFacts :
                   Present(facts, key) /\ facts[key] = record[key]
         /\ result.status = "exit" /\ record # NoRecord => Present(facts, "harness_done")
         /\ result.status = "completed" =>
              /\ record \in Records /\ record # NoRecord
              /\ \A key \in RequiredFacts \cup PluginFacts :
                   Present(facts, key) /\ facts[key] = record[key]
<1>1. PICK n \in 0 .. MaxLocations : PartOf(result.stderr, result.record, n)
  BY DEF TrialInv, ResultSound
<1>2. /\ n \in Nat /\ result.record \in Records \cup {NoRecord}
      /\ result.record \in {NoRecord, record} /\ record \in Records \cup {NoRecord}
      /\ "harness_done" \in RequiredFacts
  BY RecordsAssumption
  DEF TrialInv, ResultSound, ResultRecord, TrialTypeOK, NoRecord, RequiredFacts
<1>3. ASSUME Present(facts, "harness_done")
      PROVE  /\ record \in Records /\ record # NoRecord
             /\ \A key \in RequiredFacts : Present(facts, key) /\ facts[key] = record[key]
  <2>1. Len(result.stderr) >= n + 1
    BY <1>1, <1>2, <1>3, RequiredAreTheRecords
  <2>2. /\ result.record # NoRecord
        /\ \A key \in RequiredFacts :
             Present(facts, key) /\ facts[key] = result.record[key]
    BY <1>1, <1>2, <2>1, RequiredAreTheRecords
  <2> QED
    BY <1>2, <2>2
<1>4. ASSUME result.status = "exit", record # NoRecord
      PROVE  Present(facts, "harness_done")
  <2>1. PICK m \in 0 .. MaxLocations : PartOf(written, record, m) /\ Len(written) >= m + 1
    BY <1>4 DEF TrialInv, Written
  <2>2. m \in Nat /\ result.stderr = written
    BY <1>4, RecordsAssumption DEF TrialInv, ResultSound
  <2> QED
    BY <1>2, <2>1, <2>2, RequiredAreTheRecords
<1>5. ASSUME result.status = "completed"
      PROVE  /\ record \in Records /\ record # NoRecord
             /\ \A key \in RequiredFacts \cup PluginFacts :
                  Present(facts, key) /\ facts[key] = record[key]
  <2>1. HasSentinel(result.stderr)
    BY <1>5 DEF TrialInv, ResultSound
  <2>2. result.record # NoRecord
    BY <1>1, <1>2, <2>1, SentinelIsTheEnd
  <2> QED
    BY <1>1, <1>2, <2>1, <2>2, WholeIsTheRecord
<1> QED
  BY <1>3, <1>4, <1>5

(* The classes of the classifier, one by one. *)
LEMMA ClassesMean ==
  ASSUME NEW trial, NEW facts, facts = trial.facts
  PROVE  /\ Classify(trial) \in OutcomeClasses =>
              /\ Finished(facts) /\ WellFormed(facts)
              /\ trial.requiresInjection => Flag(facts, "injected")
         /\ Classify(trial) \in {"passed", "corrected"} => OutputIsExpected(facts)
         /\ Classify(trial) = "crash" => trial.status = "exit" /\ ~Finished(facts)
         /\ (/\ ~trial.timeout /\ trial.status # "exit"
             /\ ~Flag(facts, "instruction_budget_exhausted")
             /\ WellFormed(facts) /\ Finished(facts) /\ ~Contradicts(facts)
             /\ trial.requiresInjection => Flag(facts, "injected")
             /\ ~Flag(facts, "harness_detected") /\ ~OutputIsExpected(facts))
            => Classify(trial) = "sdc"
<1>1. OutcomeClass(facts) \in OutcomeClasses
  BY DEF OutcomeClass, OutcomeClasses
<1>2. /\ "hang" \notin OutcomeClasses /\ "crash" \notin OutcomeClasses
      /\ "invalid_trial" \notin OutcomeClasses
  BY DEF OutcomeClasses
<1>3. OutcomeClass(facts) \in {"passed", "corrected"} => OutputIsExpected(facts)
  BY DEF OutcomeClass
<1>4. ~Flag(facts, "harness_detected") /\ ~OutputIsExpected(facts) => OutcomeClass(facts) = "sdc"
  BY DEF OutcomeClass
<1>5. Classify(trial) \in OutcomeClasses =>
        /\ Classify(trial) = OutcomeClass(facts) /\ WellFormed(facts) /\ Finished(facts)
        /\ trial.requiresInjection => Flag(facts, "injected")
  BY <1>2 DEF Classify
<1>6. Classify(trial) \in {"passed", "corrected"} => OutputIsExpected(facts)
  <2>1. {"passed", "corrected"} \subseteq OutcomeClasses
    BY DEF OutcomeClasses
  <2> QED
    BY <1>3, <1>5, <2>1
<1>7. Classify(trial) = "crash" => trial.status = "exit" /\ ~Finished(facts)
  <2>1. OutcomeClass(facts) # "crash"
    BY <1>1, <1>2
  <2> QED
    BY <2>1 DEF Classify
<1>8. ASSUME ~trial.timeout, trial.status # "exit",
             ~Flag(facts, "instruction_budget_exhausted"),
             WellFormed(facts), Finished(facts), ~Contradicts(facts),
             trial.requiresInjection => Flag(facts, "injected"),
             ~Flag(facts, "harness_detected"), ~OutputIsExpected(facts)
      PROVE  Classify(trial) = "sdc"
  BY <1>4, <1>8 DEF Classify
<1>9. Classify(trial) \in OutcomeClasses =>
        /\ Finished(facts) /\ WellFormed(facts)
        /\ trial.requiresInjection => Flag(facts, "injected")
  BY <1>5
<1> QED
  BY <1>6, <1>7, <1>8, <1>9

LEMMA VerdictHolds ==
  ASSUME TrialInv, Returned, ~Failed(outcome), NEW class,
         class = Verdict(outcome, Chosen.RequiresInjection)
  PROVE  ClassIsTheImages(class)
<1>1. PICK facts, injection, trial :
        /\ facts = ParseFacts(result.stderr) /\ injection = Chosen.RequiresInjection
        /\ trial = [facts |-> facts, status |-> result.status,
                    timeout |-> result.status = "timeout", requiresInjection |-> injection]
  OBVIOUS
<1>2. class = Classify(trial)
  BY <1>1, OutcomeHolds DEF Verdict, outcome
<1>3. result.status \in Reports
  BY OutcomeHolds
  DEF Failed, outcome, TrialInv, RunnerSound, Returned, ResultRecord
<1>4. trial.facts = facts /\ trial.status = result.status
      /\ trial.timeout = (result.status = "timeout") /\ trial.requiresInjection = injection
  BY <1>1
<1>5. "harness_done" \in RequiredFacts
  BY DEF RequiredFacts
<1>6. ASSUME Present(facts, "harness_done")
      PROVE  /\ record \in Records /\ record # NoRecord
             /\ Finished(facts) <=> Finished(record)
             /\ OutputIsExpected(facts) <=> OutputIsExpected(record)
  <2>1. /\ record \in Records /\ record # NoRecord
        /\ \A key \in RequiredFacts : Present(facts, key) /\ facts[key] = record[key]
    BY <1>1, <1>3, <1>6, FactsAreTheRecords
  <2>2. \A key \in RequiredFacts : IntFact(facts, key) = IntFact(record, key)
    BY <2>1, SameNumber
  <2>3. "harness_output" \in RequiredFacts /\ "harness_expected" \in RequiredFacts
    BY DEF RequiredFacts
  <2> QED
    BY <1>5, <2>1, <2>2, <2>3 DEF Finished, OutputIsExpected
<1>7. ASSUME class \in OutcomeClasses PROVE Present(facts, "harness_done") /\ Finished(facts)
  BY <1>2, <1>4, <1>5, <1>7, ClassesMean DEF WellFormed
<1>8. class \in OutcomeClasses => record # NoRecord /\ Finished(record)
  BY <1>6, <1>7
<1>9. class \in {"passed", "corrected"} => OutputIsExpected(record)
  <2>1. {"passed", "corrected"} \subseteq OutcomeClasses
    BY DEF OutcomeClasses
  <2> QED
    BY <1>2, <1>4, <1>6, <1>7, <2>1, ClassesMean
<1>10. class = "crash" => ~(record # NoRecord /\ Finished(record))
  <2> SUFFICES ASSUME class = "crash", record # NoRecord PROVE ~Finished(record)
    OBVIOUS
  <2>1. result.status = "exit" /\ ~Finished(facts)
    BY <1>2, <1>4, ClassesMean
  <2>2. Present(facts, "harness_done")
    BY <1>1, <1>3, <2>1, FactsAreTheRecords
  <2> QED
    BY <1>6, <2>1, <2>2
<1>11. ASSUME result.status = "completed"
       PROVE  /\ class \in OutcomeClasses => (injection => Flag(record, "injected"))
              /\ record # NoRecord /\ Finished(record)
                   /\ WellFormed(record) /\ ~Contradicts(record)
                   /\ ~Flag(record, "instruction_budget_exhausted")
                   /\ (injection => Flag(record, "injected"))
                   /\ ~OutputIsExpected(record) /\ ~Flag(record, "harness_detected")
                 => class = "sdc"
  <2>1. /\ record \in Records
        /\ \A key \in RequiredFacts \cup PluginFacts :
             Present(facts, key) /\ facts[key] = record[key]
    BY <1>1, <1>3, <1>11, FactsAreTheRecords
  <2>2. \A key \in RequiredFacts \cup PluginFacts :
          IntFact(facts, key) = IntFact(record, key) /\ Flag(facts, key) = Flag(record, key)
    BY <2>1, SameNumber
  <2>3. /\ {"harness_done", "harness_detected", "harness_corrected", "harness_safe_state",
            "harness_output", "harness_expected"} \subseteq RequiredFacts
        /\ {"injected", "instruction_budget_exhausted"} \subseteq PluginFacts
    BY DEF RequiredFacts, PluginFacts
  <2>4. /\ Finished(facts) <=> Finished(record)
        /\ OutputIsExpected(facts) <=> OutputIsExpected(record)
        /\ Contradicts(facts) <=> Contradicts(record)
        /\ Flag(facts, "injected") = Flag(record, "injected")
        /\ Flag(facts, "harness_detected") = Flag(record, "harness_detected")
        /\ Flag(facts, "instruction_budget_exhausted")
             = Flag(record, "instruction_budget_exhausted")
    BY <2>2, <2>3 DEF Finished, OutputIsExpected, Contradicts
  <2>5. WellFormed(record) => WellFormed(facts)
    BY <2>1 DEF WellFormed
  <2>6. class \in OutcomeClasses => (injection => Flag(record, "injected"))
    BY <1>2, <1>4, <2>4, ClassesMean
  <2> QED
    BY <1>2, <1>4, <1>11, <2>4, <2>5, <2>6, ClassesMean
<1> QED
  BY <1>1, <1>8, <1>9, <1>10, <1>11 DEF ClassIsTheImages, NoRecord

LEMMA MeasuredHolds ==
  ASSUME TrialInv, result.status = "completed"
  PROVE  WindowLength(ParseFacts(result.stderr)) = WindowLength(record)
<1>1. "completed" \in Reports /\ "window_insns_total" \in RequiredFacts \cup PluginFacts
  BY DEF Reports, PluginFacts
<1>2. /\ record \in Records
      /\ Present(ParseFacts(result.stderr), "window_insns_total")
      /\ ParseFacts(result.stderr)["window_insns_total"] = record["window_insns_total"]
  BY <1>1, FactsAreTheRecords
<1> QED
  BY <1>1, <1>2, SameNumber DEF WindowLength

-----------------------------------------------------------------------------
(* Theorems *)

(* Where the runner and the campaign stand tells what they have seen of    *)
(* the child and how many rows there are.                                  *)
THEOREM CampaignInvariant == Spec => []CampaignInv
  BY InitCampaign, NextKeepsCampaign, PTL DEF Spec

(* In any interleaving of the child, the pipe, the reaper, the timers, the *)
(* deadline and the user, what RunQemuTrial returns is true of its child:  *)
(* a completed trial has its whole record, an exit is the child's own, no  *)
(* record seen is lost to the deadline, and no child is left behind.       *)
THEOREM TrialsAreTrue == Spec => []ResultIsTheChilds
<1>1. CampaignInv => ResultIsTheChilds
  BY ResultHolds DEF CampaignInv
<1> QED
  BY <1>1, CampaignInvariant, PTL

(* The rows, the histogram and the error of a campaign are one account,    *)
(* however many trials it has and whenever the user cancels, and after     *)
(* that at most one more row is added.                                     *)
THEOREM AccountsAgree == Spec => []CampaignAgrees
<1>1. CampaignInv => CampaignAgrees
  BY DEF CampaignInv, CampaignAgrees, NoErrorIffComplete, CancelStopsSoon, LoopSound, CancelSeen
<1> QED
  BY <1>1, CampaignInvariant, PTL

(* The class a trial is given says what its image did, whatever records a  *)
(* plugin may find and wherever the runner stopped reading.                *)
THEOREM VerdictsAreTrue == Spec => []VerdictIsSound
<1>1. CampaignInv => VerdictIsSound
  BY VerdictHolds, MeasuredHolds DEF CampaignInv, VerdictIsSound
<1> QED
  BY <1>1, CampaignInvariant, PTL

(* A trial is one step to the campaign, with an outcome Trial.tla allows.  *)
LEMMA ReturnedIsAllowed ==
  TrialInv /\ Returned =>
    /\ ReturnedOutcome \in Outcomes /\ ReturnedOutcome # Pending
    /\ ReturnedOutcome.status = result.status
  BY OutcomeHolds

LEMMA StepsOfATrial ==
  CampaignInv /\ [Next]_vars => [Abstract!Next]_<<ReturnedOutcome, cancelled>>
<1> SUFFICES ASSUME CampaignInv, [Next]_vars
             PROVE  Abstract!Next \/ UNCHANGED <<ReturnedOutcome, cancelled>>
  OBVIOUS
<1>1. TrialInv /\ TrialInv'
  BY NextKeepsCampaign DEF CampaignInv
<1>2. TrialInv /\ Returned => ReturnedOutcome \in Outcomes /\ ReturnedOutcome # Pending
                              /\ ReturnedOutcome.status = result.status
  BY ReturnedIsAllowed
<1>3. (TrialInv /\ Returned =>
         /\ ReturnedOutcome \in Outcomes /\ ReturnedOutcome # Pending
         /\ ReturnedOutcome.status = result.status)'
  BY ReturnedIsAllowed, PTL
<1>4. CASE UserCancels
  <2>1. Cancel /\ pc' = pc /\ result' = result
    BY <1>4 DEF UserCancels, Cancel
  <2>2. ReturnedOutcome' = ReturnedOutcome
    BY <2>1 DEF ReturnedOutcome, Returned
  <2> QED
    BY <2>1, <2>2 DEF Cancel, Abstract!Next, Abstract!Cancel
<1>5. CASE Measure \/ Collect
  <2>1. pc = "returned" /\ pc' = "idle" /\ cancelled' = cancelled
    BY <1>5 DEF Measure, Collect, TakeResult
  <2>2. ReturnedOutcome # Pending /\ ReturnedOutcome' = Pending
    BY <1>1, <1>2, <2>1 DEF Returned, ReturnedOutcome
  <2> QED
    BY <2>1, <2>2 DEF Abstract!Next, Abstract!Take
<1>6. CASE \/ TrialRuns \/ ChildRuns \/ ProcessRuns \/ TimeRunsOut \/ SetUp \/ NextTrial
           \/ UNCHANGED vars
  <2>1. /\ cancelled' = cancelled
        /\ pc = "returned" => pc' = "returned" /\ result' = result
    <3>1. CASE TrialRuns
      BY <3>1
      DEF TrialRuns, StartTrial, Runner, StartFails, CheckDeadline, CheckCancelled,
          CheckResult, CheckExit, ReportEnded, Deferred, ReturnTrial, EndChild, Look
    <3>2. CASE ChildRuns
      BY <3>2 DEF ChildRuns, Child, FaultLands, BeginRecord, EndRecord, ChildDies, trialVars
    <3>3. CASE ProcessRuns \/ TimeRunsOut \/ SetUp \/ NextTrial \/ UNCHANGED vars
      BY <3>3 DEF ProcessRuns, Process, TimeRunsOut, DeadlinePasses, SetUp, NextTrial,
                  trialVars, vars
    <3> QED
      BY <1>6, <3>1, <3>2, <3>3
  <2>2. CASE pc = "returned"
    BY <2>1, <2>2 DEF ReturnedOutcome, Returned
  <2>3. CASE pc # "returned" /\ pc' # "returned"
    BY <2>1, <2>3 DEF ReturnedOutcome, Returned
  <2>4. CASE pc # "returned" /\ pc' = "returned"
    <3>1. ReturnedOutcome = Pending
      BY <2>4 DEF ReturnedOutcome, Returned
    <3>2. ReturnedOutcome' \in Outcomes /\ ReturnedOutcome'.status = result'.status
      BY <1>1, <1>3, <2>4 DEF Returned
    <3>3. result'.status = "cancelled" => cancelled
      BY <1>1, <2>1 DEF TrialInv, ResultSound
    <3> QED
      BY <2>1, <3>1, <3>2, <3>3 DEF Abstract!Next, Abstract!Finish
  <2> QED
    BY <2>2, <2>3, <2>4
<1> QED
  BY <1>4, <1>5, <1>6 DEF Next, Engine

(* The campaign takes the steps of Campaign.tla. *)
ReturnedResult ==
  IF stage # "ended" THEN "running" ELSE IF err \in {"none", "cancelled"} THEN err ELSE "failed"

LEMMA StepsOfACampaign ==
  CampaignInv /\ [Next]_vars => [C!Next]_<<Len(rows), cancelled, ReturnedResult>>
<1> SUFFICES ASSUME CampaignInv, [Next]_vars
             PROVE  C!Next \/ UNCHANGED <<Len(rows), cancelled, ReturnedResult>>
  OBVIOUS
<1>1. /\ CampaignInv' /\ trialID \in 0 .. Trials /\ trialID = Len(rows) /\ TrialInv
      /\ Len(rows') = trialID'
  BY NextKeepsCampaign DEF CampaignInv, LoopSound, EngineTypeOK
<1>2. CASE UserCancels
  <2>1. Cancel /\ rows' = rows /\ ReturnedResult' = ReturnedResult
    BY <1>2 DEF UserCancels, ReturnedResult
  <2> QED
    BY <2>1 DEF Cancel, C!Next, C!Cancel, ReturnedResult
<1>3. ASSUME stage # "ended", stage' = "ended", UNCHANGED <<rows, cancelled>>
      PROVE  C!Next
  <2>1. ReturnedResult = "running"
    BY <1>3 DEF ReturnedResult
  <2>2. err' \in {"none", "setup", "not_started", "cancelled"}
    BY <1>1 DEF CampaignInv, EngineTypeOK
  <2>3. err' = "none" <=> Len(rows) = Trials
    BY <1>1, <1>3 DEF CampaignInv, LoopSound
  <2>4. err' = "cancelled" => cancelled
    BY <1>1, <1>3 DEF CampaignInv, LoopSound
  <2>5. ReturnedResult' = IF err' \in {"none", "cancelled"} THEN err' ELSE "failed"
    BY <1>3 DEF ReturnedResult
  <2>6. Len(rows) # Trials => Len(rows) < Trials
    BY <1>1, EngineAssumption
  <2> QED
    BY <1>3, <2>1, <2>2, <2>3, <2>4, <2>5, <2>6 DEF C!Next, C!End, C!Errors, ReturnedResult
<1>4. CASE SetUp \/ NextTrial \/ Measure
  <2>1. stage # "ended" /\ UNCHANGED <<rows, cancelled>>
    BY <1>4 DEF SetUp, NextTrial, Measure, TakeResult, trialVars
  <2> QED
    BY <1>3, <2>1 DEF ReturnedResult
<1>5. CASE Collect
  <2>1. stage = "trial" /\ cancelled' = cancelled /\ trialID < Trials
    BY <1>5 DEF Collect, TakeResult, CampaignInv, LoopSound
  <2>2. CASE Failed(outcome)
    BY <1>3, <1>5, <2>1, <2>2 DEF Collect, End
  <2>3. CASE ~Failed(outcome)
    <3>1. stage' = "loop" /\ trialID' = trialID + 1
      BY <1>5, <2>3 DEF Collect
    <3>2. ReturnedResult = "running" /\ ReturnedResult' = "running"
      BY <2>1, <3>1 DEF ReturnedResult
    <3> QED
      BY <1>1, <2>1, <3>1, <3>2 DEF C!Next, C!CompleteOne, ReturnedResult
  <2> QED
    BY <2>2, <2>3
<1>6. CASE TrialRuns \/ ChildRuns \/ ProcessRuns \/ TimeRunsOut \/ UNCHANGED vars
  <2>1. UNCHANGED <<rows, stage, err>>
    BY <1>6 DEF TrialRuns, ChildRuns, ProcessRuns, TimeRunsOut, engineVars, vars
  <2>2. cancelled' = cancelled
    <3>1. CASE TrialRuns
      BY <3>1
      DEF TrialRuns, StartTrial, Runner, StartFails, CheckDeadline, CheckCancelled,
          CheckResult, CheckExit, ReportEnded, Deferred, ReturnTrial, EndChild, Look
    <3>2. CASE ChildRuns \/ ProcessRuns \/ TimeRunsOut \/ UNCHANGED vars
      BY <3>2 DEF ChildRuns, Child, FaultLands, BeginRecord, EndRecord, ChildDies,
                  ProcessRuns, Process, TimeRunsOut, DeadlinePasses, trialVars, vars
    <3> QED
      BY <1>6, <3>1, <3>2
  <2> QED
    BY <2>1, <2>2 DEF ReturnedResult
<1> QED
  BY <1>2, <1>4, <1>5, <1>6 DEF Next, Engine

(* Each trial ends once, in an outcome Trial.tla allows and as cancelled   *)
(* only when the user did; and the campaign takes the steps of Campaign.tla*)
(* only.                                                                   *)
THEOREM TrialAndCampaignRefined == Spec => RefinesTrialAndCampaign
<1>1. Init => Abstract!Init
  BY DEF Init, Idle, ReturnedOutcome, Returned, Abstract!Init
<1>2. Init => C!Init
  BY DEF Init, Idle, C!Init
<1>3. CampaignInv /\ [Next]_vars => [Abstract!Next]_<<ReturnedOutcome, cancelled>>
  BY StepsOfATrial
<1>4. CampaignInv /\ [Next]_vars => [C!Next]_<<Len(rows), cancelled, ReturnedResult>>
  BY StepsOfACampaign
<1>5. Spec => IsATrial
  BY <1>1, <1>3, CampaignInvariant, PTL
  DEF Spec, IsATrial, Abstract!Spec, Abstract!trialVars
<1>6. Spec => IsACampaign
  BY <1>2, <1>4, CampaignInvariant, PTL
  DEF Spec, IsACampaign, C!Spec, C!campaignVars, ReturnedResult
<1> QED
  BY <1>5, <1>6 DEF RefinesTrialAndCampaign

-----------------------------------------------------------------------------
(* The row of a trial and what is read back from it *)

(* What is told of the image and the fault is a number, for every part of  *)
(* a stream: the plugin prints nothing else under these keys.              *)
LEMMA ToldAreNumbers ==
  ASSUME NEW s, NEW r \in Records \cup {NoRecord}, NEW n \in Nat, PartOf(s, r, n)
  PROVE  /\ DOMAIN ParseFacts(s) \subseteq RequiredFacts \cup PluginFacts \cup {"end"}
         /\ \A key \in RequiredFacts \cup PluginFacts :
              Present(ParseFacts(s), key) => ParseFacts(s)[key] \in Nat
<1>1. s \in Seq(Chunks) /\ DOMAIN s = 1 .. Len(s)
  BY LenProperties DEF PartOf
<1>2. PICK l \in Nat : l = Len(s)
  BY <1>1, LenProperties
<1>3. \A i \in 1 .. l : s[i] = StreamAt(r, n, i)
  BY <1>2 DEF PartOf
<1>4. l <= IF r = NoRecord THEN n ELSE n + 3
  BY <1>2 DEF PartOf
<1>5. DOMAIN ParseFacts(s) \subseteq RequiredFacts \cup PluginFacts \cup {"end"}
  <2>1. \A i \in 1 .. l : DOMAIN s[i] \subseteq RequiredFacts \cup PluginFacts \cup {"end"}
    BY <1>3, ChunkDomains DEF StreamAt, PluginFacts
  <2> QED
    BY <1>1, <1>2, <2>1 DEF ParseFacts
<1>6. ASSUME NEW key \in RequiredFacts, Present(ParseFacts(s), key)
      PROVE  ParseFacts(s)[key] \in Nat
  <2>1. l >= n + 1
    BY <1>2, <1>6, RequiredAreTheRecords
  <2>2. r # NoRecord /\ ParseFacts(s)[key] = r[key]
    BY <1>2, <1>6, <2>1, RequiredAreTheRecords
  <2>3. r \in Records /\ key \in DOMAIN r
    BY <2>2, RecordsAssumption
  <2> QED
    BY <2>2, <2>3, NumbersAssumption
<1>7. ASSUME NEW key \in PluginFacts, Present(ParseFacts(s), key)
      PROVE  ParseFacts(s)[key] \in Nat
  <2>1. key \notin RequiredFacts /\ key # "end"
    BY <1>7 DEF RequiredFacts, PluginFacts
  <2>2. CASE l >= n + 2
    <3>1. r \in Records /\ n + 2 \in 1 .. l /\ s[n + 2] = Keys(r, PluginFacts)
      BY <1>3, <1>4, <2>2 DEF StreamAt
    <3>2. key \in DOMAIN s[n + 2] /\ s[n + 2][key] = r[key]
      BY <1>7, <3>1 DEF Keys
    <3>3. \A later \in n + 2 + 1 .. l : key \notin DOMAIN s[later]
      BY <1>3, <2>1, ChunkDomains DEF StreamAt
    <3>4. ParseFacts(s)[key] = r[key]
      BY <1>1, <1>2, <3>1, <3>2, <3>3, LastToldIsTheFact
    <3> QED
      BY <1>7, <3>1, <3>4, RecordsAssumption, NumbersAssumption
  <2>3. CASE l < n + 2
    <3>1. PICK told \in 1 .. l : key \in DOMAIN s[told]
      BY <1>1, <1>2, <1>7, FactIsTold
    <3>2. told <= n /\ key = "injected"
      <4>1. s[told] = StreamAt(r, n, told) /\ told < n + 2
        BY <1>3, <2>3, <3>1
      <4> QED
        BY <2>1, <3>1, <4>1, ChunkDomains DEF StreamAt
    <3>3. PICK i \in 1 .. l : i = IF l <= n THEN l ELSE n
      BY <3>1, <3>2
    <3>4. s[i] = Location
      BY <1>3, <3>3 DEF StreamAt
    <3>5. key \in DOMAIN s[i] /\ s[i][key] = 1
      BY <3>2, <3>4 DEF Location
    <3>6. \A later \in i + 1 .. l : key \notin DOMAIN s[later]
      <4> TAKE later \in i + 1 .. l
      <4>1. later = n + 1 /\ later \in 1 .. l
        BY <2>3, <3>3
      <4>2. s[later] = Keys(r, RequiredFacts)
        BY <1>3, <4>1 DEF StreamAt
      <4> QED
        BY <2>1, <4>2, ChunkDomains
    <3> QED
      BY <1>1, <1>2, <3>5, <3>6, LastToldIsTheFact
  <2> QED
    BY <2>2, <2>3
<1> QED
  BY <1>5, <1>6, <1>7

-----------------------------------------------------------------------------
(* Columns *)

Places(fields, wanted) == {i \in DOMAIN fields : fields[i] \in wanted}

(* No field comes twice. *)
Distinct(fields) == \A i, j \in DOMAIN fields : fields[i] = fields[j] => i = j

(* Columns.tla, Kept: the fields that are kept, each at a place of its own. *)
LEMMA KeptFields ==
  ASSUME NEW T, NEW fields \in Seq(T), NEW wanted
  PROVE  /\ IsFiniteSet(Places(fields, wanted))
         /\ Kept(fields, wanted) \in Seq(T)
         /\ Len(Kept(fields, wanted)) = Cardinality(Places(fields, wanted))
         /\ ToSet(Kept(fields, wanted)) = ToSet(fields) \cap wanted
         /\ Distinct(fields) => Distinct(Kept(fields, wanted))
<1> DEFINE at == Places(fields, wanted)
           Rank(i) == Cardinality({j \in at : j <= i})
           place == [i \in at |-> Rank(i)]
           Source(n) == CHOOSE i \in at : Rank(i) = n
<1>1. DOMAIN fields = 1 .. Len(fields) /\ Len(fields) \in Nat
  BY LenProperties
<1>2. IsFiniteSet(at) /\ Cardinality(at) \in Nat
  <2>1. IsFiniteSet(1 .. Len(fields))
    BY <1>1, FS_Interval
  <2>2. at \in SUBSET (1 .. Len(fields))
    BY <1>1 DEF Places
  <2> QED
    BY <2>1, <2>2, FS_Subset, FS_CardinalityType
<1>3. \A i \in at : i \in Nat
  BY <1>1 DEF Places
<1>4. ASSUME NEW i \in at
      PROVE  Rank(i) \in 1 .. Cardinality(at)
  <2> DEFINE below == {j \in at : j <= i}
  <2>1. below \in SUBSET at /\ i \in below
    BY <1>3
  <2>2. IsFiniteSet(below) /\ Cardinality(below) <= Cardinality(at)
    BY <1>2, <2>1, FS_Subset
  <2>3. Cardinality(below) \in Nat
    BY <2>2, FS_CardinalityType
  <2>4. Cardinality(below) # 0
    BY <2>1, <2>2, FS_EmptySet
  <2> QED
    BY <1>2, <2>2, <2>3, <2>4
<1>5. ASSUME NEW i \in at, NEW j \in at, i < j
      PROVE  Rank(i) # Rank(j)
  <2> DEFINE lower == {k \in at : k <= i}
             upper == {k \in at : k <= j}
  <2>1. lower \in SUBSET upper /\ j \in upper /\ j \notin lower
    BY <1>3, <1>5
  <2>2. IsFiniteSet(upper)
    BY <1>2, FS_Subset
  <2>3. Cardinality(upper) = Cardinality(lower) => upper = lower
    BY <2>1, <2>2, FS_Subset
  <2> QED
    BY <2>1, <2>3
<1>6. place \in Injection(at, 1 .. Cardinality(at))
  <2>1. place \in [at -> 1 .. Cardinality(at)]
    BY <1>4
  <2>2. ASSUME NEW i \in at, NEW j \in at, place[i] = place[j] PROVE i = j
    <3>1. Rank(i) = Rank(j)
      BY <2>2
    <3>2. i \in Nat /\ j \in Nat
      BY <1>3
    <3>3. i < j \/ j < i \/ i = j
      BY <3>2
    <3> QED
      BY <1>5, <3>1, <3>3
  <2> QED
    BY <2>1, <2>2 DEF Injection, IsInjective
<1>7. place \in Surjection(at, 1 .. Cardinality(at))
  <2>1. /\ IsFiniteSet(1 .. Cardinality(at))
        /\ Cardinality(1 .. Cardinality(at)) = Cardinality(at)
    BY <1>2, FS_Interval
  <2> QED
    BY <1>6, <2>1, FS_Injection
<1>8. \A n \in 1 .. Cardinality(at) : Source(n) \in at /\ Rank(Source(n)) = n
  <2>1. \A n \in 1 .. Cardinality(at) : \E i \in at : Rank(i) = n
    BY <1>7 DEF Surjection
  <2> QED
    BY <2>1
<1>9. \A i \in at : Source(Rank(i)) = i
  <2> TAKE i \in at
  <2>1. Rank(i) \in 1 .. Cardinality(at)
    BY <1>4
  <2>2. Source(Rank(i)) \in at /\ Rank(Source(Rank(i))) = Rank(i)
    BY <1>8, <2>1
  <2> HIDE DEF Source
  <2>3. place[Source(Rank(i))] = place[i]
    BY <2>2
  <2> QED
    BY <1>6, <2>2, <2>3 DEF Injection, IsInjective
<1>10. Kept(fields, wanted) = [n \in 1 .. Cardinality(at) |-> fields[Source(n)]]
  <2>1. at = {i \in DOMAIN fields : fields[i] \in wanted}
    BY DEF Places
  <2> QED
    BY <2>1 DEF Kept
<1> HIDE DEF at, Rank, place, Source
<1>11. \A i \in at : i \in DOMAIN fields /\ fields[i] \in wanted /\ fields[i] \in T
  BY <1>1, ElementOfSeq DEF at, Places
<1>12. Kept(fields, wanted) \in Seq(T) /\ Len(Kept(fields, wanted)) = Cardinality(at)
  BY <1>2, <1>8, <1>10, <1>11, IsASeq, LenProperties
<1>13. ToSet(Kept(fields, wanted)) = ToSet(fields) \cap wanted
  <2>1. ASSUME NEW n \in 1 .. Cardinality(at)
        PROVE  fields[Source(n)] \in ToSet(fields) \cap wanted
    BY <1>8, <1>11 DEF ToSet
  <2>2. ASSUME NEW field \in ToSet(fields) \cap wanted
        PROVE  field \in ToSet(Kept(fields, wanted))
    <3>1. PICK i \in at : field = fields[i]
      BY DEF ToSet, at, Places
    <3>2. Rank(i) \in 1 .. Cardinality(at) /\ Source(Rank(i)) = i
      BY <1>4, <1>9
    <3> QED
      BY <1>10, <3>1, <3>2 DEF ToSet
  <2> QED
    BY <1>10, <2>1, <2>2 DEF ToSet
<1>14. ASSUME Distinct(fields),
              NEW m \in DOMAIN Kept(fields, wanted), NEW n \in DOMAIN Kept(fields, wanted),
              Kept(fields, wanted)[m] = Kept(fields, wanted)[n]
       PROVE  m = n
  <2>1. m \in 1 .. Cardinality(at) /\ n \in 1 .. Cardinality(at)
    BY <1>10
  <2>2. fields[Source(m)] = fields[Source(n)]
    BY <1>10, <1>14, <2>1
  <2>3. Source(m) = Source(n)
    BY <1>8, <1>11, <1>14, <2>1, <2>2 DEF Distinct
  <2> QED
    BY <1>8, <2>1, <2>3
<1> QED
  BY <1>2, <1>12, <1>13, <1>14 DEF at, Distinct

(* A list written out is a sequence of its members. *)
LEMMA ListIsASeq ==
  ASSUME NEW list, NEW n \in Nat, DOMAIN list = 1 .. n, list = [i \in 1 .. n |-> list[i]]
  PROVE  list \in Seq(ToSet(list)) /\ Len(list) = n
<1>1. \A i \in 1 .. n : list[i] \in ToSet(list)
  BY DEF ToSet
<1>2. list \in Seq(ToSet(list))
  BY <1>1, IsASeq
<1> QED
  BY <1>2, LenProperties


(* Two lists, one after the other. *)
Follows(c, a, b, m, n) ==
  /\ DOMAIN c = 1 .. (m + n)
  /\ \A i \in 1 .. m : c[i] = a[i]
  /\ \A i \in 1 .. n : i + m \in 1 .. (m + n) /\ c[i + m] = b[i]

LEMMA Joined ==
  ASSUME NEW T, NEW a \in Seq(T), NEW b \in Seq(T),
         NEW m \in Nat, NEW n \in Nat, Len(a) = m, Len(b) = n
  PROVE  /\ a \o b \in Seq(T) /\ Len(a \o b) = m + n
         /\ Follows(a \o b, a, b, m, n)
         /\ ToSet(a \o b) = ToSet(a) \cup ToSet(b)
<1>1. PICK c \in Seq(T) : c = a \o b /\ Len(c) = m + n
  BY ConcatProperties
<1>2. \A i \in 1 .. m + n : c[i] = IF i <= m THEN a[i] ELSE b[i - m]
  BY <1>1, ConcatProperties
<1>3. DOMAIN c = 1 .. (m + n) /\ DOMAIN a = 1 .. m /\ DOMAIN b = 1 .. n
  BY <1>1, LenProperties
<1>4. ASSUME NEW i \in 1 .. m PROVE i \in 1 .. m + n /\ c[i] = a[i]
  BY <1>2
<1>5. ASSUME NEW i \in 1 .. n PROVE i + m \in 1 .. m + n /\ c[i + m] = b[i]
  <2>1. PICK j \in 1 .. m + n : j = i + m
    OBVIOUS
  <2>2. ~(j <= m) /\ j - m = i
    BY <2>1
  <2>3. c[j] = b[j - m]
    BY <1>2, <2>2
  <2> QED
    BY <2>1, <2>2, <2>3
<1>6. ToSet(c) = ToSet(a) \cup ToSet(b)
  <2>1. \A i \in 1 .. m + n : c[i] \in ToSet(a) \cup ToSet(b)
    <3> TAKE i \in 1 .. m + n
    <3>1. CASE i <= m
      <4>1. i \in 1 .. m /\ c[i] = a[i]
        BY <1>4, <3>1
      <4> QED
        BY <1>3, <4>1 DEF ToSet
    <3>2. CASE ~(i <= m)
      <4>1. PICK j \in 1 .. n : j = i - m
        BY <3>2
      <4>2. c[i] = b[j]
        BY <1>2, <3>2, <4>1
      <4> QED
        BY <1>3, <4>2 DEF ToSet
    <3> QED
      BY <3>1, <3>2
  <2>2. ASSUME NEW i \in 1 .. m PROVE a[i] \in ToSet(c)
    BY <1>3, <1>4 DEF ToSet
  <2>3. ASSUME NEW i \in 1 .. n PROVE b[i] \in ToSet(c)
    <3>1. PICK j \in 1 .. m + n : c[j] = b[i]
      BY <1>5
    <3> QED
      BY <1>3, <3>1 DEF ToSet
  <2> QED
    BY <1>3, <2>1, <2>2, <2>3 DEF ToSet
<1> QED
  BY <1>1, <1>3, <1>4, <1>5, <1>6 DEF Follows

Sized(S, n) == IsFiniteSet(S) /\ Cardinality(S) = n

(* One place fewer. *)
LEMMA Without ==
  ASSUME NEW S, NEW T, NEW x, NEW n, NEW m \in Int,
         Sized(S, n), T = S \ {x}, x \in S, m = n - 1
  PROVE  Sized(T, m)
<1>1. /\ IsFiniteSet(S \ {x})
      /\ Cardinality(S \ {x}) = IF x \in S THEN Cardinality(S) - 1 ELSE Cardinality(S)
  BY FS_RemoveElement DEF Sized
<1> QED
  BY <1>1 DEF Sized

(* Where the CSV's fields are that the table does not show first. *)
LEMMA Uncurated ==
  /\ DOMAIN FuzzCSVFields = 1 .. 31
  /\ FuzzCSVFields \in Seq(ToSet(FuzzCSVFields)) /\ Len(FuzzCSVFields) = 31
  /\ DOMAIN Curated = 1 .. 11 /\ Curated \in Seq(ToSet(Curated)) /\ Len(Curated) = 11
  /\ ToSet(Curated) \subseteq ToSet(FuzzCSVFields)
  /\ Cardinality(Places(FuzzCSVFields, ToSet(FuzzCSVFields) \ ToSet(Curated))) = 20
<1> DEFINE at == Places(FuzzCSVFields, ToSet(FuzzCSVFields) \ ToSet(Curated))
           taken == {1, 2, 3, 7, 16, 18, 19, 23, 26, 27, 29}
<1>1. /\ DOMAIN FuzzCSVFields = 1 .. 31
      /\ FuzzCSVFields = [i \in 1 .. 31 |-> FuzzCSVFields[i]]
  BY DEF FuzzCSVFields
<1>2. DOMAIN Curated = 1 .. 11 /\ Curated = [i \in 1 .. 11 |-> Curated[i]]
  BY DEF Curated
<1>3. FuzzCSVFields \in Seq(ToSet(FuzzCSVFields)) /\ Len(FuzzCSVFields) = 31
  BY <1>1, ListIsASeq
<1>4. Curated \in Seq(ToSet(Curated)) /\ Len(Curated) = 11
  BY <1>2, ListIsASeq
<1>5. ToSet(Curated) \subseteq ToSet(FuzzCSVFields)
  <2>1. \A i \in 1 .. 11 : \E j \in 1 .. 31 : Curated[i] = FuzzCSVFields[j]
    BY DEF Curated, FuzzCSVFields
  <2> QED
    BY <1>1, <1>2, <2>1 DEF ToSet
<1>6. ToSet(Curated) = {"trial_id", "result_class", "technique", "implementation",
                        "fault_mode", "target_kind", "target_name", "bit",
                        "process_status", "timeout", "elapsed_ms"}
  BY <1>2 DEF ToSet, Curated
<1>7. \A i \in 1 .. 31 : FuzzCSVFields[i] \in ToSet(Curated) <=> i \in taken
  BY <1>6 DEF FuzzCSVFields
<1>8. at = (1 .. 31) \ taken
  BY <1>1, <1>7 DEF ToSet, Places
<1>9. Sized(1 .. 31, 31)
  <2>1. PICK a \in Int, b \in Int : a = 1 /\ b = 31
    OBVIOUS
  <2>2. IsFiniteSet(a .. b) /\ Cardinality(a .. b) = IF a > b THEN 0 ELSE b - a + 1
    BY FS_Interval
  <2> QED
    BY <2>1, <2>2 DEF Sized
<1> DEFINE A == (1 .. 31) \ {1}
           B == A \ {2}
           C0 == B \ {3}
           D == C0 \ {7}
           E == D \ {16}
           F == E \ {18}
           G == F \ {19}
           H == G \ {23}
           I == H \ {26}
           J == I \ {27}
           K == J \ {29}
<1>10. /\ A = (1 .. 31) \ {1} /\ 1 \in 1 .. 31
       /\ B = A \ {2} /\ 2 \in A
       /\ C0 = B \ {3} /\ 3 \in B
       /\ D = C0 \ {7} /\ 7 \in C0
       /\ E = D \ {16} /\ 16 \in D
       /\ F = E \ {18} /\ 18 \in E
       /\ G = F \ {19} /\ 19 \in F
       /\ H = G \ {23} /\ 23 \in G
       /\ I = H \ {26} /\ 26 \in H
       /\ J = I \ {27} /\ 27 \in I
       /\ K = J \ {29} /\ 29 \in J
       /\ at = K
  BY <1>8
<1> HIDE DEF A, B, C0, D, E, F, G, H, I, J, K
<1>11. Sized(A, 30)
  <2>1. A = (1 .. 31) \ {1} /\ 1 \in (1 .. 31) /\ 30 = 31 - 1
    BY <1>10
  <2> QED
    BY <1>9, <2>1, Without
<1>12. Sized(B, 29)
  <2>1. B = A \ {2} /\ 2 \in A /\ 29 = 30 - 1
    BY <1>10
  <2> QED
    BY <1>11, <2>1, Without
<1>13. Sized(C0, 28)
  <2>1. C0 = B \ {3} /\ 3 \in B /\ 28 = 29 - 1
    BY <1>10
  <2> QED
    BY <1>12, <2>1, Without
<1>14. Sized(D, 27)
  <2>1. D = C0 \ {7} /\ 7 \in C0 /\ 27 = 28 - 1
    BY <1>10
  <2> QED
    BY <1>13, <2>1, Without
<1>15. Sized(E, 26)
  <2>1. E = D \ {16} /\ 16 \in D /\ 26 = 27 - 1
    BY <1>10
  <2> QED
    BY <1>14, <2>1, Without
<1>16. Sized(F, 25)
  <2>1. F = E \ {18} /\ 18 \in E /\ 25 = 26 - 1
    BY <1>10
  <2> QED
    BY <1>15, <2>1, Without
<1>17. Sized(G, 24)
  <2>1. G = F \ {19} /\ 19 \in F /\ 24 = 25 - 1
    BY <1>10
  <2> QED
    BY <1>16, <2>1, Without
<1>18. Sized(H, 23)
  <2>1. H = G \ {23} /\ 23 \in G /\ 23 = 24 - 1
    BY <1>10
  <2> QED
    BY <1>17, <2>1, Without
<1>19. Sized(I, 22)
  <2>1. I = H \ {26} /\ 26 \in H /\ 22 = 23 - 1
    BY <1>10
  <2> QED
    BY <1>18, <2>1, Without
<1>20. Sized(J, 21)
  <2>1. J = I \ {27} /\ 27 \in I /\ 21 = 22 - 1
    BY <1>10
  <2> QED
    BY <1>19, <2>1, Without
<1>21. Sized(K, 20)
  <2>1. K = J \ {29} /\ 29 \in J /\ 20 = 21 - 1
    BY <1>10
  <2> QED
    BY <1>20, <2>1, Without
<1> QED
  BY <1>1, <1>2, <1>3, <1>4, <1>5, <1>10, <1>21 DEF Sized

(* The table has the columns of the CSV, the curated ones first. *)
LEMMA CuratedColumns ==
  /\ DOMAIN CuratedFuzzOrder = 1 .. 31 /\ Len(CuratedFuzzOrder) = Len(FuzzCSVFields)
  /\ ToSet(CuratedFuzzOrder) = ToSet(FuzzCSVFields)
<1> DEFINE others == ToSet(FuzzCSVFields) \ ToSet(Curated)
           rest   == Kept(FuzzCSVFields, others)
           at     == Places(FuzzCSVFields, others)
<1>1. /\ FuzzCSVFields \in Seq(ToSet(FuzzCSVFields)) /\ Len(FuzzCSVFields) = 31
      /\ Curated \in Seq(ToSet(Curated)) /\ Len(Curated) = 11
      /\ ToSet(Curated) \subseteq ToSet(FuzzCSVFields)
      /\ Cardinality(at) = 20
  BY Uncurated
<1>2. /\ rest \in Seq(ToSet(FuzzCSVFields))
      /\ Len(rest) = 20
      /\ ToSet(rest) = ToSet(FuzzCSVFields) \cap others
  <2> HIDE DEF others
  <2>1. /\ rest \in Seq(ToSet(FuzzCSVFields))
        /\ Len(rest) = Cardinality(at)
        /\ ToSet(rest) = ToSet(FuzzCSVFields) \cap others
    BY <1>1, KeptFields DEF rest, at
  <2> QED
    BY <1>1, <2>1
<1>3. CuratedFuzzOrder = Curated \o rest
  BY DEF CuratedFuzzOrder
<1> HIDE DEF rest, at
<1>4. Curated \in Seq(ToSet(FuzzCSVFields))
  <2>1. \A i \in 1 .. 11 : Curated[i] \in ToSet(FuzzCSVFields)
    BY <1>1, Uncurated DEF ToSet
  <2> QED
    BY <2>1, Uncurated, <1>1, LenProperties, IsASeq
<1>5. PICK a \in Seq(ToSet(FuzzCSVFields)), b \in Seq(ToSet(FuzzCSVFields)), m \in Nat, n \in Nat :
        a = Curated /\ b = rest /\ m = Len(a) /\ n = Len(b)
  BY <1>1, <1>2, <1>4, LenProperties
<1>6. /\ Len(a \o b) = m + n /\ DOMAIN (a \o b) = 1 .. (m + n)
      /\ ToSet(a \o b) = ToSet(a) \cup ToSet(b)
  BY <1>5, Joined DEF Follows
<1>7. m + n = 31
  BY <1>1, <1>2, <1>5
<1> QED
  BY <1>1, <1>2, <1>3, <1>5, <1>6, <1>7

(* The facts of a record that have a column of their own. *)
ShownKeys == RequiredFacts \cup {"injected", "instruction_budget_exhausted"}

(* All a record can say: of the image and the fault, that it is complete,  *)
(* and the trial as the plugin knows it.                                   *)
ToldKeys == RequiredFacts \cup PluginFacts \cup {"end", "campaign_seed", "trial_seed"}

(* Where each fact goes. *)
LEMMA ColumnsOf ==
  /\ Column("harness_done") = "harness_done"
  /\ Column("harness_detected") = "detected"
  /\ Column("harness_corrected") = "corrected"
  /\ Column("harness_safe_state") = "safe_state"
  /\ Column("harness_output") = "output"
  /\ Column("harness_expected") = "expected"
  /\ Column("injected") = "injected"
  /\ Column("instruction_budget_exhausted") = "instruction_budget_exhausted"
  /\ Column("window_insns_total") = "window_insns_total"
  /\ Column("end") = "end"
  /\ Column("campaign_seed") = "campaign_seed"
  /\ Column("trial_seed") = "trial_seed"
<1>1. DOMAIN FuzzFactKeyToColumn =
        {"harness_output", "harness_expected", "harness_detected",
         "harness_corrected", "harness_safe_state", "harness_error_code"}
  BY DEF FuzzFactKeyToColumn
<1>2. /\ Column("harness_detected") = "detected"
      /\ Column("harness_corrected") = "corrected"
      /\ Column("harness_safe_state") = "safe_state"
      /\ Column("harness_output") = "output"
      /\ Column("harness_expected") = "expected"
  BY DEF Column, FuzzFactKeyToColumn
<1>3. \A key : key \notin DOMAIN FuzzFactKeyToColumn => Column(key) = key
  BY DEF Column
<1> QED
  BY <1>1, <1>2, <1>3

(* No two facts go to the same column. *)
LEMMA ColumnsApart ==
  ASSUME NEW key \in ToldKeys, NEW other \in ToldKeys, Column(key) = Column(other)
  PROVE  key = other
<1> DEFINE names == {"harness_done", "harness_detected", "harness_corrected",
                     "harness_safe_state", "harness_output", "harness_expected", "injected",
                     "instruction_budget_exhausted", "window_insns_total", "end",
                     "campaign_seed", "trial_seed"}
<1>1. key \in names /\ other \in names
  BY DEF ToldKeys, RequiredFacts, PluginFacts
<1> QED
  BY <1>1, ColumnsOf

(* The CSV has a column for every fact a class rests on. *)
LEMMA ColumnsShown ==
  /\ \A key \in ShownKeys : Column(key) \in ToSet(FuzzCSVFields)
  /\ Column("window_insns_total") \notin ToSet(FuzzCSVFields)
  /\ {"trial_id", "trial_seed", "campaign_seed", "campaign", "result_class",
      "process_status", "timeout"} \subseteq ToSet(FuzzCSVFields)
<1> DEFINE Field(i) == FuzzCSVFields[i]
<1>1. \A i \in 1 .. 31 : FuzzCSVFields[i] \in ToSet(FuzzCSVFields)
  BY Uncurated DEF ToSet
<1>2. /\ FuzzCSVFields[14] = "harness_done" /\ FuzzCSVFields[10] = "detected"
      /\ FuzzCSVFields[11] = "corrected" /\ FuzzCSVFields[12] = "safe_state"
      /\ FuzzCSVFields[8] = "output" /\ FuzzCSVFields[9] = "expected"
      /\ FuzzCSVFields[15] = "injected" /\ FuzzCSVFields[28] = "instruction_budget_exhausted"
  BY DEF FuzzCSVFields
<1>3. \A key \in ShownKeys : Column(key) \in ToSet(FuzzCSVFields)
  BY <1>1, <1>2, ColumnsOf DEF ShownKeys, RequiredFacts
<1>4. \A i \in 1 .. 31 : FuzzCSVFields[i] # "window_insns_total"
  BY DEF FuzzCSVFields
<1>5. "window_insns_total" \notin ToSet(FuzzCSVFields)
  BY <1>4, Uncurated DEF ToSet
<1>6. /\ FuzzCSVFields[3] = "trial_id" /\ FuzzCSVFields[4] = "trial_seed"
      /\ FuzzCSVFields[5] = "campaign" /\ FuzzCSVFields[6] = "campaign_seed"
      /\ FuzzCSVFields[7] = "result_class" /\ FuzzCSVFields[26] = "process_status"
      /\ FuzzCSVFields[27] = "timeout"
  BY DEF FuzzCSVFields
<1> QED
  BY <1>1, <1>3, <1>5, <1>6, ColumnsOf

(* A cell of the table is the row's. *)
LEMMA CellsAreTheRows ==
  ASSUME NEW row, ToSet(FuzzCSVFields) \subseteq DOMAIN row,
         NEW column \in ToSet(FuzzCSVFields)
  PROVE  LET shown == FuzzRecord(row, CuratedFuzzOrder)
         IN  shown[CHOOSE i \in DOMAIN shown : CuratedFuzzOrder[i] = column] = row[column]
<1> DEFINE shown == FuzzRecord(row, CuratedFuzzOrder)
           place == CHOOSE i \in DOMAIN shown : CuratedFuzzOrder[i] = column
<1>1. DOMAIN shown = DOMAIN CuratedFuzzOrder
  BY DEF FuzzRecord
<1>2. \E i \in DOMAIN shown : CuratedFuzzOrder[i] = column
  BY <1>1, CuratedColumns DEF ToSet
<1>3. place \in DOMAIN shown /\ CuratedFuzzOrder[place] = column
  BY <1>2
<1> HIDE DEF place
<1>4. shown[place] = row[column]
  BY <1>1, <1>3 DEF FuzzRecord
<1> QED
  BY <1>4 DEF place

(* The host's fields are the host's; a fact a class rests on has its cell, *)
(* which is empty if the record does not tell it.                          *)
LEMMA RowCells ==
  ASSUME NEW facts, DOMAIN facts \subseteq RequiredFacts \cup PluginFacts \cup {"end"},
         NEW id, NEW name, NEW class, NEW status, NEW timeout \in BOOLEAN
  PROVE  LET identity == Identity(id, name, class, status, timeout)
             row      == FormatFuzzResultRow(identity, Told(facts))
         IN  /\ ToSet(FuzzCSVFields) \subseteq DOMAIN row
             /\ \A field \in DOMAIN identity : row[field] = identity[field]
             /\ \A key \in ShownKeys :
                  row[Column(key)] = IF Present(facts, key) THEN facts[key] ELSE Empty
<1> DEFINE identity == Identity(id, name, class, status, timeout)
           told     == Told(facts)
           columns  == FactColumns(told)
           row      == FormatFuzzResultRow(identity, told)
<1>1. DOMAIN told \subseteq ToldKeys /\ \A key \in DOMAIN facts : key \in DOMAIN told
  BY DEF Told, Filled, ToldKeys
<1>2. \A key \in ShownKeys : key \in DOMAIN told <=> key \in DOMAIN facts
  BY DEF Told, Filled, ShownKeys, RequiredFacts
<1>3. \A key \in ShownKeys : key \in DOMAIN facts => told[key] = facts[key]
  BY DEF Told, Filled, ShownKeys, RequiredFacts
<1> HIDE DEF told
<1>4. ASSUME NEW key \in DOMAIN told
      PROVE  Column(key) \in DOMAIN columns /\ columns[Column(key)] = told[key]
  <2> DEFINE teller == CHOOSE other \in DOMAIN told : Column(other) = Column(key)
  <2>1. teller \in DOMAIN told /\ Column(teller) = Column(key)
    OBVIOUS
  <2>2. teller = key
    BY <1>1, <2>1, ColumnsApart
  <2> QED
    BY <2>2 DEF FactColumns
<1>5. DOMAIN columns = {Column(key) : key \in DOMAIN told}
  BY DEF FactColumns
<1> HIDE DEF columns
<1>6. /\ DOMAIN row = DOMAIN identity \cup DOMAIN columns \cup ToSet(FuzzCSVFields)
      /\ \A field \in DOMAIN identity : row[field] = identity[field]
      /\ \A field \in DOMAIN columns : field \notin DOMAIN identity => row[field] = columns[field]
      /\ \A field \in ToSet(FuzzCSVFields) :
           field \notin DOMAIN identity \cup DOMAIN columns => row[field] = Empty
  BY DEF row, FormatFuzzResultRow, Filled, NoCells, columns
<1>7. \A key \in ShownKeys : Column(key) \notin DOMAIN identity
  <2>1. DOMAIN identity = {"technique", "implementation", "trial_seed", "campaign_seed",
                           "elapsed_ms", "trial_id", "campaign", "result_class",
                           "process_status", "timeout"}
    BY DEF Identity
  <2> QED
    BY <2>1, ColumnsOf DEF ShownKeys, RequiredFacts
<1> HIDE DEF row, identity
<1>8. ASSUME NEW key \in ShownKeys
      PROVE  row[Column(key)] = IF Present(facts, key) THEN facts[key] ELSE Empty
  <2>1. CASE key \in DOMAIN facts
    BY <1>1, <1>3, <1>4, <1>6, <1>7, <2>1 DEF Present
  <2>2. CASE key \notin DOMAIN facts
    <3>1. key \notin DOMAIN told /\ key \in ToldKeys
      BY <1>2, <2>2 DEF ShownKeys, ToldKeys, PluginFacts
    <3>2. Column(key) \notin DOMAIN columns
      BY <1>1, <1>5, <3>1, ColumnsApart
    <3> QED
      BY <1>6, <1>7, <2>2, <3>2, ColumnsShown DEF Present
  <2> QED
    BY <2>1, <2>2
<1> QED
  BY <1>6, <1>8 DEF row, identity, told

(* The class of a trial rests on nothing but the facts with a column. *)
LEMMA SameClass ==
  ASSUME NEW facts, NEW shown,
         \A key \in ShownKeys :
           /\ Present(shown, key) <=> Present(facts, key)
           /\ Present(facts, key) => shown[key] = facts[key],
         NEW status, NEW timeout, NEW injection
  PROVE  Classify([facts |-> shown, status |-> status, timeout |-> timeout,
                   requiresInjection |-> injection])
         = Classify([facts |-> facts, status |-> status, timeout |-> timeout,
                     requiresInjection |-> injection])
<1>1. \A key \in ShownKeys : IntFact(shown, key) = IntFact(facts, key)
  BY DEF IntFact
<1>2. /\ "harness_done" \in ShownKeys /\ "harness_detected" \in ShownKeys
      /\ "harness_corrected" \in ShownKeys /\ "harness_safe_state" \in ShownKeys
      /\ "harness_output" \in ShownKeys /\ "harness_expected" \in ShownKeys
      /\ "injected" \in ShownKeys /\ "instruction_budget_exhausted" \in ShownKeys
  BY DEF ShownKeys, RequiredFacts
<1>3. WellFormed(shown) <=> WellFormed(facts)
  BY DEF WellFormed, ShownKeys
<1>4. /\ Flag(shown, "harness_detected") <=> Flag(facts, "harness_detected")
      /\ Flag(shown, "harness_corrected") <=> Flag(facts, "harness_corrected")
      /\ Flag(shown, "harness_safe_state") <=> Flag(facts, "harness_safe_state")
      /\ Flag(shown, "injected") <=> Flag(facts, "injected")
      /\ Flag(shown, "instruction_budget_exhausted")
           <=> Flag(facts, "instruction_budget_exhausted")
      /\ Finished(shown) <=> Finished(facts)
      /\ OutputIsExpected(shown) <=> OutputIsExpected(facts)
  BY <1>1, <1>2 DEF Flag, Finished, OutputIsExpected
<1>5. Contradicts(shown) <=> Contradicts(facts)
  BY <1>4 DEF Contradicts
<1>6. OutcomeClass(shown) = OutcomeClass(facts)
  BY <1>4 DEF OutcomeClass
<1> QED
  BY <1>3, <1>4, <1>5, <1>6 DEF Classify

(* What is told of a trial that returned. *)
LEMMA ReturnedIsTold ==
  ASSUME TrialInv, Returned, ~Failed(outcome)
  PROVE  /\ DOMAIN ParseFacts(outcome.stderr) \subseteq RequiredFacts \cup PluginFacts \cup {"end"}
         /\ \A key \in RequiredFacts \cup PluginFacts :
              Present(ParseFacts(outcome.stderr), key) => ParseFacts(outcome.stderr)[key] \in Nat
<1>1. result.status \in Reports /\ outcome.stderr = result.stderr
      /\ result.record \in Records \cup {NoRecord}
  BY OutcomeHolds
  DEF Failed, outcome, TrialInv, RunnerSound, Returned, ResultRecord
<1>2. PICK n \in 0 .. MaxLocations : PartOf(result.stderr, result.record, n)
  BY <1>1 DEF TrialInv, ResultSound
<1>3. n \in Nat
  BY RecordsAssumption
<1> QED
  BY <1>1, <1>2, <1>3, ToldAreNumbers

(* The row of a trial tells the verdict: reading it back gives the class. *)
LEMMA RowHolds ==
  ASSUME CampaignInv, stage = "trial", Returned, ~Failed(outcome)
  PROVE  RowTellsTheVerdict
<1> DEFINE class        == Verdict(outcome, Chosen.RequiresInjection)
           facts        == ParseFacts(outcome.stderr)
           timedOut        == outcome.status = "timeout"
           identity     == Identity(trialID, campaign, class, outcome.status, timedOut)
           row          == ResultRow(class)
           shown        == FuzzRecord(row, CuratedFuzzOrder)
           Cell(column) == shown[CHOOSE i \in DOMAIN shown : CuratedFuzzOrder[i] = column]
           shownFacts   == {key \in RequiredFacts \cup PluginFacts :
                              Column(key) \in ToSet(CuratedFuzzOrder)
                                /\ Cell(Column(key)) # Empty}
           back         == [key \in shownFacts |-> Cell(Column(key))]
<1>1. /\ DOMAIN facts \subseteq RequiredFacts \cup PluginFacts \cup {"end"}
      /\ \A key \in RequiredFacts \cup PluginFacts : Present(facts, key) => facts[key] \in Nat
  BY ReturnedIsTold DEF CampaignInv
<1>2. row = FormatFuzzResultRow(identity, Told(facts)) /\ timedOut \in BOOLEAN
  BY DEF ResultRow
<1> HIDE DEF facts
<1>3. /\ ToSet(FuzzCSVFields) \subseteq DOMAIN row
      /\ \A field \in DOMAIN identity : row[field] = identity[field]
      /\ \A key \in ShownKeys :
           row[Column(key)] = IF Present(facts, key) THEN facts[key] ELSE Empty
  <2> HIDE DEF row, class, timedOut
  <2> QED
    BY <1>1, <1>2, RowCells
<1> HIDE DEF row, class, identity
<1>4. \A column \in ToSet(FuzzCSVFields) : Cell(column) = row[column]
  BY <1>3, CellsAreTheRows
<1> HIDE DEF shown, Cell
<1>5. /\ Cell("trial_id") = trialID
      /\ Cell("trial_seed") = "host" /\ Cell("campaign_seed") = "host"
      /\ Cell("result_class") = class /\ Cell("process_status") = outcome.status
      /\ Cell("campaign") = campaign /\ Cell("timeout") = IF timedOut THEN 1 ELSE 0
  BY <1>3, <1>4, ColumnsShown DEF identity, Identity
<1>6. shownFacts = {key \in ShownKeys : Present(facts, key)}
  <2>1. \A key \in ShownKeys : Cell(Column(key)) = IF Present(facts, key) THEN facts[key] ELSE Empty
    BY <1>3, <1>4, ColumnsShown
  <2>2. \A key \in ShownKeys : Present(facts, key) => facts[key] # Empty
    BY <1>1 DEF Empty, ShownKeys, PluginFacts
  <2>3. \A key \in RequiredFacts \cup PluginFacts :
          key \in ShownKeys <=> Column(key) \in ToSet(FuzzCSVFields)
    BY ColumnsShown DEF ShownKeys, PluginFacts
  <2>4. ShownKeys \subseteq RequiredFacts \cup PluginFacts
    BY DEF ShownKeys, PluginFacts
  <2> QED
    BY <2>1, <2>2, <2>3, <2>4, CuratedColumns
<1>7. \A key \in ShownKeys :
        /\ Present(back, key) <=> Present(facts, key)
        /\ Present(facts, key) => back[key] = facts[key]
  BY <1>3, <1>4, <1>6, ColumnsShown DEF Present
<1>8. class = Classify([facts |-> facts, status |-> outcome.status,
                        timeout |-> outcome.status = "timeout",
                        requiresInjection |-> Chosen.RequiresInjection])
  BY DEF class, Verdict, facts
<1>9. Classify([facts |-> back, status |-> outcome.status,
                timeout |-> outcome.status = "timeout",
                requiresInjection |-> Chosen.RequiresInjection]) = class
  <2> HIDE DEF back
  <2> QED
    BY <1>7, <1>8, SameClass
<1>10. (Cell("timeout") = 1) = (outcome.status = "timeout")
  BY <1>5
<1>11. FuzzCampaign[Cell("campaign")].RequiresInjection = Chosen.RequiresInjection
  BY <1>5 DEF Chosen
<1>12. Classify([facts |-> back, status |-> Cell("process_status"),
                 timeout |-> Cell("timeout") = 1,
                 requiresInjection |-> FuzzCampaign[Cell("campaign")].RequiresInjection]) = class
  BY <1>5, <1>9, <1>10, <1>11
<1> QED
  BY <1>5, <1>12, CuratedColumns DEF RowTellsTheVerdict, class, row, shown, Cell

(* Whatever is read back from a row is what the trial was judged by. *)
THEOREM RowsTellTheVerdict == Spec => []RowTellsTheVerdict
<1>1. CampaignInv => RowTellsTheVerdict
  BY RowHolds DEF RowTellsTheVerdict
<1> QED
  BY <1>1, CampaignInvariant, PTL
=============================================================================
