------------------------- MODULE FuzzTargetProofs -------------------------
(***************************************************************************)
(* Theorems of what a fuzz trial runs under QEMU.                          *)
(*                                                                         *)
(* FuzzPlugin, for every length of the fault window, every bound, every    *)
(* budget and any number of instructions and diversions: what a callback   *)
(* does to the plugin's state is one of four things (Watched and the       *)
(* lemmas about it).  The counters, the faults that landed and the record  *)
(* are followed through every run; only where nothing diverted the image,  *)
(* and where no fault landed at all, is it known which instruction is next,*)
(* and with it how far the window counted.                                 *)
(*                                                                         *)
(* FuzzGuests, for any draws from the seed (the second part): before every *)
(* step of each of the six images, what each word holds unless it was hit, *)
(* which hits are still there to be found, and which would already have    *)
(* ended the run.                                                          *)
(***************************************************************************)
EXTENDS FuzzPlugin, FuzzGuests, SequenceTheorems, TLAPS

Spin == Work + 8

PluginState(stream) ==
  [done : BOOLEAN, seed_written : BOOLEAN, instruction_budget_exhausted : BOOLEAN,
   active_window : BOOLEAN, instructions_executed : Nat, window_insns_seen : Nat,
   window_insns_total : Nat, inject_after : Nat, injected : BOOLEAN,
   inject_offset : Nat, written : {stream}, hits : Nat]

(* What one callback makes of the window, field by field. *)
Opening(s) == memory.window = 1 /\ ~s.active_window

RamHit(s) == Opening(s) /\ trial.mode = "ram-bitflip" /\ trial.target = "ok"

Aims(s) == Opening(s) /\ UsesOffset /\ trial.target # "none"

Pending(s) ==
  memory.window = 1 /\ UsesOffset /\ trial.target # "none" /\ (Opening(s) \/ ~s.injected)

Seen(s) == (IF Aims(s) THEN 0 ELSE s.window_insns_seen) + 1

After(s, offset) == IF Aims(s) THEN offset ELSE s.inject_after

Strikes(s, offset) == Pending(s) /\ Seen(s) >= After(s, offset) /\ trial.target = "ok"

Watched(s, t, offset) ==
  /\ t \in PluginState(t.written)
  /\ t.done = s.done /\ t.seed_written = s.seed_written
  /\ t.instruction_budget_exhausted = s.instruction_budget_exhausted
  /\ t.instructions_executed = s.instructions_executed
  /\ t.active_window <=> memory.window = 1
  /\ t.window_insns_total = s.window_insns_total + memory.window
  /\ t.injected <=> RamHit(s) \/ Strikes(s, offset) \/ (~Opening(s) /\ s.injected)
  /\ t.inject_offset = IF Strikes(s, offset) THEN Seen(s)
                       ELSE IF Opening(s) THEN 0 ELSE s.inject_offset
  /\ t.window_insns_seen = IF Pending(s) THEN Seen(s) ELSE s.window_insns_seen
  /\ t.inject_after = After(s, offset)
  /\ t.written = IF Strikes(s, offset) THEN Append(s.written, Location) ELSE s.written
  /\ t.hits = IF RamHit(s) \/ Strikes(s, offset) THEN s.hits + 1 ELSE s.hits

(* The record of an image with the facts f and harness_done d. *)
RecordOf(f, d) ==
  [harness_done |-> d, harness_detected |-> f.harness_detected,
   harness_corrected |-> f.harness_corrected, harness_safe_state |-> f.harness_safe_state,
   harness_output |-> f.harness_output, harness_expected |-> 1,
   injected |-> AsInt(g.injected), window_insns_total |-> g.window_insns_total,
   instruction_budget_exhausted |-> AsInt(g.instruction_budget_exhausted)]

(* The faults streamed before the record. *)
Locations(n) == [i \in 1 .. n |-> Location]

Told == Publications \cup {Zeroed.facts}

-----------------------------------------------------------------------------
(* The inductive invariant *)

Image ==
  [window : 0 .. 1, done : 0 .. 1, seed : {"zero", "trial"},
   used : {"none", "zero", "trial"}, facts : Told]

Arguments ==
  [mode : FuzzCampaigns, bound : Bounds, budget : Budgets, target : {"ok", "none", "unreadable"}]

Landing == [opening : Nat, offset : Nat, window : 0 .. 1]

PluginTypes ==
  /\ trial \in Arguments
  /\ g \in PluginState(g.written)
  /\ at \in 0 .. Spin
  /\ memory \in Image
  /\ landed \in Seq(Landing)
  /\ openings \in Nat /\ finished \in Nat /\ diversions \in Nat

(* The counters run side by side, and a callback past the budget is the    *)
(* last one.                                                               *)
CountersAgree ==
  /\ g.window_insns_seen <= g.window_insns_total
  /\ g.window_insns_total <= g.instructions_executed
  /\ trial.budget # 0 =>
       /\ g.instructions_executed <= trial.budget + 1
       /\ ~g.done => g.instructions_executed <= trial.budget
  /\ g.instruction_budget_exhausted => g.done

(* Every fault is of an opening of its own, the latest last; while none    *)
(* landed in this opening, the offset that was drawn is still ahead.       *)
LandingsAgree ==
  /\ \A i \in 1 .. Len(landed) :
       /\ landed[i].window = 1
       /\ UsesOffset => landed[i].offset \in Offsets
       /\ landed[i].opening \in 1 .. openings
       /\ \A j \in 1 .. i - 1 : landed[j].opening < landed[i].opening
  /\ g.injected <=> landed # <<>> /\ landed[Len(landed)].opening = openings
  /\ trial.mode = "none" => landed = <<>>
  /\ g.active_window => openings # 0
  /\ openings # 0 /\ UsesOffset /\ trial.target # "none" =>
       /\ g.inject_after \in Offsets
       /\ trial.target = "ok" /\ ~g.injected => g.window_insns_seen < g.inject_after

(* harness_done is looked at one callback after it was set. *)
FinishingAgrees ==
  memory.done = 1 /\ ~g.done => at = Spin /\ finished = g.instructions_executed

(* The locations of faults that landed, and then one record, which tells   *)
(* the plugin's state as it stays.                                         *)
WrittenAgrees ==
  \E n \in 0 .. Len(landed), f \in Told, d \in 0 .. 1 :
    /\ g.written = Locations(n) \o
                     IF g.done THEN WrittenRecord(RecordOf(f, d)) ELSE <<>>
    /\ g.done /\ d = 1 =>
         /\ at = Spin
         /\ g.instruction_budget_exhausted => finished = trial.budget
    /\ g.done /\ ~g.instruction_budget_exhausted =>
         d = 1 /\ (landed = <<>> => f = Clean)

(* Nothing diverted the image: it reads the seed once, after it was        *)
(* written, and opens its window once.                                     *)
OnItsPath ==
  diversions = 0 =>
    /\ at # Outside
    /\ at = 1 => g.instructions_executed = 0
    /\ at <= 2 => ~g.done /\ ~g.seed_written /\ memory.used = "none"
    /\ at >= 3 => memory.used = "trial"
    /\ at <= 3 => memory.window = 0 /\ openings = 0
    /\ openings <= 1
    /\ openings = 1 /\ ~g.done /\ ~g.active_window => memory.window = 0

(* No fault reached the image: where it stands tells how many instructions *)
(* of its window were counted.                                             *)
Counted == IF at <= 4 THEN 0 ELSE IF at <= Work + 5 THEN at - 4 ELSE Work + 1

Untouched ==
  landed = <<>> =>
    /\ diversions = 0
    /\ memory.window = 1 <=> at \in 4 .. Work + 4
    /\ memory.done = 1 <=> at = Spin
    /\ at >= Work + 7 => memory.facts = Clean
    /\ ~g.instruction_budget_exhausted =>
         /\ g.window_insns_total = Counted
         /\ g.active_window <=> at \in 5 .. Work + 5
         /\ openings = IF at <= 4 THEN 0 ELSE 1
         /\ UsesOffset /\ trial.target # "none" => g.window_insns_seen = g.window_insns_total

PluginInv ==
  /\ PluginTypes
  /\ CountersAgree
  /\ LandingsAgree
  /\ FinishingAgrees
  /\ WrittenAgrees
  /\ OnItsPath
  /\ Untouched

-----------------------------------------------------------------------------
(* The image's program and the campaigns *)

Kinds == {"boot", "main", "open", "work", "close", "return", "publish", "finish", "spin"}

LEMMA ProgramIs ==
  /\ DOMAIN Program = 1 .. Spin
  /\ Program[1] = "boot" /\ Program[2] = "main" /\ Program[3] = "open"
  /\ \A i \in 4 .. Work + 3 : Program[i] = "work"
  /\ Program[Work + 4] = "close" /\ Program[Work + 5] = "return"
  /\ Program[Work + 6] = "publish" /\ Program[Work + 7] = "finish"
  /\ Program[Spin] = "spin"
<1>1. Work \in Nat \ {0}
  BY PluginAssumption
<1>2. PICK first, middle, last :
        /\ Program = first \o middle \o last
        /\ first = <<"boot", "main", "open">>
        /\ middle = [i \in 1 .. Work |-> "work"]
        /\ last = <<"close", "return", "publish", "finish", "spin">>
  BY DEF Program
<1>3. /\ first \in Seq(Kinds) /\ Len(first) = 3
      /\ first[1] = "boot" /\ first[2] = "main" /\ first[3] = "open"
  BY <1>2 DEF Kinds
<1>4. middle \in Seq(Kinds) /\ Len(middle) = Work /\ \A i \in 1 .. Work : middle[i] = "work"
  BY <1>1, <1>2 DEF Kinds
<1>5. /\ last \in Seq(Kinds) /\ Len(last) = 5 /\ last[1] = "close" /\ last[2] = "return"
      /\ last[3] = "publish" /\ last[4] = "finish" /\ last[5] = "spin"
  BY <1>2 DEF Kinds
<1>6. PICK both : both = first \o middle
  OBVIOUS
<1>7. /\ both \in Seq(Kinds) /\ Len(both) = Len(first) + Len(middle)
      /\ \A i \in 1 .. Len(first) + Len(middle) :
           both[i] = IF i <= Len(first) THEN first[i] ELSE middle[i - Len(first)]
  BY <1>3, <1>4, <1>6, ConcatProperties
<1>8. Len(both) = Work + 3 /\ both[1] = "boot" /\ both[2] = "main" /\ both[3] = "open"
  BY <1>1, <1>3, <1>4, <1>7
<1>9. \A i \in 4 .. Work + 3 : both[i] = "work"
  <2> TAKE i \in 4 .. Work + 3
  <2>1. i \in 1 .. Len(first) + Len(middle) /\ ~(i <= Len(first)) /\ i - 3 \in 1 .. Work
    BY <1>1, <1>3, <1>4
  <2>2. both[i] = middle[i - Len(first)]
    BY <1>7, <2>1
  <2> QED
    BY <1>3, <1>4, <2>1, <2>2
<1>10. /\ Program \in Seq(Kinds) /\ Len(Program) = Len(both) + Len(last)
       /\ \A i \in 1 .. Len(both) + Len(last) :
            Program[i] = IF i <= Len(both) THEN both[i] ELSE last[i - Len(both)]
  <2>1. PICK whole : whole = both \o last
    OBVIOUS
  <2>2. /\ whole \in Seq(Kinds) /\ Len(whole) = Len(both) + Len(last)
        /\ \A i \in 1 .. Len(both) + Len(last) :
             whole[i] = IF i <= Len(both) THEN both[i] ELSE last[i - Len(both)]
    <3>1. both \in Seq(Kinds) /\ last \in Seq(Kinds)
      BY <1>5, <1>7
    <3> QED
      BY <2>1, <3>1, ConcatProperties
  <2>3. Program = whole
    BY <1>2, <1>6, <2>1
  <2> QED
    BY <2>2, <2>3
<1>11. \A i \in 1 .. Work + 3 : Program[i] = both[i]
  BY <1>1, <1>5, <1>8, <1>10
<1>12. \A i \in 1 .. 5 : Program[Work + 3 + i] = last[i]
  <2> TAKE i \in 1 .. 5
  <2>1. /\ Work + 3 + i \in 1 .. Len(both) + Len(last)
        /\ ~(Work + 3 + i <= Len(both)) /\ (Work + 3 + i) - Len(both) = i
    BY <1>1, <1>5, <1>8
  <2> QED
    BY <1>10, <2>1
<1>13. DOMAIN Program = 1 .. Spin
  <2>1. Len(Program) = Spin
    BY <1>1, <1>5, <1>8, <1>10 DEF Spin
  <2> QED
    BY <1>10, <2>1, LenProperties
<1>14. /\ Program[1] = "boot" /\ Program[2] = "main" /\ Program[3] = "open"
       /\ \A i \in 4 .. Work + 3 : Program[i] = "work"
  BY <1>1, <1>8, <1>9, <1>11
<1>15. /\ Program[Work + 3 + 1] = "close" /\ Program[Work + 3 + 2] = "return"
       /\ Program[Work + 3 + 3] = "publish" /\ Program[Work + 3 + 4] = "finish"
       /\ Program[Work + 3 + 5] = "spin"
  BY <1>5, <1>12
<1>16. /\ Work + 3 + 1 = Work + 4 /\ Work + 3 + 2 = Work + 5 /\ Work + 3 + 3 = Work + 6
       /\ Work + 3 + 4 = Work + 7 /\ Work + 3 + 5 = Spin
  BY <1>1 DEF Spin
<1> QED
  BY <1>13, <1>14, <1>15, <1>16

LEMMA KindIs ==
  ASSUME NEW i \in 1 .. Spin
  PROVE  /\ Program[i] = "boot" <=> i = 1
         /\ Program[i] = "main" <=> i = 2
         /\ Program[i] = "open" <=> i = 3
         /\ Program[i] = "work" <=> i \in 4 .. Work + 3
         /\ Program[i] = "close" <=> i = Work + 4
         /\ Program[i] = "return" <=> i = Work + 5
         /\ Program[i] = "publish" <=> i = Work + 6
         /\ Program[i] = "finish" <=> i = Work + 7
         /\ Program[i] = "spin" <=> i = Spin
<1>1. Work \in Nat \ {0}
  BY PluginAssumption
<1>2. i = 1 \/ i = 2 \/ i = 3 \/ i \in 4 .. Work + 3 \/ i = Work + 4 \/ i = Work + 5
      \/ i = Work + 6 \/ i = Work + 7 \/ i = Spin
  BY <1>1 DEF Spin
<1> QED
  BY <1>1, <1>2, ProgramIs DEF Spin

LEMMA WindowIs == OpenLength = Work + 1
<1>1. Work \in Nat \ {0} /\ 3 \in 1 .. Spin /\ Work + 4 \in 1 .. Spin
  BY PluginAssumption DEF Spin
<1>2. Place("open") = 3 /\ Place("close") = Work + 4
  BY <1>1, ProgramIs, KindIs DEF Place
<1> QED
  BY <1>1, <1>2 DEF OpenLength

LEMMA CampaignsAre ==
  /\ FuzzCampaigns = {"none", "ram-bitflip", "reg-bitflip", "insn-skip"}
  /\ \A mode \in FuzzCampaigns :
       /\ FuzzCampaign[mode].RequiresInjection <=> mode # "none"
       /\ FuzzCampaign[mode].UsesWindowOffset <=> mode \in {"reg-bitflip", "insn-skip"}
<1>1. FuzzCampaigns = {"none", "ram-bitflip", "reg-bitflip", "insn-skip"}
  BY DEF FuzzCampaigns, FuzzCampaign
<1> QED
  BY <1>1 DEF FuzzCampaigns, FuzzCampaign, Campaign

-----------------------------------------------------------------------------
(* The callback *)

LEMMA OffsetsAre ==
  ASSUME trial.bound \in Bounds
  PROVE  Offsets \subseteq Nat \ {0} /\ 1 \in Offsets
<1>1. trial.bound \in Nat /\ Fallback \in Nat \ {0}
  BY PluginAssumption
<1>2. CASE trial.bound # 0
  BY <1>1, <1>2 DEF Offsets
<1>3. CASE trial.bound = 0
  BY <1>1, <1>3 DEF Offsets
<1> QED
  BY <1>2, <1>3

LEMMA OpeningIs ==
  ASSUME NEW stream, NEW s \in PluginState(stream), NEW offset
  PROVE  Opened(s, offset) =
           [s EXCEPT !.active_window = TRUE, !.inject_offset = 0,
                     !.injected = IF trial.mode = "ram-bitflip" /\ trial.target = "ok"
                                  THEN TRUE ELSE FALSE,
                     !.window_insns_seen =
                       IF UsesOffset /\ trial.target # "none" THEN 0 ELSE @,
                     !.inject_after = IF UsesOffset /\ trial.target # "none" THEN offset ELSE @,
                     !.hits = IF trial.mode = "ram-bitflip" /\ trial.target = "ok"
                              THEN @ + 1 ELSE @]
<1>1. trial.mode = "ram-bitflip" => ~UsesOffset
  BY CampaignsAre DEF UsesOffset
<1>2. CASE trial.mode = "ram-bitflip" /\ trial.target = "ok"
  BY <1>1, <1>2 DEF Opened, PluginState
<1>3. CASE ~(trial.mode = "ram-bitflip" /\ trial.target = "ok")
           /\ UsesOffset /\ trial.target # "none"
  BY <1>3 DEF Opened, PluginState
<1>4. CASE ~(trial.mode = "ram-bitflip" /\ trial.target = "ok")
           /\ ~(UsesOffset /\ trial.target # "none")
  BY <1>4 DEF Opened, PluginState
<1> QED
  BY <1>2, <1>3, <1>4

LEMMA InjectionIs ==
  ASSUME NEW stream, NEW s \in PluginState(stream), NEW after \in Nat, after = s.inject_after,
         trial \in Arguments
  PROVE  LET t       == MaybeInject(s)
             pending == UsesOffset /\ ~s.injected /\ trial.target # "none"
             strikes == /\ pending /\ trial.target = "ok"
                        /\ s.window_insns_seen + 1 >= after
         IN  /\ t \in PluginState(t.written)
             /\ t.done = s.done /\ t.seed_written = s.seed_written
             /\ t.instruction_budget_exhausted = s.instruction_budget_exhausted
             /\ t.instructions_executed = s.instructions_executed
             /\ t.active_window = s.active_window
             /\ t.window_insns_total = s.window_insns_total
             /\ t.injected <=> strikes \/ s.injected
             /\ t.inject_offset = IF strikes THEN s.window_insns_seen + 1 ELSE s.inject_offset
             /\ t.window_insns_seen =
                  IF pending THEN s.window_insns_seen + 1 ELSE s.window_insns_seen
             /\ t.inject_after = after
             /\ t.written = IF strikes THEN Append(s.written, Location) ELSE s.written
             /\ t.hits = IF strikes THEN s.hits + 1 ELSE s.hits
<1>1. trial.target \in {"ok", "none", "unreadable"}
  BY DEF Arguments
<1>2. CASE ~(UsesOffset /\ ~s.injected /\ trial.target # "none")
  BY <1>2 DEF MaybeInject, PluginState
<1>3. CASE /\ UsesOffset /\ ~s.injected /\ trial.target # "none"
           /\ ~(trial.target = "ok" /\ s.window_insns_seen + 1 >= after)
  <2>1. MaybeInject(s) = [s EXCEPT !.window_insns_seen = @ + 1]
    BY <1>1, <1>3 DEF MaybeInject, PluginState
  <2> QED
    BY <1>3, <2>1 DEF PluginState
<1>4. CASE /\ UsesOffset /\ ~s.injected /\ trial.target # "none"
           /\ trial.target = "ok" /\ s.window_insns_seen + 1 >= after
  <2>1. MaybeInject(s) =
          [s EXCEPT !.window_insns_seen = @ + 1, !.injected = TRUE,
                    !.inject_offset = s.window_insns_seen + 1,
                    !.written = Append(@, Location), !.hits = @ + 1]
    BY <1>4 DEF MaybeInject, PluginState
  <2>2. PICK t, stream2 :
          t = MaybeInject(s) /\ stream2 = Append(s.written, Location)
    OBVIOUS
  <2>3. t = [s EXCEPT !.window_insns_seen = @ + 1, !.injected = TRUE,
                      !.inject_offset = s.window_insns_seen + 1,
                      !.written = stream2, !.hits = @ + 1]
    BY <2>1, <2>2
  <2>4. t \in PluginState(t.written)
    <3>1. s.window_insns_seen + 1 \in Nat /\ s.hits + 1 \in Nat
      BY DEF PluginState
    <3>2. t \in PluginState(stream2)
      BY <2>3, <3>1 DEF PluginState
    <3>3. t.written = stream2
      BY <2>3 DEF PluginState
    <3> QED
      BY <3>2, <3>3
  <2>5. /\ t.done = s.done /\ t.seed_written = s.seed_written
        /\ t.instruction_budget_exhausted = s.instruction_budget_exhausted
        /\ t.instructions_executed = s.instructions_executed
        /\ t.active_window = s.active_window
        /\ t.window_insns_total = s.window_insns_total
        /\ t.inject_after = after
    BY <2>3 DEF PluginState
  <2>6. /\ t.injected /\ t.inject_offset = s.window_insns_seen + 1
        /\ t.window_insns_seen = s.window_insns_seen + 1
        /\ t.written = stream2 /\ t.hits = s.hits + 1
    BY <2>3 DEF PluginState
  <2> QED
    BY <1>4, <2>2, <2>4, <2>5, <2>6
<1> QED
  BY <1>2, <1>3, <1>4

LEMMA HandlingIs ==
  ASSUME NEW stream, NEW s \in PluginState(stream), NEW offset \in Nat,
         trial \in Arguments, memory.window \in 0 .. 1
  PROVE  Watched(s, HandleFaultWindow(s, offset), offset)
<1>1. trial.mode = "ram-bitflip" => ~UsesOffset
  BY CampaignsAre DEF UsesOffset
<1>2. PICK t : t = HandleFaultWindow(s, offset)
  OBVIOUS
<1>3. CASE memory.window = 0
  <2>1. t = [s EXCEPT !.active_window = FALSE]
    BY <1>2, <1>3 DEF HandleFaultWindow
  <2>2. /\ t \in PluginState(t.written) /\ ~t.active_window
        /\ t.done = s.done /\ t.seed_written = s.seed_written
        /\ t.instruction_budget_exhausted = s.instruction_budget_exhausted
        /\ t.instructions_executed = s.instructions_executed
        /\ t.window_insns_total = s.window_insns_total /\ s.window_insns_total \in Nat
        /\ t.injected = s.injected /\ t.inject_offset = s.inject_offset
        /\ t.window_insns_seen = s.window_insns_seen /\ t.inject_after = s.inject_after
        /\ t.written = s.written /\ t.hits = s.hits
    BY <2>1 DEF PluginState
  <2>3. ~Opening(s) /\ ~RamHit(s) /\ ~Aims(s) /\ ~Pending(s) /\ ~Strikes(s, offset)
        /\ After(s, offset) = s.inject_after
    BY <1>3 DEF Opening, RamHit, Aims, Pending, Strikes, After
  <2> QED
    BY <1>2, <1>3, <2>2, <2>3 DEF Watched
<1>4. CASE memory.window = 1
  <2>1. PICK open : open = IF s.active_window THEN s ELSE Opened(s, offset)
    OBVIOUS
  <2>2. PICK ready : ready = [open EXCEPT !.window_insns_total = @ + 1]
    OBVIOUS
  <2>3. t = MaybeInject(ready)
    BY <1>2, <1>4, <2>1, <2>2 DEF HandleFaultWindow
  <2>4. /\ Opening(s) <=> ~s.active_window
        /\ RamHit(s) <=> Opening(s) /\ trial.mode = "ram-bitflip" /\ trial.target = "ok"
        /\ Aims(s) <=> Opening(s) /\ UsesOffset /\ trial.target # "none"
    BY <1>4 DEF Opening, RamHit, Aims
  <2>5. /\ open \in PluginState(stream)
        /\ open.done = s.done /\ open.seed_written = s.seed_written
        /\ open.instruction_budget_exhausted = s.instruction_budget_exhausted
        /\ open.instructions_executed = s.instructions_executed
        /\ open.active_window
        /\ open.window_insns_total = s.window_insns_total
        /\ open.written = s.written
        /\ open.injected <=> RamHit(s) \/ (~Opening(s) /\ s.injected)
        /\ open.inject_offset = IF Opening(s) THEN 0 ELSE s.inject_offset
        /\ open.window_insns_seen = IF Aims(s) THEN 0 ELSE s.window_insns_seen
        /\ open.inject_after = After(s, offset)
        /\ open.hits = IF RamHit(s) THEN s.hits + 1 ELSE s.hits
    <3>1. CASE s.active_window
      BY <2>1, <2>4, <3>1 DEF After, PluginState
    <3>2. CASE ~s.active_window
      <4>1. open = [s EXCEPT !.active_window = TRUE, !.inject_offset = 0,
                     !.injected = IF RamHit(s) THEN TRUE ELSE FALSE,
                     !.window_insns_seen = IF Aims(s) THEN 0 ELSE @,
                     !.inject_after = IF Aims(s) THEN offset ELSE @,
                     !.hits = IF RamHit(s) THEN @ + 1 ELSE @]
        BY <2>1, <2>4, <3>2, OpeningIs
      <4>2. open \in PluginState(stream)
        <5>1. PICK strikes, seen, after, hits :
                /\ strikes = IF RamHit(s) THEN TRUE ELSE FALSE
                /\ seen = IF Aims(s) THEN 0 ELSE s.window_insns_seen
                /\ after = IF Aims(s) THEN offset ELSE s.inject_after
                /\ hits = IF RamHit(s) THEN s.hits + 1 ELSE s.hits
          OBVIOUS
        <5>2. seen \in Nat /\ after \in Nat /\ hits \in Nat
          BY <5>1 DEF PluginState
        <5>3. strikes \in BOOLEAN
          BY <5>1
        <5>4. open = [s EXCEPT !.active_window = TRUE, !.inject_offset = 0, !.injected = strikes,
                       !.window_insns_seen = seen, !.inject_after = after, !.hits = hits]
          BY <4>1, <5>1 DEF PluginState
        <5> QED
          BY <5>2, <5>3, <5>4 DEF PluginState
      <4>3. open.injected <=> RamHit(s)
        BY <4>1 DEF PluginState
      <4>4. /\ open.done = s.done /\ open.seed_written = s.seed_written
            /\ open.instruction_budget_exhausted = s.instruction_budget_exhausted
            /\ open.instructions_executed = s.instructions_executed
            /\ open.active_window
            /\ open.window_insns_total = s.window_insns_total
            /\ open.written = s.written
            /\ open.inject_offset = 0
            /\ open.window_insns_seen = IF Aims(s) THEN 0 ELSE s.window_insns_seen
            /\ open.inject_after = After(s, offset)
            /\ open.hits = IF RamHit(s) THEN s.hits + 1 ELSE s.hits
        BY <4>1 DEF After, PluginState
      <4>5. open.injected <=> RamHit(s) \/ (~Opening(s) /\ s.injected)
        BY <2>4, <3>2, <4>3
      <4> QED
        BY <2>4, <3>2, <4>2, <4>4, <4>5
    <3> QED
      BY <3>1, <3>2
  <2>6. /\ ready \in PluginState(stream)
        /\ ready.done = s.done /\ ready.seed_written = s.seed_written
        /\ ready.instruction_budget_exhausted = s.instruction_budget_exhausted
        /\ ready.instructions_executed = s.instructions_executed
        /\ ready.active_window
        /\ ready.window_insns_total = s.window_insns_total + 1
        /\ ready.written = s.written
        /\ ready.injected <=> RamHit(s) \/ (~Opening(s) /\ s.injected)
        /\ ready.inject_offset = IF Opening(s) THEN 0 ELSE s.inject_offset
        /\ ready.window_insns_seen = IF Aims(s) THEN 0 ELSE s.window_insns_seen
        /\ ready.inject_after = After(s, offset) /\ After(s, offset) \in Nat
        /\ ready.hits = IF RamHit(s) THEN s.hits + 1 ELSE s.hits
    BY <2>2, <2>5 DEF PluginState
  <2>7. /\ UsesOffset /\ ~ready.injected /\ trial.target # "none" <=> Pending(s)
        /\ Seen(s) = ready.window_insns_seen + 1
        /\ /\ UsesOffset /\ ~ready.injected /\ trial.target # "none" /\ trial.target = "ok"
           /\ ready.window_insns_seen + 1 >= After(s, offset)
           <=> Strikes(s, offset)
    <3>1. UsesOffset /\ ~ready.injected /\ trial.target # "none" <=> Pending(s)
      BY <1>1, <1>4, <2>4, <2>6 DEF Pending
    <3>2. Seen(s) = ready.window_insns_seen + 1
      BY <2>6 DEF Seen
    <3> QED
      BY <3>1, <3>2 DEF Strikes
  <2>8. ~(RamHit(s) /\ Strikes(s, offset))
    BY <1>1 DEF RamHit, Strikes, Pending
  <2>9. Pending(s) => Aims(s) \/ ~Opening(s)
    BY DEF Pending, Aims
  <2>10. /\ t \in PluginState(t.written)
         /\ t.done = ready.done /\ t.seed_written = ready.seed_written
         /\ t.instruction_budget_exhausted = ready.instruction_budget_exhausted
         /\ t.instructions_executed = ready.instructions_executed
         /\ t.active_window = ready.active_window
         /\ t.window_insns_total = ready.window_insns_total
         /\ t.injected <=> Strikes(s, offset) \/ ready.injected
         /\ t.inject_offset = IF Strikes(s, offset) THEN Seen(s) ELSE ready.inject_offset
         /\ t.window_insns_seen = IF Pending(s) THEN Seen(s) ELSE ready.window_insns_seen
         /\ t.inject_after = After(s, offset)
         /\ t.written = IF Strikes(s, offset) THEN Append(ready.written, Location)
                                              ELSE ready.written
         /\ t.hits = IF Strikes(s, offset) THEN ready.hits + 1 ELSE ready.hits
    BY <2>3, <2>6, <2>7, InjectionIs
  <2>11. Aims(s) => Pending(s)
    BY <1>4 DEF Aims, Pending
  <2>12. t.window_insns_seen = IF Pending(s) THEN Seen(s) ELSE s.window_insns_seen
    BY <2>6, <2>10, <2>11
  <2>13. t.hits = IF RamHit(s) \/ Strikes(s, offset) THEN s.hits + 1 ELSE s.hits
    BY <2>6, <2>8, <2>10
  <2>14. t.injected <=> RamHit(s) \/ Strikes(s, offset) \/ (~Opening(s) /\ s.injected)
    <3>1. t.injected <=> Strikes(s, offset) \/ ready.injected
      BY <2>10
    <3>2. ready.injected <=> RamHit(s) \/ (~Opening(s) /\ s.injected)
      BY <2>6
    <3> QED
      BY <3>1, <3>2
  <2>15. /\ t.done = s.done /\ t.seed_written = s.seed_written
         /\ t.instruction_budget_exhausted = s.instruction_budget_exhausted
         /\ t.instructions_executed = s.instructions_executed
         /\ t.active_window <=> memory.window = 1
         /\ t.window_insns_total = s.window_insns_total + memory.window
    BY <1>4, <2>6, <2>10
  <2>16. /\ t.inject_offset = IF Strikes(s, offset) THEN Seen(s)
                              ELSE IF Opening(s) THEN 0 ELSE s.inject_offset
         /\ t.written = IF Strikes(s, offset) THEN Append(s.written, Location) ELSE s.written
    BY <2>6, <2>10
  <2>17. Watched(s, t, offset)
    BY <2>10, <2>12, <2>13, <2>14, <2>15, <2>16 DEF Watched
  <2> QED
    BY <1>2, <2>17
<1> QED
  BY <1>3, <1>4

(* What the callback of one instruction does while the trial runs; facts   *)
(* and finish are what it finds in the image.                              *)
Over == trial.budget # 0 /\ g.instructions_executed + 1 > trial.budget

Hits(offset) == ~Over /\ (RamHit(g) \/ Strikes(g, offset))

Streamed(offset) ==
  IF ~Over /\ Strikes(g, offset) THEN Append(g.written, Location) ELSE g.written

Called(offset, told, finish) ==
  /\ g' \in PluginState(g'.written)
  /\ g'.instructions_executed = g.instructions_executed + 1
  /\ g'.seed_written <=> g.seed_written \/ Program[at] = "main"
  /\ g'.instruction_budget_exhausted <=> Over \/ g.instruction_budget_exhausted
  /\ g'.done <=> Over \/ memory.done = 1
  /\ g'.active_window <=> IF Over THEN g.active_window ELSE memory.window = 1
  /\ g'.window_insns_total = IF Over THEN g.window_insns_total
                                     ELSE g.window_insns_total + memory.window
  /\ g'.injected <=> Hits(offset) \/ (g.injected /\ (Over \/ ~Opening(g)))
  /\ ~Over /\ Strikes(g, offset) => g'.inject_offset = Seen(g)
  /\ g'.window_insns_seen = IF ~Over /\ Pending(g) THEN Seen(g) ELSE g.window_insns_seen
  /\ g'.inject_after = IF Over THEN g.inject_after ELSE After(g, offset)
  /\ g'.written = Streamed(offset) \o
                    IF g'.done THEN WrittenRecord(RecordOf(told, finish)') ELSE <<>>
  /\ g'.hits = IF Hits(offset) THEN g.hits + 1 ELSE g.hits

LEMMA CountedIs ==
  ASSUME PluginTypes, NEW s,
         s = [g EXCEPT !.instructions_executed = @ + 1,
                       !.seed_written = @ \/ EnsureSeedWritten(g)]
  PROVE  /\ s \in PluginState(g.written)
         /\ s.done = g.done
         /\ s.seed_written <=> g.seed_written \/ Program[at] = "main"
         /\ s.instruction_budget_exhausted = g.instruction_budget_exhausted
         /\ s.active_window = g.active_window
         /\ s.instructions_executed = g.instructions_executed + 1
         /\ s.window_insns_seen = g.window_insns_seen
         /\ s.window_insns_total = g.window_insns_total
         /\ s.inject_after = g.inject_after
         /\ s.injected = g.injected
         /\ s.inject_offset = g.inject_offset
         /\ s.written = g.written
         /\ s.hits = g.hits
<1>1. PICK seeded : seeded = (g.seed_written \/ EnsureSeedWritten(g))
  OBVIOUS
<1>2. seeded \in BOOLEAN
  BY <1>1
<1>3. s = [g EXCEPT !.instructions_executed = @ + 1, !.seed_written = seeded]
  BY <1>1 DEF PluginTypes, PluginState
<1>4. seeded <=> g.seed_written \/ Program[at] = "main"
  BY <1>1 DEF EnsureSeedWritten
<1>5. g \in PluginState(g.written)
  BY DEF PluginTypes
<1>6. s \in PluginState(g.written) /\ s.seed_written = seeded
  <2>1. PICK stream, count : stream = g.written /\ count = g.instructions_executed + 1
    OBVIOUS
  <2>2. count \in Nat
    BY <1>5, <2>1 DEF PluginState
  <2>3. s = [g EXCEPT !.instructions_executed = count, !.seed_written = seeded]
    BY <1>3, <1>5, <2>1 DEF PluginState
  <2>4. g \in PluginState(stream)
    BY <1>5, <2>1
  <2>5. s \in PluginState(stream) /\ s.seed_written = seeded
    BY <1>2, <2>2, <2>3, <2>4 DEF PluginState
  <2> QED
    BY <2>1, <2>5
<1>7. /\ s.done = g.done
      /\ s.instruction_budget_exhausted = g.instruction_budget_exhausted
      /\ s.active_window = g.active_window
      /\ s.instructions_executed = g.instructions_executed + 1
      /\ s.window_insns_seen = g.window_insns_seen
      /\ s.window_insns_total = g.window_insns_total
      /\ s.inject_after = g.inject_after
      /\ s.injected = g.injected
      /\ s.inject_offset = g.inject_offset
      /\ s.written = g.written
      /\ s.hits = g.hits
  BY <1>3, <1>5 DEF PluginState
<1> QED
  BY <1>4, <1>6, <1>7

LEMMA WritingIs ==
  ASSUME NEW s, NEW stream, s \in PluginState(stream), NEW t, t = WriteRawResult(s)
  PROVE  /\ t \in PluginState(t.written) /\ t.done
         /\ t.seed_written = s.seed_written
         /\ t.instruction_budget_exhausted = s.instruction_budget_exhausted
         /\ t.active_window = s.active_window
         /\ t.instructions_executed = s.instructions_executed
         /\ t.window_insns_seen = s.window_insns_seen
         /\ t.window_insns_total = s.window_insns_total
         /\ t.inject_after = s.inject_after
         /\ t.injected = s.injected
         /\ t.inject_offset = s.inject_offset
         /\ t.hits = s.hits
         /\ t.written = s.written \o WrittenRecord(RawResult(s))
<1>1. PICK after : after = s.written \o WrittenRecord(RawResult(s))
  OBVIOUS
<1>2. t = [s EXCEPT !.done = TRUE, !.written = after]
  BY <1>1 DEF WriteRawResult
<1>3. t \in PluginState(after) /\ t.written = after /\ t.done
  BY <1>2 DEF PluginState
<1>4. /\ t.seed_written = s.seed_written
      /\ t.instruction_budget_exhausted = s.instruction_budget_exhausted
      /\ t.active_window = s.active_window
      /\ t.instructions_executed = s.instructions_executed
      /\ t.window_insns_seen = s.window_insns_seen
      /\ t.window_insns_total = s.window_insns_total
      /\ t.inject_after = s.inject_after
      /\ t.injected = s.injected
      /\ t.inject_offset = s.inject_offset
      /\ t.hits = s.hits
  BY <1>2 DEF PluginState
<1> QED
  BY <1>1, <1>3, <1>4

LEMMA CallBackIs ==
  ASSUME PluginTypes, ~g.done, NEW told, NEW finish,
         told = memory.facts, finish = memory.done,
         NEW offset \in Offsets, g' = OnInstruction(offset)
  PROVE  Called(offset, told, finish)
<1>1. PICK s : s = [g EXCEPT !.instructions_executed = @ + 1,
                             !.seed_written = @ \/ EnsureSeedWritten(g)]
  OBVIOUS
<1>2. /\ s \in PluginState(g.written)
      /\ s.done = g.done
      /\ s.seed_written <=> g.seed_written \/ Program[at] = "main"
      /\ s.instruction_budget_exhausted = g.instruction_budget_exhausted
      /\ s.active_window = g.active_window
      /\ s.instructions_executed = g.instructions_executed + 1
      /\ s.window_insns_seen = g.window_insns_seen
      /\ s.window_insns_total = g.window_insns_total
      /\ s.inject_after = g.inject_after
      /\ s.injected = g.injected
      /\ s.inject_offset = g.inject_offset
      /\ s.written = g.written
      /\ s.hits = g.hits
  BY <1>1, CountedIs
<1>3. OutOfBudget(s) <=> Over
  BY <1>2 DEF OutOfBudget, Over
<1>4. /\ trial \in Arguments /\ memory.window \in 0 .. 1 /\ memory.done \in 0 .. 1
      /\ g \in PluginState(g.written) /\ trial.bound \in Bounds
  BY DEF PluginTypes, Image, Arguments
<1>5. offset \in Nat
  BY <1>4, OffsetsAre
<1>6. CASE Over
  <2>1. PICK t : t = [s EXCEPT !.instruction_budget_exhausted = TRUE]
    OBVIOUS
  <2>2. g' = WriteRawResult(t)
    BY <1>1, <1>3, <1>6, <2>1 DEF OnInstruction
  <2>3. /\ t \in PluginState(g.written) /\ t.instruction_budget_exhausted
        /\ t.seed_written = s.seed_written
        /\ t.active_window = g.active_window
        /\ t.instructions_executed = s.instructions_executed
        /\ t.window_insns_seen = g.window_insns_seen
        /\ t.window_insns_total = g.window_insns_total
        /\ t.inject_after = g.inject_after
        /\ t.injected = g.injected
        /\ t.inject_offset = g.inject_offset
        /\ t.written = g.written
        /\ t.hits = g.hits
    BY <1>2, <2>1 DEF PluginState
  <2>4. /\ g' \in PluginState(g'.written) /\ g'.done
        /\ g'.seed_written = t.seed_written
        /\ g'.instruction_budget_exhausted = t.instruction_budget_exhausted
        /\ g'.active_window = t.active_window
        /\ g'.instructions_executed = t.instructions_executed
        /\ g'.window_insns_seen = t.window_insns_seen
        /\ g'.window_insns_total = t.window_insns_total
        /\ g'.inject_after = t.inject_after
        /\ g'.injected = t.injected
        /\ g'.inject_offset = t.inject_offset
        /\ g'.hits = t.hits
        /\ g'.written = t.written \o WrittenRecord(RawResult(t))
    BY <2>2, <2>3, WritingIs
  <2>5. RawResult(t) = RecordOf(told, finish)'
    BY <2>4 DEF RawResult, RecordOf, AsInt
  <2>6. ~Hits(offset) /\ Streamed(offset) = g.written
    BY <1>6 DEF Hits, Streamed
  <2> QED
    BY <1>2, <1>6, <2>3, <2>4, <2>5, <2>6 DEF Called
<1>7. CASE ~Over
  <2>1. PICK t : t = HandleFaultWindow(s, offset)
    OBVIOUS
  <2>2. Watched(s, t, offset)
    BY <1>2, <1>4, <1>5, <2>1, HandlingIs
  <2>3. /\ Opening(s) <=> Opening(g)
        /\ RamHit(s) <=> RamHit(g)
        /\ Aims(s) <=> Aims(g)
        /\ Pending(s) <=> Pending(g)
        /\ Seen(s) = Seen(g)
        /\ After(s, offset) = After(g, offset)
        /\ Strikes(s, offset) <=> Strikes(g, offset)
    BY <1>2 DEF Opening, RamHit, Aims, Pending, Seen, After, Strikes
  <2>4. /\ t \in PluginState(t.written)
        /\ t.done = g.done /\ t.seed_written = s.seed_written
        /\ t.instruction_budget_exhausted = g.instruction_budget_exhausted
        /\ t.instructions_executed = g.instructions_executed + 1
        /\ t.active_window <=> memory.window = 1
        /\ t.window_insns_total = g.window_insns_total + memory.window
        /\ t.injected <=> Hits(offset) \/ (~Opening(g) /\ g.injected)
        /\ Strikes(g, offset) => t.inject_offset = Seen(g)
        /\ t.window_insns_seen = IF Pending(g) THEN Seen(g) ELSE g.window_insns_seen
        /\ t.inject_after = After(g, offset)
        /\ t.written = Streamed(offset)
        /\ t.hits = IF Hits(offset) THEN g.hits + 1 ELSE g.hits
    <3>1. /\ Hits(offset) <=> RamHit(s) \/ Strikes(s, offset)
          /\ Streamed(offset) = IF Strikes(s, offset) THEN Append(s.written, Location)
                                                     ELSE s.written
      BY <1>2, <1>7, <2>3 DEF Hits, Streamed
    <3>2. /\ t \in PluginState(t.written)
          /\ t.done = g.done /\ t.seed_written = s.seed_written
          /\ t.instruction_budget_exhausted = g.instruction_budget_exhausted
          /\ t.instructions_executed = g.instructions_executed + 1
          /\ t.active_window <=> memory.window = 1
          /\ t.window_insns_total = g.window_insns_total + memory.window
      BY <1>2, <2>2 DEF Watched
    <3>3. t.injected <=> Hits(offset) \/ (~Opening(g) /\ g.injected)
      BY <1>2, <2>2, <2>3, <3>1 DEF Watched
    <3>4. /\ Strikes(g, offset) => t.inject_offset = Seen(g)
          /\ t.window_insns_seen = IF Pending(g) THEN Seen(g) ELSE g.window_insns_seen
          /\ t.inject_after = After(g, offset)
          /\ t.written = Streamed(offset)
          /\ t.hits = IF Hits(offset) THEN g.hits + 1 ELSE g.hits
      BY <1>2, <2>2, <2>3, <3>1 DEF Watched
    <3> QED
      BY <3>2, <3>3, <3>4
  <2>5. CASE memory.done = 1
    <3>1. g' = WriteRawResult(t)
      BY <1>1, <1>3, <1>7, <2>1, <2>5 DEF OnInstruction
    <3>2. /\ g' \in PluginState(g'.written) /\ g'.done
          /\ g'.seed_written = t.seed_written
          /\ g'.instruction_budget_exhausted = t.instruction_budget_exhausted
          /\ g'.active_window = t.active_window
          /\ g'.instructions_executed = t.instructions_executed
          /\ g'.window_insns_seen = t.window_insns_seen
          /\ g'.window_insns_total = t.window_insns_total
          /\ g'.inject_after = t.inject_after
          /\ g'.injected = t.injected
          /\ g'.inject_offset = t.inject_offset
          /\ g'.hits = t.hits
          /\ g'.written = t.written \o WrittenRecord(RawResult(t))
      BY <2>4, <3>1, WritingIs
    <3>3. RawResult(t) = RecordOf(told, finish)'
      BY <3>2 DEF RawResult, RecordOf, AsInt
    <3> QED
      BY <1>2, <1>7, <2>4, <2>5, <3>2, <3>3 DEF Called
  <2>6. CASE memory.done # 1
    <3>1. g' = t
      BY <1>1, <1>3, <1>7, <2>1, <2>6 DEF OnInstruction
    <3>2. g'.written = Streamed(offset) \o <<>>
      <4>1. Streamed(offset) = Streamed(offset) \o <<>>
        OBVIOUS
      <4> QED
        BY <2>4, <3>1, <4>1
    <3> QED
      BY <1>2, <1>7, <2>4, <2>6, <3>1, <3>2 DEF Called
  <2> QED
    BY <2>5, <2>6
<1> QED
  BY <1>6, <1>7

LEMMA RestsOrCalls ==
  ASSUME PluginTypes, CallBack
  PROVE  /\ at \in 1 .. Spin /\ trial' = trial
         /\ g.done => g' = g /\ openings' = openings /\ landed' = landed
         /\ ~g.done =>
              \E offset \in Offsets, told \in Told, finish \in 0 .. 1 :
                /\ told = memory.facts /\ finish = memory.done
                /\ Called(offset, told, finish)
                /\ openings' = IF ~Over /\ Opening(g) THEN openings + 1 ELSE openings
                /\ landed' = IF Hits(offset)
                             THEN Append(landed, [opening |-> openings',
                                                  offset |-> g'.inject_offset, window |-> 1])
                             ELSE landed
<1>1. at \in 1 .. Spin /\ trial' = trial
  BY PluginAssumption DEF PluginTypes, CallBack, Outside, Spin
<1>2. ASSUME g.done PROVE g' = g /\ openings' = openings /\ landed' = landed
  BY <1>2 DEF CallBack, OnInstruction, Opens, Lands
<1>3. ASSUME ~g.done
      PROVE  \E offset \in Offsets, told \in Told, finish \in 0 .. 1 :
                /\ told = memory.facts /\ finish = memory.done
                /\ Called(offset, told, finish)
                /\ openings' = IF ~Over /\ Opening(g) THEN openings + 1 ELSE openings
                /\ landed' = IF Hits(offset)
                             THEN Append(landed, [opening |-> openings',
                                                  offset |-> g'.inject_offset, window |-> 1])
                             ELSE landed
  <2>1. PICK offset \in Offsets : g' = OnInstruction(offset)
    BY DEF CallBack
  <2>2. PICK told \in Told, finish \in 0 .. 1 : told = memory.facts /\ finish = memory.done
    BY DEF PluginTypes, Image
  <2>3. Called(offset, told, finish)
    BY <1>3, <2>1, <2>2, CallBackIs
  <2>4. g.hits \in Nat /\ g.active_window \in BOOLEAN
    BY DEF PluginTypes, PluginState
  <2>5. Opens <=> ~Over /\ Opening(g)
    BY <2>3 DEF Opens, Called, Opening
  <2>6. Lands <=> Hits(offset)
    BY <2>3, <2>4 DEF Lands, Called
  <2>7. Hits(offset) => memory.window = 1
    BY DEF Hits, RamHit, Opening, Strikes, Pending
  <2>8. /\ openings' = IF Opens THEN openings + 1 ELSE openings
        /\ landed' = IF Lands
                     THEN Append(landed, [opening |-> openings', offset |-> g'.inject_offset,
                                          window |-> memory.window])
                     ELSE landed
    BY DEF CallBack
  <2>9. landed' = IF Hits(offset)
                  THEN Append(landed, [opening |-> openings', offset |-> g'.inject_offset,
                                       window |-> 1])
                  ELSE landed
    BY <2>6, <2>7, <2>8
  <2> QED
    BY <2>2, <2>3, <2>5, <2>8, <2>9
<1> QED
  BY <1>1, <1>2, <1>3

-----------------------------------------------------------------------------
(* The image *)

LEMMA FactsAreTold ==
  /\ Clean \in Told /\ Publications \subseteq Told /\ Zeroed.facts \in Told
  /\ \A f \in Told :
       /\ f.harness_detected \in 0 .. 1 /\ f.harness_corrected \in 0 .. 1
       /\ f.harness_safe_state \in 0 .. 1 /\ f.harness_output \in 0 .. 1
  BY DEF Told, Publications, Clean, Published, Zeroed

LEMMA SeededIs ==
  ASSUME PluginTypes, at \in 1 .. Spin
  PROVE  /\ Seeded \in Image
         /\ Seeded.window = memory.window /\ Seeded.done = memory.done
         /\ Seeded.used = memory.used /\ Seeded.facts = memory.facts
         /\ ~g.done /\ ~g.seed_written /\ at = 2 => Seeded.seed = "trial"
<1>1. memory \in Image
  BY DEF PluginTypes
<1>2. CASE ~g.done /\ EnsureSeedWritten(g)
  <2>1. Seeded = [memory EXCEPT !.seed = "trial"]
    BY <1>2 DEF Seeded
  <2> QED
    BY <1>1, <2>1 DEF Image
<1>3. CASE ~(~g.done /\ EnsureSeedWritten(g))
  <2>1. Seeded = memory
    BY <1>3 DEF Seeded
  <2>2. ~(~g.done /\ ~g.seed_written /\ at = 2)
    BY <1>3, KindIs DEF EnsureSeedWritten
  <2> QED
    BY <1>1, <2>1, <2>2
<1> QED
  BY <1>2, <1>3

(* What an instruction does to the image's globals: m is the image as the  *)
(* callback left it.                                                       *)
Executed(m) ==
  /\ memory' \in Image
  /\ memory'.window = CASE at = 1 -> 0 [] at = 3 -> 1 [] at = Work + 4 -> 0
                        [] OTHER -> m.window
  /\ memory'.done = CASE at = 1 -> 0 [] at = Work + 7 -> 1 [] OTHER -> m.done
  /\ memory'.used = CASE at = 1 -> "none" [] at = 2 -> m.seed [] OTHER -> m.used
  /\ at = Work + 6 => (landed' = <<>> => memory'.facts = Clean)
  /\ at \notin {1, Work + 6} => memory'.facts = m.facts

LEMMA ExecutionIs ==
  ASSUME at \in 1 .. Spin, NEW m \in Image, memory' \in Execute(Program[at], m)
  PROVE  Executed(m)
<1>1. Work \in Nat \ {0}
  BY PluginAssumption
<1>2. CASE at = 1
  <2>1. memory' = Zeroed
    BY <1>2, KindIs DEF Execute
  <2> QED
    BY <1>1, <1>2, <2>1, FactsAreTold DEF Zeroed, Image, Executed
<1>3. CASE at = 2
  <2>1. memory' = [m EXCEPT !.used = m.seed]
    BY <1>3, KindIs DEF Execute
  <2> QED
    BY <1>1, <1>3, <2>1 DEF Image, Executed
<1>4. CASE at = 3
  <2>1. memory' = [m EXCEPT !.window = 1]
    BY <1>4, KindIs DEF Execute
  <2> QED
    BY <1>1, <1>4, <2>1 DEF Image, Executed
<1>5. CASE at = Work + 4
  <2>1. memory' = [m EXCEPT !.window = 0]
    <3>1. at # 1 /\ at # 2 /\ at # 3
      BY <1>1, <1>5
    <3> QED
      BY <1>5, <3>1, KindIs DEF Execute
  <2> QED
    BY <1>1, <1>5, <2>1 DEF Image, Executed
<1>6. CASE at = Work + 6
  <2>1. PICK f \in IF landed' = <<>> THEN {Clean} ELSE Publications :
          memory' = [m EXCEPT !.facts = f]
    <3>1. at # 1 /\ at # 2 /\ at # 3 /\ at # Work + 4
      BY <1>1, <1>6
    <3> QED
      BY <1>6, <3>1, KindIs DEF Execute
  <2>2. f \in Told
    BY <2>1, FactsAreTold
  <2> QED
    BY <1>1, <1>6, <2>1, <2>2 DEF Image, Executed
<1>7. CASE at = Work + 7
  <2>1. memory' = [m EXCEPT !.done = 1]
    <3>1. at # 1 /\ at # 2 /\ at # 3 /\ at # Work + 4 /\ at # Work + 6
      BY <1>1, <1>7
    <3> QED
      BY <1>7, <3>1, KindIs DEF Execute
  <2> QED
    BY <1>1, <1>7, <2>1 DEF Image, Executed
<1>8. CASE at \notin {1, 2, 3, Work + 4, Work + 6, Work + 7}
  <2>1. memory' = m
    BY <1>8, KindIs DEF Execute
  <2> QED
    BY <1>8, <2>1 DEF Executed
<1> QED
  BY <1>2, <1>3, <1>4, <1>5, <1>6, <1>7, <1>8

LEMMA SuccessorIs ==
  ASSUME at \in 1 .. Spin
  PROVE  /\ at = Spin => Successor = Spin
         /\ at # Spin => Successor = at + 1
         /\ Successor \in 1 .. Spin
  BY PluginAssumption, KindIs DEF Successor, Spin

-----------------------------------------------------------------------------
(* A step *)

Keeps(m) == IF Skipped THEN memory' = m ELSE Executed(m)

Follows(m) == Keeps(m) /\ at' = Successor /\ diversions' = diversions

Strays(m) ==
  /\ landed' # <<>> /\ at \in 4 .. Work + 5
  /\ memory' = m /\ at' \in 0 .. Spin /\ diversions' = diversions + 1

LEMMA StepIs ==
  ASSUME PluginTypes, PluginNext
  PROVE  /\ CallBack /\ at \in 1 .. Spin
         /\ finished' = IF at = Work + 7 THEN g'.instructions_executed ELSE finished
         /\ \E m \in Image :
              /\ m.window = memory.window /\ m.done = memory.done
              /\ m.used = memory.used /\ m.facts = memory.facts
              /\ ~g.done /\ ~g.seed_written /\ at = 2 => m.seed = "trial"
              /\ Follows(m) \/ Strays(m)
<1>1. CallBack
  BY DEF PluginNext, Instruction, Diverted
<1>2. at \in 1 .. Spin
  BY <1>1, RestsOrCalls
<1>3. finished' = IF at = Work + 7 THEN g'.instructions_executed ELSE finished
  BY <1>1, <1>2, KindIs DEF CallBack
<1>4. PICK m \in Image :
        /\ m = Seeded /\ m.window = memory.window /\ m.done = memory.done
        /\ m.used = memory.used /\ m.facts = memory.facts
        /\ ~g.done /\ ~g.seed_written /\ at = 2 => m.seed = "trial"
  BY <1>2, SeededIs
<1>5. CASE Instruction
  <2>1. at' = Successor /\ diversions' = diversions
    BY <1>5 DEF Instruction
  <2>2. Keeps(m)
    <3>1. CASE Skipped
      BY <1>4, <1>5, <3>1 DEF Instruction, Keeps
    <3>2. CASE ~Skipped
      <4>1. memory' \in Execute(Program[at], m)
        BY <1>4, <1>5, <3>2 DEF Instruction
      <4> QED
        BY <1>2, <3>2, <4>1, ExecutionIs DEF Keeps
    <3> QED
      BY <3>1, <3>2
  <2> QED
    BY <1>1, <1>2, <1>3, <1>4, <2>1, <2>2 DEF Follows
<1>6. CASE Diverted
  <2>1. Work \in Nat
    BY PluginAssumption
  <2>2. at \in 4 .. Work + 5
    BY <1>2, <1>6, <2>1, KindIs DEF Diverted
  <2>3. at' \in 0 .. Spin
    BY <1>6, <2>1, ProgramIs DEF Diverted, Outside, Spin
  <2> QED
    BY <1>1, <1>2, <1>3, <1>4, <1>6, <2>2, <2>3 DEF Diverted, Strays
<1> QED
  BY <1>5, <1>6 DEF PluginNext

LEMMA SkippedIs ==
  ASSUME PluginTypes, CallBack, Skipped
  PROVE  ~g.done /\ memory.window = 1 /\ landed' # <<>>
<1>1. Lands /\ g.hits # g'.hits
  BY DEF Skipped, Lands
<1>2. ~g.done
  BY <1>1, RestsOrCalls
<1>3. PICK offset \in Offsets, told \in Told, finish \in 0 .. 1 :
        /\ Called(offset, told, finish)
        /\ landed' = IF Hits(offset)
                     THEN Append(landed, [opening |-> openings', offset |-> g'.inject_offset,
                                          window |-> 1])
                     ELSE landed
  BY <1>2, RestsOrCalls
<1>4. Hits(offset)
  BY <1>1, <1>3 DEF Called
<1>5. memory.window = 1
  BY <1>4 DEF Hits, RamHit, Opening, Strikes, Pending
<1>6. landed' # <<>>
  <2>1. PICK fault : landed' = Append(landed, fault)
    BY <1>3, <1>4
  <2>2. landed \in Seq(Landing)
    BY DEF PluginTypes
  <2> QED
    BY <2>1, <2>2
<1> QED
  BY <1>2, <1>5, <1>6

LEMMA TypesKeep == ASSUME PluginTypes, PluginNext PROVE PluginTypes'
<1>1. /\ CallBack /\ at \in 1 .. Spin
      /\ finished' = IF at = Work + 7 THEN g'.instructions_executed ELSE finished
  BY StepIs
<1>2. PICK m \in Image : Follows(m) \/ Strays(m)
  BY StepIs
<1>3. memory' \in Image
  BY <1>2 DEF Follows, Strays, Keeps, Executed
<1>4. at' \in 0 .. Spin
  BY <1>1, <1>2, SuccessorIs DEF Follows, Strays, Spin
<1>5. diversions' \in Nat
  BY <1>2 DEF Follows, Strays, PluginTypes
<1>6. /\ trial' \in Arguments /\ g' \in PluginState(g'.written)
      /\ openings' \in Nat /\ landed' \in Seq(Landing)
  <2>1. trial' \in Arguments
    BY <1>1, RestsOrCalls DEF PluginTypes
  <2>2. CASE g.done
    BY <1>1, <2>1, <2>2, RestsOrCalls DEF PluginTypes
  <2>3. CASE ~g.done
    <3>1. PICK offset \in Offsets, told \in Told, finish \in 0 .. 1 :
            /\ Called(offset, told, finish)
            /\ openings' = IF ~Over /\ Opening(g) THEN openings + 1 ELSE openings
            /\ landed' = IF Hits(offset)
                         THEN Append(landed, [opening |-> openings',
                                              offset |-> g'.inject_offset, window |-> 1])
                         ELSE landed
      BY <1>1, <2>3, RestsOrCalls
    <3>2. g' \in PluginState(g'.written) /\ g'.inject_offset \in Nat
      BY <3>1 DEF Called, PluginState
    <3>3. openings' \in Nat
      BY <3>1 DEF PluginTypes
    <3>4. PICK fault : fault = [opening |-> openings', offset |-> g'.inject_offset, window |-> 1]
      OBVIOUS
    <3>5. fault \in Landing
      BY <3>2, <3>3, <3>4 DEF Landing
    <3>6. landed' \in Seq(Landing)
      BY <3>1, <3>4, <3>5 DEF PluginTypes
    <3> QED
      BY <2>1, <3>2, <3>3, <3>6
  <2> QED
    BY <2>2, <2>3
<1>7. finished' \in Nat
  BY <1>1, <1>6 DEF PluginTypes, PluginState
<1> QED
  BY <1>3, <1>4, <1>5, <1>6, <1>7 DEF PluginTypes, Image, Arguments

LEMMA CountersKeep ==
  ASSUME PluginTypes, CountersAgree, PluginNext
  PROVE  CountersAgree'
<1>1. CallBack /\ trial' = trial
  BY StepIs, RestsOrCalls
<1>2. CASE g.done
  BY <1>1, <1>2, RestsOrCalls DEF CountersAgree
<1>3. CASE ~g.done
  <2>1. PICK offset \in Offsets, told \in Told, finish \in 0 .. 1 :
          Called(offset, told, finish)
    BY <1>1, <1>3, RestsOrCalls
  <2>2. /\ trial.budget \in Nat /\ memory.window \in 0 .. 1
        /\ g.instructions_executed \in Nat /\ g.window_insns_seen \in Nat
        /\ g.window_insns_total \in Nat
    BY PluginAssumption DEF PluginTypes, Arguments, Image, PluginState
  <2>3. g'.window_insns_seen <= g'.window_insns_total
    <3>1. Pending(g) => memory.window = 1 /\ Seen(g) <= g.window_insns_total + 1
      BY <2>2 DEF Pending, Seen, CountersAgree
    <3>2. /\ g'.window_insns_seen = IF ~Over /\ Pending(g) THEN Seen(g) ELSE g.window_insns_seen
          /\ g'.window_insns_total = IF Over THEN g.window_insns_total
                                             ELSE g.window_insns_total + memory.window
          /\ g.window_insns_seen <= g.window_insns_total
      BY <2>1 DEF Called, CountersAgree
    <3> QED
      BY <2>2, <3>1, <3>2
  <2>4. g'.window_insns_total <= g'.instructions_executed
    BY <2>1, <2>2 DEF Called, CountersAgree
  <2>5. trial.budget # 0 =>
          /\ g'.instructions_executed <= trial.budget + 1
          /\ ~g'.done => g'.instructions_executed <= trial.budget
    BY <1>3, <2>1, <2>2 DEF Called, CountersAgree, Over
  <2>6. g'.instruction_budget_exhausted => g'.done
    BY <1>3, <2>1 DEF Called, CountersAgree
  <2> QED
    BY <1>1, <2>3, <2>4, <2>5, <2>6 DEF CountersAgree
<1> QED
  BY <1>2, <1>3

(* The faults that landed before are still told apart. *)
LEMMA LandingsKeep ==
  ASSUME PluginTypes, LandingsAgree, PluginNext
  PROVE  LandingsAgree'
<1>1. CallBack /\ trial' = trial
  BY StepIs, RestsOrCalls
<1>2. PICK offsets, uses : offsets = Offsets /\ uses = UsesOffset
  OBVIOUS
<1>3. Offsets' = offsets /\ UsesOffset' = uses
  BY <1>1, <1>2 DEF Offsets, UsesOffset
<1>4. CASE g.done
  <2>1. g' = g /\ openings' = openings /\ landed' = landed
    BY <1>1, <1>4, RestsOrCalls
  <2> QED
    BY <1>1, <1>2, <1>3, <2>1 DEF LandingsAgree
<1>5. CASE ~g.done
  <2>1. PICK offset \in offsets, told \in Told, finish \in 0 .. 1 :
          /\ Called(offset, told, finish)
          /\ openings' = IF ~Over /\ Opening(g) THEN openings + 1 ELSE openings
          /\ landed' = IF Hits(offset)
                       THEN Append(landed, [opening |-> openings',
                                            offset |-> g'.inject_offset, window |-> 1])
                       ELSE landed
    BY <1>1, <1>2, <1>5, RestsOrCalls
  <2>2. /\ offsets \subseteq Nat \ {0} /\ 1 \in offsets
        /\ openings \in Nat /\ landed \in Seq(Landing)
        /\ g.window_insns_seen \in Nat /\ g.inject_after \in Nat
        /\ g.active_window \in BOOLEAN /\ g.injected \in BOOLEAN
        /\ trial.target \in {"ok", "none", "unreadable"} /\ trial.mode \in FuzzCampaigns
    BY <1>2, OffsetsAre DEF PluginTypes, Arguments, PluginState
  <2>3. PICK l \in Nat : l = Len(landed) /\ DOMAIN landed = 1 .. l
    BY <2>2, LenProperties
  <2>4. landed = <<>> <=> l = 0
    BY <2>2, <2>3, EmptySeq
  <2>5. \A i \in 1 .. l :
          /\ landed[i].window = 1
          /\ uses => landed[i].offset \in offsets
          /\ landed[i].opening \in 1 .. openings
          /\ \A j \in 1 .. i - 1 : landed[j].opening < landed[i].opening
    BY <1>2, <2>3 DEF LandingsAgree
  <2>6. g.injected <=> l # 0 /\ landed[l].opening = openings
    BY <2>3, <2>4 DEF LandingsAgree
  <2>7. /\ trial.mode = "none" => l = 0
        /\ g.active_window => openings # 0
        /\ openings # 0 /\ uses /\ trial.target # "none" =>
             /\ g.inject_after \in offsets
             /\ trial.target = "ok" /\ ~g.injected => g.window_insns_seen < g.inject_after
    BY <1>2, <2>4 DEF LandingsAgree
  <2>8. /\ g'.active_window => openings' # 0
        /\ Opening(g) \/ Pending(g) => openings' # 0 \/ Over
        /\ openings' \in Nat /\ openings <= openings'
    BY <2>1, <2>2, <2>7 DEF Called, Opening, Pending
  <2>9. trial.mode = "none" => ~Hits(offset)
    <3>1. trial.mode = "none" => ~UsesOffset
      BY <2>2, CampaignsAre DEF UsesOffset
    <3> QED
      BY <3>1 DEF Hits, RamHit, Strikes, Pending
  <2>10. Strikes(g, offset) => Seen(g) \in offsets
    <3>1. SUFFICES ASSUME Strikes(g, offset) PROVE Seen(g) \in offsets
      OBVIOUS
    <3>2. CASE Aims(g)
      BY <2>2, <3>2 DEF Seen
    <3>3. CASE ~Aims(g)
      <4>1. /\ ~Opening(g) /\ ~g.injected /\ g.active_window /\ uses /\ trial.target = "ok"
            /\ Seen(g) = g.window_insns_seen + 1 /\ Seen(g) >= g.inject_after
        BY <1>2, <2>2, <3>1, <3>3 DEF Strikes, Pending, Aims, Opening, Seen, After
      <4>2. g.inject_after \in offsets /\ g.window_insns_seen < g.inject_after
        BY <2>7, <4>1
      <4>3. Seen(g) = g.inject_after
        BY <2>2, <4>1, <4>2
      <4> QED
        BY <4>2, <4>3
    <3> QED
      BY <3>2, <3>3
  <2>11. /\ openings' # 0 /\ uses /\ trial.target # "none" =>
              /\ g'.inject_after \in offsets
              /\ trial.target = "ok" /\ ~g'.injected => g'.window_insns_seen < g'.inject_after
    <3>1. SUFFICES ASSUME openings' # 0, uses, trial.target # "none"
                   PROVE  /\ g'.inject_after \in offsets
                          /\ trial.target = "ok" /\ ~g'.injected =>
                               g'.window_insns_seen < g'.inject_after
      OBVIOUS
    <3>2. CASE Over
      BY <2>1, <2>7, <3>1, <3>2 DEF Called, Hits
    <3>3. CASE ~Over /\ Opening(g)
      <4>1. Aims(g) /\ Pending(g) /\ After(g, offset) = offset /\ Seen(g) = 1
        BY <1>2, <3>1, <3>3 DEF Aims, Pending, After, Seen, Opening
      <4>2. /\ g'.inject_after = offset /\ g'.window_insns_seen = 1
            /\ ~g'.injected => ~Strikes(g, offset)
        BY <2>1, <3>3, <4>1 DEF Called, Hits
      <4>3. trial.target = "ok" /\ ~Strikes(g, offset) => ~(1 >= offset)
        BY <4>1 DEF Strikes
      <4> QED
        BY <2>2, <4>2, <4>3
    <3>4. CASE ~Over /\ ~Opening(g)
      <4>1. ~Aims(g) /\ After(g, offset) = g.inject_after /\ openings' = openings
        BY <2>1, <3>4 DEF Aims, After
      <4>2. g'.inject_after = g.inject_after /\ g.inject_after \in offsets
        BY <2>1, <2>7, <3>1, <3>4, <4>1 DEF Called
      <4>3. ASSUME trial.target = "ok", ~g'.injected
            PROVE  g'.window_insns_seen < g'.inject_after
        <5>1. ~g.injected /\ ~Strikes(g, offset)
          BY <2>1, <3>4, <4>3 DEF Called, Hits
        <5>2. g.window_insns_seen < g.inject_after
          BY <2>7, <3>1, <4>1, <4>3, <5>1
        <5>3. CASE Pending(g)
          <6>1. g'.window_insns_seen = Seen(g) /\ Seen(g) = g.window_insns_seen + 1
            BY <2>1, <3>4, <4>1, <5>3 DEF Called, Seen
          <6>2. ~(Seen(g) >= g.inject_after)
            BY <4>1, <4>3, <5>1, <5>3 DEF Strikes
          <6> QED
            BY <2>2, <4>2, <6>1, <6>2
        <5>4. CASE ~Pending(g)
          BY <2>1, <4>2, <5>2, <5>4 DEF Called
        <5> QED
          BY <5>3, <5>4
      <4> QED
        BY <4>2, <4>3
    <3> QED
      BY <3>2, <3>3, <3>4
  <2>12. CASE ~Hits(offset)
    <3>1. landed' = landed
      BY <2>1, <2>12
    <3>2. g'.injected <=> l # 0 /\ landed[l].opening = openings'
      <4>1. g'.injected <=> g.injected /\ (Over \/ ~Opening(g))
        BY <2>1, <2>12 DEF Called
      <4>2. CASE Over \/ ~Opening(g)
        BY <2>1, <2>6, <4>1, <4>2
      <4>3. CASE ~Over /\ Opening(g)
        <5>1. ~g'.injected /\ openings' = openings + 1
          BY <2>1, <4>1, <4>3
        <5>2. l # 0 => landed[l].opening \in 1 .. openings
          BY <2>5
        <5> QED
          BY <2>2, <5>1, <5>2
      <4> QED
        BY <4>2, <4>3
    <3>3. \A i \in 1 .. l :
            /\ landed[i].window = 1
            /\ uses => landed[i].offset \in offsets
            /\ landed[i].opening \in 1 .. openings'
            /\ \A j \in 1 .. i - 1 : landed[j].opening < landed[i].opening
      BY <2>2, <2>5, <2>8
    <3> QED
      BY <1>1, <1>3, <2>3, <2>4, <2>7, <2>8, <2>11, <3>1, <3>2, <3>3 DEF LandingsAgree
  <2>13. CASE Hits(offset)
    <3>1. PICK fault : /\ fault = [opening |-> openings', offset |-> g'.inject_offset, window |-> 1]
                       /\ landed' = Append(landed, fault)
      BY <2>1, <2>13
    <3>2. fault.opening = openings' /\ fault.offset = g'.inject_offset /\ fault.window = 1
      BY <3>1
    <3>3. g'.inject_offset \in Nat
      BY <2>1 DEF Called, PluginState
    <3>4. fault \in Landing
      BY <2>8, <3>1, <3>3 DEF Landing
    <3>5. /\ Len(landed') = l + 1 /\ landed' # <<>>
          /\ landed'[l + 1] = fault /\ \A i \in 1 .. l : landed'[i] = landed[i]
      BY <2>2, <2>3, <3>1, <3>4
    <3>6. g'.injected /\ ~Over
      BY <2>1, <2>13 DEF Called, Hits
    <3>7. uses => g'.inject_offset \in offsets
      <4>1. trial.mode = "ram-bitflip" => ~UsesOffset
        BY CampaignsAre DEF UsesOffset
      <4>2. uses => Strikes(g, offset)
        BY <1>2, <2>13, <4>1 DEF Hits, RamHit
      <4>3. uses => g'.inject_offset = Seen(g)
        BY <2>1, <3>6, <4>2 DEF Called
      <4> QED
        BY <2>10, <4>2, <4>3
    <3>8. openings' # 0
      BY <2>8, <2>13, <3>6 DEF Hits, RamHit, Strikes
    <3>9. \A i \in 1 .. l : landed[i].opening < openings'
      <4>1. CASE Opening(g)
        <5>1. openings' = openings + 1
          BY <2>1, <3>6, <4>1
        <5> QED
          BY <2>2, <2>5, <5>1
      <4>2. CASE ~Opening(g)
        <5>1. ~g.injected /\ openings' = openings
          BY <2>1, <2>13, <4>2 DEF Hits, RamHit, Strikes, Pending
        <5>2. l # 0 => landed[l].opening < openings
          BY <2>2, <2>5, <2>6, <5>1
        <5>3. \A i \in 1 .. l : i # l => landed[i].opening < landed[l].opening
          BY <2>5
        <5>4. \A i \in 1 .. l : landed[i].opening \in Nat
          BY <2>2, <2>5
        <5> QED
          BY <2>2, <5>1, <5>2, <5>3, <5>4
      <4> QED
        BY <4>1, <4>2
    <3>10. ASSUME NEW i \in 1 .. l + 1
           PROVE  /\ landed'[i].window = 1
                  /\ uses => landed'[i].offset \in offsets
                  /\ landed'[i].opening \in 1 .. openings'
                  /\ \A j \in 1 .. i - 1 : landed'[j].opening < landed'[i].opening
      <4>1. CASE i \in 1 .. l
        <5>1. /\ landed[i].window = 1
              /\ uses => landed[i].offset \in offsets
              /\ landed[i].opening \in 1 .. openings
              /\ \A j \in 1 .. i - 1 : landed[j].opening < landed[i].opening
          BY <2>5, <4>1
        <5>2. landed[i].opening \in 1 .. openings'
          BY <2>2, <2>8, <5>1
        <5>3. \A j \in 1 .. i - 1 : j \in 1 .. l
          BY <4>1
        <5> QED
          BY <3>5, <4>1, <5>1, <5>2, <5>3
      <4>2. CASE i = l + 1
        <5>1. landed'[i] = fault
          BY <3>5, <4>2
        <5>2. openings' \in 1 .. openings'
          BY <2>8, <3>8
        <5>3. \A j \in 1 .. i - 1 : landed'[j].opening < openings'
          BY <3>5, <3>9, <4>2
        <5> QED
          BY <3>2, <3>7, <5>1, <5>2, <5>3
      <4> QED
        BY <4>1, <4>2
    <3>11. landed'[Len(landed')].opening = openings'
      BY <3>2, <3>5
    <3> QED
      BY <1>1, <1>3, <2>8, <2>9, <2>11, <2>13, <3>5, <3>6, <3>10, <3>11 DEF LandingsAgree
  <2> QED
    BY <2>12, <2>13
<1> QED
  BY <1>4, <1>5

LEMMA FinishingKeeps ==
  ASSUME PluginTypes, FinishingAgrees, PluginNext
  PROVE  FinishingAgrees'
<1>1. SUFFICES ASSUME memory'.done = 1, ~g'.done
               PROVE  at' = Spin /\ finished' = g'.instructions_executed
  BY DEF FinishingAgrees
<1>2. /\ CallBack /\ at \in 1 .. Spin
      /\ finished' = IF at = Work + 7 THEN g'.instructions_executed ELSE finished
  BY StepIs
<1>3. ~g.done
  BY <1>1, <1>2, RestsOrCalls
<1>4. PICK offset \in Offsets, told \in Told, finish \in 0 .. 1 :
        Called(offset, told, finish)
  BY <1>2, <1>3, RestsOrCalls
<1>5. memory.done # 1
  BY <1>1, <1>4 DEF Called
<1>6. PICK m \in Image : m.done = memory.done /\ (Follows(m) \/ Strays(m))
  BY StepIs
<1>7. Follows(m) /\ ~Skipped
  BY <1>1, <1>5, <1>6 DEF Strays, Follows, Keeps
<1>8. at = Work + 7
  BY <1>1, <1>5, <1>6, <1>7 DEF Follows, Keeps, Executed
<1>9. at' = Spin
  BY <1>2, <1>7, <1>8, SuccessorIs, PluginAssumption DEF Follows, Spin
<1> QED
  BY <1>2, <1>8, <1>9

LEMMA OneMoreLocation ==
  ASSUME NEW n \in Nat
  PROVE  Append(Locations(n), Location) = Locations(n + 1)
<1>1. PICK one : one = Location
  OBVIOUS
<1>2. PICK s : s = [i \in 1 .. n |-> one]
  OBVIOUS
<1>3. s \in Seq({one}) /\ Len(s) = n
  BY <1>2
<1>4. PICK t : t = Append(s, one)
  OBVIOUS
<1>5. t \in Seq({one}) /\ Len(t) = n + 1
  BY <1>3, <1>4
<1>6. DOMAIN t = 1 .. n + 1 /\ \A i \in 1 .. n + 1 : t[i] = one
  <2>1. \A i \in 1 .. n + 1 : t[i] \in {one}
    BY <1>5, ElementOfSeq
  <2>2. DOMAIN t = 1 .. n + 1
    BY <1>5, LenProperties
  <2> QED
    BY <2>1, <2>2
<1>7. t = [i \in 1 .. n + 1 |-> one]
  <2>1. t \in [1 .. n + 1 -> {one}]
    BY <1>5, LenProperties
  <2> QED
    BY <1>6, <2>1
<1> QED
  BY <1>1, <1>2, <1>4, <1>7 DEF Locations

LEMMA WrittenKeeps ==
  ASSUME PluginTypes, CountersAgree, FinishingAgrees, WrittenAgrees, Untouched, PluginNext
  PROVE  WrittenAgrees'
<1>1. /\ CallBack /\ at \in 1 .. Spin
      /\ finished' = IF at = Work + 7 THEN g'.instructions_executed ELSE finished
  BY StepIs
<1>2. PICK n \in 0 .. Len(landed), f \in Told, d \in 0 .. 1 :
        /\ g.written = Locations(n) \o
                         IF g.done THEN WrittenRecord(RecordOf(f, d)) ELSE <<>>
        /\ g.done /\ d = 1 =>
             /\ at = Spin
             /\ g.instruction_budget_exhausted => finished = trial.budget
        /\ g.done /\ ~g.instruction_budget_exhausted =>
             d = 1 /\ (landed = <<>> => f = Clean)
  BY DEF WrittenAgrees
<1>3. at = Spin => at' = Spin /\ finished' = finished
  <2>1. PICK m \in Image : Follows(m) \/ Strays(m)
    BY StepIs
  <2>2. ASSUME at = Spin PROVE at # Work + 7 /\ ~(at \in 4 .. Work + 5)
    BY <2>2, PluginAssumption DEF Spin
  <2> QED
    BY <1>1, <2>1, <2>2, SuccessorIs DEF Follows, Strays
<1>4. trial' = trial
  BY <1>1, RestsOrCalls
<1>5. CASE g.done
  <2>1. g' = g /\ landed' = landed
    BY <1>1, <1>5, RestsOrCalls
  <2>2. RecordOf(f, d)' = RecordOf(f, d)
    BY <2>1 DEF RecordOf
  <2>3. g'.written = Locations(n) \o
                       IF g'.done THEN WrittenRecord(RecordOf(f, d)') ELSE <<>>
    BY <1>2, <2>1, <2>2
  <2>4. n \in 0 .. Len(landed')
    BY <2>1
  <2>5. /\ g'.done /\ d = 1 =>
             /\ at' = Spin
             /\ g'.instruction_budget_exhausted => finished' = trial'.budget
        /\ g'.done /\ ~g'.instruction_budget_exhausted =>
             d = 1 /\ (landed' = <<>> => f = Clean)
    BY <1>2, <1>3, <1>4, <2>1
  <2> QED
    BY <2>3, <2>4, <2>5 DEF WrittenAgrees
<1>6. CASE ~g.done
  <2>1. PICK offset \in Offsets, told \in Told, finish \in 0 .. 1 :
          /\ told = memory.facts /\ finish = memory.done
          /\ Called(offset, told, finish)
          /\ landed' = IF Hits(offset)
                       THEN Append(landed, [opening |-> openings',
                                            offset |-> g'.inject_offset, window |-> 1])
                       ELSE landed
    BY <1>1, <1>6, RestsOrCalls
  <2>2. landed \in Seq(Landing) /\ Len(landed) \in Nat
    BY LenProperties DEF PluginTypes
  <2>3. landed' = <<>> => landed = <<>>
    <3>1. PICK fault : fault = [opening |-> openings', offset |-> g'.inject_offset, window |-> 1]
      OBVIOUS
    <3> QED
      BY <2>1, <2>2, <3>1
  <2>4. Len(landed') = IF Hits(offset) THEN Len(landed) + 1 ELSE Len(landed)
    <3>1. PICK fault : fault = [opening |-> openings', offset |-> g'.inject_offset, window |-> 1]
      OBVIOUS
    <3> QED
      BY <2>1, <2>2, <3>1
  <2>5. g.written = Locations(n)
    <3>1. Locations(n) \in Seq({Location})
      BY DEF Locations
    <3> QED
      BY <1>2, <1>6, <3>1, ConcatEmptySeq
  <2>6. \E k \in 0 .. Len(landed') : Streamed(offset) = Locations(k)
    <3>1. CASE ~Over /\ Strikes(g, offset)
      <4>1. Streamed(offset) = Locations(n + 1)
        BY <2>5, <3>1, OneMoreLocation DEF Streamed
      <4>2. n + 1 \in 0 .. Len(landed')
        BY <2>2, <2>4, <3>1 DEF Hits
      <4> QED
        BY <4>1, <4>2
    <3>2. CASE ~(~Over /\ Strikes(g, offset))
      <4>1. Streamed(offset) = Locations(n)
        BY <2>5, <3>2 DEF Streamed
      <4>2. n \in 0 .. Len(landed')
        BY <2>2, <2>4
      <4> QED
        BY <4>1, <4>2
    <3> QED
      BY <3>1, <3>2
  <2>7. PICK k \in 0 .. Len(landed') : Streamed(offset) = Locations(k)
    BY <2>6
  <2>8. g'.written = Locations(k) \o
                       IF g'.done THEN WrittenRecord(RecordOf(told, finish)') ELSE <<>>
    BY <2>1, <2>7 DEF Called
  <2>9. ASSUME g'.done, finish = 1
        PROVE  /\ at' = Spin
               /\ g'.instruction_budget_exhausted => finished' = trial'.budget
    <3>1. at = Spin /\ finished = g.instructions_executed
      BY <1>6, <2>1, <2>9 DEF FinishingAgrees
    <3>2. ASSUME g'.instruction_budget_exhausted PROVE g.instructions_executed = trial.budget
      <4>1. Over
        BY <1>6, <2>1, <3>2 DEF Called, CountersAgree
      <4>2. trial.budget \in Nat /\ g.instructions_executed \in Nat
        BY PluginAssumption DEF PluginTypes, Arguments, PluginState
      <4> QED
        BY <1>6, <4>1, <4>2 DEF Over, CountersAgree
    <3> QED
      BY <1>3, <1>4, <3>1, <3>2
  <2>10. ASSUME g'.done, ~g'.instruction_budget_exhausted
         PROVE  finish = 1 /\ (landed' = <<>> => told = Clean)
    <3>1. memory.done = 1
      BY <2>1, <2>10 DEF Called
    <3>2. at = Spin
      BY <1>6, <3>1 DEF FinishingAgrees
    <3>3. at >= Work + 7
      BY <3>2, PluginAssumption DEF Spin
    <3> QED
      BY <2>1, <2>3, <3>1, <3>3 DEF Untouched
  <2>11. \E n2 \in 0 .. Len(landed'), f2 \in Told, d2 \in 0 .. 1 :
           /\ g'.written = Locations(n2) \o
                             IF g'.done THEN WrittenRecord(RecordOf(f2, d2)') ELSE <<>>
           /\ g'.done /\ d2 = 1 =>
                /\ at' = Spin
                /\ g'.instruction_budget_exhausted => finished' = trial'.budget
           /\ g'.done /\ ~g'.instruction_budget_exhausted =>
                d2 = 1 /\ (landed' = <<>> => f2 = Clean)
    BY <2>8, <2>9, <2>10
  <2> QED
    BY <2>11 DEF WrittenAgrees
<1> QED
  BY <1>5, <1>6

LEMMA PathKeeps ==
  ASSUME PluginTypes, FinishingAgrees, OnItsPath, PluginNext
  PROVE  OnItsPath'
<1>1. SUFFICES ASSUME diversions' = 0
               PROVE  /\ at' # Outside
                      /\ at' = 1 => g'.instructions_executed = 0
                      /\ at' <= 2 => ~g'.done /\ ~g'.seed_written /\ memory'.used = "none"
                      /\ at' >= 3 => memory'.used = "trial"
                      /\ at' <= 3 => memory'.window = 0 /\ openings' = 0
                      /\ openings' <= 1
                      /\ openings' = 1 /\ ~g'.done /\ ~g'.active_window => memory'.window = 0
  BY DEF OnItsPath, Outside
<1>2. CallBack /\ at \in 1 .. Spin
  BY StepIs
<1>3. PICK m \in Image :
        /\ m.window = memory.window /\ m.used = memory.used
        /\ ~g.done /\ ~g.seed_written /\ at = 2 => m.seed = "trial"
        /\ Follows(m) \/ Strays(m)
  BY StepIs
<1>4. Work \in Nat \ {0} /\ openings \in Nat /\ diversions \in Nat /\ memory.window \in 0 .. 1
      /\ trial.budget \in Nat
  <2>1. Work \in Nat \ {0} /\ Budgets \subseteq Nat
    BY PluginAssumption
  <2>2. openings \in Nat /\ diversions \in Nat /\ memory.window \in 0 .. 1
    BY DEF PluginTypes, Image
  <2>3. trial.budget \in Budgets
    BY DEF PluginTypes, Arguments
  <2> QED
    BY <2>1, <2>2, <2>3
<1>5. Follows(m) /\ diversions = 0
  BY <1>1, <1>3, <1>4 DEF Follows, Strays
<1>6. /\ at = Spin => at' = Spin
      /\ at # Spin => at' = at + 1
  BY <1>2, <1>5, SuccessorIs DEF Follows
<1>7. /\ at = 1 => g.instructions_executed = 0
      /\ at <= 2 => ~g.done /\ ~g.seed_written /\ memory.used = "none"
      /\ at >= 3 => memory.used = "trial"
      /\ at <= 3 => memory.window = 0 /\ openings = 0
      /\ openings <= 1
      /\ openings = 1 /\ ~g.done /\ ~g.active_window => memory.window = 0
  BY <1>5 DEF OnItsPath
<1>8. at <= 3 => ~Skipped
  BY <1>2, <1>7, SkippedIs
<1>9. /\ memory'.window = memory.window \/ at \in {1, 3, Work + 4}
      /\ at \in {1, Work + 4} => memory'.window \in {0, memory.window}
      /\ at <= 2 => memory'.window = 0
  <2>1. CASE Skipped
    BY <1>2, <1>3, <1>4, <1>5, <1>8, <2>1 DEF Follows, Keeps
  <2>2. CASE ~Skipped
    <3>1. memory'.window = CASE at = 1 -> 0 [] at = 3 -> 1 [] at = Work + 4 -> 0
                            [] OTHER -> memory.window
      BY <1>3, <1>5, <2>2 DEF Follows, Keeps, Executed
    <3> QED
      BY <1>2, <1>4, <1>7, <3>1
  <2> QED
    BY <2>1, <2>2
<1>10. /\ at = 1 => memory'.used = "none"
       /\ at >= 2 => memory'.used = "trial"
  <2>1. CASE Skipped
    BY <1>2, <1>3, <1>5, <1>7, <1>8, <2>1 DEF Follows, Keeps
  <2>2. CASE ~Skipped
    <3>1. memory'.used = CASE at = 1 -> "none" [] at = 2 -> m.seed [] OTHER -> memory.used
      BY <1>3, <1>5, <2>2 DEF Follows, Keeps, Executed
    <3>2. at = 1 \/ at = 2 \/ (at >= 3 /\ at # 1 /\ at # 2)
      BY <1>2
    <3> QED
      BY <1>2, <1>3, <1>7, <3>1, <3>2
  <2> QED
    BY <2>1, <2>2
<1>11. /\ openings' = IF ~g.done /\ ~Over /\ Opening(g) THEN openings + 1 ELSE openings
       /\ ~g.done /\ ~g'.done /\ ~g'.active_window => memory.window = 0
       /\ g.done => g'.done
  <2>1. CASE g.done
    BY <1>2, <2>1, RestsOrCalls
  <2>2. CASE ~g.done
    <3>1. PICK offset \in Offsets, told \in Told, finish \in 0 .. 1 :
            /\ Called(offset, told, finish)
            /\ openings' = IF ~Over /\ Opening(g) THEN openings + 1 ELSE openings
      BY <1>2, <2>2, RestsOrCalls
    <3> QED
      BY <1>4, <2>2, <3>1 DEF Called
  <2> QED
    BY <2>1, <2>2
<1>12. openings' <= 1 /\ (at <= 3 => openings' = 0)
  BY <1>4, <1>7, <1>11 DEF Opening
<1>13. at = 1 => ~g'.done /\ ~g'.seed_written
  <2>1. SUFFICES ASSUME at = 1 PROVE ~g'.done /\ ~g'.seed_written
    OBVIOUS
  <2>2. PICK offset \in Offsets, told \in Told, finish \in 0 .. 1 :
          Called(offset, told, finish)
    BY <1>2, <1>7, <2>1, RestsOrCalls
  <2>3. ~Over
    BY <1>4, <1>7, <2>1 DEF Over
  <2>4. memory.done # 1
    BY <1>4, <1>7, <2>1 DEF FinishingAgrees, Spin
  <2>5. Program[at] # "main"
    BY <1>2, <2>1, KindIs
  <2> QED
    BY <1>7, <2>1, <2>2, <2>3, <2>4, <2>5 DEF Called
<1>14. at' >= 2 /\ (at' <= 2 => at = 1) /\ (at' <= 3 => at <= 2) /\ (at' >= 3 => at >= 2)
  BY <1>2, <1>4, <1>6 DEF Spin
<1>15. openings' = 1 /\ ~g'.done /\ ~g'.active_window => memory'.window = 0
  <2>1. SUFFICES ASSUME openings' = 1, ~g'.done, ~g'.active_window PROVE memory'.window = 0
    OBVIOUS
  <2>2. memory.window = 0 /\ ~(at <= 3)
    BY <1>11, <1>12, <2>1
  <2> QED
    BY <1>2, <1>9, <2>2
<1>16. at' \in Nat
  BY <1>2, <1>4, <1>6 DEF Spin
<1>17. at' # 0 /\ at' # 1
  BY <1>14, <1>16
<1>18. at' <= 2 => ~g'.done /\ ~g'.seed_written /\ memory'.used = "none"
  BY <1>10, <1>13, <1>14
<1>19. at' <= 3 => memory'.window = 0 /\ openings' = 0
  <2>1. at' <= 3 => at <= 2 /\ at <= 3
    BY <1>2, <1>14
  <2> QED
    BY <1>9, <1>12, <2>1
<1> QED
  BY <1>10, <1>12, <1>14, <1>15, <1>17, <1>18, <1>19 DEF Outside

LEMMA AppendIsSome ==
  ASSUME NEW S, NEW s \in Seq(S), NEW e
  PROVE  Append(s, e) # <<>>
<1>1. s \in Seq(S \cup {e})
  BY SeqMonotonic
<1> QED
  BY <1>1, AppendProperties

LEMMA UntouchedKeeps ==
  ASSUME PluginTypes, LandingsAgree, FinishingAgrees, WrittenAgrees, Untouched, PluginNext
  PROVE  Untouched'
<1>1. SUFFICES ASSUME landed' = <<>>
               PROVE  /\ diversions' = 0
                      /\ memory'.window = 1 <=> at' \in 4 .. Work + 4
                      /\ memory'.done = 1 <=> at' = Spin
                      /\ at' >= Work + 7 => memory'.facts = Clean
                      /\ ~g'.instruction_budget_exhausted =>
                           /\ g'.window_insns_total = Counted'
                           /\ g'.active_window <=> at' \in 5 .. Work + 5
                           /\ openings' = IF at' <= 4 THEN 0 ELSE 1
                           /\ UsesOffset' /\ trial'.target # "none" =>
                                g'.window_insns_seen = g'.window_insns_total
  BY DEF Untouched
<1>2. CallBack /\ at \in 1 .. Spin /\ trial' = trial
  BY StepIs, RestsOrCalls
<1>3. PICK m \in Image :
        /\ m.window = memory.window /\ m.done = memory.done /\ m.facts = memory.facts
        /\ Follows(m) \/ Strays(m)
  BY StepIs
<1>4. Follows(m) /\ ~Skipped /\ Executed(m)
  BY <1>1, <1>2, <1>3, SkippedIs DEF Follows, Strays, Keeps
<1>5. Work \in Nat \ {0}
  BY PluginAssumption
<1>6. /\ at = Spin => at' = Spin
      /\ at # Spin => at' = at + 1
  BY <1>2, <1>4, SuccessorIs DEF Follows
<1>7. landed = <<>>
  <2>1. landed \in Seq(Landing)
    BY DEF PluginTypes
  <2>2. ASSUME NEW fault, landed' = Append(landed, fault) PROVE FALSE
    BY <1>1, <2>1, <2>2, AppendIsSome
  <2>3. landed' = landed
    BY <1>2, <2>2, RestsOrCalls
  <2> QED
    BY <1>1, <2>3
<1>8. /\ diversions = 0
      /\ memory.window = 1 <=> at \in 4 .. Work + 4
      /\ memory.done = 1 <=> at = Spin
      /\ at >= Work + 7 => memory.facts = Clean
      /\ ~g.instruction_budget_exhausted =>
           /\ g.window_insns_total = Counted
           /\ g.active_window <=> at \in 5 .. Work + 5
           /\ openings = IF at <= 4 THEN 0 ELSE 1
           /\ UsesOffset /\ trial.target # "none" => g.window_insns_seen = g.window_insns_total
  BY <1>7 DEF Untouched
<1>9. diversions' = 0
  BY <1>4, <1>8 DEF Follows
<1>10. memory'.window = 1 <=> at' \in 4 .. Work + 4
  <2>1. memory'.window = CASE at = 1 -> 0 [] at = 3 -> 1 [] at = Work + 4 -> 0
                           [] OTHER -> memory.window
    BY <1>3, <1>4 DEF Executed
  <2> QED
    BY <1>2, <1>5, <1>6, <1>8, <2>1 DEF Spin
<1>11. memory'.done = 1 <=> at' = Spin
  <2>1. memory'.done = CASE at = 1 -> 0 [] at = Work + 7 -> 1 [] OTHER -> memory.done
    BY <1>3, <1>4 DEF Executed
  <2> QED
    BY <1>2, <1>5, <1>6, <1>8, <2>1 DEF Spin
<1>12. at' >= Work + 7 => memory'.facts = Clean
  <2>1. CASE at = Work + 6
    BY <1>1, <1>4, <2>1 DEF Executed
  <2>2. CASE at >= Work + 7
    <3>1. at \notin {1, Work + 6}
      BY <1>2, <1>5, <2>2
    <3> QED
      BY <1>3, <1>4, <1>8, <2>2, <3>1 DEF Executed
  <2>3. CASE at < Work + 6
    BY <1>2, <1>5, <1>6, <2>3 DEF Spin
  <2> QED
    BY <1>2, <1>5, <2>1, <2>2, <2>3
<1>13. ASSUME ~g'.instruction_budget_exhausted
       PROVE  /\ g'.window_insns_total = Counted'
              /\ g'.active_window <=> at' \in 5 .. Work + 5
              /\ openings' = IF at' <= 4 THEN 0 ELSE 1
              /\ UsesOffset' /\ trial'.target # "none" =>
                   g'.window_insns_seen = g'.window_insns_total
  <2>1. UsesOffset' <=> UsesOffset
    BY <1>2 DEF UsesOffset
  <2>2. CASE g.done
    <3>1. g' = g /\ openings' = openings
      BY <1>2, <2>2, RestsOrCalls
    <3>2. at = Spin
      BY <1>13, <2>2, <3>1 DEF WrittenAgrees
    <3>3. at' = at
      BY <1>6, <3>2
    <3>4. Counted' = Counted
      BY <3>3 DEF Counted
    <3> QED
      BY <1>2, <1>8, <1>13, <2>1, <3>1, <3>3, <3>4
  <2>3. CASE ~g.done
    <3>1. PICK offset \in Offsets, told \in Told, finish \in 0 .. 1 :
            /\ Called(offset, told, finish)
            /\ openings' = IF ~Over /\ Opening(g) THEN openings + 1 ELSE openings
            /\ landed' = IF Hits(offset)
                         THEN Append(landed, [opening |-> openings',
                                              offset |-> g'.inject_offset, window |-> 1])
                         ELSE landed
      BY <1>2, <2>3, RestsOrCalls
    <3>2. ~Hits(offset)
      <4>1. ASSUME NEW fault, landed' = Append(landed, fault) PROVE FALSE
        <5>1. landed \in Seq(Landing)
          BY DEF PluginTypes
        <5> QED
          BY <1>1, <4>1, <5>1, AppendIsSome
      <4> QED
        BY <3>1, <4>1
    <3>3. ~Over /\ ~g.instruction_budget_exhausted
      BY <1>13, <3>1 DEF Called
    <3>4. /\ g.window_insns_total = Counted
          /\ g.active_window <=> at \in 5 .. Work + 5
          /\ openings = IF at <= 4 THEN 0 ELSE 1
          /\ UsesOffset /\ trial.target # "none" => g.window_insns_seen = g.window_insns_total
      BY <1>8, <3>3
    <3>5. memory.window \in 0 .. 1 /\ g.window_insns_seen \in Nat
      BY DEF PluginTypes, Image, PluginState
    <3>6. memory.window = IF at \in 4 .. Work + 4 THEN 1 ELSE 0
      BY <1>8, <3>5
    <3>7. Opening(g) <=> at = 4
      BY <1>2, <1>5, <3>4, <3>6 DEF Opening
    <3>8. g'.window_insns_total = Counted'
      <4>1. g'.window_insns_total = Counted + memory.window
        BY <3>1, <3>3, <3>4 DEF Called
      <4>2. Counted = IF at <= 4 THEN 0 ELSE IF at <= Work + 5 THEN at - 4 ELSE Work + 1
        BY DEF Counted
      <4>3. Counted' = IF at' <= 4 THEN 0 ELSE IF at' <= Work + 5 THEN at' - 4 ELSE Work + 1
        BY DEF Counted
      <4>4. CASE at \in 4 .. Work + 4
        <5>1. at' = at + 1
          BY <1>2, <1>5, <1>6, <4>4 DEF Spin
        <5> QED
          BY <1>5, <3>6, <4>1, <4>2, <4>3, <4>4, <5>1
      <4>5. CASE at \notin 4 .. Work + 4
        <5>1. at' \in Nat /\ Counted' = Counted /\ Counted \in Nat
          BY <1>2, <1>5, <1>6, <4>2, <4>3, <4>5 DEF Spin
        <5> QED
          BY <3>6, <4>1, <4>5, <5>1
      <4> QED
        BY <4>4, <4>5
    <3>9. g'.active_window <=> at' \in 5 .. Work + 5
      <4>1. g'.active_window <=> at \in 4 .. Work + 4
        BY <3>1, <3>3, <3>6 DEF Called
      <4> QED
        BY <1>2, <1>5, <1>6, <4>1 DEF Spin
    <3>10. openings' = IF at' <= 4 THEN 0 ELSE 1
      BY <1>2, <1>5, <1>6, <3>1, <3>3, <3>4, <3>7 DEF Spin
    <3>11. ASSUME UsesOffset, trial.target # "none"
           PROVE  g'.window_insns_seen = g'.window_insns_total
      <4>1. g.window_insns_seen = g.window_insns_total /\ ~g.injected
        BY <1>7, <3>4, <3>11 DEF LandingsAgree
      <4>2. Pending(g) <=> memory.window = 1
        BY <3>11, <4>1 DEF Pending
      <4>3. Seen(g) = g.window_insns_total + 1
        <5>1. CASE at = 4
          <6>1. Aims(g) /\ g.window_insns_total = 0
            BY <3>4, <3>7, <3>11, <5>1 DEF Aims, Counted
          <6> QED
            BY <6>1 DEF Seen
        <5>2. CASE at # 4
          <6>1. ~Aims(g)
            BY <3>7, <5>2 DEF Aims
          <6> QED
            BY <4>1, <6>1 DEF Seen
        <5> QED
          BY <5>1, <5>2
      <4> QED
        BY <3>1, <3>3, <3>5, <4>1, <4>2, <4>3 DEF Called
    <3> QED
      BY <1>2, <2>1, <3>8, <3>9, <3>10, <3>11
  <2> QED
    BY <2>2, <2>3
<1> QED
  BY <1>9, <1>10, <1>11, <1>12, <1>13

LEMMA PluginStarts == PluginInit => PluginInv
<1> SUFFICES ASSUME PluginInit PROVE PluginInv
  OBVIOUS
<1>1. /\ trial \in Arguments /\ g = Install /\ at = 1 /\ memory = Zeroed
      /\ landed = <<>> /\ openings = 0 /\ finished = 0 /\ diversions = 0
  BY DEF PluginInit, Arguments
<1>2. Work \in Nat \ {0} /\ trial.budget \in Nat
  <2>1. trial.budget \in Budgets
    BY <1>1 DEF Arguments
  <2>2. Work \in Nat \ {0} /\ Budgets \subseteq Nat
    BY PluginAssumption
  <2> QED
    BY <2>1, <2>2
<1>3. /\ g \in PluginState(g.written) /\ g.written = <<>> /\ ~g.done /\ ~g.seed_written
      /\ ~g.active_window /\ ~g.instruction_budget_exhausted /\ ~g.injected
      /\ g.instructions_executed = 0 /\ g.window_insns_seen = 0 /\ g.window_insns_total = 0
  BY <1>1 DEF Install, PluginState
<1>4. memory \in Image /\ memory.window = 0 /\ memory.done = 0 /\ memory.used = "none"
  BY <1>1, FactsAreTold DEF Zeroed, Image
<1>5. PluginTypes
  BY <1>1, <1>2, <1>3, <1>4, EmptySeq DEF PluginTypes, Spin
<1>6. CountersAgree
  BY <1>2, <1>3 DEF CountersAgree
<1>7. LandingsAgree
  BY <1>1, <1>3, EmptySeq DEF LandingsAgree
<1>8. FinishingAgrees
  BY <1>4 DEF FinishingAgrees
<1>9. WrittenAgrees
  <2>1. Locations(0) \o <<>> = <<>>
    BY DEF Locations
  <2>2. 0 \in 0 .. Len(landed) /\ 0 \in 0 .. 1
    BY <1>1, EmptySeq
  <2>3. g.written = Locations(0) \o
                      IF g.done THEN WrittenRecord(RecordOf(Clean, 0)) ELSE <<>>
    BY <1>3, <2>1
  <2> QED
    BY <1>3, <2>2, <2>3, FactsAreTold DEF WrittenAgrees
<1>10. OnItsPath
  BY <1>1, <1>3, <1>4 DEF OnItsPath, Outside
<1>11. Untouched
  BY <1>1, <1>2, <1>3, <1>4 DEF Untouched, Counted, Spin
<1> QED
  BY <1>5, <1>6, <1>7, <1>8, <1>9, <1>10, <1>11 DEF PluginInv

LEMMA PluginSteps == PluginInv /\ [PluginNext]_pluginVars => PluginInv'
<1> SUFFICES ASSUME PluginInv, [PluginNext]_pluginVars PROVE PluginInv'
  OBVIOUS
<1>1. CASE PluginNext
  BY <1>1, TypesKeep, CountersKeep, LandingsKeep, FinishingKeeps, WrittenKeeps, PathKeeps,
     UntouchedKeeps DEF PluginInv
<1>2. CASE UNCHANGED pluginVars
  <2>1. UNCHANGED <<trial, g, at, memory, landed, openings, finished, diversions>>
    BY <1>2 DEF pluginVars
  <2>2. PluginTypes' /\ CountersAgree' /\ FinishingAgrees' /\ OnItsPath'
    BY <2>1 DEF PluginInv, PluginTypes, CountersAgree, FinishingAgrees, OnItsPath
  <2>3. LandingsAgree'
    BY <2>1 DEF PluginInv, LandingsAgree, UsesOffset, Offsets
  <2>4. WrittenAgrees'
    <3>1. \A f, d : RecordOf(f, d)' = RecordOf(f, d)
      BY <2>1 DEF RecordOf
    <3>2. PICK n \in 0 .. Len(landed), f \in Told, d \in 0 .. 1 :
            /\ g.written = Locations(n) \o
                             IF g.done THEN WrittenRecord(RecordOf(f, d)) ELSE <<>>
            /\ g.done /\ d = 1 =>
                 /\ at = Spin
                 /\ g.instruction_budget_exhausted => finished = trial.budget
            /\ g.done /\ ~g.instruction_budget_exhausted =>
                 d = 1 /\ (landed = <<>> => f = Clean)
      BY DEF PluginInv, WrittenAgrees
    <3>3. /\ g'.written = Locations(n) \o
                             IF g'.done THEN WrittenRecord(RecordOf(f, d)') ELSE <<>>
          /\ g'.done /\ d = 1 =>
               /\ at' = Spin
               /\ g'.instruction_budget_exhausted => finished' = trial'.budget
          /\ g'.done /\ ~g'.instruction_budget_exhausted =>
               d = 1 /\ (landed' = <<>> => f = Clean)
      BY <2>1, <3>1, <3>2
    <3>4. n \in 0 .. Len(landed')
      BY <2>1
    <3> QED
      BY <3>3, <3>4 DEF WrittenAgrees
  <2>5. Untouched'
    BY <2>1 DEF PluginInv, Untouched, UsesOffset, Counted
  <2> QED
    BY <2>2, <2>3, <2>4, <2>5 DEF PluginInv
<1> QED
  BY <1>1, <1>2

-----------------------------------------------------------------------------
(* What the stream tells *)

LEMMA PartsAre ==
  ASSUME NEW r
  PROVE  /\ DOMAIN Location = {"injected"} /\ DOMAIN Sentinel = {"end"}
         /\ DOMAIN Keys(r, RequiredFacts) = RequiredFacts
         /\ DOMAIN Keys(r, PluginFacts) = PluginFacts
         /\ \A key \in RequiredFacts : key \notin PluginFacts /\ key # "injected" /\ key # "end"
         /\ "end" \notin PluginFacts /\ "injected" \in PluginFacts
  BY DEF Location, Sentinel, Keys, RequiredFacts, PluginFacts

LEMMA LastTellingIs ==
  ASSUME NEW S, NEW s \in Seq(S), NEW key, NEW i \in 1 .. Len(s), key \in DOMAIN s[i],
         \A later \in i + 1 .. Len(s) : key \notin DOMAIN s[later]
  PROVE  Present(ParseFacts(s), key) /\ ParseFacts(s)[key] = s[i][key]
<1>1. DOMAIN s = 1 .. Len(s) /\ Len(s) \in Nat
  BY LenProperties
<1>2. LastTelling(key, s) = i
  <2> DEFINE Tells(j) == /\ key \in DOMAIN s[j]
                        /\ \A later \in j + 1 .. Len(s) : key \notin DOMAIN s[later]
  <2>1. ASSUME NEW j \in DOMAIN s, Tells(j) PROVE j = i
    BY <1>1, <2>1
  <2>2. Tells(i) /\ i \in DOMAIN s
    BY <1>1
  <2>3. Tells(LastTelling(key, s)) /\ LastTelling(key, s) \in DOMAIN s
    BY <2>2 DEF LastTelling
  <2> QED
    BY <2>1, <2>3
<1>3. key \in UNION {DOMAIN s[j] : j \in DOMAIN s}
  BY <1>1
<1> QED
  BY <1>2, <1>3 DEF ParseFacts, Present

LEMMA LocationsTellNothing ==
  ASSUME NEW n \in Nat
  PROVE  ~HasSentinel(Locations(n) \o <<>>)
<1>1. Locations(n) \o <<>> = Locations(n)
  <2>1. Locations(n) \in Seq({Location})
    BY DEF Locations
  <2> QED
    BY <2>1, ConcatEmptySeq
<1>2. Location # Sentinel
  BY PartsAre
<1> QED
  BY <1>1, <1>2 DEF HasSentinel, ToSet, Locations

(* The end of a stream: some equal parts, then three more. *)
LEMMA ThreeMore ==
  ASSUME NEW S, NEW n \in Nat, NEW one \in S, NEW first \in S, NEW second \in S, NEW end \in S,
         NEW front, front = [i \in 1 .. n |-> one],
         NEW back, back = <<first, second, end>>
  PROVE  /\ front \o back \in Seq(S) /\ Len(front \o back) = n + 3
         /\ DOMAIN (front \o back) = 1 .. n + 3
         /\ (front \o back)[n + 1] = first
         /\ (front \o back)[n + 2] = second
         /\ (front \o back)[n + 3] = end
<1>1. front \in Seq(S) /\ Len(front) = n
  OBVIOUS
<1>2. back \in Seq(S) /\ Len(back) = 3
      /\ back[1] = first /\ back[2] = second /\ back[3] = end
  OBVIOUS
<1>3. PICK whole : whole = front \o back
  OBVIOUS
<1>4. /\ whole \in Seq(S) /\ Len(whole) = Len(front) + Len(back)
      /\ \A i \in 1 .. Len(front) + Len(back) :
           whole[i] = IF i <= Len(front) THEN front[i] ELSE back[i - Len(front)]
  <2>1. front \in Seq(S) /\ back \in Seq(S)
    BY <1>1, <1>2
  <2> QED
    BY <1>3, <2>1, ConcatProperties
<1>5. Len(whole) = n + 3 /\ DOMAIN whole = 1 .. n + 3
  BY <1>1, <1>2, <1>4, LenProperties
<1>6. \A i \in 1 .. n + 3 : whole[i] = IF i <= n THEN front[i] ELSE back[i - n]
  BY <1>1, <1>2, <1>4
<1>7. \A k \in 1 .. 3 : whole[n + k] = back[k]
  <2> TAKE k \in 1 .. 3
  <2>1. n + k \in 1 .. n + 3 /\ ~(n + k <= n) /\ (n + k) - n = k
    OBVIOUS
  <2> QED
    BY <1>6, <2>1
<1> QED
  BY <1>2, <1>3, <1>4, <1>5, <1>7

LEMMA RecordTells ==
  ASSUME NEW S, NEW s \in Seq(S), NEW n \in Nat, NEW r,
         Len(s) = n + 3, DOMAIN s = 1 .. n + 3,
         s[n + 1] = Keys(r, RequiredFacts), s[n + 2] = Keys(r, PluginFacts),
         s[n + 3] = Sentinel, NEW key \in RequiredFacts \cup PluginFacts
  PROVE  Present(ParseFacts(s), key) /\ ParseFacts(s)[key] = r[key]
<1>1. CASE key \in RequiredFacts
  <2>1. PICK i : i = n + 1
    OBVIOUS
  <2>2. i \in 1 .. Len(s) /\ s[i] = Keys(r, RequiredFacts)
    BY <2>1
  <2>3. key \in DOMAIN s[i] /\ s[i][key] = r[key]
    BY <1>1, <2>2 DEF Keys
  <2>4. \A later \in i + 1 .. Len(s) : key \notin DOMAIN s[later]
    <3>1. \A later \in i + 1 .. Len(s) : later = n + 2 \/ later = n + 3
      BY <2>1
    <3>2. key \notin DOMAIN s[n + 2] /\ key \notin DOMAIN s[n + 3]
      BY <1>1, PartsAre
    <3> QED
      BY <3>1, <3>2
  <2>5. Present(ParseFacts(s), key) /\ ParseFacts(s)[key] = s[i][key]
    BY <2>2, <2>3, <2>4, LastTellingIs
  <2> QED
    BY <2>3, <2>5
<1>2. CASE key \in PluginFacts
  <2>1. PICK i : i = n + 2
    OBVIOUS
  <2>2. i \in 1 .. Len(s) /\ s[i] = Keys(r, PluginFacts)
    BY <2>1
  <2>3. key \in DOMAIN s[i] /\ s[i][key] = r[key]
    BY <1>2, <2>2 DEF Keys
  <2>4. \A later \in i + 1 .. Len(s) : key \notin DOMAIN s[later]
    <3>1. \A later \in i + 1 .. Len(s) : later = n + 3
      BY <2>1
    <3>2. key \notin DOMAIN s[n + 3]
      BY <1>2, PartsAre
    <3> QED
      BY <3>1, <3>2
  <2>5. Present(ParseFacts(s), key) /\ ParseFacts(s)[key] = s[i][key]
    BY <2>2, <2>3, <2>4, LastTellingIs
  <2> QED
    BY <2>3, <2>5
<1> QED
  BY <1>1, <1>2

LEMMA WholeRecordIs ==
  ASSUME NEW told, "injected" \in DOMAIN told
  PROVE  WrittenRecord(told) =
           <<Keys(told, RequiredFacts), Keys(told, PluginFacts), Sentinel>>
<1>1. told # <<>>
  OBVIOUS
<1> QED
  BY <1>1 DEF WrittenRecord

LEMMA RecordReads ==
  ASSUME NEW n \in Nat, NEW r, DOMAIN r = RequiredFacts \cup PluginFacts,
         NEW s, s = Locations(n) \o WrittenRecord(r)
  PROVE  /\ HasSentinel(s)
         /\ \A key \in RequiredFacts \cup PluginFacts :
              Present(ParseFacts(s), key) /\ ParseFacts(s)[key] = r[key]
         /\ WrittenRecord(ParseFacts(s)) = WrittenRecord(r)
<1>1. "injected" \in DOMAIN r
  BY PartsAre
<1>2. PICK first, second, S :
        /\ first = Keys(r, RequiredFacts) /\ second = Keys(r, PluginFacts)
        /\ S = {Location, first, second, Sentinel}
  OBVIOUS
<1>3. PICK front, back :
        /\ front = [i \in 1 .. n |-> Location] /\ back = <<first, second, Sentinel>>
        /\ front = Locations(n)
  BY DEF Locations
<1>4. s = front \o back
  <2>1. WrittenRecord(r) = back
    BY <1>1, <1>2, <1>3, WholeRecordIs
  <2> QED
    BY <1>3, <2>1
<1>5. /\ s \in Seq(S) /\ Len(s) = n + 3 /\ DOMAIN s = 1 .. n + 3
      /\ s[n + 1] = first /\ s[n + 2] = second /\ s[n + 3] = Sentinel
  <2>1. Location \in S /\ first \in S /\ second \in S /\ Sentinel \in S
    BY <1>2
  <2> QED
    BY <1>3, <1>4, <2>1, ThreeMore
<1>6. HasSentinel(s)
  <2>1. n + 3 \in DOMAIN s
    BY <1>5
  <2> QED
    BY <1>5, <2>1 DEF HasSentinel, ToSet
<1>7. \A key \in RequiredFacts \cup PluginFacts :
        Present(ParseFacts(s), key) /\ ParseFacts(s)[key] = r[key]
  <2>1. s[n + 1] = Keys(r, RequiredFacts)
    BY <1>2, <1>5
  <2>2. s[n + 2] = Keys(r, PluginFacts)
    BY <1>2, <1>5
  <2>3. s[n + 3] = Sentinel /\ Len(s) = n + 3 /\ DOMAIN s = 1 .. n + 3
    BY <1>5
  <2>4. s \in Seq(S)
    BY <1>5
  <2> QED
    BY <2>1, <2>2, <2>3, <2>4, RecordTells, ZenonT(60)
<1>8. WrittenRecord(ParseFacts(s)) = WrittenRecord(r)
  <2>1. PICK told : told = ParseFacts(s)
    OBVIOUS
  <2>2. \A key \in RequiredFacts \cup PluginFacts : key \in DOMAIN told /\ told[key] = r[key]
    BY <1>7, <2>1 DEF Present
  <2>3. /\ Keys(told, RequiredFacts) = Keys(r, RequiredFacts)
        /\ Keys(told, PluginFacts) = Keys(r, PluginFacts)
    BY <2>2 DEF Keys
  <2>4. "injected" \in DOMAIN told
    BY <2>2, PartsAre
  <2> QED
    BY <1>1, <2>1, <2>3, <2>4, WholeRecordIs
<1> QED
  BY <1>6, <1>7, <1>8

(* The facts of the record, as the host reads them. *)
Reads(f, d) ==
  /\ Facts["harness_done"] = d
  /\ Facts["harness_detected"] = f.harness_detected
  /\ Facts["harness_corrected"] = f.harness_corrected
  /\ Facts["harness_safe_state"] = f.harness_safe_state
  /\ Facts["harness_output"] = f.harness_output
  /\ Facts["harness_expected"] = 1
  /\ Facts["injected"] = AsInt(g.injected)
  /\ Facts["window_insns_total"] = g.window_insns_total
  /\ Facts["instruction_budget_exhausted"] = AsInt(g.instruction_budget_exhausted)

LEMMA RecordIs ==
  ASSUME PluginInv
  PROVE  /\ Recorded <=> g.done
         /\ StreamIsATrials
         /\ Recorded => \E f \in Told, d \in 0 .. 1 :
              /\ Reads(f, d)
              /\ \A key \in RequiredFacts \cup PluginFacts : Present(Facts, key)
              /\ d = 1 /\ g.instruction_budget_exhausted => finished = trial.budget
              /\ ~g.instruction_budget_exhausted =>
                   d = 1 /\ (landed = <<>> => f = Clean)
<1>1. PICK n \in 0 .. Len(landed), f \in Told, d \in 0 .. 1 :
        /\ g.written = Locations(n) \o
                         IF g.done THEN WrittenRecord(RecordOf(f, d)) ELSE <<>>
        /\ g.done /\ d = 1 =>
             /\ at = Spin
             /\ g.instruction_budget_exhausted => finished = trial.budget
        /\ g.done /\ ~g.instruction_budget_exhausted =>
             d = 1 /\ (landed = <<>> => f = Clean)
  BY DEF PluginInv, WrittenAgrees
<1>2. n \in Nat
  BY <1>1
<1>3. CASE ~g.done
  <2>1. g.written = Locations(n) \o <<>>
    BY <1>1, <1>3
  <2>2. ~Recorded
    BY <1>2, <2>1, LocationsTellNothing DEF Recorded
  <2>3. StreamIsATrials
    BY <1>1, <2>1, <2>2 DEF StreamIsATrials, Locations
  <2> QED
    BY <1>3, <2>2, <2>3
<1>4. CASE g.done
  <2>1. PICK r : r = RecordOf(f, d)
    OBVIOUS
  <2>2. /\ DOMAIN r = RequiredFacts \cup PluginFacts
        /\ r["harness_done"] = d
        /\ r["harness_detected"] = f.harness_detected
        /\ r["harness_corrected"] = f.harness_corrected
        /\ r["harness_safe_state"] = f.harness_safe_state
        /\ r["harness_output"] = f.harness_output
        /\ r["harness_expected"] = 1
        /\ r["injected"] = AsInt(g.injected)
        /\ r["window_insns_total"] = g.window_insns_total
        /\ r["instruction_budget_exhausted"] = AsInt(g.instruction_budget_exhausted)
    BY <2>1 DEF RecordOf, RequiredFacts, PluginFacts
  <2>3. g.written = Locations(n) \o WrittenRecord(r)
    BY <1>1, <1>4, <2>1
  <2>4. /\ Recorded
        /\ \A key \in RequiredFacts \cup PluginFacts :
             Present(Facts, key) /\ Facts[key] = r[key]
        /\ WrittenRecord(Facts) = WrittenRecord(r)
    <3>1. PICK s : s = g.written
      OBVIOUS
    <3>2. DOMAIN r = RequiredFacts \cup PluginFacts
      BY <2>2
    <3>3. s = Locations(n) \o WrittenRecord(r)
      BY <2>3, <3>1
    <3>4. /\ HasSentinel(s)
          /\ \A key \in RequiredFacts \cup PluginFacts :
               Present(ParseFacts(s), key) /\ ParseFacts(s)[key] = r[key]
          /\ WrittenRecord(ParseFacts(s)) = WrittenRecord(r)
      BY <1>2, <3>2, <3>3, RecordReads
    <3> QED
      BY <3>1, <3>4 DEF Recorded, Facts
  <2>5. StreamIsATrials
    BY <1>1, <2>3, <2>4 DEF StreamIsATrials, Locations
  <2>6. Reads(f, d)
    BY <2>2, <2>4 DEF Reads, RequiredFacts, PluginFacts
  <2> QED
    BY <1>1, <1>4, <2>4, <2>5, <2>6
<1> QED
  BY <1>3, <1>4

-----------------------------------------------------------------------------
(* The record is the trial *)

LEMMA TypesHold == ASSUME PluginInv PROVE PluginTypeOK
<1>1. at \in DOMAIN Program \cup {Outside}
  BY PluginAssumption, ProgramIs DEF PluginInv, PluginTypes, Outside, Spin
<1>2. /\ memory.window \in 0 .. 1 /\ memory.done \in 0 .. 1
      /\ memory.facts \in Publications \cup {Zeroed.facts}
  BY DEF PluginInv, PluginTypes, Image, Told
<1> QED
  BY <1>1, <1>2 DEF PluginTypeOK, PluginInv, CountersAgree

LEMMA FaultsStrike == ASSUME PluginInv PROVE FaultsStrikeTheWindow
<1>1. landed \in Seq(Landing)
  BY DEF PluginInv, PluginTypes
<1>2. PICK l \in Nat : l = Len(landed) /\ DOMAIN landed = 1 .. l
  BY <1>1, LenProperties
<1>3. \A i \in 1 .. l :
        /\ landed[i].window = 1
        /\ UsesOffset => landed[i].offset \in Offsets
        /\ landed[i].opening \in 1 .. openings
        /\ \A j \in 1 .. i - 1 : landed[j].opening < landed[i].opening
  BY <1>2 DEF PluginInv, LandingsAgree
<1>4. \A i \in 1 .. l : landed[i].opening \in Nat
  BY <1>3 DEF PluginInv, PluginTypes
<1>5. ASSUME NEW i \in 1 .. l, NEW j \in 1 .. l, j # i
      PROVE  landed[j].opening # landed[i].opening
  <2>1. CASE j < i
    <3>1. landed[j].opening < landed[i].opening
      BY <1>3, <1>5, <2>1
    <3> QED
      BY <1>4, <3>1
  <2>2. CASE i < j
    <3>1. landed[i].opening < landed[j].opening
      BY <1>3, <1>5, <2>2
    <3> QED
      BY <1>4, <3>1
  <2> QED
    BY <1>5, <2>1, <2>2
<1> QED
  BY <1>2, <1>3, <1>5 DEF FaultsStrikeTheWindow

LEMMA BoundedLands == ASSUME PluginInv PROVE BoundedOffsetLands
<1>1. SUFFICES ASSUME Recorded, Facts["instruction_budget_exhausted"] = 0, diversions = 0
               PROVE  /\ trial.mode = "none" => Facts["window_insns_total"] = OpenLength
                      /\ UsesOffset /\ trial.target = "ok" /\ trial.bound = OpenLength =>
                           Facts["injected"] = 1
  BY DEF BoundedOffsetLands
<1>2. PICK f \in Told, d \in 0 .. 1 :
        /\ Reads(f, d)
        /\ ~g.instruction_budget_exhausted => d = 1
  BY <1>1, RecordIs
<1>3. g.done /\ ~g.instruction_budget_exhausted
  BY <1>1, <1>2, RecordIs DEF Reads, AsInt
<1>4. at = Spin
  BY <1>3 DEF PluginInv, WrittenAgrees
<1>5. Work \in Nat \ {0}
  BY PluginAssumption
<1>6. landed = <<>> => /\ g.window_insns_total = Work + 1 /\ openings = 1
                       /\ UsesOffset /\ trial.target # "none" =>
                            g.window_insns_seen = g.window_insns_total
  BY <1>3, <1>4, <1>5 DEF PluginInv, Untouched, Counted, Spin
<1>7. trial.mode = "none" => Facts["window_insns_total"] = OpenLength
  <2>1. trial.mode = "none" => landed = <<>>
    BY DEF PluginInv, LandingsAgree
  <2>2. Facts["window_insns_total"] = g.window_insns_total
    BY <1>2 DEF Reads
  <2> QED
    BY <1>6, <2>1, <2>2, WindowIs
<1>8. ASSUME UsesOffset, trial.target = "ok", trial.bound = OpenLength
      PROVE  Facts["injected"] = 1
  <2>1. g.injected
    <3>1. CASE landed = <<>>
      <4>1. ~g.injected => g.inject_after \in Offsets /\ g.window_insns_seen < g.inject_after
        BY <1>6, <1>8, <3>1 DEF PluginInv, LandingsAgree
      <4>2. Offsets = 1 .. Work + 1
        BY <1>5, <1>8, WindowIs DEF Offsets
      <4>3. g.window_insns_seen = Work + 1
        BY <1>6, <1>8, <3>1
      <4> QED
        BY <1>5, <4>1, <4>2, <4>3
    <3>2. CASE landed # <<>>
      <4>1. landed \in Seq(Landing) /\ openings \in Nat
        BY DEF PluginInv, PluginTypes
      <4>2. PICK l \in Nat : l = Len(landed) /\ l # 0
        BY <3>2, <4>1, EmptySeq
      <4>3. landed[l].opening \in 1 .. openings
        <5>1. l \in 1 .. Len(landed)
          BY <4>2
        <5> QED
          BY <5>1 DEF PluginInv, LandingsAgree
      <4>4. openings <= 1
        BY <1>1 DEF PluginInv, OnItsPath
      <4>5. landed[l].opening = openings
        BY <4>1, <4>3, <4>4
      <4> QED
        BY <3>2, <4>2, <4>5 DEF PluginInv, LandingsAgree
    <3> QED
      BY <3>1, <3>2
  <2>2. Facts["injected"] = AsInt(g.injected)
    BY <1>2 DEF Reads
  <2> QED
    BY <2>1, <2>2 DEF AsInt
<1> QED
  BY <1>7, <1>8

LEMMA LastOpeningIs == ASSUME PluginInv PROVE RecordIsOfTheLastOpening
<1>1. SUFFICES ASSUME Recorded
               PROVE  Facts["injected"] = 1 <=>
                        landed # <<>> /\ landed[Len(landed)].opening = openings
  BY DEF RecordIsOfTheLastOpening
<1>2. PICK f \in Told, d \in 0 .. 1 : Reads(f, d)
  BY <1>1, RecordIs
<1>3. Facts["injected"] = 1 <=> g.injected
  BY <1>2 DEF Reads, AsInt
<1> QED
  BY <1>3 DEF PluginInv, LandingsAgree

LEMMA NoBlame == ASSUME PluginInv PROVE NoFaultNoBlame
<1>1. SUFFICES ASSUME Recorded, landed = <<>>
               PROVE  Class = IF Facts["instruction_budget_exhausted"] = 1 THEN "hang"
                              ELSE IF FuzzCampaign[trial.mode].RequiresInjection
                              THEN "invalid_trial" ELSE "passed"
  BY DEF NoFaultNoBlame
<1>2. PICK f \in Told, d \in 0 .. 1 :
        /\ Reads(f, d)
        /\ \A key \in RequiredFacts \cup PluginFacts : Present(Facts, key)
        /\ ~g.instruction_budget_exhausted => d = 1 /\ f = Clean
  BY <1>1, RecordIs
<1>3. PICK told, required, run :
        /\ told = Facts /\ required = FuzzCampaign[trial.mode].RequiresInjection
        /\ run = [facts |-> told, status |-> "completed", timeout |-> FALSE,
                  requiresInjection |-> required]
  OBVIOUS
<1>4. Class = Classify(run)
  BY <1>3 DEF Class
<1>5. /\ run.facts = told /\ run.status = "completed" /\ ~run.timeout
      /\ run.requiresInjection = required
  BY <1>3
<1>6. ~g.injected
  BY <1>1 DEF PluginInv, LandingsAgree
<1>7. /\ Present(told, "instruction_budget_exhausted") /\ Present(told, "injected")
      /\ \A key \in RequiredFacts : Present(told, key)
  BY <1>2, <1>3 DEF PluginFacts
<1>8. /\ told["instruction_budget_exhausted"] = AsInt(g.instruction_budget_exhausted)
      /\ told["injected"] = 0
  BY <1>2, <1>3, <1>6 DEF Reads, AsInt
<1>9. CASE g.instruction_budget_exhausted
  <2>1. told["instruction_budget_exhausted"] = 1
    BY <1>8, <1>9 DEF AsInt
  <2>2. Flag(told, "instruction_budget_exhausted")
    BY <1>7, <2>1 DEF Flag, IntFact
  <2> QED
    BY <1>3, <1>4, <1>5, <2>1, <2>2 DEF Classify
<1>10. CASE ~g.instruction_budget_exhausted
  <2>1. told["instruction_budget_exhausted"] = 0
    BY <1>8, <1>10 DEF AsInt
  <2>2. ~Flag(told, "instruction_budget_exhausted") /\ ~Flag(told, "injected")
    BY <1>7, <1>8, <2>1 DEF Flag, IntFact
  <2>3. /\ told["harness_done"] = 1 /\ told["harness_detected"] = 0
        /\ told["harness_corrected"] = 0 /\ told["harness_safe_state"] = 0
        /\ told["harness_output"] = 1 /\ told["harness_expected"] = 1
    BY <1>2, <1>3, <1>10 DEF Reads, Clean, Published
  <2>4. WellFormed(told)
    <3>1. \A key \in RequiredFacts : told[key] \in {0, 1}
      BY <2>3 DEF RequiredFacts
    <3>2. Garbled \notin {0, 1}
      BY DEF Garbled
    <3> QED
      BY <1>7, <3>1, <3>2 DEF WellFormed
  <2>5. /\ IntFact(told, "harness_done") = 1 /\ IntFact(told, "harness_detected") = 0
        /\ IntFact(told, "harness_corrected") = 0 /\ IntFact(told, "harness_safe_state") = 0
        /\ IntFact(told, "harness_output") = 1 /\ IntFact(told, "harness_expected") = 1
    BY <1>7, <2>3 DEF IntFact, RequiredFacts
  <2>6. Finished(told) /\ OutputIsExpected(told) /\ ~Contradicts(told)
        /\ ~Flag(told, "harness_detected")
    BY <2>5 DEF Finished, OutputIsExpected, Contradicts, Flag
  <2>7. OutcomeClass(told) = "passed"
    BY <2>6 DEF OutcomeClass
  <2>8. Classify(run) = IF required THEN "invalid_trial" ELSE "passed"
    BY <1>5, <2>2, <2>4, <2>6, <2>7 DEF Classify
  <2> QED
    BY <1>3, <1>4, <2>1, <2>8
<1> QED
  BY <1>9, <1>10

LEMMA FinishedHang == ASSUME PluginInv PROVE FinishedHangIsAtTheBudget
<1>1. SUFFICES ASSUME Recorded, Facts["harness_done"] = 1,
                      Facts["instruction_budget_exhausted"] = 1
               PROVE  finished = trial.budget
  BY DEF FinishedHangIsAtTheBudget
<1>2. PICK f \in Told, d \in 0 .. 1 :
        /\ Reads(f, d)
        /\ d = 1 /\ g.instruction_budget_exhausted => finished = trial.budget
  BY <1>1, RecordIs
<1> QED
  BY <1>1, <1>2 DEF Reads, AsInt

LEMMA SeedHolds == ASSUME PluginInv PROVE SeedIsTheTrials
<1>1. at \in 0 .. Spin /\ Spin \in Nat
  BY PluginAssumption DEF PluginInv, PluginTypes, Spin
<1>2. at <= 2 \/ at >= 3
  BY <1>1
<1> QED
  BY <1>2 DEF PluginInv, OnItsPath, SeedIsTheTrials

(* Where the image stands, what its window counted and what the plugin has *)
(* written agree in every run, diverted or not.                            *)
THEOREM PluginInvariant == PluginSpec => []PluginInv
  BY PluginStarts, PluginSteps, PTL DEF PluginSpec

(* The record is the trial: the fault it names struck the open window of   *)
(* the last opening, no further in it than was drawn, on the trial's own   *)
(* seed; an image that no fault reached is never blamed; and the stream is *)
(* what the runner takes it for (qemu-ft-fuzz.c:464-612).                  *)
THEOREM RecordsAreTheTrials == PluginSpec => []RecordIsTheTrials
<1>1. ASSUME PluginInv PROVE RecordIsTheTrials
  BY <1>1, TypesHold, FaultsStrike, BoundedLands, LastOpeningIs, NoBlame, FinishedHang,
     SeedHolds, RecordIs DEF RecordIsTheTrials
<1>2. PluginInv => RecordIsTheTrials
  BY <1>1
<1> QED
  BY <1>2, PluginInvariant, PTL

-----------------------------------------------------------------------------
(* The six images: what is known before every step of each *)

HitIsNone == hit.word = "none"

ActiveWords     == {"active", "active_field"}
CheckpointWords == {"checkpoint", "checkpoint_field"}
MonitorWords    == {"phase", "signature"}
CopyWords       == {"a", "b", "c"}

CopyType == [value : Nat, sealed : BOOLEAN, fit : BOOLEAN]

FactsType ==
  [detected : 0 .. 1, corrected : 0 .. 1, safe_state : 0 .. 1, output : Nat]

BlockStatuses ==
  {"PRIMARY_ACCEPTED", "ALTERNATE_ACCEPTED", "CHECKPOINT_FAILED", "RESTORE_FAILED"}

BlockSteps ==
  {"capture", "capture_copy", "store", "seal", "accept", "recapture", "recapture_copy",
   "restore", "restore_copy"}

CommitSteps == {"check", "commit_copy", "check_checkpoint", "restart_copy"}

StepsOf(i) ==
  CASE i = "baseline"       -> {"start", "compute", "publish", "done"}
    [] i = "tmr"            -> {"vote", "load", "publish", "done"}
    [] i = "checkpoint"     -> CommitSteps \cup {"restarted", "done"}
    [] i = "recovery-block" -> BlockSteps \cup {"recovered", "done"}
    [] i = "control-flow"   ->
         {"start", "compute", "validate", "commit", "leave", "finish", "publish", "done"}
    [] i = "combined"       ->
         {"start", "vote", "load", "compute", "recovered", "validate", "commit", "restarted",
          "leave", "finish", "publish", "done"} \cup BlockSteps \cup CommitSteps

WordsOf(i) ==
  CASE i = "baseline"       -> {"a", "active", "sample"}
    [] i = "tmr"            -> {"a", "b", "c", "fault_count", "value"}
    [] i = "checkpoint"     -> RecordWords
    [] i = "recovery-block" -> RecordWords \cup {"sample"}
    [] i = "control-flow"   -> {"phase", "signature", "transitions", "sample", "value"}
    [] i = "combined"       ->
         {"a", "b", "c", "fault_count", "phase", "signature", "transitions", "sample"}
         \cup RecordWords

Types ==
  /\ image \in Images /\ campaign \in {"ram-bitflip", "reg-bitflip"}
  /\ initial \in Nat /\ expected \in Nat /\ sample \in Nat /\ value \in Nat
  /\ triplet \in [a : Nat, b : Nat, c : Nat, fault_count : Nat]
  /\ elected \in {"a", "b"}
  /\ record \in [active : CopyType, checkpoint : CopyType]
  /\ op \in {"primary", "alternate"}
  /\ monitor \in [phase : Nat, signature : Nat]
  /\ facts \in FactsType
  /\ pc \in StepsOf(image)

(* Where a fault may have landed, and when it must have. *)
Timed ==
  /\ hit = [word |-> hit.word, before |-> hit.before]
  /\ HitIsNone => hit.before = "none"
  /\ ~HitIsNone => hit.word \in WordsOf(image) /\ hit.before \in StepsOf(image) \ {"done"}
  /\ campaign = "ram-bitflip" =>
       /\ ~HitIsNone => hit.word \notin {"sample", "value"} /\
            hit.before = CASE image = "tmr"            -> "vote"
                           [] image = "checkpoint"     -> "check"
                           [] image = "recovery-block" -> "capture"
                           [] OTHER                    -> "start"
       /\ HitIsNone => AtTheOpening

(* the vote *)
Noticed == Struck(CopyWords, {"start", "vote"}) \/ hit.word = "fault_count"

VoteAgrees ==
  /\ HitIsNone => triplet.a = initial /\ triplet.b = initial /\ triplet.c = initial 
                  /\ triplet.fault_count = 0 
  /\ pc \in {"start", "vote"} =>
       /\ hit.word # "a" => triplet.a = initial
       /\ hit.word # "b" => triplet.b = initial
       /\ hit.word # "c" => triplet.c = initial
       /\ hit.word = "a" => triplet.a # initial
       /\ hit.word = "b" => triplet.b # initial
       /\ hit.word = "c" => triplet.c # initial
       /\ hit.word # "fault_count" <=> triplet.fault_count = 0
       /\ ~HitIsNone => hit.before \in {"start", "vote"}
  /\ pc = "load" =>
       /\ triplet[elected] = initial \/ Struck({"a"}, {"load"})
       /\ hit.word = "a" /\ elected = "a" => hit.before = "load"
       /\ elected = "b" => ~HitIsNone
       /\ Noticed <=> triplet.fault_count # 0
       /\ ~HitIsNone => hit.before \in {"start", "vote", "load"}

TmrAgrees ==
  /\ initial = expected
  /\ pc # "done" => facts = [detected |-> 0, corrected |-> 0, safe_state |-> 0, output |-> 0]
  /\ pc = "publish" => 
       /\ Noticed <=> triplet.fault_count # 0
       /\ value = expected \/ Uncompared
  /\ pc = "done" =>
       /\ Noticed <=> facts.detected = 1
       /\ facts.safe_state = 0 /\ facts.corrected = facts.detected
       /\ facts.output = expected \/ Uncompared

(* the recovery block *)
Misled ==
  \/ Struck({"a"}, {"load"})
  \/ Struck({"sample"}, {"compute", "capture", "capture_copy", "store"})

Want(v) == v \in 100 .. 799 /\ (~Misled => v = expected)

Sound(c) == c = Whole(c.value) /\ Want(c.value)

BeforeSeal == Struck({"active"}, {"seal"})

ActiveHit == hit.word \in ActiveWords

SampleAgrees ==
  /\ pc \in {"compute", "capture", "capture_copy", "store", "restore", "restore_copy"} =>
       Misled \/ PrimaryValue(sample) = expected
  /\ pc \in {"seal", "accept"} =>
       Misled \/ PrimaryValue(sample) = expected \/ hit.word = "sample"

EntrySteps == {"start", "vote", "load", "compute", "capture"}

EntryAgrees ==
  /\ pc \in EntrySteps =>
       IF ActiveHit THEN hit.before \in EntrySteps /\ ~record.active.sealed
       ELSE record.active = Whole(initial)
  /\ pc = "capture_copy" =>
       IF ActiveHit THEN hit.before = "capture_copy" /\ ~record.active.sealed
       ELSE record.active = Whole(initial)

ByPrimary == op = "primary" /\ ActiveHit

OperationAgrees ==
  /\ op = "alternate" => Struck(ActiveWords, {"store", "seal", "accept"})
  /\ pc \in {"capture", "capture_copy", "restore", "restore_copy"} => op = "primary"
  /\ pc = "store" =>
       IF ByPrimary THEN hit.before \in {"capture_copy", "store"}
       ELSE record.active = Whole(initial)
  /\ pc = "seal" =>
       /\ ~record.active.sealed
       /\ IF ByPrimary 
          THEN /\ hit.before \in {"capture_copy", "store", "seal"}
               /\ Want(record.active.value) \/ BeforeSeal
          ELSE Want(record.active.value) /\ record.active.fit
  /\ pc = "accept" =>
       IF ByPrimary
       THEN IF hit.before = "accept" THEN ~record.active.sealed
            ELSE /\ hit.before \in {"capture_copy", "store", "seal"}
                 /\ record.active.sealed /\ (Want(record.active.value) \/ BeforeSeal)
       ELSE Sound(record.active)
  /\ pc \in {"recapture", "recapture_copy"} =>
       IF ByPrimary /\ hit.before \notin {"capture_copy", "store", "seal"}
       THEN /\ hit.before = pc /\ ~record.active.sealed
            /\ hit.word = "active_field" => record.active.value = expected
       ELSE Valid(record.active) /\ (Want(record.active.value) \/ (BeforeSeal /\ ByPrimary))
  /\ pc = "restore" =>
       /\ Struck(ActiveWords, {"capture_copy", "store", "seal", "accept"})
       /\ ~Valid(record.active)
  /\ pc = "restore_copy" => Struck(ActiveWords, {"store", "seal", "accept"})

CheckpointAgrees ==
  pc \in {"store", "seal", "accept", "restore", "restore_copy"} /\ hit.word \notin CheckpointWords =>
    IF Struck(ActiveWords, {"capture_copy"}) THEN ~record.checkpoint.sealed
    ELSE record.checkpoint = Whole(initial)

AtEntry == Struck(ActiveWords, EntrySteps)

AcceptedHit == {"recapture", "recapture_copy", "recovered", "validate", "commit", "check"}

(* behind an accepted operation *)
CopiesAgree ==
  /\ HitIsNone => record.checkpoint = record.active
  /\ IF Struck(ActiveWords, AcceptedHit)
     THEN /\ ~record.active.sealed
          /\ hit.before = "recapture_copy" => ~record.checkpoint.sealed
          /\ hit.before \notin {"recapture", "recapture_copy"} =>
               record.checkpoint = Whole(expected)
     ELSE Valid(record.active)

RecoveredAgrees ==
  /\ pc \in EntrySteps \cup BlockSteps => status = "none"
  /\ pc = "recovered" =>
       /\ status \in BlockStatuses
       /\ AtEntry <=> status = "CHECKPOINT_FAILED"
       /\ AtEntry => ~record.active.sealed
       /\ status = "RESTORE_FAILED" =>
            ~Valid(record.active) /\ Struck(ActiveWords, {"capture_copy"})
       /\ status = "ALTERNATE_ACCEPTED" => ActiveHit /\ record.active.value = expected
       /\ status \in {"PRIMARY_ACCEPTED", "ALTERNATE_ACCEPTED"} => CopiesAgree
       /\ status = "PRIMARY_ACCEPTED" /\ ~Struck(ActiveWords, AcceptedHit) =>
            Want(record.active.value) \/ BeforeSeal
       /\ Struck({"active_field"}, AcceptedHit) => record.active.value = expected

BlockAgrees ==
  SampleAgrees /\ EntryAgrees /\ OperationAgrees /\ CheckpointAgrees /\ RecoveredAgrees

RecoveryAgrees ==
  /\ initial \in 100 .. 799 /\ expected \in 100 .. 799
  /\ BlockAgrees
  /\ pc # "done" => facts = [detected |-> 0, corrected |-> 0, safe_state |-> 0, output |-> 0]
  /\ pc = "done" =>
       /\ status \in BlockStatuses
       /\ AtEntry <=> status = "CHECKPOINT_FAILED"
       /\ facts.output = record.active.value
       /\ facts.safe_state = 1 <=> status \in {"CHECKPOINT_FAILED", "RESTORE_FAILED"}
       /\ facts.detected = 1 <=> status # "PRIMARY_ACCEPTED"
       /\ facts.corrected = 1 <=> facts.detected = 1 /\ facts.output = expected
       /\ facts.safe_state = 1 => ~Valid(record.active)
       /\ facts.safe_state = 0 => facts.output = expected \/ (facts.detected = 0 /\ Uncompared)
       /\ status # "PRIMARY_ACCEPTED" => ActiveHit

(* combined *)
Settled ==
  \/ record.active.value = expected
  \/ facts.detected = 0 /\ Uncompared
  \/ facts.detected = 1 /\ Struck(ActiveWords, {"recapture"})

LateSteps == {"check", "commit_copy", "restarted", "leave"}

PhaseAt(p) ==
  CASE p = "start" -> 0
    [] p \in {"vote", "load", "compute"} -> 1
    [] p \in BlockSteps \cup {"recovered", "validate"} -> 2
    [] p = "commit" -> 3
    [] p \in CommitSteps \cup {"restarted", "leave"} -> 4
    [] p = "finish" -> 5

MonitorAgrees ==
  /\ pc \notin {"publish", "done"} =>
       IF hit.word \in MonitorWords THEN ~Allowed(PhaseAt(pc)) ELSE Allowed(PhaseAt(pc))
  /\ pc \in CommitSteps \cup {"restarted", "leave"} /\ hit.word \in MonitorWords =>
       hit.before \in LateSteps
  /\ pc = "finish" /\ hit.word \in MonitorWords => hit.before = "finish"

CommitAgrees ==
  /\ pc \in {"validate", "commit"} \cup CommitSteps =>
       status \in {"PRIMARY_ACCEPTED", "ALTERNATE_ACCEPTED"}
  /\ pc \in {"validate", "commit", "check"} =>
       CopiesAgree /\ (Struck(ActiveWords, AcceptedHit) \/ Settled)
  /\ pc = "commit_copy" => Settled
  /\ pc = "check_checkpoint" =>
       /\ Struck(ActiveWords, AcceptedHit)
       /\ hit.before = "recapture_copy" => ~record.checkpoint.sealed
       /\ hit.before \notin {"recapture", "recapture_copy"} => record.checkpoint = Whole(expected)
  /\ pc = "restart_copy" =>
       /\ ActiveHit
       /\ hit.before = "recapture" \/ record.checkpoint = Whole(expected)
  /\ pc = "restarted" =>
       /\ status \in {"COMMITTED", "RESTORED", "RESTORE_FAILED"}
       /\ status = "COMMITTED" => Settled
       /\ status = "RESTORED" =>
            ActiveHit /\ (record.active.value = expected \/ Struck(ActiveWords, {"recapture"}))
       /\ status = "RESTORE_FAILED" => ~HitIsNone
  /\ pc \in {"leave", "finish"} => Settled /\ status \in {"COMMITTED", "RESTORED"}

CombinedFacts ==
  /\ HitIsNone => facts.detected = 0
  /\ pc \in {"start", "vote", "load"} => facts.detected = 0
  /\ pc \in {"compute", "recovered"} \cup BlockSteps => (facts.detected = 1 => Noticed)
  /\ pc \notin {"publish", "done"} => facts.safe_state = 0
  /\ pc # "done" => facts.corrected = 0 /\ facts.output = 0
  /\ facts.safe_state = 1 =>
       /\ facts.detected = 1
       /\ status \in {"COMMITTED", "RESTORED"} =>
            /\ Struck(MonitorWords, LateSteps \cup {"finish"})
            /\ record.active.value = expected
  /\ pc \in {"publish", "done"} /\ facts.safe_state = 0 => Settled
  /\ pc = "done" =>
       /\ facts.output = record.active.value
       /\ facts.corrected = 1 <=> facts.detected = 1 /\ facts.output = expected

CombinedAgrees ==
  /\ initial \in 100 .. 799 /\ expected \in 100 .. 799 /\ expected = PrimaryValue(initial)
  /\ VoteAgrees /\ BlockAgrees /\ MonitorAgrees /\ CommitAgrees /\ CombinedFacts

(* checkpoint *)
RestartAgrees ==
  /\ initial \in 100 .. 799 /\ expected \in 100 .. 799
  /\ pc \in {"check", "commit_copy"} =>
       /\ status = "none"
       /\ IF ActiveHit THEN hit.before = pc ELSE record.active.value = expected
       /\ hit.word = "active_field" => record.active.value = expected
  /\ pc = "check" => IF ActiveHit THEN ~record.active.sealed ELSE record.active = Whole(expected)
  /\ pc \in CommitSteps /\ hit.word \notin CheckpointWords => record.checkpoint = Whole(initial)
  /\ pc \in {"check_checkpoint", "restart_copy"} => Struck(ActiveWords, {"check"})
  /\ pc \in {"restarted", "done"} =>
       IF Struck(ActiveWords, {"check"})
       THEN status = "RESTORED" /\ record.active.value = initial
       ELSE status = "COMMITTED" /\ (record.active.value = expected \/ Uncompared)
  /\ pc # "done" => facts = [detected |-> 0, corrected |-> 0, safe_state |-> 0, output |-> 0]
  /\ pc = "done" =>
       /\ facts.output = record.active.value
       /\ facts.detected = 1 <=> status # "COMMITTED"
       /\ facts.corrected = 1 <=> status # "COMMITTED" /\ initial = expected
       /\ facts.safe_state = 1 <=> status # "COMMITTED" /\ initial # expected

(* control flow *)
FlowSteps == {"start", "compute", "validate", "commit", "leave", "finish"}

FlowAgrees ==
  /\ expected = initial + 7
  /\ pc \in FlowSteps =>
       /\ IF hit.word \in MonitorWords THEN ~Allowed(Moves[pc]) /\ hit.before = pc
          ELSE Allowed(Moves[pc])
       /\ facts.detected = 0 /\ facts.safe_state = 0
  /\ pc # "done" => facts.corrected = 0
  /\ pc \in {"start", "compute", "validate", "commit"} => facts.output = 0
  /\ pc \in {"start", "compute"} => sample = initial \/ Uncompared
  /\ pc \in {"validate", "commit"} => value = expected \/ Uncompared
  /\ pc \in {"leave", "finish"} => facts.output = expected \/ Uncompared
  /\ pc \in {"publish", "done"} =>
       IF Struck(MonitorWords, FlowSteps)
       THEN /\ facts.detected = 1
            /\ \/ facts.safe_state = 1 /\ facts.output = 0
               \/ /\ facts.safe_state = 0 /\ facts.output = expected
                  /\ hit.before \in {"leave", "finish"}
       ELSE facts.detected = 0 /\ facts.safe_state = 0 /\ (facts.output = expected \/ Uncompared)
  /\ pc = "done" =>
       (facts.corrected = 1 <=> facts.detected = 1 /\ facts.output = expected)

(* baseline *)
BaselineAgrees ==
  /\ initial \in 100 .. 799 /\ expected = PrimaryValue(initial)
  /\ facts.detected = 0 /\ facts.safe_state = 0 /\ facts.corrected = 0
  /\ HitIsNone => triplet.a = initial
  /\ pc = "start" =>
       /\ hit.word = "a" => triplet.a \in Flips(initial)
       /\ hit.word # "a" => triplet.a = initial
       /\ ~HitIsNone => hit.before = "start"
  /\ pc = "compute" =>
       /\ hit.before \in {"none", "start", "compute"}
       /\ sample \in IF Uncompared THEN Flips(initial) ELSE {initial}
  /\ pc \in {"publish", "done"} => (Uncompared <=> record.active.value # expected)
  /\ pc = "done" => facts.output = record.active.value

GuestsInv ==
  /\ Types /\ Timed
  /\ image = "tmr" => VoteAgrees /\ TmrAgrees
  /\ image = "combined" => CombinedAgrees
  /\ image = "recovery-block" => RecoveryAgrees
  /\ image = "checkpoint" => RestartAgrees
  /\ image = "control-flow" => FlowAgrees
  /\ image = "baseline" => BaselineAgrees

-----------------------------------------------------------------------------
(* The values *)

LEMMA FlipsAre ==
  ASSUME NEW x \in Nat, NEW v \in Flips(x)
  PROVE  v \in Nat /\ v # x
<1>1. (x \div 16) % 2 # 0 => x >= 16
  OBVIOUS
<1>2. (x \div 1024) % 2 # 0 => x >= 1024
  OBVIOUS
<1> QED
  BY <1>1, <1>2 DEF Flips, Flip

LEMMA PrimaryIsInRange ==
  ASSUME NEW x \in Nat
  PROVE  PrimaryValue(x) \in 100 .. 799
<1>1. x % 700 \in Nat
  OBVIOUS
<1>2. (((x % 700) * 37) + 17) % 700 \in 0 .. 699
  BY <1>1
<1> QED
  BY <1>2 DEF PrimaryValue

(* No flipped bit leaves the remainder by 700 as it was, and 37 is prime to*)
(* 700.                                                                    *)
LEMMA FlipsMislead ==
  ASSUME NEW x \in 100 .. 799, NEW v \in Flips(x)
  PROVE  PrimaryValue(v) # PrimaryValue(x)
<1>1. v \in Nat
  BY FlipsAre
<1>2. v = x + 16 \/ v = x - 16 \/ v = x + 1024
  BY DEF Flips, Flip
<1> QED
  BY <1>1, <1>2 DEF PrimaryValue

LEMMA InRangeIsValid ==
  ASSUME NEW v \in 100 .. 799
  PROVE  /\ Whole(v) \in CopyType /\ Valid(Whole(v))
         /\ Whole(v).value = v /\ Whole(v).sealed /\ Whole(v).fit
<1>1. v \in 0 .. 1000 /\ v \in Nat
  OBVIOUS
<1> QED
  BY <1>1 DEF Whole, Valid, CopyType

LEMMA CopyIs ==
  ASSUME NEW c \in CopyType, c.sealed, c.fit
  PROVE  c = Whole(c.value)
  BY DEF CopyType, Whole

LEMMA HitCopies ==
  ASSUME NEW c \in CopyType, NEW word, NEW d \in HitCopy(c, word)
  PROVE  /\ d \in CopyType /\ ~d.sealed
         /\ word = "value" => d.fit = c.fit
         /\ word # "value" => d.value = c.value
<1>1. CASE word = "value"
  <2>1. PICK v \in Flips(c.value) : d = [c EXCEPT !.value = v, !.sealed = FALSE]
    BY <1>1 DEF HitCopy
  <2>2. v \in Nat
    BY FlipsAre DEF CopyType
  <2> QED
    BY <1>1, <2>1, <2>2 DEF CopyType
<1>2. CASE word # "value"
  <2>1. PICK b \in BOOLEAN : d = [c EXCEPT !.sealed = FALSE, !.fit = b]
    BY <1>2 DEF HitCopy
  <2> QED
    BY <1>2, <2>1 DEF CopyType
<1> QED
  BY <1>1, <1>2

(* What a fault does to the words it does not hit: nothing. *)
LEMMA OneWordHit ==
  ASSUME Types, NEW word, HitWord(word)
  PROVE  /\ triplet' \in [a : Nat, b : Nat, c : Nat, fault_count : Nat]
         /\ \A copy \in CopyWords :
              IF word = copy THEN triplet'[copy] \in Flips(triplet[copy])
              ELSE triplet'[copy] = triplet[copy]
         /\ triplet'.fault_count = triplet.fault_count + IF word = "fault_count" THEN 1 ELSE 0
         /\ sample' \in Nat /\ value' \in Nat
         /\ IF word = "sample" THEN sample' \in Flips(sample) ELSE sample' = sample
         /\ word # "value" => value' = value
         /\ record' \in [active : CopyType, checkpoint : CopyType]
         /\ word \notin ActiveWords => record'.active = record.active
         /\ word \in ActiveWords => ~record'.active.sealed
         /\ word = "active" => record'.active.value \in Flips(record.active.value)
                               /\ record'.active.fit = record.active.fit
         /\ word = "active_field" => record'.active.value = record.active.value
         /\ word \notin CheckpointWords => record'.checkpoint = record.checkpoint
         /\ monitor' \in [phase : Nat, signature : Nat]
         /\ word \notin MonitorWords => monitor' = monitor
         /\ word = "phase" => monitor'.phase = monitor.phase + 8
         /\ word = "signature" => monitor'.signature = monitor.signature + 8
<1>1. /\ triplet' \in [a : Nat, b : Nat, c : Nat, fault_count : Nat]
      /\ \A copy \in CopyWords :
              IF word = copy THEN triplet'[copy] \in Flips(triplet[copy])
              ELSE triplet'[copy] = triplet[copy]
      /\ triplet'.fault_count = triplet.fault_count + IF word = "fault_count" THEN 1 ELSE 0
  <2>1. CASE word \in {"a", "b", "c"}
    <3>1. PICK v \in Flips(triplet[word]) : triplet' = [triplet EXCEPT ![word] = v]
      BY <2>1 DEF HitWord
    <3>2. triplet[word] \in Nat
      BY <2>1 DEF Types
    <3>3. v \in Nat
      BY <3>2, FlipsAre
    <3> QED
      BY <2>1, <3>1, <3>3 DEF Types, CopyWords
  <2>2. CASE word = "fault_count"
    BY <2>2 DEF Types, HitWord, CopyWords
  <2>3. CASE word \notin {"a", "b", "c", "fault_count"}
    BY <2>3 DEF Types, HitWord, CopyWords
  <2> QED
    BY <2>1, <2>2, <2>3
<1>2. /\ sample' \in Nat /\ value' \in Nat
      /\ IF word = "sample" THEN sample' \in Flips(sample) ELSE sample' = sample
      /\ word # "value" => value' = value
  BY FlipsAre DEF HitWord, Types
<1>3. record = [active |-> record.active, checkpoint |-> record.checkpoint]
      /\ record.active \in CopyType /\ record.checkpoint \in CopyType
  BY DEF Types
<1>4. /\ record' \in [active : CopyType, checkpoint : CopyType]
      /\ word \notin ActiveWords => record'.active = record.active
      /\ word \in ActiveWords => ~record'.active.sealed
      /\ word = "active" => record'.active.value \in Flips(record.active.value)
                            /\ record'.active.fit = record.active.fit
      /\ word = "active_field" => record'.active.value = record.active.value
      /\ word \notin CheckpointWords => record'.checkpoint = record.checkpoint
  <2>1. CASE word = "active"
    <3>1. PICK c \in HitCopy(record.active, "value") : record' = [record EXCEPT !.active = c]
      BY <2>1 DEF HitWord
    <3>2. c \in CopyType /\ ~c.sealed /\ c.fit = record.active.fit
      BY <1>3, HitCopies
    <3>3. c.value \in Flips(record.active.value)
      BY <1>3 DEF HitCopy, CopyType
    <3> QED
      BY <1>3, <2>1, <3>1, <3>2, <3>3 DEF ActiveWords, CheckpointWords
  <2>2. CASE word = "active_field"
    <3>1. PICK c \in HitCopy(record.active, "field") : record' = [record EXCEPT !.active = c]
      BY <2>2 DEF HitWord
    <3>2. c \in CopyType /\ ~c.sealed /\ c.value = record.active.value
      BY <1>3, HitCopies
    <3> QED
      BY <1>3, <2>2, <3>1, <3>2 DEF ActiveWords, CheckpointWords
  <2>3. CASE word \in CheckpointWords
    <3>1. PICK w \in {"value", "field"} :
            \E c \in HitCopy(record.checkpoint, w) : record' = [record EXCEPT !.checkpoint = c]
      BY <2>3 DEF HitWord, CheckpointWords
    <3> PICK c \in HitCopy(record.checkpoint, w) : record' = [record EXCEPT !.checkpoint = c]
      BY <3>1
    <3>2. c \in CopyType
      BY <1>3, HitCopies
    <3> QED
      BY <1>3, <2>3, <3>2 DEF ActiveWords, CheckpointWords
  <2>4. CASE word \notin {"active", "active_field", "checkpoint", "checkpoint_field"}
    BY <1>3, <2>4 DEF HitWord, ActiveWords, CheckpointWords
  <2> QED
    BY <2>1, <2>2, <2>3, <2>4 DEF CheckpointWords
<1>5. /\ monitor' \in [phase : Nat, signature : Nat]
      /\ word \notin MonitorWords => monitor' = monitor
      /\ word = "phase" => monitor'.phase = monitor.phase + 8
      /\ word = "signature" => monitor'.signature = monitor.signature + 8
  BY DEF HitWord, Types, MonitorWords
<1> QED
  BY <1>1, <1>2, <1>4, <1>5

-----------------------------------------------------------------------------
(* The types, and when the fault lands *)

Actions ==
  Vote \/ RunBlock \/ CommitOrRestart \/ RunWorkflow \/ RunTechnique

LEMMA Stepped ==
  ASSUME NEW images, NEW point, Step(images, point)
  PROVE  /\ image \in images /\ pc = point
         /\ UNCHANGED <<image, campaign, initial, expected, hit>>
         /\ campaign = "ram-bitflip" => hit # NoHit
  BY DEF Step, setup

LEMMA ActionsAreSteps ==
  ASSUME Actions
  PROVE  /\ UNCHANGED <<image, campaign, initial, expected, hit>>
         /\ campaign = "ram-bitflip" => hit # NoHit
<1> USE Stepped
<1>1. CASE Vote
  BY <1>1 DEF Vote
<1>2. CASE RunBlock
  BY <1>2 DEF RunBlock, Capture, CaptureCopy, Store, Seal, Accept, Recapture, RecaptureCopy,
     Restore, RestoreCopy, BlockStep
<1>3. CASE CommitOrRestart
  BY <1>3 DEF CommitOrRestart, Check, CommitCopy, CheckCheckpoint, RestartCopy, CommitStep
<1>4. CASE RunWorkflow
  BY <1>4 DEF RunWorkflow, Advance, TakeSample, Recovered, Restarted, FinishRun, Read, Compute,
     Publish, CombinedStep, BaselineStep
<1>5. CASE RunTechnique
  BY <1>5 DEF RunTechnique, TakeValue, PublishRead, PublishRestart, PublishBlock, Move,
     PublishMoves
<1> QED
  BY <1>1, <1>2, <1>3, <1>4, <1>5 DEF Actions

(* What a step does to the record, copy by copy. *)
LEMMA RecordParts ==
  ASSUME Types
  PROVE  /\ record = [active |-> record.active, checkpoint |-> record.checkpoint]
         /\ record.active \in CopyType /\ record.checkpoint \in CopyType
  BY DEF Types

LEMMA ActiveIsCopied ==
  ASSUME Types, record' = [record EXCEPT !.checkpoint = record.active]
  PROVE  /\ record' \in [active : CopyType, checkpoint : CopyType]
         /\ record'.active = record.active /\ record'.checkpoint = record.active
  BY RecordParts

LEMMA CheckpointIsCopied ==
  ASSUME Types, record' = [record EXCEPT !.active = record.checkpoint]
  PROVE  /\ record' \in [active : CopyType, checkpoint : CopyType]
         /\ record'.active = record.checkpoint /\ record'.checkpoint = record.checkpoint
  BY RecordParts

LEMMA ValueIsStored ==
  ASSUME Types, Store
  PROVE  /\ record' \in [active : CopyType, checkpoint : CopyType]
         /\ record'.checkpoint = record.checkpoint
         /\ record'.active.value = PrimaryValue(sample) /\ ~record'.active.sealed
         /\ record'.active.fit = record.active.fit
<1>0. PrimaryValue(sample) \in Nat
  <2>1. PrimaryValue(sample) \in 100 .. 799
    BY PrimaryIsInRange DEF Types
  <2> QED
    BY <2>1
<1>1. record' = [record EXCEPT !.active.value = PrimaryValue(sample), !.active.sealed = FALSE]
  BY DEF Store
<1>2. /\ record'.active = [record.active EXCEPT !.value = PrimaryValue(sample), !.sealed = FALSE]
      /\ record' = [active |-> record'.active, checkpoint |-> record.checkpoint]
  BY <1>1, RecordParts
<1>3. record'.active \in CopyType /\ record'.active.value = PrimaryValue(sample)
      /\ ~record'.active.sealed /\ record'.active.fit = record.active.fit
  BY <1>0, <1>2, RecordParts DEF CopyType
<1>4. record' \in [active : CopyType, checkpoint : CopyType]
      /\ record'.checkpoint = record.checkpoint
  BY <1>2, <1>3, RecordParts
<1> QED
  BY <1>3, <1>4

LEMMA ValueIsSealed ==
  ASSUME Types, Seal
  PROVE  /\ record' \in [active : CopyType, checkpoint : CopyType]
         /\ record'.checkpoint = record.checkpoint
         /\ record'.active.value = record.active.value /\ record'.active.sealed
         /\ record'.active.fit = record.active.fit
<1> DEFINE c == [record.active EXCEPT !.sealed = TRUE]
<1>1. record' = [record EXCEPT !.active.sealed = TRUE]
  BY DEF Seal
<1>2. record' = [active |-> c, checkpoint |-> record.checkpoint]
  BY <1>1, RecordParts
<1>3. c \in CopyType /\ c.value = record.active.value /\ c.fit = record.active.fit
  BY RecordParts DEF CopyType
<1>4. c.sealed
  BY RecordParts DEF CopyType
<1> HIDE DEF c
<1>5. record'.active = c /\ record'.checkpoint = record.checkpoint
  BY <1>2
<1>6. record' \in [active : CopyType, checkpoint : CopyType]
  BY <1>2, <1>3, RecordParts
<1> QED
  BY <1>3, <1>4, <1>5, <1>6

LEMMA ResultIsWritten ==
  ASSUME Types, Compute
  PROVE  /\ record' \in [active : CopyType, checkpoint : CopyType]
         /\ record'.active.value = PrimaryValue(sample)
<1>0. PrimaryValue(sample) \in Nat
  <2>1. PrimaryValue(sample) \in 100 .. 799
    BY PrimaryIsInRange DEF Types
  <2> QED
    BY <2>1
<1>1. record' = [record EXCEPT !.active.value = PrimaryValue(sample)]
  BY DEF Compute
<1>2. /\ record'.active = [record.active EXCEPT !.value = PrimaryValue(sample)]
      /\ record' = [active |-> record'.active, checkpoint |-> record.checkpoint]
  BY <1>1, RecordParts
<1>3. record'.active \in CopyType /\ record'.active.value = PrimaryValue(sample)
  BY <1>0, <1>2, RecordParts DEF CopyType
<1> QED
  BY <1>2, <1>3, RecordParts

LEMMA FactsAre ==
  ASSUME NEW f \in FactsType
  PROVE  f = [detected |-> f.detected, corrected |-> f.corrected,
              safe_state |-> f.safe_state, output |-> f.output]
         /\ f.detected \in 0 .. 1 /\ f.corrected \in 0 .. 1 /\ f.safe_state \in 0 .. 1
         /\ f.output \in Nat
  BY DEF FactsType

LEMMA FactsSet ==
  ASSUME facts \in FactsType
  PROVE  /\ Detect \in FactsType /\ Detect.detected = 1
         /\ Detect.corrected = facts.corrected /\ Detect.output = facts.output
         /\ Detect.safe_state = facts.safe_state
         /\ Stop \in FactsType /\ Stop.detected = 1 /\ Stop.safe_state = 1
         /\ Stop.corrected = facts.corrected /\ Stop.output = facts.output
<1>0. facts = [detected |-> facts.detected, corrected |-> facts.corrected,
               safe_state |-> facts.safe_state, output |-> facts.output]
      /\ facts.corrected \in 0 .. 1 /\ facts.safe_state \in 0 .. 1 /\ facts.output \in Nat
  BY FactsAre
<1>1. Detect = [detected |-> 1, corrected |-> facts.corrected,
                safe_state |-> facts.safe_state, output |-> facts.output]
  BY <1>0 DEF Detect
<1>2. Stop = [detected |-> 1, corrected |-> facts.corrected, safe_state |-> 1,
              output |-> facts.output]
  <2>1. Stop = [Detect EXCEPT !.safe_state = 1]
    BY DEF Stop, Detect
  <2> QED
    BY <1>1, <2>1
<1> QED
  BY <1>0, <1>1, <1>2 DEF FactsType

LEMMA BlockTypes ==
  ASSUME Types, RunBlock PROVE Types'
<1>1. CASE Capture
  BY <1>1, Stepped DEF Types, Capture, BlockStep, Return, StepsOf, BlockSteps, Recovering
<1>2. CASE CaptureCopy
  <2>1. record' \in [active : CopyType, checkpoint : CopyType]
    BY <1>2, ActiveIsCopied DEF CaptureCopy
  <2> QED
    BY <1>2, <2>1, Stepped DEF Types, CaptureCopy, BlockStep, Return, StepsOf, BlockSteps, Recovering
<1>3. CASE Store
  <2>1. record' \in [active : CopyType, checkpoint : CopyType]
    BY <1>3, ValueIsStored
  <2> QED
    BY <1>3, <2>1, Stepped DEF Types, Store, BlockStep, Return, StepsOf, BlockSteps, Recovering
<1>4. CASE Seal
  <2>1. record' \in [active : CopyType, checkpoint : CopyType]
    BY <1>4, ValueIsSealed
  <2> QED
    BY <1>4, <2>1, Stepped DEF Types, Seal, BlockStep, Return, StepsOf, BlockSteps, Recovering
<1>5. CASE Accept
  BY <1>5, Stepped DEF Types, Accept, BlockStep, Return, StepsOf, BlockSteps, Recovering
<1>6. CASE Recapture
  BY <1>6, Stepped DEF Types, Recapture, BlockStep, Return, StepsOf, BlockSteps, Recovering
<1>7. CASE RecaptureCopy
  <2>1. record' \in [active : CopyType, checkpoint : CopyType]
    BY <1>7, ActiveIsCopied DEF RecaptureCopy
  <2> QED
    BY <1>7, <2>1, Stepped DEF Types, RecaptureCopy, BlockStep, Return, StepsOf, BlockSteps,
       Recovering
<1>8. CASE Restore
  BY <1>8, Stepped DEF Types, Restore, BlockStep, Return, StepsOf, BlockSteps, Recovering
<1>9. CASE RestoreCopy
  <2>1. record' \in [active : CopyType, checkpoint : CopyType]
    BY <1>9, CheckpointIsCopied DEF RestoreCopy
  <2> QED
    BY <1>9, <2>1, Stepped DEF Types, RestoreCopy, BlockStep, Return, StepsOf, BlockSteps,
       Recovering
<1> QED
  BY <1>1, <1>2, <1>3, <1>4, <1>5, <1>6, <1>7, <1>8, <1>9 DEF RunBlock

LEMMA CommitTypes ==
  ASSUME Types, CommitOrRestart PROVE Types'
<1>1. CASE Check
  BY <1>1, Stepped DEF Types, Check, CommitStep, StepsOf, CommitSteps, Committing
<1>2. CASE CommitCopy
  <2>1. record' \in [active : CopyType, checkpoint : CopyType]
    BY <1>2, ActiveIsCopied DEF CommitCopy
  <2> QED
    BY <1>2, <2>1, Stepped DEF Types, CommitCopy, CommitStep, StepsOf, CommitSteps, Committing
<1>3. CASE CheckCheckpoint
  BY <1>3, Stepped DEF Types, CheckCheckpoint, CommitStep, StepsOf, CommitSteps, Committing
<1>4. CASE RestartCopy
  <2>1. record' \in [active : CopyType, checkpoint : CopyType]
    BY <1>4, CheckpointIsCopied DEF RestartCopy
  <2> QED
    BY <1>4, <2>1, Stepped DEF Types, RestartCopy, CommitStep, StepsOf, CommitSteps, Committing
<1> QED
  BY <1>1, <1>2, <1>3, <1>4 DEF CommitOrRestart

LEMMA VoteTypes ==
  ASSUME Types, Vote PROVE Types'
<1>1. triplet' \in [a : Nat, b : Nat, c : Nat, fault_count : Nat]
  BY DEF Types, Vote
<1> QED
  BY <1>1, Stepped DEF Types, Vote, StepsOf, Voting

LEMMA WorkflowTypes ==
  ASSUME Types, RunWorkflow PROVE Types'
<1>0. facts \in FactsType
  BY DEF Types
<1>1. CASE Advance
  <2>1. monitor' \in [phase : Nat, signature : Nat]
    <3>1. pc \in DOMAIN Phase /\ Phase[pc] \in 0 .. 5
      BY <1>1 DEF Advance, Phase, Behind
    <3> QED
      BY <1>1, <3>1 DEF Advance, Monitor, Types
  <2>2. facts' \in FactsType
    BY <1>0, <1>1, FactsSet DEF Advance
  <2>3. image = "combined" /\ pc' \in StepsOf(image)
    BY <1>1, Stepped DEF Advance, CombinedStep, Behind, StepsOf, BlockSteps, CommitSteps
  <2> QED
    BY <1>1, <2>1, <2>2, <2>3, Stepped DEF Types, Advance, CombinedStep
<1>2. CASE TakeSample
  <2>1. facts' \in FactsType /\ sample' \in Nat
    BY <1>0, <1>2, FactsSet DEF TakeSample, Types
  <2> QED
    BY <1>2, <2>1, Stepped DEF Types, TakeSample, CombinedStep, StepsOf
<1>3. CASE Recovered
  <2>1. facts' \in FactsType
    BY <1>0, <1>3, FactsSet DEF Recovered
  <2> QED
    BY <1>3, <2>1, Stepped DEF Types, Recovered, CombinedStep, StepsOf
<1>4. CASE Restarted
  <2>1. facts' \in FactsType
    BY <1>0, <1>4, FactsSet DEF Restarted
  <2> QED
    BY <1>4, <2>1, Stepped DEF Types, Restarted, CombinedStep, StepsOf
<1>5. CASE FinishRun
  <2>1. facts' \in FactsType
    BY <1>0, <1>5, FactsSet DEF FinishRun
  <2> QED
    BY <1>5, <2>1, Stepped DEF Types, FinishRun, CombinedStep, StepsOf
<1>6. CASE Read
  BY <1>6, Stepped DEF Types, Read, BaselineStep, StepsOf
<1>7. CASE Compute
  <2>1. record' \in [active : CopyType, checkpoint : CopyType]
    BY <1>7, ResultIsWritten
  <2> QED
    BY <1>7, <2>1, Stepped DEF Types, Compute, BaselineStep, StepsOf
<1>8. CASE Publish
  <2>1. record.active.value \in Nat
    BY RecordParts DEF CopyType
  <2>2. facts' \in FactsType
    <3>1. /\ facts = [detected |-> facts.detected, corrected |-> facts.corrected,
                      safe_state |-> facts.safe_state, output |-> facts.output]
          /\ facts.detected \in 0 .. 1 /\ facts.safe_state \in 0 .. 1
      BY <1>0, FactsAre
    <3> DEFINE n == IF facts.detected = 1 /\ record.active.value = expected THEN 1 ELSE 0
    <3>2. facts' = [facts EXCEPT !.output = record.active.value, !.corrected = n]
          /\ n \in 0 .. 1
      BY <1>8 DEF Publish
    <3> HIDE DEF n
    <3>3. facts' = [detected |-> facts.detected, corrected |-> n,
                    safe_state |-> facts.safe_state, output |-> record.active.value]
      BY <3>1, <3>2
    <3> QED
      BY <2>1, <3>1, <3>2, <3>3 DEF FactsType
  <2> QED
    BY <1>8, <2>2, Stepped DEF Types, Publish, StepsOf
<1> QED
  BY <1>1, <1>2, <1>3, <1>4, <1>5, <1>6, <1>7, <1>8 DEF RunWorkflow

LEMMA TechniqueTypes ==
  ASSUME Types, RunTechnique PROVE Types'
<1>0. facts \in FactsType /\ record.active.value \in Nat
  BY RecordParts DEF Types, CopyType
<1>1. CASE TakeValue
  BY <1>1, Stepped DEF Types, TakeValue, StepsOf
<1>2. CASE PublishRead
  <2>1. facts' \in FactsType
    <3>1. /\ facts = [detected |-> facts.detected, corrected |-> facts.corrected,
                      safe_state |-> facts.safe_state, output |-> facts.output]
          /\ facts.safe_state \in 0 .. 1
      BY <1>0, FactsAre
    <3> DEFINE n == Flag01(triplet.fault_count # 0)
               m == Flag01(triplet.fault_count # 0 /\ value = expected)
    <3>2. facts' = [facts EXCEPT !.output = value, !.detected = n, !.corrected = m]
      BY <1>2 DEF PublishRead
    <3>0. n \in 0 .. 1 /\ m \in 0 .. 1
      BY DEF Flag01
    <3> HIDE DEF n, m
    <3>3. facts' = [detected |-> n, corrected |-> m, safe_state |-> facts.safe_state,
                    output |-> value]
      BY <3>1, <3>2
    <3> QED
      BY <3>0, <3>1, <3>3 DEF FactsType, Types
  <2> QED
    BY <1>2, <2>1, Stepped DEF Types, PublishRead, StepsOf
<1>3. CASE PublishRestart
  <2>1. facts' \in FactsType
    BY <1>0, <1>3 DEF PublishRestart, FactsType, Flag01
  <2> QED
    BY <1>3, <2>1, Stepped DEF Types, PublishRestart, StepsOf
<1>4. CASE PublishBlock
  <2>1. facts' \in FactsType
    BY <1>0, <1>4 DEF PublishBlock, FactsType, Flag01
  <2> QED
    BY <1>4, <2>1, Stepped DEF Types, PublishBlock, StepsOf
<1>5. CASE Move
  <2>1. pc \in FlowSteps /\ pc \in DOMAIN Moves /\ Moves[pc] \in 0 .. 5
        /\ Following[pc] \in StepsOf("control-flow")
    BY <1>5 DEF Move, Moves, Following, FlowSteps, StepsOf
  <2>2. monitor' \in [phase : Nat, signature : Nat]
    BY <1>5, <2>1 DEF Move, Monitor, Types
  <2>3. facts' \in FactsType
    <3>1. facts' \in {facts, [facts EXCEPT !.output = value], [facts EXCEPT !.detected = 1],
                      [facts EXCEPT !.detected = 1, !.safe_state = 1]}
      BY <1>0, <1>5 DEF Move, FactsType
    <3>2. /\ facts = [detected |-> facts.detected, corrected |-> facts.corrected,
                      safe_state |-> facts.safe_state, output |-> facts.output]
          /\ facts.detected \in 0 .. 1 /\ facts.corrected \in 0 .. 1
          /\ facts.safe_state \in 0 .. 1 /\ facts.output \in Nat
      BY <1>0, FactsAre
    <3>3. value \in Nat
      BY DEF Types
    <3>4. \/ facts' = facts
          \/ facts' = [detected |-> facts.detected, corrected |-> facts.corrected,
                       safe_state |-> facts.safe_state, output |-> value]
          \/ facts' = [detected |-> 1, corrected |-> facts.corrected,
                       safe_state |-> facts.safe_state, output |-> facts.output]
          \/ facts' = [detected |-> 1, corrected |-> facts.corrected,
                       safe_state |-> 1, output |-> facts.output]
      BY <3>1, <3>2
    <3> QED
      BY <1>0, <3>2, <3>3, <3>4 DEF FactsType
  <2>4. value' \in Nat
    BY <1>5 DEF Move, Types
  <2>5. pc' \in StepsOf("control-flow")
    BY <1>5, <2>1 DEF Move, StepsOf
  <2> QED
    BY <1>5, <2>2, <2>3, <2>4, <2>5, Stepped DEF Types, Move
<1>6. CASE PublishMoves
  <2>1. facts' \in FactsType
    BY <1>0, <1>6 DEF PublishMoves, FactsType, Flag01
  <2> QED
    BY <1>6, <2>1, Stepped DEF Types, PublishMoves, StepsOf
<1> QED
  BY <1>1, <1>2, <1>3, <1>4, <1>5, <1>6 DEF RunTechnique

LEMMA ActionTypes ==
  ASSUME Types, Actions PROVE Types'
  BY VoteTypes, BlockTypes, CommitTypes, WorkflowTypes, TechniqueTypes DEF Actions

(* A fault finds nothing hit before it, and leaves its word and its step.  *)
LEMMA Upsets ==
  ASSUME Types, Timed, Upset
  PROVE  /\ HitIsNone /\ Types'
         /\ UNCHANGED <<image, campaign, initial, expected, elected, op, status, pc, facts>>
         /\ hit' = [word |-> hit'.word, before |-> pc]
         /\ hit'.word \in WordsOf(image) /\ HitWord(hit'.word) /\ hit'.before = pc
         /\ ~HitIsNone' /\ pc # "done"
         /\ campaign = "ram-bitflip" => AtTheOpening /\ hit'.word \notin {"sample", "value"}
<1>1. PICK word \in Exported \cup IF campaign = "ram-bitflip" THEN {} ELSE Locals :
        HitWord(word) /\ hit' = [word |-> word, before |-> pc]
  BY DEF Upset
<1>2. word \in WordsOf(image) /\ word # "none"
  BY <1>1 DEF Types, Images, Exported, Locals, WordsOf, RecordWords
<1>3. campaign = "ram-bitflip" => word \notin {"sample", "value"}
  BY <1>1 DEF Types, Images, Exported, RecordWords
<1>4. hit'.word = word /\ hit'.before = pc
  BY <1>1
<1>5. Types'
  <2>1. /\ triplet' \in [a : Nat, b : Nat, c : Nat, fault_count : Nat]
        /\ sample' \in Nat /\ value' \in Nat
        /\ record' \in [active : CopyType, checkpoint : CopyType]
        /\ monitor' \in [phase : Nat, signature : Nat]
    BY <1>1, OneWordHit
  <2> QED
    BY <2>1 DEF Upset, Types
<1> QED
  BY <1>1, <1>2, <1>3, <1>4, <1>5 DEF Upset, NoHit, HitIsNone

LEMMA TimedKeeps ==
  ASSUME Types, Timed, Next PROVE Types' /\ Timed'
<1>1. CASE Upset
  <2>1. Timed'
    <3>1. AtTheOpening' = AtTheOpening
      BY <1>1, Upsets DEF AtTheOpening
    <3>2. campaign = "ram-bitflip" =>
            pc = CASE image = "tmr"            -> "vote"
                   [] image = "checkpoint"     -> "check"
                   [] image = "recovery-block" -> "capture"
                   [] OTHER                    -> "start"
      BY <1>1, Upsets DEF AtTheOpening
    <3>3. pc \in StepsOf(image) \ {"done"}
      BY <1>1, Upsets DEF Types
    <3> QED
      BY <1>1, <3>1, <3>2, <3>3, Upsets DEF Timed
  <2> QED
    BY <1>1, <2>1, Upsets
<1>2. CASE Actions
  <2>1. Types'
    BY <1>2, ActionTypes
  <2>2. Timed'
    <3>1. campaign = "ram-bitflip" => ~HitIsNone
      BY <1>2, ActionsAreSteps DEF Timed, NoHit, HitIsNone
    <3> QED
      BY <1>2, <3>1, ActionsAreSteps DEF Timed, HitIsNone
  <2> QED
    BY <2>1, <2>2
<1> QED
  BY <1>1, <1>2 DEF Next, Actions

-----------------------------------------------------------------------------
(* The vote, and the image that only votes *)

LEMMA ActionsOf ==
  ASSUME Actions
  PROVE  /\ image = "tmr" => Vote \/ TakeValue \/ PublishRead
         /\ image = "checkpoint" => CommitOrRestart \/ PublishRestart
         /\ image = "recovery-block" => RunBlock \/ PublishBlock
         /\ image = "control-flow" => Move \/ PublishMoves
         /\ image = "baseline" => Read \/ Compute \/ Publish
         /\ image = "combined" =>
              \/ Vote \/ RunBlock \/ CommitOrRestart
              \/ Advance \/ TakeSample \/ Recovered \/ Restarted \/ FinishRun \/ Publish
<1>1. Vote => image \in {"tmr", "combined"}
  BY Stepped DEF Vote, Voting
<1>2. RunBlock => image \in {"recovery-block", "combined"}
  BY Stepped DEF RunBlock, Capture, CaptureCopy, Store, Seal, Accept, Recapture, RecaptureCopy,
     Restore, RestoreCopy, BlockStep, Recovering
<1>3. CommitOrRestart => image \in {"checkpoint", "combined"}
  BY Stepped DEF CommitOrRestart, Check, CommitCopy, CheckCheckpoint, RestartCopy, CommitStep,
     Committing
<1>4. /\ Advance \/ TakeSample \/ Recovered \/ Restarted \/ FinishRun => image = "combined"
      /\ Read \/ Compute => image = "baseline"
      /\ Publish => image \in {"combined", "baseline"}
  BY Stepped DEF Advance, TakeSample, Recovered, Restarted, FinishRun, Read, Compute, Publish,
     CombinedStep, BaselineStep
<1>5. /\ TakeValue \/ PublishRead => image = "tmr"
      /\ PublishRestart => image = "checkpoint"
      /\ PublishBlock => image = "recovery-block"
      /\ Move \/ PublishMoves => image = "control-flow"
  BY Stepped DEF TakeValue, PublishRead, PublishRestart, PublishBlock, Move, PublishMoves
<1> QED
  BY <1>1, <1>2, <1>3, <1>4, <1>5 DEF Actions, RunWorkflow, RunTechnique

LEMMA VoteUpset ==
  ASSUME Types, Timed, VoteAgrees, Upset, image \in Voting PROVE VoteAgrees'
<1> DEFINE word == hit'.word
<1>1. /\ HitIsNone /\ UNCHANGED <<image, initial, pc, elected>>
      /\ hit'.before = pc /\ ~HitIsNone'
  BY Upsets
<1>2. /\ triplet' \in [a : Nat, b : Nat, c : Nat, fault_count : Nat]
      /\ \A copy \in CopyWords :
           IF word = copy THEN triplet'[copy] \in Flips(triplet[copy])
           ELSE triplet'[copy] = triplet[copy]
      /\ triplet'.fault_count = triplet.fault_count + IF word = "fault_count" THEN 1 ELSE 0
  BY Upsets, OneWordHit
<1>3. triplet.a = initial /\ triplet.b = initial /\ triplet.c = initial
      /\ triplet.fault_count = 0 /\ initial \in Nat
  BY <1>1 DEF VoteAgrees, Types
<1>4. /\ IF word = "a" THEN triplet'.a # initial ELSE triplet'.a = initial
      /\ IF word = "b" THEN triplet'.b # initial ELSE triplet'.b = initial
      /\ IF word = "c" THEN triplet'.c # initial ELSE triplet'.c = initial
      /\ triplet'.fault_count = IF word = "fault_count" THEN 1 ELSE 0
  <2>1. \A copy \in CopyWords : triplet[copy] = initial
    BY <1>3 DEF CopyWords
  <2>2. \A v \in Flips(initial) : v # initial
    BY <1>3, FlipsAre
  <2> QED
    BY <1>2, <1>3, <2>1, <2>2 DEF CopyWords
<1>5. pc = "load" => elected = "a"
  BY <1>1 DEF VoteAgrees, Types
<1> HIDE DEF word
<1>6. word = hit'.word
  BY DEF word
<1> QED
  BY <1>1, <1>4, <1>5, <1>6 DEF VoteAgrees, HitIsNone, Struck, Noticed, CopyWords

LEMMA VoteVotes ==
  ASSUME Types, Timed, VoteAgrees, Vote
  PROVE  VoteAgrees' /\ UNCHANGED <<hit, initial, expected>> /\ pc' = "load"
<1>1. /\ UNCHANGED <<hit, initial, expected, image>> /\ pc = "vote" /\ pc' = "load"
  BY Stepped DEF Vote
<1>2. /\ elected' = IF triplet.a \in {triplet.b, triplet.c} THEN "a" ELSE "b"
      /\ triplet'.a = triplet.a /\ triplet'.b = triplet.b /\ triplet'.c = triplet.c
      /\ triplet'.fault_count =
           IF triplet.a = triplet.b /\ triplet.b = triplet.c THEN triplet.fault_count
           ELSE triplet.fault_count + 1
      /\ triplet.fault_count \in Nat
  BY DEF Vote, Types
<1>3. /\ HitIsNone => triplet.a = initial /\ triplet.b = initial /\ triplet.c = initial
                      /\ triplet.fault_count = 0
      /\ hit.word # "a" => triplet.a = initial
      /\ hit.word # "b" => triplet.b = initial
      /\ hit.word # "c" => triplet.c = initial
      /\ hit.word = "a" => triplet.a # initial
      /\ hit.word = "b" => triplet.b # initial
      /\ hit.word = "c" => triplet.c # initial
      /\ hit.word # "fault_count" <=> triplet.fault_count = 0
      /\ ~HitIsNone => hit.before \in {"start", "vote"}
  BY <1>1 DEF VoteAgrees
<1>4. triplet'[elected'] = initial
  BY <1>2, <1>3
<1>5. Noticed <=> triplet'.fault_count # 0
  BY <1>2, <1>3 DEF Noticed, Struck, CopyWords, HitIsNone
<1> QED
  BY <1>1, <1>2, <1>3, <1>4, <1>5 DEF VoteAgrees, HitIsNone, Noticed, Struck

LEMMA VoteRests ==
  ASSUME VoteAgrees, UNCHANGED <<triplet, hit, initial>>,
         pc' \notin {"start", "vote", "load"} \/ (pc = "start" /\ pc' = "vote")
  PROVE  VoteAgrees'
  BY DEF VoteAgrees, HitIsNone, Noticed, Struck

LEMMA TmrKeeps ==
  ASSUME Types, Timed, VoteAgrees, TmrAgrees, image = "tmr", Next
  PROVE  VoteAgrees' /\ TmrAgrees'
<1> USE DEF TmrAgrees, Struck, Uncompared, HitIsNone, Noticed, CopyWords
<1>1. CASE Upset
  <2>1. VoteAgrees'
    BY <1>1, VoteUpset DEF Voting
  <2>2. /\ HitIsNone /\ UNCHANGED <<image, initial, expected, pc, facts>>
        /\ hit'.before = pc /\ HitWord(hit'.word) /\ pc # "done" /\ hit'.word # "none"
    BY <1>1, Upsets
  <2>3. pc \in {"vote", "load", "publish"}
    BY <2>2 DEF Types, StepsOf
  <2>4. CASE pc = "publish"
    <3>1. triplet.fault_count = 0 /\ value = expected
      BY <2>2, <2>4 DEF VoteAgrees
    <3>2. triplet'.fault_count # 0 <=> hit'.word = "fault_count"
      BY <2>2, <3>1, OneWordHit
    <3>3. hit'.word # "value" => value' = value
      BY <2>2, OneWordHit
    <3> QED
      BY <2>1, <2>2, <2>4, <3>1, <3>2, <3>3
  <2> QED
    BY <2>1, <2>2, <2>3, <2>4
<1>2. CASE Vote
  BY <1>2, VoteVotes, Stepped DEF Vote
<1>3. CASE TakeValue
  <2>1. /\ UNCHANGED <<hit, initial, expected, image, triplet, facts>> /\ pc = "load"
        /\ pc' = "publish" /\ value' = triplet[elected]
    BY <1>3, Stepped DEF TakeValue
  <2>2. VoteAgrees'
    BY <2>1, VoteRests
  <2> QED
    BY <2>1, <2>2 DEF VoteAgrees
<1>4. CASE PublishRead
  <2>1. /\ UNCHANGED <<hit, initial, expected, image, triplet, value>> /\ pc = "publish"
        /\ pc' = "done"
    BY <1>4, Stepped DEF PublishRead
  <2>2. VoteAgrees'
    BY <2>1, VoteRests
  <2>3. facts' = [detected |-> Flag01(triplet.fault_count # 0),
                  corrected |-> Flag01(triplet.fault_count # 0 /\ value = expected),
                  safe_state |-> 0, output |-> value]
    <3> DEFINE n == Flag01(triplet.fault_count # 0)
               m == Flag01(triplet.fault_count # 0 /\ value = expected)
    <3>1. facts' = [facts EXCEPT !.output = value, !.detected = n, !.corrected = m]
      BY <1>4 DEF PublishRead
    <3>2. facts = [detected |-> 0, corrected |-> 0, safe_state |-> 0, output |-> 0]
      BY <2>1
    <3> HIDE DEF n, m
    <3>3. facts' = [detected |-> n, corrected |-> m, safe_state |-> 0, output |-> value]
      BY <3>1, <3>2
    <3> QED
      BY <3>3 DEF n, m
  <2>4. Noticed => value = expected
    BY <2>1
  <2> QED
    BY <2>1, <2>2, <2>3, <2>4 DEF Flag01
<1> QED
  BY <1>1, <1>2, <1>3, <1>4, ActionsOf DEF Next, Actions

-----------------------------------------------------------------------------
(* The baseline *)

LEMMA BaselineKeeps ==
  ASSUME Types, Timed, BaselineAgrees, image = "baseline", Next
  PROVE  BaselineAgrees'
<1> USE DEF BaselineAgrees, Struck, Uncompared, HitIsNone
<1>0. initial \in Nat
  OBVIOUS
<1>1. CASE Upset
  <2>1. /\ HitIsNone /\ UNCHANGED <<image, initial, expected, pc, facts>>
        /\ hit'.before = pc /\ HitWord(hit'.word) /\ pc # "done" /\ hit'.word # "none"
        /\ hit'.word \in {"a", "active", "sample"}
    BY <1>1, Upsets DEF WordsOf
  <2>2. pc \in {"start", "compute", "publish"}
    BY <2>1 DEF Types, StepsOf
  <2>3. triplet.a = initial
    BY <2>1
  <2>4. IF hit'.word = "a" THEN triplet'.a \in Flips(initial) ELSE triplet'.a = initial
    <3>1. "a" \in CopyWords
      BY DEF CopyWords
    <3> QED
      BY <2>1, <2>3, <3>1, OneWordHit
  <2>5. IF hit'.word = "sample" THEN sample' \in Flips(sample) ELSE sample' = sample
    BY <2>1, OneWordHit
  <2>6. IF hit'.word = "active" THEN record'.active.value # record.active.value
        ELSE record'.active = record.active
    <3>1. record.active.value \in Nat
      BY RecordParts DEF CopyType
    <3>2. hit'.word = "active" => record'.active.value \in Flips(record.active.value)
      BY <2>1, OneWordHit
    <3>3. hit'.word # "active" => record'.active = record.active
      BY <2>1, OneWordHit DEF ActiveWords
    <3> QED
      BY <3>1, <3>2, <3>3, FlipsAre
  <2>7. CASE pc = "start"
    BY <2>1, <2>4, <2>7
  <2>8. CASE pc = "compute"
    BY <2>1, <2>3, <2>5, <2>8
  <2>9. CASE pc = "publish"
    BY <2>1, <2>3, <2>6, <2>9
  <2> QED
    BY <2>2, <2>7, <2>8, <2>9
<1>2. CASE Read
  <2>1. /\ UNCHANGED <<image, initial, expected, hit, triplet, facts>>
        /\ pc = "start" /\ pc' = "compute" /\ sample' = triplet.a
    BY <1>2, Stepped DEF Read, BaselineStep
  <2>2. hit.word = "a" => Uncompared'
    BY <2>1
  <2>3. hit.word # "a" => ~Uncompared'
    BY <2>1
  <2>4. hit.before \in {"none", "start"}
    BY <2>1 DEF Timed
  <2> QED
    BY <2>1, <2>2, <2>3, <2>4
<1>3. CASE Compute
  <2>1. /\ UNCHANGED <<image, initial, expected, hit, triplet, facts>>
        /\ pc = "compute" /\ pc' = "publish"
    BY <1>3, Stepped DEF Compute, BaselineStep
  <2>2. record'.active.value = PrimaryValue(sample)
    BY <1>3, ResultIsWritten
  <2>3. Uncompared => PrimaryValue(sample) # expected
    BY <2>1, FlipsMislead
  <2>4. ~Uncompared => PrimaryValue(sample) = expected
    BY <2>1
  <2>5. Uncompared' <=> Uncompared
    BY <2>1
  <2> QED
    BY <2>1, <2>2, <2>3, <2>4, <2>5
<1>4. CASE Publish
  <2>1. /\ UNCHANGED <<image, initial, expected, hit, triplet, record>>
        /\ pc = "publish" /\ pc' = "done"
    BY <1>4, Stepped DEF Publish
  <2>2. facts' = [facts EXCEPT !.output = record.active.value, !.corrected = 0]
    BY <1>4 DEF Publish
  <2>3. facts'.detected = 0 /\ facts'.safe_state = 0 /\ facts'.corrected = 0
        /\ facts'.output = record.active.value
    <3>1. facts = [detected |-> facts.detected, corrected |-> facts.corrected,
                   safe_state |-> facts.safe_state, output |-> facts.output]
      BY FactsAre DEF Types
    <3>2. facts' = [detected |-> facts.detected, corrected |-> 0,
                    safe_state |-> facts.safe_state, output |-> record.active.value]
      BY <2>2, <3>1
    <3> QED
      BY <3>2
  <2> QED
    BY <2>1, <2>3
<1> QED
  BY <1>1, <1>2, <1>3, <1>4, ActionsOf DEF Next, Actions

-----------------------------------------------------------------------------
(* The image of the checkpoint *)

LEMMA RestartKeeps ==
  ASSUME Types, Timed, RestartAgrees, image = "checkpoint", Next
  PROVE  RestartAgrees'
<1> USE DEF RestartAgrees, Struck, Uncompared, HitIsNone, ActiveHit, ActiveWords, CheckpointWords,
            CommitSteps
<1>0. /\ Whole(initial).value = initial /\ Valid(Whole(initial)) /\ Whole(expected).value = expected
      /\ Valid(Whole(expected)) /\ Whole(expected).sealed
  BY InRangeIsValid
<1>1. CASE Upset
  <2>1. /\ HitIsNone /\ UNCHANGED <<image, initial, expected, pc, status, facts>>
        /\ hit'.before = pc /\ HitWord(hit'.word) /\ pc # "done" /\ hit'.word # "none"
        /\ hit'.word \in {"active", "active_field", "checkpoint", "checkpoint_field"}
    BY <1>1, Upsets DEF WordsOf, RecordWords
  <2>2. pc \in {"check", "commit_copy", "restarted"}
    BY <2>1 DEF Types, StepsOf
  <2>3. /\ hit'.word \notin {"active", "active_field"} => record'.active = record.active
        /\ hit'.word \in {"active", "active_field"} => ~record'.active.sealed
        /\ hit'.word = "active_field" => record'.active.value = record.active.value
        /\ hit'.word \notin {"checkpoint", "checkpoint_field"} =>
             record'.checkpoint = record.checkpoint
    BY <2>1, OneWordHit
  <2>4. CASE pc = "check"
    BY <1>0, <2>1, <2>3, <2>4
  <2>5. CASE pc = "commit_copy"
    BY <2>1, <2>3, <2>5
  <2>6. CASE pc = "restarted"
    BY <2>1, <2>3, <2>6
  <2> QED
    BY <2>2, <2>4, <2>5, <2>6
<1>2. CASE Check
  <2>1. /\ UNCHANGED <<image, initial, expected, hit, record, status, facts>> /\ pc = "check"
        /\ pc' = IF Valid(record.active) THEN "commit_copy" ELSE "check_checkpoint"
    BY <1>2, Stepped DEF Check, CommitStep
  <2>2. Valid(record.active) => ~ActiveHit
    BY <2>1 DEF Valid
  <2>3. ~Valid(record.active) => ActiveHit
    BY <1>0, <2>1
  <2> QED
    BY <2>1, <2>2, <2>3
<1>3. CASE CommitCopy
  <2>1. /\ UNCHANGED <<image, initial, expected, hit, facts>> /\ pc = "commit_copy"
        /\ pc' = "restarted" /\ status' = "COMMITTED" /\ record'.active = record.active
    BY <1>3, Stepped, ActiveIsCopied DEF CommitCopy, CommitStep
  <2> QED
    BY <2>1
<1>4. CASE CheckCheckpoint
  <2>1. /\ UNCHANGED <<image, initial, expected, hit, facts, record>> /\ pc = "check_checkpoint"
    BY <1>4, Stepped DEF CheckCheckpoint, CommitStep
  <2>2. record.checkpoint = Whole(initial)
    BY <2>1
  <2>3. pc' = "restart_copy"
    BY <1>0, <1>4, <2>2 DEF CheckCheckpoint
  <2> QED
    BY <2>1, <2>2, <2>3
<1>5. CASE RestartCopy
  <2>1. /\ UNCHANGED <<image, initial, expected, hit, facts>> /\ pc = "restart_copy"
        /\ pc' = "restarted" /\ status' = "RESTORED" /\ record'.active = record.checkpoint
    BY <1>5, Stepped, CheckpointIsCopied DEF RestartCopy, CommitStep
  <2> QED
    BY <1>0, <2>1
<1>6. CASE PublishRestart
  <2>1. /\ UNCHANGED <<image, initial, expected, hit, record, status>>
        /\ pc = "restarted" /\ pc' = "done"
    BY <1>6, Stepped DEF PublishRestart
  <2>2. facts' = [output     |-> record.active.value,
                  detected   |-> Flag01(status # "COMMITTED"),
                  corrected  |-> Flag01(status # "COMMITTED" /\ record.active.value = expected),
                  safe_state |-> Flag01(status # "COMMITTED" /\ record.active.value # expected)]
    BY <1>6 DEF PublishRestart
  <2>3. status # "COMMITTED" => record.active.value = initial
    BY <2>1
  <2> QED
    BY <2>1, <2>2, <2>3 DEF Flag01
<1> QED
  BY <1>1, <1>2, <1>3, <1>4, <1>5, <1>6, ActionsOf DEF Next, Actions, CommitOrRestart

-----------------------------------------------------------------------------
(* The image of the control flow *)

LEMMA FlowKeeps ==
  ASSUME Types, Timed, FlowAgrees, image = "control-flow", Next
  PROVE  FlowAgrees'
<1> USE DEF FlowAgrees, Struck, Uncompared, HitIsNone, MonitorWords, FlowSteps
<1>1. CASE Upset
  <2>1. /\ HitIsNone /\ UNCHANGED <<image, initial, expected, pc, facts>>
        /\ hit'.before = pc /\ HitWord(hit'.word) /\ pc # "done" /\ hit'.word # "none"
        /\ hit'.word \in {"phase", "signature", "transitions", "sample", "value"}
    BY <1>1, Upsets DEF WordsOf
  <2>2. /\ hit'.word # "sample" => sample' = sample
        /\ hit'.word # "value" => value' = value
        /\ hit'.word \notin {"phase", "signature"} => monitor' = monitor
        /\ hit'.word = "phase" => monitor'.phase = monitor.phase + 8
        /\ hit'.word = "signature" => monitor'.signature = monitor.signature + 8
    BY <2>1, OneWordHit
  <2>3. pc \in FlowSteps =>
          IF hit'.word \in MonitorWords THEN ~Allowed(Moves[pc])' ELSE Allowed(Moves[pc])'
    <3>1. pc \in FlowSteps => Moves[pc] \in 0 .. 5 /\ Moves[pc]' = Moves[pc]
      BY <2>1 DEF Moves
    <3>2. pc \in FlowSteps => monitor.phase = Moves[pc] /\ monitor.signature = Moves[pc]
      BY <2>1 DEF Allowed, Monitor
    <3> QED
      BY <2>1, <2>2, <3>1, <3>2 DEF Allowed, Monitor
  <2>4. pc \in {"start", "compute", "validate", "commit", "leave", "finish", "publish"}
    BY <2>1 DEF Types, StepsOf
  <2>5. Moves[pc]' = Moves[pc]
    BY <2>1 DEF Moves
  <2>6. CASE pc \in {"start", "compute"}
    BY <2>1, <2>2, <2>3, <2>5, <2>6
  <2>7. CASE pc \in {"validate", "commit"}
    BY <2>1, <2>2, <2>3, <2>5, <2>7
  <2>8. CASE pc \in {"leave", "finish"}
    BY <2>1, <2>2, <2>3, <2>5, <2>8
  <2>9. CASE pc = "publish"
    BY <2>1, <2>2, <2>9
  <2> QED
    BY <2>4, <2>6, <2>7, <2>8, <2>9
<1>2. CASE Move
  <2>1. /\ UNCHANGED <<image, initial, expected, hit, sample>> /\ pc \in FlowSteps
    BY <1>2, Stepped DEF Move, Moves
  <2>2. CASE ~Allowed(Moves[pc])
    <3> DEFINE n == IF pc \in {"leave", "finish"} THEN facts.safe_state ELSE 1
    <3>1. /\ pc' = "publish" /\ hit.word \in MonitorWords /\ hit.before = pc
          /\ facts' = [facts EXCEPT !.detected = 1, !.safe_state = n]
      BY <1>2, <2>1, <2>2 DEF Move
    <3>2. facts = [detected |-> 0, corrected |-> 0, safe_state |-> 0, output |-> facts.output]
      BY <2>1, FactsAre DEF Types
    <3> HIDE DEF n
    <3>0. [facts EXCEPT !.detected = 1] =
            [detected |-> 1, corrected |-> 0, safe_state |-> 0, output |-> facts.output]
      BY <3>2
    <3>3. facts' = [detected |-> 1, corrected |-> 0, safe_state |-> n, output |-> facts.output]
      BY <3>0, <3>1
    <3>4. n = IF pc \in {"leave", "finish"} THEN 0 ELSE 1
      BY <2>1 DEF n
    <3> QED
      BY <2>1, <3>1, <3>3, <3>4
  <2>3. CASE Allowed(Moves[pc])
    <3>0. /\ pc' = Following[pc] /\ hit.word \notin MonitorWords
          /\ monitor' = IF pc = "finish" THEN monitor ELSE Monitor(Moves[pc] + 1)
          /\ value' = IF pc = "compute" THEN sample + 7 ELSE value
          /\ facts' = IF pc = "commit" THEN [facts EXCEPT !.output = value] ELSE facts
      BY <1>2, <2>1, <2>3 DEF Move
    <3>1. facts = [detected |-> 0, corrected |-> 0, safe_state |-> 0, output |-> facts.output]
      BY <2>1, FactsAre DEF Types
    <3>2. /\ facts'.detected = 0 /\ facts'.safe_state = 0 /\ facts'.corrected = 0
          /\ facts'.output = IF pc = "commit" THEN value ELSE facts.output
      <4>1. [facts EXCEPT !.output = value] =
              [detected |-> 0, corrected |-> 0, safe_state |-> 0, output |-> value]
        BY <3>1
      <4> QED
        BY <3>0, <3>1, <4>1
    <3>3. pc' \in FlowSteps => Allowed(Moves[pc])'
      <4>1. pc' \in FlowSteps => pc # "finish" /\ Moves[pc]' = Moves[pc] + 1
        BY <2>1, <3>0 DEF Moves, Following
      <4>2. Moves[pc] \in Nat
        BY <2>1 DEF Moves
      <4> QED
        BY <3>0, <4>1, <4>2 DEF Allowed
    <3>4. CASE pc \in {"start"}
      BY <2>1, <3>0, <3>2, <3>3, <3>4 DEF Following
    <3>5. CASE pc \in {"compute"}
      BY <2>1, <3>0, <3>2, <3>3, <3>5 DEF Following
    <3>6. CASE pc \in {"validate"}
      BY <2>1, <3>0, <3>2, <3>3, <3>6 DEF Following
    <3>7. CASE pc \in {"commit", "leave", "finish"}
      BY <2>1, <3>0, <3>2, <3>3, <3>7 DEF Following
    <3> QED
      BY <2>1, <3>4, <3>5, <3>6, <3>7
  <2> QED
    BY <2>2, <2>3
<1>3. CASE PublishMoves
  <2>1. /\ UNCHANGED <<image, initial, expected, hit>> /\ pc = "publish" /\ pc' = "done"
    BY <1>3, Stepped DEF PublishMoves
  <2>2. /\ facts'.detected = facts.detected /\ facts'.safe_state = facts.safe_state
        /\ facts'.output = facts.output
        /\ facts'.corrected = Flag01(facts.detected = 1 /\ facts.output = expected)
    <3>1. facts = [detected |-> facts.detected, corrected |-> facts.corrected,
                   safe_state |-> facts.safe_state, output |-> facts.output]
      BY FactsAre DEF Types
    <3> DEFINE n == Flag01(facts.detected = 1 /\ facts.output = expected)
    <3>2. facts' = [facts EXCEPT !.corrected = n]
      BY <1>3 DEF PublishMoves
    <3> HIDE DEF n
    <3>3. facts' = [detected |-> facts.detected, corrected |-> n,
                    safe_state |-> facts.safe_state, output |-> facts.output]
      BY <3>1, <3>2
    <3>4. /\ facts'.detected = facts.detected /\ facts'.safe_state = facts.safe_state
          /\ facts'.output = facts.output /\ facts'.corrected = n
      BY <3>3
    <3> QED
      BY <3>4 DEF n
  <2> QED
    BY <2>1, <2>2 DEF Flag01
<1> QED
  BY <1>1, <1>2, <1>3, ActionsOf DEF Next, Actions

-----------------------------------------------------------------------------
(* The recovery block, wherever it is called *)

Ranges == initial \in 100 .. 799 /\ expected \in 100 .. 799

(* An upset behind an accepted operation. *)
LEMMA CopiesUpset ==
  ASSUME Types, Timed, Ranges, Upset, CopiesAgree, record.active.value = expected,
         pc \in {"recovered", "validate", "commit", "check"}
  PROVE  CopiesAgree'
<1>1. /\ HitIsNone /\ UNCHANGED <<expected, pc>> /\ hit'.before = pc /\ ~HitIsNone'
      /\ HitWord(hit'.word)
  BY Upsets
<1>2. /\ hit'.word \notin ActiveWords => record'.active = record.active
      /\ hit'.word \in ActiveWords => ~record'.active.sealed
      /\ hit'.word \notin CheckpointWords => record'.checkpoint = record.checkpoint
  BY <1>1, OneWordHit
<1>3. /\ record.checkpoint = record.active /\ Valid(record.active)
  BY <1>1 DEF CopiesAgree, HitIsNone, Struck, ActiveWords
<1>4. record.active = Whole(expected)
  BY <1>3, RecordParts, CopyIs DEF Valid
<1>5. Valid(record.active)' <=> record'.active.sealed /\ record'.active.fit
                                /\ record'.active.value \in 0 .. 1000
  BY DEF Valid
<1>6. Whole(expected)' = Whole(expected)
  BY <1>1 DEF Whole
<1>7. hit'.word \in ActiveWords => hit'.word \notin CheckpointWords
  BY DEF ActiveWords, CheckpointWords
<1> QED
  BY <1>1, <1>2, <1>3, <1>4, <1>5, <1>6, <1>7 DEF CopiesAgree, Struck, AcceptedHit, Valid

LEMMA BlockUpset ==
  ASSUME Types, Timed, Ranges, BlockAgrees, Upset, image \in Recovering
  PROVE  BlockAgrees'
<1>1. /\ HitIsNone /\ UNCHANGED <<image, initial, expected, pc, op, status>>
      /\ hit'.before = pc /\ ~HitIsNone' /\ HitWord(hit'.word) /\ hit'.word # "none"
  BY Upsets DEF HitIsNone
<1>2. /\ hit'.word \notin ActiveWords => record'.active = record.active
      /\ hit'.word \in ActiveWords => ~record'.active.sealed
      /\ hit'.word = "active" => record'.active.fit = record.active.fit
      /\ hit'.word = "active_field" => record'.active.value = record.active.value
      /\ hit'.word \notin CheckpointWords => record'.checkpoint = record.checkpoint
      /\ hit'.word # "sample" => sample' = sample
  BY <1>1, OneWordHit
<1>3. op = "primary" /\ ~Misled /\ ~ActiveHit /\ ~BeforeSeal /\ ~ByPrimary
  BY <1>1 DEF BlockAgrees, OperationAgrees, Struck, HitIsNone, ActiveWords, Misled, ActiveHit,
     BeforeSeal, ByPrimary, Types
<1>4. \A v : Want(v) => v = expected
  BY <1>3 DEF Want
<1>5. \A v : v = expected => Want(v)'
  BY <1>1 DEF Want, Ranges
<1>6. Whole(initial)' = Whole(initial) /\ Whole(expected)' = Whole(expected)
  BY <1>1 DEF Whole
<1>7. pc \notin {"restore", "restore_copy"}
  BY <1>1 DEF BlockAgrees, OperationAgrees, Struck, HitIsNone, ActiveWords
<1>8. SampleAgrees'
  <2>1. hit'.word = "sample" /\ pc \in {"compute", "capture", "capture_copy", "store"} => Misled'
    BY <1>1 DEF Misled, Struck
  <2>2. PrimaryValue(sample)' = PrimaryValue(sample')
    BY DEF PrimaryValue
  <2>3. CASE hit'.word = "sample"
    BY <1>1, <1>7, <2>1, <2>3 DEF SampleAgrees
  <2>4. CASE hit'.word # "sample"
    <3>1. sample' = sample /\ expected' = expected /\ pc' = pc
      BY <1>1, <1>2, <2>4
    <3>2. pc \in {"compute", "capture", "capture_copy", "store", "seal", "accept"} =>
            PrimaryValue(sample) = expected
      BY <1>1, <1>3 DEF BlockAgrees, SampleAgrees, HitIsNone
    <3> QED
      BY <1>7, <2>2, <3>1, <3>2 DEF SampleAgrees
  <2> QED
    BY <2>3, <2>4
<1>9. EntryAgrees'
  <2>1. pc \in EntrySteps \cup {"capture_copy"} => record.active = Whole(initial)
    BY <1>3 DEF BlockAgrees, EntryAgrees, ActiveHit
  <2> QED
    BY <1>1, <1>2, <1>6, <2>1 DEF EntryAgrees, ActiveHit
<1>10. OperationAgrees'
  <2>1. pc = "store" => record.active = Whole(initial)
    BY <1>3 DEF BlockAgrees, OperationAgrees
  <2>2. pc = "seal" => ~record.active.sealed /\ record.active.value = expected
                       /\ record.active.fit
    BY <1>3, <1>4 DEF BlockAgrees, OperationAgrees
  <2>3. pc = "accept" => record.active = Whole(expected)
    BY <1>3, <1>4 DEF BlockAgrees, OperationAgrees, Sound
  <2>4. pc \in {"recapture", "recapture_copy"} =>
          Valid(record.active) /\ record.active.value = expected
    BY <1>3, <1>4 DEF BlockAgrees, OperationAgrees
  <2>5. ByPrimary' <=> hit'.word \in ActiveWords
    BY <1>1, <1>3 DEF ByPrimary, ActiveHit
  <2>6. hit'.word = "active" /\ pc = "seal" => BeforeSeal'
    BY <1>1 DEF BeforeSeal, Struck
  <2>7. hit'.word \in ActiveWords => hit'.word \in {"active", "active_field"}
    BY DEF ActiveWords
  <2>8. pc = "store" => (~ByPrimary' => record'.active = Whole(initial)')
    BY <1>2, <1>6, <2>1, <2>5
  <2>9. pc = "seal" => ~record'.active.sealed /\ (~ByPrimary' => record'.active.fit)
          /\ (Want(record.active.value)' \/ (BeforeSeal' /\ ByPrimary'))
    BY <1>2, <1>5, <2>2, <2>5, <2>6, <2>7
  <2>10. pc = "accept" => IF ByPrimary' THEN ~record'.active.sealed ELSE Sound(record.active)'
    <3>1. Whole(expected).value = expected
      BY DEF Whole
    <3>2. record'.active = Whole(expected) => Sound(record.active)'
      BY <1>1, <1>5, <3>1 DEF Sound, Whole
    <3> QED
      BY <1>2, <2>3, <2>5, <3>2
  <2>11. pc \in {"recapture", "recapture_copy"} =>
           IF ByPrimary'
           THEN ~record'.active.sealed
                /\ (hit'.word = "active_field" => record'.active.value = expected')
           ELSE Valid(record.active)' /\ Want(record.active.value)'
    <3>1. record'.active = record.active => Valid(record.active)' = Valid(record.active)
      BY DEF Valid
    <3> QED
      BY <1>1, <1>2, <1>5, <2>4, <2>5, <3>1
  <2> QED
    BY <1>1, <1>3, <1>7, <2>5, <2>8, <2>9, <2>10, <2>11 DEF OperationAgrees
<1>11. CheckpointAgrees'
  <2>1. pc \in {"store", "seal", "accept"} => record.checkpoint = Whole(initial)
    BY <1>1 DEF BlockAgrees, CheckpointAgrees, HitIsNone, CheckpointWords, Struck, ActiveWords
  <2> QED
    BY <1>1, <1>2, <1>6, <1>7, <2>1 DEF CheckpointAgrees, Struck
<1>12. RecoveredAgrees'
  <2>1. CASE pc # "recovered"
    BY <1>1, <2>1 DEF BlockAgrees, RecoveredAgrees
  <2>2. CASE pc = "recovered"
    <3>1. status = "PRIMARY_ACCEPTED" /\ CopiesAgree /\ record.active.value = expected
      BY <1>1, <1>3, <1>4, <2>2 DEF BlockAgrees, RecoveredAgrees, AtEntry, Struck, HitIsNone,
         ActiveWords, BlockStatuses, ActiveHit
    <3>2. CopiesAgree'
      BY <2>2, <3>1, CopiesUpset
    <3>3. ~AtEntry' /\ pc' \notin EntrySteps \cup BlockSteps
      BY <1>1, <2>2 DEF AtEntry, Struck, EntrySteps, BlockSteps
    <3>4. ~Struck(ActiveWords, AcceptedHit)' => record'.active.value = expected
      BY <1>1, <1>2, <2>2, <3>1 DEF Struck, AcceptedHit
    <3>5. Struck({"active_field"}, AcceptedHit)' => record'.active.value = expected
      BY <1>2, <3>1 DEF Struck
    <3>6. ~Struck(ActiveWords, AcceptedHit)' => Want(record.active.value)'
      BY <1>5, <3>4
    <3> QED
      BY <1>1, <3>1, <3>2, <3>3, <3>5, <3>6 DEF RecoveredAgrees, BlockStatuses
  <2> QED
    BY <2>1, <2>2
<1> QED
  BY <1>8, <1>9, <1>10, <1>11, <1>12 DEF BlockAgrees

LEMMA BlockRuns ==
  ASSUME Types, RunBlock
  PROVE  /\ image \in Recovering
         /\ UNCHANGED <<image, campaign, initial, expected, hit, triplet, elected, sample, value,
                        monitor, facts>>
  BY Stepped DEF RunBlock, Capture, CaptureCopy, Store, Seal, Accept, Recapture, RecaptureCopy,
     Restore, RestoreCopy, BlockStep

(* A step of the block keeps what it is about. *)
LEMMA BlockKeeps ==
  ASSUME Types, Ranges, BlockAgrees, RunBlock
  PROVE  BlockAgrees'
<1>1. UNCHANGED <<image, initial, expected, hit, sample>>
  BY BlockRuns
<1>2. /\ Misled' = Misled /\ AtEntry' = AtEntry /\ BeforeSeal' = BeforeSeal
      /\ ActiveHit' = ActiveHit /\ PrimaryValue(sample)' = PrimaryValue(sample)
      /\ Whole(initial)' = Whole(initial) /\ Whole(expected)' = Whole(expected)
      /\ \A words, steps : Struck(words, steps)' = Struck(words, steps)
  BY <1>1 DEF Misled, AtEntry, BeforeSeal, ActiveHit, PrimaryValue, Whole, Struck
<1>3. \A v : Want(v)' = Want(v)
  BY <1>1, <1>2 DEF Want
<1>4. /\ ActiveHit => ~Misled /\ hit.word # "sample" /\ hit.word \notin CheckpointWords
                      /\ ~HitIsNone
      /\ \A steps : Struck(ActiveWords, steps) <=> ActiveHit /\ hit.before \in steps
      /\ BeforeSeal => ActiveHit
      /\ \A steps : Struck({"active_field"}, steps) => Struck(ActiveWords, steps)
  BY DEF ActiveHit, ActiveWords, CheckpointWords, Misled, Struck, HitIsNone, BeforeSeal
<1>5. /\ Whole(initial).sealed /\ Whole(initial).fit /\ Valid(Whole(initial))
      /\ \A v : Want(v) => Whole(v).sealed /\ Valid(Whole(v))
      /\ \A c : Sound(c) => Valid(c) /\ Want(c.value)
  <2>1. \A v : Want(v) => Whole(v).sealed /\ Valid(Whole(v))
    BY InRangeIsValid DEF Want
  <2> QED
    BY <2>1, InRangeIsValid DEF Ranges, Sound
<1>6. Valid(record.active)' <=> record'.active.sealed /\ record'.active.fit
                                /\ record'.active.value \in 0 .. 1000
  BY DEF Valid
<1>7. SampleAgrees /\ EntryAgrees /\ OperationAgrees /\ CheckpointAgrees /\ RecoveredAgrees
  BY DEF BlockAgrees
<1>10. CASE Capture
  <2>1. /\ pc = "capture" /\ UNCHANGED <<record, op>> /\ op = "primary"
        /\ IF Valid(record.active) THEN pc' = "capture_copy" /\ status' = "none"
           ELSE pc' = "recovered" /\ status' = "CHECKPOINT_FAILED"
    BY <1>7, <1>10 DEF Capture, BlockStep, Step, Return, OperationAgrees, RecoveredAgrees,
       EntrySteps, BlockSteps
  <2>2. IF ActiveHit THEN hit.before \in EntrySteps /\ ~record.active.sealed
        ELSE record.active = Whole(initial)
    BY <1>7, <2>1 DEF EntryAgrees, EntrySteps
  <2>3. Valid(record.active) => ~ActiveHit
    BY <2>2 DEF Valid
  <2>4. ~Valid(record.active) => ActiveHit /\ AtEntry
    BY <1>4, <1>5, <2>2 DEF AtEntry
  <2>5. AtEntry => hit.before \notin AcceptedHit
    BY <1>4 DEF AtEntry, AcceptedHit, EntrySteps
  <2>6. SampleAgrees'
    BY <1>1, <1>2, <1>7, <2>1 DEF SampleAgrees
  <2>7. EntryAgrees'
    BY <1>1, <1>2, <2>1, <2>2, <2>3 DEF EntryAgrees, EntrySteps
  <2>8. OperationAgrees'
    BY <2>1 DEF OperationAgrees
  <2>9. CheckpointAgrees'
    BY <2>1 DEF CheckpointAgrees
  <2>10. RecoveredAgrees'
    <3>1. CASE Valid(record.active)
      BY <2>1, <3>1 DEF RecoveredAgrees
    <3>2. CASE ~Valid(record.active)
      BY <1>2, <1>4, <2>1, <2>2, <2>4, <2>5, <3>2
      DEF RecoveredAgrees, BlockStatuses, EntrySteps, BlockSteps
    <3> QED
      BY <3>1, <3>2
  <2> QED
    BY <2>6, <2>7, <2>8, <2>9, <2>10 DEF BlockAgrees
<1>11. CASE CaptureCopy
  <2>1. /\ pc = "capture_copy" /\ pc' = "store" /\ UNCHANGED <<op, status>> /\ op = "primary"
        /\ status = "none"
        /\ record'.active = record.active /\ record'.checkpoint = record.active
    BY <1>7, <1>11, ActiveIsCopied
    DEF CaptureCopy, BlockStep, Step, OperationAgrees, RecoveredAgrees, EntrySteps, BlockSteps
  <2>2. IF ActiveHit THEN hit.before = "capture_copy" /\ ~record.active.sealed
        ELSE record.active = Whole(initial)
    BY <1>7, <2>1 DEF EntryAgrees
  <2>6. SampleAgrees'
    BY <1>1, <1>2, <1>7, <2>1 DEF SampleAgrees
  <2>7. EntryAgrees'
    BY <2>1 DEF EntryAgrees, EntrySteps
  <2>8. OperationAgrees'
    BY <1>1, <1>2, <2>1, <2>2 DEF OperationAgrees, ByPrimary
  <2>9. CheckpointAgrees'
    BY <1>1, <1>2, <1>4, <2>1, <2>2 DEF CheckpointAgrees
  <2>10. RecoveredAgrees'
    BY <2>1 DEF RecoveredAgrees
  <2> QED
    BY <2>6, <2>7, <2>8, <2>9, <2>10 DEF BlockAgrees
<1>12. CASE Store
  <2>1. /\ pc = "store" /\ pc' = "seal" /\ UNCHANGED <<op, status>> /\ status = "none"
    BY <1>7, <1>12 DEF Store, BlockStep, Step, RecoveredAgrees, BlockSteps
  <2>2. /\ record'.checkpoint = record.checkpoint
        /\ record'.active.value = PrimaryValue(sample) /\ ~record'.active.sealed
        /\ record'.active.fit = record.active.fit
    BY <1>12, ValueIsStored
  <2>3. IF ByPrimary THEN hit.before \in {"capture_copy", "store"}
        ELSE record.active = Whole(initial)
    BY <1>7, <2>1 DEF OperationAgrees
  <2>4. Want(PrimaryValue(sample))
    <3>1. PrimaryValue(sample) \in 100 .. 799
      BY PrimaryIsInRange DEF Types
    <3> QED
      BY <1>7, <2>1, <3>1 DEF SampleAgrees, Want
  <2>5. ByPrimary' = ByPrimary
    BY <1>2, <2>1 DEF ByPrimary
  <2>6. SampleAgrees'
    BY <1>1, <1>2, <1>7, <2>1 DEF SampleAgrees
  <2>7. EntryAgrees'
    BY <2>1 DEF EntryAgrees, EntrySteps
  <2>8. OperationAgrees'
    <3>1. Want(record.active.value)'
      BY <1>3, <2>2, <2>4
    <3>2. op' = "alternate" => Struck(ActiveWords, {"store", "seal", "accept"})'
      BY <1>2, <1>7, <2>1 DEF OperationAgrees
    <3> QED
      BY <1>1, <1>5, <2>1, <2>2, <2>3, <2>5, <3>1, <3>2 DEF OperationAgrees
  <2>9. CheckpointAgrees'
    BY <1>1, <1>2, <1>7, <2>1, <2>2 DEF CheckpointAgrees
  <2>10. RecoveredAgrees'
    BY <2>1 DEF RecoveredAgrees
  <2> QED
    BY <2>6, <2>7, <2>8, <2>9, <2>10 DEF BlockAgrees
<1>13. CASE Seal
  <2>1. /\ pc = "seal" /\ pc' = "accept" /\ UNCHANGED <<op, status>> /\ status = "none"
    BY <1>7, <1>13 DEF Seal, BlockStep, Step, RecoveredAgrees, BlockSteps
  <2>2. /\ record'.checkpoint = record.checkpoint
        /\ record'.active.value = record.active.value /\ record'.active.sealed
        /\ record'.active.fit = record.active.fit /\ record'.active \in CopyType
    BY <1>13, ValueIsSealed
  <2>3. IF ByPrimary
        THEN /\ hit.before \in {"capture_copy", "store", "seal"}
             /\ Want(record.active.value) \/ BeforeSeal
        ELSE Want(record.active.value) /\ record.active.fit
    BY <1>7, <2>1 DEF OperationAgrees
  <2>5. ByPrimary' = ByPrimary
    BY <1>2, <2>1 DEF ByPrimary
  <2>6. SampleAgrees'
    BY <1>1, <1>2, <1>7, <2>1 DEF SampleAgrees
  <2>7. EntryAgrees'
    BY <2>1 DEF EntryAgrees, EntrySteps
  <2>8. OperationAgrees'
    <3>1. Want(record.active.value)' <=> Want(record.active.value)
      BY <1>3, <2>2
    <3>2. op' = "alternate" => Struck(ActiveWords, {"store", "seal", "accept"})'
      BY <1>2, <1>7, <2>1 DEF OperationAgrees
    <3>3. ~ByPrimary => record'.active = Whole(record'.active.value)
      BY <2>2, <2>3, CopyIs
    <3>4. ~ByPrimary => Sound(record.active)'
      BY <2>3, <3>1, <3>3 DEF Sound, Whole
    <3> QED
      BY <1>1, <1>2, <2>1, <2>2, <2>3, <2>5, <3>1, <3>2, <3>4 DEF OperationAgrees
  <2>9. CheckpointAgrees'
    BY <1>1, <1>2, <1>7, <2>1, <2>2 DEF CheckpointAgrees
  <2>10. RecoveredAgrees'
    BY <2>1 DEF RecoveredAgrees
  <2> QED
    BY <2>6, <2>7, <2>8, <2>9, <2>10 DEF BlockAgrees
<1>14. CASE Accept
  <2>1. /\ pc = "accept" /\ pc' = IF Valid(record.active) THEN "recapture" ELSE "restore"
        /\ UNCHANGED <<record, op, status>> /\ status = "none"
    BY <1>7, <1>14 DEF Accept, BlockStep, Step, RecoveredAgrees, BlockSteps
  <2>2. IF ByPrimary
        THEN IF hit.before = "accept" THEN ~record.active.sealed
             ELSE /\ hit.before \in {"capture_copy", "store", "seal"}
                  /\ record.active.sealed /\ (Want(record.active.value) \/ BeforeSeal)
        ELSE Sound(record.active)
    BY <1>7, <2>1 DEF OperationAgrees
  <2>3. ~Valid(record.active) =>
          ByPrimary /\ hit.before \in {"capture_copy", "store", "seal", "accept"}
    BY <1>5, <2>2
  <2>4. Valid(record.active) => record.active.sealed
    BY DEF Valid
  <2>5. ByPrimary' = ByPrimary
    BY <1>2, <2>1 DEF ByPrimary
  <2>6. SampleAgrees'
    BY <1>1, <1>2, <1>4, <1>7, <2>1, <2>3 DEF SampleAgrees, ByPrimary
  <2>7. EntryAgrees'
    BY <2>1 DEF EntryAgrees, EntrySteps
  <2>8. OperationAgrees'
    <3>1. Want(record.active.value)' <=> Want(record.active.value)
      BY <1>3, <2>1
    <3>2. op' = "alternate" => Struck(ActiveWords, {"store", "seal", "accept"})'
      BY <1>2, <1>7, <2>1 DEF OperationAgrees
    <3>3. Valid(record.active)' <=> Valid(record.active)
      BY <2>1 DEF Valid
    <3>4. CASE Valid(record.active)
      <4>1. IF ByPrimary THEN hit.before \in {"capture_copy", "store", "seal"}
                              /\ (Want(record.active.value) \/ BeforeSeal)
            ELSE Want(record.active.value)
        BY <1>5, <2>2, <2>4, <3>4
      <4> QED
        BY <1>1, <1>2, <2>1, <2>5, <3>1, <3>2, <3>3, <3>4, <4>1 DEF OperationAgrees
    <3>5. CASE ~Valid(record.active)
      <4>1. ActiveHit /\ op = "primary"
        BY <2>3, <3>5 DEF ByPrimary
      <4>2. Struck(ActiveWords, {"capture_copy", "store", "seal", "accept"})'
        BY <1>2, <1>4, <2>3, <3>5, <4>1
      <4> QED
        BY <2>1, <3>2, <3>3, <3>5, <4>1, <4>2 DEF OperationAgrees
    <3> QED
      BY <3>4, <3>5
  <2>9. CheckpointAgrees'
    BY <1>1, <1>2, <1>7, <2>1 DEF CheckpointAgrees
  <2>10. RecoveredAgrees'
    BY <2>1 DEF RecoveredAgrees
  <2> QED
    BY <2>6, <2>7, <2>8, <2>9, <2>10 DEF BlockAgrees
<1> DEFINE Operated == ByPrimary /\ hit.before \notin {"capture_copy", "store", "seal"}
<1>15. CASE Recapture
  <2>1. /\ pc = "recapture" /\ UNCHANGED <<record, op>>
        /\ IF Valid(record.active) THEN pc' = "recapture_copy" /\ status' = "none"
           ELSE pc' = "recovered" /\ status' = Accepted
    BY <1>7, <1>15 DEF Recapture, BlockStep, Step, Return, RecoveredAgrees, BlockSteps
  <2>2. IF Operated
        THEN /\ hit.before = pc /\ ~record.active.sealed
             /\ hit.word = "active_field" => record.active.value = expected
        ELSE Valid(record.active) /\ (Want(record.active.value) \/ (BeforeSeal /\ ByPrimary))
    BY <1>7, <2>1 DEF OperationAgrees
  <2>3. Valid(record.active) <=> ~Operated
    BY <2>2 DEF Valid
  <2>5. ByPrimary' = ByPrimary
    BY <1>2, <2>1 DEF ByPrimary
  <2>6. SampleAgrees'
    BY <2>1 DEF SampleAgrees
  <2>7. EntryAgrees'
    BY <2>1 DEF EntryAgrees, EntrySteps
  <2>8. OperationAgrees'
    <3>1. Want(record.active.value)' <=> Want(record.active.value)
      BY <1>3, <2>1
    <3>2. op' = "alternate" => Struck(ActiveWords, {"store", "seal", "accept"})'
      BY <1>2, <1>7, <2>1 DEF OperationAgrees
    <3>3. Valid(record.active)' <=> Valid(record.active)
      BY <2>1 DEF Valid
    <3> QED
      BY <1>1, <1>2, <2>1, <2>2, <2>3, <2>5, <3>1, <3>2, <3>3 DEF OperationAgrees
  <2>9. CheckpointAgrees'
    BY <2>1 DEF CheckpointAgrees
  <2>10. RecoveredAgrees'
    <3>1. CASE Valid(record.active)
      BY <2>1, <3>1 DEF RecoveredAgrees
    <3>2. CASE ~Valid(record.active)
      <4>1. /\ Operated /\ hit.before = "recapture" /\ ~record.active.sealed
            /\ hit.word = "active_field" => record.active.value = expected
        BY <2>1, <2>2, <2>3, <3>2
      <4>2. pc' = "recovered" /\ status' = "PRIMARY_ACCEPTED" /\ ActiveHit
        BY <2>1, <3>2, <4>1 DEF Accepted, ByPrimary
      <4>3. ~AtEntry /\ Struck(ActiveWords, AcceptedHit)
        BY <1>4, <4>1, <4>2 DEF AtEntry, EntrySteps, AcceptedHit
      <4>4. CopiesAgree'
        BY <1>1, <1>2, <1>4, <2>1, <4>1, <4>2, <4>3 DEF CopiesAgree, HitIsNone
      <4>5. Struck({"active_field"}, AcceptedHit)' => record'.active.value = expected'
        BY <1>1, <2>1, <4>1 DEF Struck
      <4> QED
        BY <1>2, <4>2, <4>3, <4>4, <4>5
        DEF RecoveredAgrees, BlockStatuses, EntrySteps, BlockSteps
    <3> QED
      BY <3>1, <3>2
  <2> QED
    BY <2>6, <2>7, <2>8, <2>9, <2>10 DEF BlockAgrees
<1>16. CASE RecaptureCopy
  <2>1. /\ pc = "recapture_copy" /\ pc' = "recovered" /\ status' = Accepted /\ UNCHANGED op
        /\ record'.active = record.active /\ record'.checkpoint = record.active
    BY <1>16, ActiveIsCopied DEF RecaptureCopy, BlockStep, Step, Return
  <2>2. IF Operated
        THEN /\ hit.before = pc /\ ~record.active.sealed
             /\ hit.word = "active_field" => record.active.value = expected
        ELSE Valid(record.active) /\ (Want(record.active.value) \/ (BeforeSeal /\ ByPrimary))
    BY <1>7, <2>1 DEF OperationAgrees
  <2>3. op = "alternate" => ActiveHit /\ hit.before \in {"store", "seal", "accept"}
    BY <1>4, <1>7, <2>1 DEF OperationAgrees
  <2>4. op \in {"primary", "alternate"}
    BY DEF Types
  <2>5. ActiveHit => hit.before \in {"capture_copy", "store", "seal", "accept", "recapture_copy"}
    BY <2>1, <2>2, <2>3, <2>4 DEF ByPrimary
  <2>6. SampleAgrees'
    BY <2>1 DEF SampleAgrees
  <2>7. EntryAgrees'
    BY <2>1 DEF EntryAgrees, EntrySteps
  <2>8. OperationAgrees'
    BY <1>2, <1>7, <2>1 DEF OperationAgrees
  <2>9. CheckpointAgrees'
    BY <2>1 DEF CheckpointAgrees
  <2>10. ~AtEntry
    BY <1>4, <2>5 DEF AtEntry, EntrySteps
  <2>11. Struck(ActiveWords, AcceptedHit) <=> Operated
    BY <1>4, <2>1, <2>2, <2>3, <2>4, <2>5 DEF AcceptedHit, ByPrimary
  <2>12. CopiesAgree'
    <3>1. Valid(record.active)' <=> Valid(record.active)
      BY <2>1 DEF Valid
    <3> QED
      BY <1>1, <1>2, <2>1, <2>2, <2>11, <3>1 DEF CopiesAgree
  <2>13. RecoveredAgrees'
    <3>1. Want(record.active.value)' <=> Want(record.active.value)
      BY <1>3, <2>1
    <3>2. status' \in {"PRIMARY_ACCEPTED", "ALTERNATE_ACCEPTED"}
      BY <2>1 DEF Accepted
    <3>3. status' = "ALTERNATE_ACCEPTED" =>
            ActiveHit' /\ record'.active.value = expected'
      <4>1. status' = "ALTERNATE_ACCEPTED" => ActiveHit /\ Want(record.active.value) /\ ~Misled
        BY <1>4, <2>1, <2>2, <2>3, <2>4 DEF Accepted, ByPrimary
      <4> QED
        BY <1>1, <1>2, <2>1, <4>1 DEF Want
    <3>4. Struck({"active_field"}, AcceptedHit)' => record'.active.value = expected'
      <4>1. Struck({"active_field"}, AcceptedHit) => Operated /\ hit.word = "active_field"
        BY <1>4, <2>11 DEF Struck
      <4> QED
        BY <1>1, <1>2, <2>1, <2>2, <4>1
    <3>5. ~Struck(ActiveWords, AcceptedHit)' => (Want(record.active.value) \/ BeforeSeal)'
      BY <1>2, <2>2, <2>11, <3>1
    <3> QED
      BY <1>2, <2>1, <2>10, <2>12, <3>2, <3>3, <3>4, <3>5
      DEF RecoveredAgrees, BlockStatuses, EntrySteps, BlockSteps
  <2> QED
    BY <2>6, <2>7, <2>8, <2>9, <2>13 DEF BlockAgrees
<1>17. CASE Restore
  <2>1. /\ pc = "restore" /\ UNCHANGED <<record, op>> /\ op = "primary"
        /\ IF Valid(record.checkpoint) THEN pc' = "restore_copy" /\ status' = "none"
           ELSE pc' = "recovered" /\ status' = "RESTORE_FAILED"
    BY <1>7, <1>17 DEF Restore, BlockStep, Step, Return, OperationAgrees, RecoveredAgrees,
       BlockSteps
  <2>2. /\ ActiveHit /\ hit.before \in {"capture_copy", "store", "seal", "accept"}
        /\ ~Valid(record.active) /\ ~Valid(record.active)'
    <3>1. Struck(ActiveWords, {"capture_copy", "store", "seal", "accept"}) /\ ~Valid(record.active)
      BY <1>7, <2>1 DEF OperationAgrees
    <3>2. Valid(record.active)' <=> Valid(record.active)
      BY <2>1 DEF Valid
    <3> QED
      BY <1>4, <3>1, <3>2
  <2>3. IF Struck(ActiveWords, {"capture_copy"}) THEN ~record.checkpoint.sealed
        ELSE record.checkpoint = Whole(initial)
    BY <1>4, <1>7, <2>1, <2>2 DEF CheckpointAgrees
  <2>4. Valid(record.checkpoint) <=> ~Struck(ActiveWords, {"capture_copy"})
    BY <1>5, <2>3 DEF Valid
  <2>6. SampleAgrees'
    BY <1>1, <1>2, <1>7, <2>1 DEF SampleAgrees
  <2>7. EntryAgrees'
    BY <2>1 DEF EntryAgrees, EntrySteps
  <2>8. OperationAgrees'
    <3>1. Valid(record.checkpoint) => Struck(ActiveWords, {"store", "seal", "accept"})'
      BY <1>2, <1>4, <2>2, <2>4
    <3> QED
      BY <2>1, <3>1 DEF OperationAgrees
  <2>9. CheckpointAgrees'
    BY <1>1, <1>2, <1>7, <2>1 DEF CheckpointAgrees
  <2>10. RecoveredAgrees'
    <3>1. CASE Valid(record.checkpoint)
      BY <2>1, <3>1 DEF RecoveredAgrees
    <3>2. CASE ~Valid(record.checkpoint)
      <4>1. ~AtEntry /\ ~Struck(ActiveWords, AcceptedHit)
        BY <1>4, <2>2 DEF AtEntry, EntrySteps, AcceptedHit
      <4> QED
        BY <1>2, <1>4, <2>1, <2>2, <2>4, <3>2, <4>1
        DEF RecoveredAgrees, BlockStatuses, EntrySteps, BlockSteps
    <3> QED
      BY <3>1, <3>2
  <2> QED
    BY <2>6, <2>7, <2>8, <2>9, <2>10 DEF BlockAgrees
<1>18. CASE RestoreCopy
  <2>1. /\ pc = "restore_copy" /\ pc' = "store" /\ op' = "alternate" /\ UNCHANGED status
        /\ status = "none" /\ record'.active = record.checkpoint
        /\ record'.checkpoint = record.checkpoint
    BY <1>7, <1>18, CheckpointIsCopied
    DEF RestoreCopy, BlockStep, Step, OperationAgrees, RecoveredAgrees, BlockSteps
  <2>2. ActiveHit /\ hit.before \in {"store", "seal", "accept"}
    BY <1>4, <1>7, <2>1 DEF OperationAgrees
  <2>3. record.checkpoint = Whole(initial)
    BY <1>4, <1>7, <2>1, <2>2 DEF CheckpointAgrees
  <2>6. SampleAgrees'
    BY <1>1, <1>2, <1>7, <2>1 DEF SampleAgrees
  <2>7. EntryAgrees'
    BY <2>1 DEF EntryAgrees, EntrySteps
  <2>8. OperationAgrees'
    BY <1>2, <1>4, <2>1, <2>2, <2>3 DEF OperationAgrees, ByPrimary
  <2>9. CheckpointAgrees'
    BY <1>1, <1>2, <1>7, <2>1 DEF CheckpointAgrees
  <2>10. RecoveredAgrees'
    BY <2>1 DEF RecoveredAgrees
  <2> QED
    BY <2>6, <2>7, <2>8, <2>9, <2>10 DEF BlockAgrees
<1> QED
  BY <1>10, <1>11, <1>12, <1>13, <1>14, <1>15, <1>16, <1>17, <1>18 DEF RunBlock

(* The image of the recovery block alone. *)
LEMMA RecoveryKeeps ==
  ASSUME Types, Timed, RecoveryAgrees, image = "recovery-block", Next
  PROVE  RecoveryAgrees'
<1>0. Ranges /\ BlockAgrees /\ initial \in 100 .. 799 /\ expected \in 100 .. 799
  BY DEF RecoveryAgrees, Ranges
<1>1. CASE Upset
  <2>1. BlockAgrees'
    BY <1>0, <1>1, BlockUpset DEF Recovering
  <2>2. UNCHANGED <<initial, expected, pc, facts>> /\ pc # "done"
    BY <1>1, Upsets
  <2> QED
    BY <2>1, <2>2 DEF RecoveryAgrees
<1>2. CASE RunBlock
  <2>1. BlockAgrees'
    BY <1>0, <1>2, BlockKeeps
  <2>2. UNCHANGED <<initial, expected, facts>>
    BY <1>2, BlockRuns
  <2>3. pc # "done" /\ pc' # "done"
    BY <1>2 DEF RunBlock, Capture, CaptureCopy, Store, Seal, Accept, Recapture, RecaptureCopy,
       Restore, RestoreCopy, BlockStep, Step, Return
  <2> QED
    BY <2>1, <2>2, <2>3 DEF RecoveryAgrees
<1>3. CASE PublishBlock
  <2>1. /\ UNCHANGED <<image, initial, expected, hit, record, op, status>>
        /\ pc = "recovered" /\ pc' = "done"
    BY <1>3, Stepped DEF PublishBlock
  <2>2. /\ facts'.output = record.active.value
        /\ facts'.detected = Flag01(status # "PRIMARY_ACCEPTED")
        /\ facts'.corrected = Flag01(status # "PRIMARY_ACCEPTED" /\ record.active.value = expected)
        /\ facts'.safe_state =
             Flag01(status \in {"UNRECOVERABLE", "CHECKPOINT_FAILED", "RESTORE_FAILED"})
    BY <1>3 DEF PublishBlock
  <2>3. BlockAgrees'
    BY <1>0, <2>1 DEF BlockAgrees, SampleAgrees, EntryAgrees, OperationAgrees, CheckpointAgrees,
       RecoveredAgrees, EntrySteps, BlockSteps, Struck
  <2>4. RecoveredAgrees /\ status \in BlockStatuses
    BY <1>0, <2>1 DEF BlockAgrees, RecoveredAgrees
  <2>5. ~HitIsNone => hit.word \in WordsOf("recovery-block")
                      /\ hit.before \in StepsOf("recovery-block") \ {"done"}
    BY DEF Timed
  <2>6. Valid(record.active)' <=> Valid(record.active)
    BY <2>1 DEF Valid
  <2>7. AtEntry' = AtEntry /\ ActiveHit' = ActiveHit /\ Uncompared' = Uncompared
    BY <2>1 DEF AtEntry, ActiveHit, Uncompared, Struck
  <2>8. status # "PRIMARY_ACCEPTED" => ActiveHit
    BY <2>1, <2>4 DEF RecoveredAgrees, BlockStatuses, AtEntry, Struck, ActiveHit
  <2>9. status \in {"CHECKPOINT_FAILED", "RESTORE_FAILED"} => ~Valid(record.active)
    BY <2>1, <2>4 DEF RecoveredAgrees, Valid
  <2>10. status \in {"PRIMARY_ACCEPTED", "ALTERNATE_ACCEPTED"} =>
           record.active.value = expected \/ (status = "PRIMARY_ACCEPTED" /\ Uncompared)
    <3>1. status = "ALTERNATE_ACCEPTED" => record.active.value = expected
      BY <2>1, <2>4 DEF RecoveredAgrees
    <3>2. BeforeSeal \/ Misled => Uncompared
      BY <2>5 DEF BeforeSeal, Misled, Struck, Uncompared, WordsOf, StepsOf, BlockSteps, RecordWords,
         HitIsNone
    <3>3. Struck({"active"}, AcceptedHit) => Uncompared
      BY <2>5 DEF Struck, Uncompared, AcceptedHit, StepsOf, BlockSteps, HitIsNone
    <3>4. Struck(ActiveWords, AcceptedHit) =>
            Struck({"active"}, AcceptedHit) \/ Struck({"active_field"}, AcceptedHit)
      BY DEF Struck, ActiveWords
    <3> QED
      BY <2>1, <2>4, <3>1, <3>2, <3>3, <3>4 DEF RecoveredAgrees, Want
  <2>11. AtEntry <=> status = "CHECKPOINT_FAILED"
    BY <2>1, <2>4 DEF RecoveredAgrees
  <2> QED
    BY <1>0, <2>1, <2>2, <2>3, <2>4, <2>6, <2>7, <2>8, <2>9, <2>10, <2>11
    DEF RecoveryAgrees, Flag01, BlockStatuses
<1> QED
  BY <1>1, <1>2, <1>3, ActionsOf DEF Next, Actions

-----------------------------------------------------------------------------
(* The combined workflow *)

(* Steps before and behind the block leave what it is about alone. *)
LEMMA BlockEnters ==
  ASSUME Types, BlockAgrees, UNCHANGED <<initial, expected, hit, record, op, status>>,
         pc \in EntrySteps, pc' \in EntrySteps,
         pc' \in {"compute", "capture"} => Misled \/ PrimaryValue(sample') = expected
  PROVE  BlockAgrees'
<1>1. op = "primary"
  BY DEF Types, BlockAgrees, OperationAgrees, EntryAgrees, Struck, ActiveHit, EntrySteps
<1>2. Misled' = Misled /\ PrimaryValue(sample)' = PrimaryValue(sample')
      /\ Whole(initial)' = Whole(initial) /\ ActiveHit' = ActiveHit
  BY DEF Misled, Struck, PrimaryValue, Whole, ActiveHit
<1>3. SampleAgrees'
  BY <1>2 DEF SampleAgrees, EntrySteps
<1>4. EntryAgrees'
  BY <1>2 DEF BlockAgrees, EntryAgrees, EntrySteps
<1>5. OperationAgrees' /\ CheckpointAgrees'
  BY <1>1 DEF OperationAgrees, CheckpointAgrees, EntrySteps
<1>6. RecoveredAgrees'
  BY DEF BlockAgrees, RecoveredAgrees, EntrySteps
<1> QED
  BY <1>3, <1>4, <1>5, <1>6 DEF BlockAgrees

LEMMA BlockLeaves ==
  ASSUME BlockAgrees, UNCHANGED <<hit, op>>,
         pc' \notin EntrySteps \cup BlockSteps \cup {"recovered"}
  PROVE  BlockAgrees'
  BY DEF BlockAgrees, SampleAgrees, EntryAgrees, OperationAgrees, CheckpointAgrees,
         RecoveredAgrees, EntrySteps, BlockSteps, Struck

LEMMA MonitorRests ==
  ASSUME MonitorAgrees, UNCHANGED <<monitor, hit>>,
         \/ pc' \in {"publish", "done"}
         \/ /\ pc \notin {"publish", "done"} /\ PhaseAt(pc') = PhaseAt(pc) /\ pc' # "finish"
            /\ pc' \in CommitSteps \cup {"restarted", "leave"} =>
                 pc \in CommitSteps \cup {"restarted"}
  PROVE  MonitorAgrees'
<1>1. CASE pc' \in {"publish", "done"}
  BY <1>1 DEF MonitorAgrees, CommitSteps
<1>2. CASE /\ pc \notin {"publish", "done"} /\ PhaseAt(pc') = PhaseAt(pc) /\ pc' # "finish"
           /\ pc' \in CommitSteps \cup {"restarted", "leave"} =>
                pc \in CommitSteps \cup {"restarted"}
  <2>1. Allowed(PhaseAt(pc))' <=> Allowed(PhaseAt(pc))
    BY <1>2 DEF Allowed, Monitor, PhaseAt
  <2> QED
    BY <1>2, <2>1 DEF MonitorAgrees
<1> QED
  BY <1>1, <1>2

LEMMA SettledUpset ==
  ASSUME Types, Timed, Upset, Settled, facts.detected = 0, image = "combined",
         pc \in {"commit_copy", "restarted", "leave", "finish", "publish"}
  PROVE  Settled'
<1>1. /\ HitIsNone /\ UNCHANGED <<image, expected, pc, facts>> /\ hit'.before = pc
      /\ HitWord(hit'.word)
  BY Upsets
<1>2. record.active.value = expected
  BY <1>1 DEF Settled, HitIsNone, Uncompared, Struck, ActiveWords
<1>3. /\ hit'.word \notin ActiveWords => record'.active = record.active
      /\ hit'.word = "active_field" => record'.active.value = record.active.value
  BY <1>1, OneWordHit
<1>4. hit'.word = "active" => Uncompared'
  BY <1>1 DEF Uncompared, Struck
<1> QED
  BY <1>1, <1>2, <1>3, <1>4 DEF Settled, ActiveWords

LEMMA CombinedUpset ==
  ASSUME Types, Timed, CombinedAgrees, image = "combined", Upset
  PROVE  CombinedAgrees'
<1>0. /\ Ranges /\ expected = PrimaryValue(initial)
      /\ VoteAgrees /\ BlockAgrees /\ MonitorAgrees /\ CommitAgrees /\ CombinedFacts
  BY DEF CombinedAgrees, Ranges
<1>1. /\ HitIsNone /\ UNCHANGED <<image, initial, expected, pc, op, status, facts>>
      /\ hit'.before = pc /\ HitWord(hit'.word) /\ ~HitIsNone' /\ pc # "done"
  BY Upsets
<1>2. facts.detected = 0 /\ facts.safe_state = 0
  <2>1. facts.safe_state \in 0 .. 1
    BY FactsAre DEF Types
  <2> QED
    BY <1>0, <1>1, <2>1 DEF CombinedFacts
<1>3. VoteAgrees' /\ BlockAgrees'
  BY <1>0, VoteUpset, BlockUpset DEF Voting, Recovering
<1>4. pc \notin {"check_checkpoint", "restart_copy"}
  BY <1>0, <1>1 DEF CommitAgrees, Struck, HitIsNone, ActiveWords, ActiveHit
<1>5. MonitorAgrees'
  <2>1. pc \notin {"publish", "done"} =>
          IF hit'.word \in MonitorWords THEN ~Allowed(PhaseAt(pc))' ELSE Allowed(PhaseAt(pc))'
    <3>1. pc \notin {"publish", "done"} => monitor = Monitor(PhaseAt(pc)) /\ PhaseAt(pc) \in Nat
      <4>1. pc \notin {"publish", "done"} => Allowed(PhaseAt(pc))
        BY <1>0, <1>1 DEF MonitorAgrees, MonitorWords, HitIsNone
      <4>2. pc \notin {"publish", "done"} => PhaseAt(pc) \in Nat
        BY DEF PhaseAt, Types, StepsOf
      <4> QED
        BY <4>1, <4>2 DEF Allowed
    <3>2. PhaseAt(pc)' = PhaseAt(pc)
      BY <1>1 DEF PhaseAt
    <3>3. /\ hit'.word \notin MonitorWords => monitor' = monitor
          /\ hit'.word = "phase" => monitor'.phase = monitor.phase + 8
          /\ hit'.word = "signature" => monitor'.signature = monitor.signature + 8
      BY <1>1, OneWordHit
    <3>4. \A p \in Nat : Monitor(p).phase = p /\ Monitor(p).signature = p
      BY DEF Monitor
    <3>5. Allowed(PhaseAt(pc))' <=> monitor' = Monitor(PhaseAt(pc))
      BY <3>2 DEF Allowed, Monitor
    <3>6. \A p \in Nat : p + 8 # p
      OBVIOUS
    <3> QED
      BY <3>1, <3>3, <3>4, <3>5, <3>6 DEF MonitorWords
  <2>2. pc \in CommitSteps \cup {"restarted", "leave"} => pc \in LateSteps
    BY <1>4 DEF CommitSteps, LateSteps
  <2> QED
    BY <1>1, <2>1, <2>2 DEF MonitorAgrees
<1>6. CommitAgrees'
  <2>1. CASE pc \in {"validate", "commit", "check"}
    <3>1. CopiesAgree /\ record.active.value = expected
      BY <1>0, <1>1, <2>1
      DEF CommitAgrees, Settled, HitIsNone, Uncompared, Struck, ActiveWords
    <3>2. CopiesAgree'
      BY <1>0, <2>1, <3>1, CopiesUpset
    <3>3. hit'.word \notin ActiveWords => record'.active = record.active
      BY <1>1, OneWordHit
    <3>4. Struck(ActiveWords, AcceptedHit)' \/ Settled'
      BY <1>1, <2>1, <3>1, <3>3 DEF Struck, AcceptedHit, Settled
    <3> QED
      BY <1>0, <1>1, <2>1, <3>2, <3>4 DEF CommitAgrees, CommitSteps
  <2>2. CASE pc \in {"commit_copy", "restarted", "leave", "finish"}
    <3>1. pc = "restarted" => status = "COMMITTED"
      BY <1>0, <1>1 DEF CommitAgrees, ActiveHit, ActiveWords, HitIsNone
    <3>2. Settled
      BY <1>0, <2>2, <3>1 DEF CommitAgrees
    <3>3. Settled'
      BY <1>2, <2>2, <3>2, SettledUpset
    <3> QED
      BY <1>0, <1>1, <2>2, <3>1, <3>3 DEF CommitAgrees, CommitSteps
  <2>3. CASE pc \notin {"validate", "commit", "leave", "finish", "restarted"} \cup CommitSteps
    BY <1>1, <2>3 DEF CommitAgrees, CommitSteps
  <2> QED
    BY <1>4, <2>1, <2>2, <2>3 DEF CommitSteps
<1>7. CombinedFacts'
  <2>1. pc = "publish" => Settled'
    BY <1>0, <1>2, SettledUpset DEF CombinedFacts
  <2> QED
    BY <1>0, <1>1, <1>2, <2>1 DEF CombinedFacts
<1> QED
  BY <1>0, <1>1, <1>3, <1>5, <1>6, <1>7 DEF CombinedAgrees, Ranges, PrimaryValue

LEMMA CombinedVotes ==
  ASSUME Types, Timed, CombinedAgrees, image = "combined", Vote \/ TakeSample
  PROVE  CombinedAgrees'
<1>0. /\ Ranges /\ expected = PrimaryValue(initial)
      /\ VoteAgrees /\ BlockAgrees /\ MonitorAgrees /\ CommitAgrees /\ CombinedFacts
  BY DEF CombinedAgrees, Ranges
<1>1. CASE Vote
  <2>1. /\ UNCHANGED <<image, initial, expected, hit, record, op, status, monitor, facts>>
        /\ pc = "vote" /\ pc' = "load"
    BY <1>1, Stepped DEF Vote
  <2>2. VoteAgrees'
    BY <1>0, <1>1, VoteVotes
  <2>3. BlockAgrees'
    BY <1>0, <2>1, BlockEnters DEF EntrySteps
  <2>4. MonitorAgrees'
    BY <1>0, <2>1, MonitorRests DEF PhaseAt, CommitSteps
  <2>5. CommitAgrees'
    BY <2>1 DEF CommitAgrees, CommitSteps
  <2>6. CombinedFacts'
    BY <1>0, <2>1 DEF CombinedFacts, HitIsNone, BlockSteps
  <2> QED
    BY <1>0, <2>1, <2>2, <2>3, <2>4, <2>5, <2>6 DEF CombinedAgrees, Ranges, PrimaryValue
<1>2. CASE TakeSample
  <2>1. /\ UNCHANGED <<image, initial, expected, hit, triplet, record, op, status, monitor>>
        /\ pc = "load" /\ pc' = "compute" /\ sample' = triplet[elected]
        /\ facts' = IF triplet.fault_count # 0 THEN Detect ELSE facts
    BY <1>2, Stepped DEF TakeSample, CombinedStep
  <2>2. VoteAgrees'
    BY <1>0, <2>1, VoteRests
  <2>3. /\ triplet[elected] = initial \/ Struck({"a"}, {"load"})
        /\ Noticed <=> triplet.fault_count # 0
    BY <1>0, <2>1 DEF VoteAgrees
  <2>4. BlockAgrees'
    <3>1. Misled \/ PrimaryValue(sample') = expected
      BY <1>0, <2>1, <2>3 DEF Misled
    <3> QED
      BY <1>0, <2>1, <3>1, BlockEnters DEF EntrySteps
  <2>5. MonitorAgrees'
    BY <1>0, <2>1, MonitorRests DEF PhaseAt, CommitSteps
  <2>6. CommitAgrees'
    BY <2>1 DEF CommitAgrees, CommitSteps
  <2>7. CombinedFacts'
    <3>1. /\ Noticed' = Noticed /\ HitIsNone' = HitIsNone /\ (Noticed => ~HitIsNone)
      BY <2>1 DEF Noticed, HitIsNone, Struck, CopyWords
    <3>2. facts.detected = 0 /\ facts.safe_state = 0 /\ facts.corrected = 0 /\ facts.output = 0
      BY <1>0, <2>1 DEF CombinedFacts
    <3>3. /\ facts'.detected = 1 => Noticed
          /\ facts'.detected \in 0 .. 1
          /\ facts'.safe_state = 0 /\ facts'.corrected = 0 /\ facts'.output = 0
      BY <2>1, <2>3, <3>2, FactsSet DEF Types
    <3> QED
      BY <2>1, <3>1, <3>3 DEF CombinedFacts
  <2> QED
    BY <1>0, <2>1, <2>2, <2>4, <2>5, <2>6, <2>7 DEF CombinedAgrees, Ranges, PrimaryValue
<1> QED
  BY <1>1, <1>2

LEMMA CombinedAdvances ==
  ASSUME Types, Timed, CombinedAgrees, image = "combined", Advance
  PROVE  CombinedAgrees'
<1>0. /\ Ranges /\ expected = PrimaryValue(initial)
      /\ VoteAgrees /\ BlockAgrees /\ MonitorAgrees /\ CommitAgrees /\ CombinedFacts
  BY DEF CombinedAgrees, Ranges
<1>1. /\ UNCHANGED <<image, initial, expected, hit, triplet, sample, record, op, status>>
      /\ pc \in {"start", "compute", "validate", "commit", "leave"}
      /\ IF Allowed(Phase[pc])
         THEN monitor' = Monitor(Phase[pc] + 1) /\ pc' = Behind[pc] /\ UNCHANGED facts
         ELSE facts' = Stop /\ pc' = "publish" /\ UNCHANGED monitor
  BY Stepped DEF Advance, CombinedStep, Behind
<1>2. Phase[pc] = PhaseAt(pc) /\ Phase[pc] \in Nat
  BY <1>1 DEF Phase, PhaseAt, BlockSteps, CommitSteps
<1>3. hit.word \in MonitorWords <=> ~Allowed(Phase[pc])
  BY <1>0, <1>1, <1>2 DEF MonitorAgrees
<1>4. /\ HitIsNone' = HitIsNone /\ Noticed' = Noticed
      /\ \A words, steps : Struck(words, steps)' = Struck(words, steps)
      /\ Uncompared' = Uncompared /\ ActiveHit' = ActiveHit
  BY <1>1 DEF HitIsNone, Noticed, ActiveHit, Uncompared, Struck
<1>10. CASE Allowed(Phase[pc])
  <2>1. /\ monitor' = Monitor(Phase[pc] + 1) /\ pc' = Behind[pc] /\ UNCHANGED facts
        /\ hit.word \notin MonitorWords
    BY <1>1, <1>3, <1>10
  <2>2. /\ pc = "start" => pc' = "vote"
        /\ pc = "compute" => pc' = "capture"
        /\ pc = "validate" => pc' = "commit"
        /\ pc = "commit" => pc' = "check"
        /\ pc = "leave" => pc' = "finish"
    BY <2>1 DEF Behind
  <2>3. VoteAgrees'
    BY <1>0, <1>1, <2>2, VoteRests
  <2>4. BlockAgrees'
    <3>1. CASE pc \in {"start", "compute"}
      <4>1. pc = "compute" => Misled \/ PrimaryValue(sample') = expected
        BY <1>0, <1>1 DEF BlockAgrees, SampleAgrees
      <4> QED
        BY <1>0, <1>1, <2>2, <3>1, <4>1, BlockEnters DEF EntrySteps
    <3>2. CASE pc \in {"validate", "commit", "leave"}
      BY <1>0, <1>1, <2>2, <3>2, BlockLeaves DEF EntrySteps, BlockSteps
    <3> QED
      BY <1>1, <3>1, <3>2
  <2>5. MonitorAgrees'
    <3>1. PhaseAt(pc') = Phase[pc] + 1
      BY <1>1, <2>2 DEF PhaseAt, Phase, BlockSteps, CommitSteps
    <3>2. Allowed(PhaseAt(pc))'
      BY <2>1, <3>1 DEF Allowed, Monitor
    <3> QED
      BY <1>1, <2>1, <3>2 DEF MonitorAgrees
  <2>6. CommitAgrees'
    <3>1. CASE pc \in {"start", "compute"}
      BY <2>2, <3>1 DEF CommitAgrees, CommitSteps
    <3>2. Settled' = Settled
      BY <1>1, <1>4, <2>1 DEF Settled
    <3>3. CopiesAgree' = CopiesAgree
      BY <1>1 DEF CopiesAgree, HitIsNone, Struck, Valid, Whole
    <3>4. CASE pc \in {"validate", "commit"}
      <4>1. /\ CopiesAgree /\ (Struck(ActiveWords, AcceptedHit) \/ Settled)
            /\ status \in {"PRIMARY_ACCEPTED", "ALTERNATE_ACCEPTED"}
        BY <1>0, <3>4 DEF CommitAgrees
      <4> QED
        BY <1>1, <1>4, <2>2, <3>2, <3>3, <3>4, <4>1 DEF CommitAgrees, CommitSteps
    <3>5. CASE pc = "leave"
      BY <1>0, <1>1, <2>2, <3>2, <3>5 DEF CommitAgrees, CommitSteps
    <3> QED
      BY <1>1, <3>1, <3>4, <3>5
  <2>7. CombinedFacts'
    BY <1>0, <1>1, <1>4, <2>1, <2>2 DEF CombinedFacts, BlockSteps
  <2> QED
    BY <1>0, <1>1, <2>3, <2>4, <2>5, <2>6, <2>7 DEF CombinedAgrees, Ranges, PrimaryValue
<1>11. CASE ~Allowed(Phase[pc])
  <2>1. /\ facts' = Stop /\ pc' = "publish" /\ UNCHANGED monitor /\ hit.word \in MonitorWords
    BY <1>1, <1>3, <1>11
  <2>2. VoteAgrees'
    BY <1>0, <1>1, <2>1, VoteRests
  <2>3. BlockAgrees'
    BY <1>0, <1>1, <2>1, BlockLeaves DEF EntrySteps, BlockSteps
  <2>4. MonitorAgrees'
    BY <1>0, <1>1, <2>1, MonitorRests
  <2>5. CommitAgrees'
    BY <2>1 DEF CommitAgrees, CommitSteps
  <2>6. CombinedFacts'
    <3>1. facts'.detected = 1 /\ facts'.safe_state = 1 /\ facts'.corrected = 0 /\ facts'.output = 0
      BY <1>0, <1>1, <2>1, FactsSet DEF CombinedFacts, Types
    <3>2. ~HitIsNone /\ hit.word \notin ActiveWords
      BY <2>1 DEF MonitorWords, HitIsNone, ActiveWords
    <3>3. status \in {"COMMITTED", "RESTORED"} => pc = "leave"
      BY <1>0, <1>1 DEF CommitAgrees, BlockAgrees, RecoveredAgrees, EntrySteps, BlockSteps
    <3>4. pc = "leave" => Struck(MonitorWords, LateSteps \cup {"finish"})
                          /\ record.active.value = expected
      <4>1. pc = "leave" => Settled /\ hit.before \in LateSteps
        BY <1>0, <2>1 DEF CommitAgrees, MonitorAgrees
      <4> QED
        BY <2>1, <4>1 DEF Settled, Uncompared, Struck, MonitorWords, ActiveWords
    <3> QED
      BY <1>1, <1>4, <2>1, <3>1, <3>2, <3>3, <3>4 DEF CombinedFacts, BlockSteps
  <2> QED
    BY <1>0, <1>1, <2>2, <2>3, <2>4, <2>5, <2>6 DEF CombinedAgrees, Ranges, PrimaryValue
<1> QED
  BY <1>10, <1>11

LEMMA CombinedRuns ==
  ASSUME Types, Timed, CombinedAgrees, image = "combined", RunBlock
  PROVE  CombinedAgrees'
<1>0. /\ Ranges /\ expected = PrimaryValue(initial)
      /\ VoteAgrees /\ BlockAgrees /\ MonitorAgrees /\ CommitAgrees /\ CombinedFacts
  BY DEF CombinedAgrees, Ranges
<1>1. UNCHANGED <<image, initial, expected, hit, triplet, monitor, facts>>
  BY BlockRuns
<1>2. pc \in BlockSteps /\ pc' \in BlockSteps \cup {"recovered"}
  BY DEF RunBlock, Capture, CaptureCopy, Store, Seal, Accept, Recapture, RecaptureCopy,
     Restore, RestoreCopy, BlockStep, Step, Return, BlockSteps
<1>3. VoteAgrees'
  BY <1>0, <1>1, <1>2, VoteRests DEF BlockSteps
<1>4. BlockAgrees'
  BY <1>0, BlockKeeps
<1>5. MonitorAgrees'
  BY <1>0, <1>1, <1>2, MonitorRests DEF PhaseAt, BlockSteps, CommitSteps
<1>6. CommitAgrees'
  BY <1>2 DEF CommitAgrees, BlockSteps, CommitSteps
<1>7. CombinedFacts'
  <2>1. facts.safe_state = 0 /\ HitIsNone' = HitIsNone /\ Noticed' = Noticed
    BY <1>0, <1>1, <1>2 DEF CombinedFacts, HitIsNone, Noticed, Struck, BlockSteps
  <2>2. /\ HitIsNone => facts.detected = 0
        /\ facts.detected = 1 => Noticed
        /\ facts.corrected = 0 /\ facts.output = 0
    BY <1>0, <1>2 DEF CombinedFacts, BlockSteps
  <2>3. pc' \notin {"start", "vote", "load", "publish", "done"}
    BY <1>2 DEF BlockSteps
  <2> QED
    BY <1>1, <2>1, <2>2, <2>3 DEF CombinedFacts
<1> QED
  BY <1>0, <1>1, <1>3, <1>4, <1>5, <1>6, <1>7 DEF CombinedAgrees, Ranges, PrimaryValue

LEMMA CombinedRecovers ==
  ASSUME Types, Timed, CombinedAgrees, image = "combined", Recovered
  PROVE  CombinedAgrees'
<1>0. /\ Ranges /\ expected = PrimaryValue(initial)
      /\ VoteAgrees /\ BlockAgrees /\ MonitorAgrees /\ CommitAgrees /\ CombinedFacts
  BY DEF CombinedAgrees, Ranges
<1>1. /\ UNCHANGED <<image, initial, expected, hit, triplet, sample, record, op, status, monitor>>
      /\ pc = "recovered"
      /\ pc' = IF status \in {"PRIMARY_ACCEPTED", "ALTERNATE_ACCEPTED"} THEN "validate"
               ELSE "publish"
      /\ facts' = CASE status = "PRIMARY_ACCEPTED"   -> facts
                    [] status = "ALTERNATE_ACCEPTED" -> Detect
                    [] OTHER                         -> Stop
  BY Stepped DEF Recovered, CombinedStep
<1>2. RecoveredAgrees /\ status \in BlockStatuses
  BY <1>0, <1>1 DEF BlockAgrees, RecoveredAgrees
<1>3. /\ HitIsNone' = HitIsNone /\ Uncompared' = Uncompared /\ CopiesAgree' = CopiesAgree
      /\ \A words, steps : Struck(words, steps)' = Struck(words, steps)
  BY <1>1 DEF HitIsNone, Uncompared, Struck, CopiesAgree, Valid, Whole
<1>4. /\ facts.safe_state = 0 /\ facts.corrected = 0 /\ facts.output = 0
      /\ HitIsNone => facts.detected = 0
      /\ facts.detected = 1 => Noticed
      /\ facts.detected \in 0 .. 1
  <2>1. facts.detected \in 0 .. 1
    BY FactsAre DEF Types
  <2> QED
    BY <1>0, <1>1, <2>1 DEF CombinedFacts
<1>5. status # "PRIMARY_ACCEPTED" => ActiveHit /\ ~HitIsNone
  BY <1>1, <1>2 DEF RecoveredAgrees, BlockStatuses, AtEntry, Struck, ActiveHit, ActiveWords,
     HitIsNone
<1>6. VoteAgrees'
  BY <1>0, <1>1, VoteRests
<1>7. BlockAgrees'
  BY <1>0, <1>1, BlockLeaves DEF EntrySteps, BlockSteps
<1>8. MonitorAgrees'
  BY <1>0, <1>1, MonitorRests DEF PhaseAt, BlockSteps, CommitSteps
<1>9. CASE status \in {"PRIMARY_ACCEPTED", "ALTERNATE_ACCEPTED"}
  <2>1. pc' = "validate" /\ CopiesAgree'
    BY <1>1, <1>2, <1>3, <1>9 DEF RecoveredAgrees
  <2>2. Struck(ActiveWords, AcceptedHit) \/ Settled'
    <3>1. CASE status = "ALTERNATE_ACCEPTED"
      BY <1>1, <1>2, <3>1 DEF RecoveredAgrees, Settled
    <3>2. CASE status = "PRIMARY_ACCEPTED"
      <4>1. Struck(ActiveWords, AcceptedHit) \/ Want(record.active.value) \/ BeforeSeal
        BY <1>1, <1>2, <3>2 DEF RecoveredAgrees
      <4>2. Misled \/ BeforeSeal => Uncompared /\ ~Noticed
        BY DEF Misled, BeforeSeal, Struck, Uncompared, Noticed, CopyWords
      <4>3. facts' = facts
        BY <1>1, <3>2
      <4> QED
        BY <1>1, <1>3, <1>4, <4>1, <4>2, <4>3 DEF Want, Settled
    <3> QED
      BY <1>9, <3>1, <3>2
  <2>3. CommitAgrees'
    BY <1>1, <1>3, <1>9, <2>1, <2>2 DEF CommitAgrees, CommitSteps
  <2>4. CombinedFacts'
    <3>1. /\ facts'.safe_state = 0 /\ facts'.corrected = 0 /\ facts'.output = 0
          /\ HitIsNone => facts'.detected = 0
      BY <1>1, <1>4, <1>5, <1>9, FactsSet DEF Types
    <3> QED
      BY <1>3, <2>1, <3>1 DEF CombinedFacts, BlockSteps
  <2> QED
    BY <1>0, <1>1, <1>6, <1>7, <1>8, <2>3, <2>4 DEF CombinedAgrees, Ranges, PrimaryValue
<1>10. CASE status \in {"CHECKPOINT_FAILED", "RESTORE_FAILED"}
  <2>1. facts' = Stop /\ pc' = "publish" /\ ~HitIsNone
    BY <1>1, <1>5, <1>10
  <2>2. facts'.detected = 1 /\ facts'.safe_state = 1 /\ facts'.corrected = 0 /\ facts'.output = 0
    BY <1>4, <2>1, FactsSet DEF Types
  <2>3. CommitAgrees'
    BY <2>1 DEF CommitAgrees, CommitSteps
  <2>4. CombinedFacts'
    BY <1>1, <1>3, <1>10, <2>1, <2>2 DEF CombinedFacts, BlockSteps
  <2> QED
    BY <1>0, <1>1, <1>6, <1>7, <1>8, <2>3, <2>4 DEF CombinedAgrees, Ranges, PrimaryValue
<1> QED
  BY <1>2, <1>9, <1>10 DEF BlockStatuses

LEMMA CombinedCommits ==
  ASSUME Types, Timed, CombinedAgrees, image = "combined", CommitOrRestart
  PROVE  CombinedAgrees'
<1>0. /\ Ranges /\ expected = PrimaryValue(initial)
      /\ VoteAgrees /\ BlockAgrees /\ MonitorAgrees /\ CommitAgrees /\ CombinedFacts
  BY DEF CombinedAgrees, Ranges
<1>1. /\ UNCHANGED <<image, initial, expected, hit, triplet, sample, op, monitor, facts>>
      /\ pc \in CommitSteps /\ pc' \in CommitSteps \cup {"restarted"}
  BY Stepped DEF CommitOrRestart, Check, CommitCopy, CheckCheckpoint, RestartCopy, CommitStep,
     CommitSteps
<1>2. /\ HitIsNone' = HitIsNone /\ Uncompared' = Uncompared /\ ActiveHit' = ActiveHit
      /\ Whole(expected)' = Whole(expected)
      /\ \A words, steps : Struck(words, steps)' = Struck(words, steps)
  BY <1>1 DEF HitIsNone, Uncompared, Struck, ActiveHit, Whole
<1>3. /\ \A steps : Struck(ActiveWords, steps) <=> ActiveHit /\ hit.before \in steps
      /\ ActiveHit => ~HitIsNone
  BY DEF Struck, ActiveHit, ActiveWords, HitIsNone
<1>4. VoteAgrees'
  BY <1>0, <1>1, VoteRests DEF CommitSteps
<1>5. BlockAgrees'
  BY <1>0, <1>1, BlockLeaves DEF EntrySteps, BlockSteps, CommitSteps
<1>6. MonitorAgrees'
  BY <1>0, <1>1, MonitorRests DEF PhaseAt, BlockSteps, CommitSteps
<1>7. CombinedFacts'
  <2>1. /\ facts.safe_state = 0 /\ facts.corrected = 0 /\ facts.output = 0
        /\ HitIsNone => facts.detected = 0
    BY <1>0, <1>1 DEF CombinedFacts, CommitSteps
  <2> QED
    BY <1>1, <1>2, <2>1 DEF CombinedFacts, CommitSteps, BlockSteps
<1>8. CommitAgrees'
  <2>1. CASE Check
    <3>1. /\ pc = "check" /\ UNCHANGED <<record, status>>
          /\ pc' = IF Valid(record.active) THEN "commit_copy" ELSE "check_checkpoint"
      BY <2>1 DEF Check, CommitStep, Step
    <3>2. /\ CopiesAgree /\ (Struck(ActiveWords, AcceptedHit) \/ Settled)
          /\ status \in {"PRIMARY_ACCEPTED", "ALTERNATE_ACCEPTED"}
      BY <1>0, <3>1 DEF CommitAgrees, CommitSteps
    <3>3. Settled' = Settled
      BY <1>1, <1>2, <3>1 DEF Settled
    <3>4. Valid(record.active) <=> ~Struck(ActiveWords, AcceptedHit)
      BY <3>2 DEF CopiesAgree, Valid
    <3>5. CASE Valid(record.active)
      BY <3>1, <3>2, <3>3, <3>4, <3>5 DEF CommitAgrees, CommitSteps
    <3>6. CASE ~Valid(record.active)
      <4>1. /\ Struck(ActiveWords, AcceptedHit)
            /\ hit.before = "recapture_copy" => ~record.checkpoint.sealed
            /\ hit.before \notin {"recapture", "recapture_copy"} =>
                 record.checkpoint = Whole(expected)
        BY <3>2, <3>4, <3>6 DEF CopiesAgree
      <4> QED
        BY <1>1, <1>2, <3>1, <3>2, <3>6, <4>1 DEF CommitAgrees, CommitSteps
    <3> QED
      BY <3>5, <3>6
  <2>2. CASE CommitCopy
    <3>1. pc = "commit_copy" /\ pc' = "restarted" /\ status' = "COMMITTED"
          /\ record'.active = record.active
      BY <2>2, ActiveIsCopied DEF CommitCopy, CommitStep, Step
    <3>2. Settled' = Settled
      BY <1>1, <1>2, <3>1 DEF Settled
    <3> QED
      BY <1>0, <3>1, <3>2 DEF CommitAgrees, CommitSteps
  <2>3. CASE CheckCheckpoint
    <3>1. /\ pc = "check_checkpoint" /\ UNCHANGED record
          /\ IF Valid(record.checkpoint) THEN pc' = "restart_copy" /\ UNCHANGED status
             ELSE pc' = "restarted" /\ status' = "RESTORE_FAILED"
      BY <2>3 DEF CheckCheckpoint, CommitStep, Step
    <3>2. /\ ActiveHit
          /\ hit.before = "recapture_copy" => ~record.checkpoint.sealed
          /\ hit.before \notin {"recapture", "recapture_copy"} =>
               record.checkpoint = Whole(expected)
          /\ status \in {"PRIMARY_ACCEPTED", "ALTERNATE_ACCEPTED"}
      BY <1>0, <1>3, <3>1 DEF CommitAgrees, CommitSteps
    <3>3. CASE Valid(record.checkpoint)
      <4>1. record.checkpoint.sealed
        BY <3>3 DEF Valid
      <4> QED
        BY <1>1, <1>2, <3>1, <3>2, <3>3, <4>1 DEF CommitAgrees, CommitSteps
    <3>4. CASE ~Valid(record.checkpoint)
      BY <1>2, <1>3, <3>1, <3>2, <3>4 DEF CommitAgrees, CommitSteps
    <3> QED
      BY <3>3, <3>4
  <2>4. CASE RestartCopy
    <3>1. pc = "restart_copy" /\ pc' = "restarted" /\ status' = "RESTORED"
          /\ record'.active = record.checkpoint
      BY <2>4, CheckpointIsCopied DEF RestartCopy, CommitStep, Step
    <3>2. ActiveHit /\ (hit.before = "recapture" \/ record.checkpoint = Whole(expected))
      BY <1>0, <3>1 DEF CommitAgrees
    <3>3. Whole(expected).value = expected
      BY DEF Whole
    <3> QED
      BY <1>1, <1>2, <1>3, <3>1, <3>2, <3>3 DEF CommitAgrees, CommitSteps
  <2> QED
    BY <2>1, <2>2, <2>3, <2>4 DEF CommitOrRestart
<1> QED
  BY <1>0, <1>1, <1>4, <1>5, <1>6, <1>7, <1>8 DEF CombinedAgrees, Ranges, PrimaryValue

LEMMA CombinedRestarts ==
  ASSUME Types, Timed, CombinedAgrees, image = "combined", Restarted
  PROVE  CombinedAgrees'
<1>0. /\ Ranges /\ expected = PrimaryValue(initial)
      /\ VoteAgrees /\ BlockAgrees /\ MonitorAgrees /\ CommitAgrees /\ CombinedFacts
  BY DEF CombinedAgrees, Ranges
<1>1. /\ UNCHANGED <<image, initial, expected, hit, triplet, sample, record, op, status, monitor>>
      /\ pc = "restarted"
      /\ pc' = IF status = "RESTORE_FAILED" THEN "publish" ELSE "leave"
      /\ facts' = CASE status = "COMMITTED" -> facts
                    [] status = "RESTORED"  -> Detect
                    [] OTHER                -> Stop
  BY Stepped DEF Restarted, CombinedStep
<1>2. /\ status \in {"COMMITTED", "RESTORED", "RESTORE_FAILED"}
      /\ status = "COMMITTED" => Settled
      /\ status = "RESTORED" =>
           ActiveHit /\ (record.active.value = expected \/ Struck(ActiveWords, {"recapture"}))
      /\ status = "RESTORE_FAILED" => ~HitIsNone
      /\ ActiveHit => ~HitIsNone
  BY <1>0, <1>1 DEF CommitAgrees, ActiveHit, ActiveWords, HitIsNone
<1>3. /\ HitIsNone' = HitIsNone /\ Uncompared' = Uncompared
      /\ \A words, steps : Struck(words, steps)' = Struck(words, steps)
  BY <1>1 DEF HitIsNone, Uncompared, Struck
<1>4. /\ facts.safe_state = 0 /\ facts.corrected = 0 /\ facts.output = 0
      /\ HitIsNone => facts.detected = 0
  BY <1>0, <1>1 DEF CombinedFacts
<1>5. VoteAgrees'
  BY <1>0, <1>1, VoteRests
<1>6. BlockAgrees'
  BY <1>0, <1>1, BlockLeaves DEF EntrySteps, BlockSteps
<1>7. MonitorAgrees'
  BY <1>0, <1>1, MonitorRests DEF PhaseAt, BlockSteps, CommitSteps
<1>8. CommitAgrees'
  <2>1. status \in {"COMMITTED", "RESTORED"} => Settled'
    <3>1. status = "RESTORED" => facts'.detected = 1
      BY <1>1, FactsSet DEF Types
    <3> QED
      BY <1>1, <1>2, <1>3, <3>1 DEF Settled
  <2> QED
    BY <1>1, <1>2, <2>1 DEF CommitAgrees, CommitSteps
<1>9. CombinedFacts'
  <2>1. /\ facts'.corrected = 0 /\ facts'.output = 0
        /\ HitIsNone => facts'.detected = 0
        /\ status # "RESTORE_FAILED" => facts'.safe_state = 0
        /\ status = "RESTORE_FAILED" => facts'.safe_state = 1 /\ facts'.detected = 1
    BY <1>1, <1>2, <1>4, FactsSet DEF Types
  <2> QED
    BY <1>1, <1>2, <1>3, <2>1 DEF CombinedFacts, BlockSteps
<1> QED
  BY <1>0, <1>1, <1>5, <1>6, <1>7, <1>8, <1>9 DEF CombinedAgrees, Ranges, PrimaryValue

LEMMA CombinedFinishes ==
  ASSUME Types, Timed, CombinedAgrees, image = "combined", FinishRun \/ Publish
  PROVE  CombinedAgrees'
<1>0. /\ Ranges /\ expected = PrimaryValue(initial)
      /\ VoteAgrees /\ BlockAgrees /\ MonitorAgrees /\ CommitAgrees /\ CombinedFacts
  BY DEF CombinedAgrees, Ranges
<1>1. /\ UNCHANGED <<image, initial, expected, hit, triplet, record, op, status, monitor>>
      /\ pc' \in {"publish", "done"}
  BY Stepped DEF FinishRun, Publish, CombinedStep
<1>2. /\ HitIsNone' = HitIsNone /\ Uncompared' = Uncompared
      /\ \A words, steps : Struck(words, steps)' = Struck(words, steps)
  BY <1>1 DEF HitIsNone, Uncompared, Struck
<1>3. VoteAgrees'
  BY <1>0, <1>1, VoteRests
<1>4. BlockAgrees'
  BY <1>0, <1>1, BlockLeaves DEF EntrySteps, BlockSteps
<1>5. MonitorAgrees'
  BY <1>0, <1>1, MonitorRests
<1>6. CommitAgrees'
  BY <1>1 DEF CommitAgrees, CommitSteps
<1>7. CombinedFacts'
  <2>1. CASE FinishRun
    <3>1. /\ pc = "finish" /\ pc' = "publish"
          /\ facts' = IF Allowed(PhaseAt(pc)) THEN facts ELSE Stop
      BY <2>1, Stepped DEF FinishRun, CombinedStep, Phase, PhaseAt, BlockSteps, CommitSteps
    <3>2. /\ hit.word \in MonitorWords <=> ~Allowed(PhaseAt(pc))
          /\ hit.word \in MonitorWords => hit.before = "finish"
      BY <1>0, <3>1 DEF MonitorAgrees
    <3>3. Settled /\ facts.safe_state = 0 /\ facts.corrected = 0 /\ facts.output = 0
          /\ (HitIsNone => facts.detected = 0)
      BY <1>0, <3>1 DEF CommitAgrees, CombinedFacts
    <3>4. CASE Allowed(PhaseAt(pc))
      <4>1. facts' = facts
        BY <3>1, <3>4
      <4>2. Settled'
        BY <1>1, <1>2, <3>3, <4>1 DEF Settled
      <4> QED
        BY <1>2, <3>1, <3>3, <4>1, <4>2 DEF CombinedFacts, BlockSteps
    <3>5. CASE ~Allowed(PhaseAt(pc))
      <4>1. facts'.detected = 1 /\ facts'.safe_state = 1 /\ facts'.corrected = 0
            /\ facts'.output = 0
        BY <3>1, <3>3, <3>5, FactsSet DEF Types
      <4>2. /\ Struck(MonitorWords, LateSteps \cup {"finish"}) /\ ~HitIsNone
            /\ record.active.value = expected
        BY <3>2, <3>3, <3>5
        DEF Struck, HitIsNone, Settled, Uncompared, MonitorWords, ActiveWords
      <4> QED
        BY <1>1, <1>2, <3>1, <4>1, <4>2 DEF CombinedFacts, BlockSteps
    <3> QED
      BY <3>4, <3>5
  <2>2. CASE Publish
    <3>1. pc = "publish" /\ pc' = "done"
      BY <2>2, Stepped DEF Publish
    <3>2. /\ facts'.detected = facts.detected /\ facts'.safe_state = facts.safe_state
          /\ facts'.output = record.active.value
          /\ facts'.corrected =
               IF facts.detected = 1 /\ record.active.value = expected THEN 1 ELSE 0
      <4> DEFINE n == IF facts.detected = 1 /\ record.active.value = expected THEN 1 ELSE 0
      <4>1. facts' = [facts EXCEPT !.output = record.active.value, !.corrected = n]
        BY <2>2 DEF Publish
      <4>2. facts = [detected |-> facts.detected, corrected |-> facts.corrected,
                     safe_state |-> facts.safe_state, output |-> facts.output]
        BY FactsAre DEF Types
      <4> HIDE DEF n
      <4>3. facts' = [detected |-> facts.detected, corrected |-> n,
                      safe_state |-> facts.safe_state, output |-> record.active.value]
        BY <4>1, <4>2
      <4>4. /\ facts'.detected = facts.detected /\ facts'.safe_state = facts.safe_state
            /\ facts'.output = record.active.value /\ facts'.corrected = n
        BY <4>3
      <4> QED
        BY <4>4 DEF n
    <3>3. Settled' = Settled
      BY <1>1, <1>2, <3>2 DEF Settled
    <3> QED
      BY <1>0, <1>1, <1>2, <3>1, <3>2, <3>3 DEF CombinedFacts, BlockSteps
  <2> QED
    BY <2>1, <2>2
<1> QED
  BY <1>0, <1>1, <1>3, <1>4, <1>5, <1>6, <1>7 DEF CombinedAgrees, Ranges, PrimaryValue

LEMMA CombinedKeeps ==
  ASSUME Types, Timed, CombinedAgrees, image = "combined", Next
  PROVE  CombinedAgrees'
<1>1. Upset \/ Actions
  BY DEF Next, Actions
<1> QED
  BY <1>1, ActionsOf, CombinedUpset, CombinedVotes, CombinedAdvances, CombinedRuns,
     CombinedRecovers, CombinedCommits, CombinedRestarts, CombinedFinishes

-----------------------------------------------------------------------------
(* Every step of every image *)

LEMMA GuestsStart ==
  ASSUME Init PROVE GuestsInv
<1>1. PICK first, second \in Draws : Drawn(first, second)
  BY DEF Init
<1>2. /\ first \in Nat /\ second \in Nat
      /\ InRange(first) \in 100 .. 799 /\ InRange(second) \in 100 .. 799
  <2>1. first \in Nat /\ second \in Nat
    BY DrawAssumption
  <2>2. first % 700 \in 0 .. 699 /\ second % 700 \in 0 .. 699
    BY <2>1
  <2> QED
    BY <2>1, <2>2 DEF InRange
<1>3. /\ image \in Images /\ campaign \in {"ram-bitflip", "reg-bitflip"}
      /\ triplet = [a |-> initial, b |-> initial, c |-> initial, fault_count |-> 0]
      /\ elected = "a" /\ value = 0 /\ op = "primary" /\ status = "none"
      /\ record.checkpoint = Whole(initial)
      /\ record.active = CASE image = "checkpoint" -> Whole(expected)
                           [] image = "baseline"   -> Whole(0)
                           [] OTHER                -> Whole(initial)
      /\ record = [active |-> record.active, checkpoint |-> record.checkpoint]
      /\ monitor = Monitor(0)
      /\ facts = [detected |-> 0, corrected |-> 0, safe_state |-> 0, output |-> 0]
      /\ hit = [word |-> "none", before |-> "none"]
  BY DEF Init, NoHit
<1>4. /\ initial \in Nat /\ expected \in Nat /\ sample \in Nat
      /\ image \notin {"tmr", "control-flow"} => initial \in 100 .. 799 /\ expected \in 100 .. 799
      /\ image \in {"combined", "baseline"} => expected = PrimaryValue(initial) /\ pc = "start"
      /\ image = "tmr" => expected = initial /\ pc = "vote"
      /\ image = "checkpoint" => pc = "check"
      /\ image = "recovery-block" => expected = PrimaryValue(sample) /\ pc = "capture"
      /\ image = "control-flow" => expected = initial + 7 /\ sample = initial /\ pc = "start"
  <2>1. CASE image = "tmr"
    BY <1>1, <1>2, <2>1 DEF Drawn
  <2>2. CASE image = "checkpoint"
    BY <1>1, <1>2, <2>2 DEF Drawn
  <2>3. CASE image = "recovery-block"
    BY <1>1, <1>2, <2>3, PrimaryIsInRange DEF Drawn
  <2>4. CASE image = "control-flow"
    <3>1. /\ initial = 100 + (first % 900) /\ expected = initial + 7 /\ sample = initial
          /\ pc = "start"
      BY <1>1, <2>4 DEF Drawn
    <3>2. first % 900 \in Nat
      BY <1>2
    <3> QED
      BY <2>4, <3>1, <3>2
  <2>5. CASE image \in {"combined", "baseline"}
    <3>1. /\ initial = InRange(first) /\ expected = PrimaryValue(initial) /\ sample = 0
          /\ pc = "start"
      BY <1>1, <2>5 DEF Drawn
    <3>2. initial \in 100 .. 799 /\ initial \in Nat
      BY <1>2, <3>1
    <3>3. expected \in 100 .. 799
      BY <3>1, <3>2, PrimaryIsInRange
    <3> QED
      BY <2>5, <3>1, <3>2, <3>3
  <2> QED
    BY <1>3, <2>1, <2>2, <2>3, <2>4, <2>5 DEF Images
<1>5. /\ HitIsNone /\ hit.word = "none" /\ hit.before = "none"
      /\ hit = [word |-> hit.word, before |-> hit.before]
  BY <1>3 DEF HitIsNone
<1>6. record \in [active : CopyType, checkpoint : CopyType]
  <2>1. \A v \in Nat : Whole(v) \in CopyType
    BY DEF Whole, CopyType
  <2>2. record.active \in CopyType /\ record.checkpoint \in CopyType
    BY <1>3, <1>4, <2>1
  <2> QED
    BY <1>3, <2>2
<1>7. monitor \in [phase : Nat, signature : Nat] /\ facts \in FactsType
  BY <1>3 DEF Monitor, FactsType
<1>8. Types
  <2>1. pc \in StepsOf(image)
    BY <1>3, <1>4 DEF Images, StepsOf, BlockSteps, CommitSteps
  <2> QED
    BY <1>3, <1>4, <1>6, <1>7, <2>1 DEF Types
<1>9. Timed
  BY <1>3, <1>4, <1>5 DEF Timed, AtTheOpening, Images
<1>10. ~ActiveHit /\ ~Noticed /\ ~Misled /\ \A words, steps : steps \cap {"none"} = {} =>
         ~Struck(words, steps)
  BY <1>5 DEF ActiveHit, ActiveWords, Noticed, Misled, Struck, CopyWords
<1>11. image \in {"tmr", "combined"} => VoteAgrees
  BY <1>3, <1>4, <1>5 DEF VoteAgrees, HitIsNone
<1>12. CASE image = "tmr"
  BY <1>3, <1>4, <1>8, <1>9, <1>11, <1>12 DEF GuestsInv, TmrAgrees
<1>13. image \in {"recovery-block", "combined"} => BlockAgrees
  <2> SUFFICES ASSUME image \in {"recovery-block", "combined"} PROVE BlockAgrees
    OBVIOUS
  <2>1. record.active = Whole(initial) /\ pc \in {"capture", "start"}
    BY <1>3, <1>4
  <2>2. SampleAgrees
    BY <1>4, <2>1 DEF SampleAgrees
  <2>3. EntryAgrees
    BY <1>10, <2>1 DEF EntryAgrees
  <2>4. OperationAgrees /\ CheckpointAgrees /\ RecoveredAgrees
    BY <1>3, <2>1 DEF OperationAgrees, CheckpointAgrees, RecoveredAgrees
  <2> QED
    BY <2>2, <2>3, <2>4 DEF BlockAgrees
<1>14. CASE image = "recovery-block"
  BY <1>3, <1>4, <1>8, <1>9, <1>13, <1>14 DEF GuestsInv, RecoveryAgrees
<1>15. CASE image = "combined"
  <2>1. MonitorAgrees
    <3>0. PhaseAt("start") = 0
      BY DEF PhaseAt, BlockSteps, CommitSteps
    <3>1. pc = "start" /\ PhaseAt(pc) = 0
      BY <1>4, <1>15, <3>0
    <3>2. Allowed(PhaseAt(pc)) /\ hit.word \notin MonitorWords
      BY <1>3, <1>5, <3>1 DEF Allowed, MonitorWords
    <3> QED
      BY <3>1, <3>2 DEF MonitorAgrees, CommitSteps
  <2>2. CommitAgrees
    BY <1>4, <1>15 DEF CommitAgrees, CommitSteps
  <2>3. CombinedFacts
    BY <1>3, <1>4, <1>15 DEF CombinedFacts, BlockSteps
  <2> QED
    BY <1>4, <1>8, <1>9, <1>11, <1>13, <1>15, <2>1, <2>2, <2>3 DEF GuestsInv, CombinedAgrees
<1>16. CASE image = "checkpoint"
  <2>1. record.active = Whole(expected) /\ record.active.value = expected
    BY <1>3, <1>16 DEF Whole
  <2> QED
    BY <1>3, <1>4, <1>5, <1>8, <1>9, <1>10, <1>16, <2>1
    DEF GuestsInv, RestartAgrees, CommitSteps
<1>17. CASE image = "control-flow"
  <2>1. Allowed(Moves[pc])
    BY <1>3, <1>4, <1>17 DEF Allowed, Moves
  <2> QED
    BY <1>3, <1>4, <1>5, <1>8, <1>9, <1>17, <2>1 DEF GuestsInv, FlowAgrees, MonitorWords
<1>18. CASE image = "baseline"
  BY <1>3, <1>4, <1>5, <1>8, <1>9, <1>18 DEF GuestsInv, BaselineAgrees, HitIsNone
<1> QED
  BY <1>3, <1>12, <1>14, <1>15, <1>16, <1>17, <1>18 DEF Images

(* What each step leaves of every image, for any draws: what each word     *)
(* holds, which hits are still there to be found, and what was said of     *)
(* those that were.                                                        *)
THEOREM GuestsInvariant == Spec => []GuestsInv
<1>1. Init => GuestsInv
  BY GuestsStart
<1>2. GuestsInv /\ [Next]_guestVars => GuestsInv'
  <2> SUFFICES ASSUME GuestsInv, [Next]_guestVars PROVE GuestsInv'
    OBVIOUS
  <2>1. CASE Next
    <3>1. Types' /\ Timed'
      BY <2>1, TimedKeeps DEF GuestsInv
    <3>2. image' = image
      <4>1. CASE Upset
        BY <4>1, Upsets DEF GuestsInv
      <4>2. CASE Actions
        BY <4>2, ActionsAreSteps
      <4> QED
        BY <2>1, <4>1, <4>2 DEF Next, Actions
    <3>3. /\ image = "tmr" => (VoteAgrees /\ TmrAgrees)'
          /\ image = "combined" => CombinedAgrees'
          /\ image = "recovery-block" => RecoveryAgrees'
      BY <2>1, TmrKeeps, CombinedKeeps, RecoveryKeeps DEF GuestsInv
    <3>4. /\ image = "checkpoint" => RestartAgrees'
          /\ image = "control-flow" => FlowAgrees'
          /\ image = "baseline" => BaselineAgrees'
      BY <2>1, RestartKeeps, FlowKeeps, BaselineKeeps DEF GuestsInv
    <3> QED
      BY <3>1, <3>2, <3>3, <3>4 DEF GuestsInv
  <2>2. CASE UNCHANGED guestVars
    <3>1. UNCHANGED <<image, campaign, initial, expected, hit, triplet, elected, sample, value,
                      record, op, status, monitor, pc, facts>>
      BY <2>2 DEF guestVars, setup
    <3>2. Types' = Types
      BY <3>1 DEF Types
    <3>3. Timed' = Timed
      BY <3>1 DEF Timed, HitIsNone, AtTheOpening
    <3>4. /\ VoteAgrees' = VoteAgrees /\ TmrAgrees' = TmrAgrees
          /\ RestartAgrees' = RestartAgrees /\ FlowAgrees' = FlowAgrees
          /\ BaselineAgrees' = BaselineAgrees
      BY <3>1 DEF VoteAgrees, TmrAgrees, RestartAgrees, FlowAgrees, BaselineAgrees, HitIsNone,
         Noticed, Struck, Uncompared, ActiveHit, Whole, Allowed, Monitor
    <3>5. BlockAgrees' = BlockAgrees
      BY <3>1 DEF BlockAgrees, SampleAgrees, EntryAgrees, OperationAgrees, CheckpointAgrees,
         RecoveredAgrees, CopiesAgree, HitIsNone, ActiveHit, ByPrimary, BeforeSeal, Sound, Want,
         Misled, AtEntry, Struck, Whole, Valid
    <3>6. RecoveryAgrees' = RecoveryAgrees
      BY <3>1, <3>5 DEF RecoveryAgrees, AtEntry, Struck, Valid, Uncompared, ActiveHit
    <3>7. MonitorAgrees' = MonitorAgrees
      BY <3>1 DEF MonitorAgrees, Allowed, Monitor
    <3>8. Settled' = Settled
      BY <3>1 DEF Settled, Uncompared, Struck
    <3>9. CommitAgrees' = CommitAgrees
      BY <3>1, <3>8 DEF CommitAgrees, CopiesAgree, HitIsNone, Struck, Valid, Whole, ActiveHit
    <3>10. CombinedFacts' = CombinedFacts
      BY <3>1, <3>8 DEF CombinedFacts, HitIsNone, Noticed, Struck
    <3>11. CombinedAgrees' = CombinedAgrees
      BY <3>1, <3>4, <3>5, <3>7, <3>9, <3>10 DEF CombinedAgrees
    <3> QED
      BY <3>1, <3>2, <3>3, <3>4, <3>6, <3>11 DEF GuestsInv
  <2> QED
    BY <2>1, <2>2
<1> QED
  BY <1>1, <1>2, PTL DEF Spec

-----------------------------------------------------------------------------
(* What the host makes of the facts an image publishes, when these do not  *)
(* contradict themselves. *)

Judged ==
  IF facts.detected = 1
  THEN IF facts.safe_state = 1 THEN "fail_safe"
       ELSE IF facts.output = expected THEN "corrected" ELSE "detected"
  ELSE IF facts.output = expected THEN "passed" ELSE "sdc"

LEMMA EndingIsJudged ==
  ASSUME Types, facts.corrected = 1 => facts.detected = 1 /\ facts.output = expected,
         facts.safe_state = 1 => facts.detected = 1
  PROVE  Ending = Judged
<1> DEFINE F == Report
<1>1. /\ facts.detected \in 0 .. 1 /\ facts.corrected \in 0 .. 1 /\ facts.safe_state \in 0 .. 1
      /\ facts.output \in Nat /\ expected \in Nat
  BY FactsAre DEF Types
<1>2. /\ IntFact(F, "harness_done") = 1
      /\ IntFact(F, "harness_detected") = facts.detected
      /\ IntFact(F, "harness_corrected") = facts.corrected
      /\ IntFact(F, "harness_safe_state") = facts.safe_state
      /\ IntFact(F, "harness_output") = facts.output
      /\ IntFact(F, "harness_expected") = expected
      /\ IntFact(F, "injected") = IF hit = NoHit THEN 0 ELSE 1
      /\ IntFact(F, "instruction_budget_exhausted") = 0
  BY <1>1 DEF IntFact, Present, Report
<1>3. WellFormed(F)
  BY <1>1 DEF WellFormed, RequiredFacts, Present, Garbled, Report
<1>4. Ending = Classify([facts |-> F, status |-> "completed", timeout |-> FALSE,
                         requiresInjection |-> hit # NoHit])
  BY DEF Ending
<1> HIDE DEF F
<1>5. /\ Flag(F, "harness_detected") <=> facts.detected = 1
      /\ Flag(F, "harness_corrected") <=> facts.corrected = 1
      /\ Flag(F, "harness_safe_state") <=> facts.safe_state = 1
      /\ Flag(F, "injected") <=> hit # NoHit
      /\ ~Flag(F, "instruction_budget_exhausted")
      /\ Finished(F)
      /\ OutputIsExpected(F) <=> facts.output = expected
  BY <1>1, <1>2 DEF Flag, Finished, OutputIsExpected
<1>6. Ending = IF Contradicts(F) THEN "invalid_trial" ELSE OutcomeClass(F)
  BY <1>5, <1>3, <1>4 DEF Classify
<1>7. ~Contradicts(F)
  BY <1>5 DEF Contradicts
<1>8. OutcomeClass(F) = Judged
  <2>1. CASE facts.detected = 1 /\ facts.safe_state = 1
    BY <1>5, <2>1 DEF OutcomeClass, Judged
  <2>2. CASE facts.detected = 1 /\ facts.safe_state # 1
    BY <1>5, <2>2 DEF OutcomeClass, Judged
  <2>3. CASE facts.detected # 1
    BY <1>5, <2>3 DEF OutcomeClass, Judged
  <2> QED
    BY <2>1, <2>2, <2>3
<1> QED
  BY <1>6, <1>7, <1>8

(* What is promised of a trial that is done. *)
Promised ==
  /\ FactsAgree /\ RamFaultsOnWorkflow /\ RamFaultsOnTechniques
  /\ StopsHoldTheResultBack /\ LateStopIsTheMonitors /\ SilentOnlyUncompared

LEMMA JudgedIsValid == Judged # "invalid_trial"
  BY DEF Judged

LEMMA TmrAnswers ==
  ASSUME GuestsInv, image = "tmr", Done PROVE Promised
<1>1. /\ Types /\ Timed /\ pc = "done"
      /\ Noticed <=> facts.detected = 1
      /\ facts.safe_state = 0 /\ facts.corrected = facts.detected
      /\ facts.output = expected \/ Uncompared
  BY DEF GuestsInv, TmrAgrees, Done
<1>2. Noticed => ~Uncompared
  BY DEF Noticed, Uncompared, Struck, CopyWords
<1>3. Ending = Judged
  BY <1>1, <1>2, EndingIsJudged
<1>4. Judged = IF Noticed THEN "corrected" ELSE IF facts.output = expected THEN "passed" ELSE "sdc"
  BY <1>1, <1>2 DEF Judged
<1>5. campaign = "ram-bitflip" => hit.before = "vote" /\ hit.word \in WordsOf("tmr") \ {"value"}
  BY <1>1 DEF Timed, AtTheOpening
<1>6. campaign = "ram-bitflip" => Noticed /\ hit.word \in {"a", "b", "c", "fault_count"}
  BY <1>5 DEF Noticed, Struck, CopyWords, WordsOf
<1>7. RamFaultsOnTechniques
  BY <1>3, <1>4, <1>6 DEF RamFaultsOnTechniques
<1>8. FactsAgree /\ RamFaultsOnWorkflow /\ StopsHoldTheResultBack /\ LateStopIsTheMonitors
  BY <1>3, <1>4
  DEF FactsAgree, RamFaultsOnWorkflow, StopsHoldTheResultBack, LateStopIsTheMonitors
<1>9. SilentOnlyUncompared
  BY <1>1, <1>3, <1>4 DEF SilentOnlyUncompared
<1> QED
  BY <1>7, <1>8, <1>9 DEF Promised

LEMMA RestartAnswers ==
  ASSUME GuestsInv, image = "checkpoint", Done PROVE Promised
<1>1. /\ Types /\ Timed /\ pc = "done"
      /\ IF Struck(ActiveWords, {"check"})
         THEN status = "RESTORED" /\ record.active.value = initial
         ELSE status = "COMMITTED" /\ (record.active.value = expected \/ Uncompared)
      /\ facts.output = record.active.value
      /\ facts.detected = 1 <=> status # "COMMITTED"
      /\ facts.corrected = 1 <=> status # "COMMITTED" /\ initial = expected
      /\ facts.safe_state = 1 <=> status # "COMMITTED" /\ initial # expected
  BY DEF GuestsInv, RestartAgrees, Done
<1>3. Ending = Judged
  BY <1>1, EndingIsJudged
<1>4. Judged = IF Struck(ActiveWords, {"check"})
             THEN IF initial = expected THEN "corrected" ELSE "fail_safe"
             ELSE IF facts.output = expected THEN "passed" ELSE "sdc"
  BY <1>1 DEF Judged
<1>5. campaign = "ram-bitflip" => hit.before = "check" /\ hit.word \in RecordWords
  BY <1>1 DEF Timed, AtTheOpening, WordsOf
<1>6. RamFaultsOnTechniques
  BY <1>1, <1>3, <1>4, <1>5
  DEF RamFaultsOnTechniques, Struck, ActiveWords, RecordWords, Uncompared
<1>7. FactsAgree /\ RamFaultsOnWorkflow /\ LateStopIsTheMonitors
  BY <1>3, <1>4 DEF FactsAgree, RamFaultsOnWorkflow, LateStopIsTheMonitors
<1>8. StopsHoldTheResultBack
  BY <1>1, <1>3, <1>4 DEF StopsHoldTheResultBack
<1>9. SilentOnlyUncompared
  BY <1>1, <1>3, <1>4 DEF SilentOnlyUncompared
<1> QED
  BY <1>6, <1>7, <1>8, <1>9 DEF Promised

LEMMA RecoveryAnswers ==
  ASSUME GuestsInv, image = "recovery-block", Done PROVE Promised
<1>1. /\ Types /\ Timed /\ pc = "done" /\ RecoveryAgrees
  BY DEF GuestsInv, Done
<1>2. /\ status \in BlockStatuses
      /\ AtEntry <=> status = "CHECKPOINT_FAILED"
      /\ facts.safe_state = 1 <=> status \in {"CHECKPOINT_FAILED", "RESTORE_FAILED"}
      /\ facts.detected = 1 <=> status # "PRIMARY_ACCEPTED"
      /\ facts.corrected = 1 <=> facts.detected = 1 /\ facts.output = expected
      /\ facts.safe_state = 1 => ~Valid(record.active)
      /\ facts.safe_state = 0 => facts.output = expected \/ (facts.detected = 0 /\ Uncompared)
      /\ status # "PRIMARY_ACCEPTED" => ActiveHit
      /\ facts.safe_state \in 0 .. 1 /\ facts.detected \in 0 .. 1
  BY <1>1, FactsAre DEF RecoveryAgrees, Types
<1>3. Ending = Judged
  BY <1>1, <1>2, EndingIsJudged
<1>4. /\ Judged = "fail_safe" <=> facts.safe_state = 1
      /\ Judged # "detected"
      /\ Judged = "sdc" => Uncompared
  BY <1>2 DEF Judged
<1>5. campaign = "ram-bitflip" => hit.before = "capture" /\ hit.word \in RecordWords
  BY <1>1 DEF Timed, AtTheOpening, WordsOf
<1>6. RamFaultsOnTechniques
  <2> SUFFICES ASSUME campaign = "ram-bitflip"
               PROVE  Judged = IF hit.word \in {"active", "active_field"} THEN "fail_safe"
                             ELSE "passed"
    BY <1>3, <1>5 DEF RamFaultsOnTechniques, RecordWords
  <2>1. CASE hit.word \in {"active", "active_field"}
    BY <1>2, <1>4, <1>5, <2>1 DEF AtEntry, Struck, ActiveWords, EntrySteps
  <2>2. CASE hit.word \notin {"active", "active_field"}
    <3>1. ~ActiveHit /\ ~Uncompared
      BY <1>5, <2>2 DEF ActiveHit, ActiveWords, Uncompared, Struck, RecordWords
    <3> QED
      BY <1>2, <2>2, <3>1 DEF Judged
  <2> QED
    BY <2>1, <2>2
<1>7. FactsAgree /\ RamFaultsOnWorkflow /\ LateStopIsTheMonitors
  BY <1>3, JudgedIsValid DEF FactsAgree, RamFaultsOnWorkflow, LateStopIsTheMonitors
<1>8. StopsHoldTheResultBack
  BY <1>2, <1>3, <1>4 DEF StopsHoldTheResultBack
<1>9. SilentOnlyUncompared
  BY <1>3, <1>4 DEF SilentOnlyUncompared
<1> QED
  BY <1>6, <1>7, <1>8, <1>9 DEF Promised

LEMMA FlowAnswers ==
  ASSUME GuestsInv, image = "control-flow", Done PROVE Promised
<1>1. /\ Types /\ Timed /\ pc = "done"
      /\ IF Struck(MonitorWords, FlowSteps)
         THEN /\ facts.detected = 1
              /\ \/ facts.safe_state = 1 /\ facts.output = 0
                 \/ /\ facts.safe_state = 0 /\ facts.output = expected
                    /\ hit.before \in {"leave", "finish"}
         ELSE facts.detected = 0 /\ facts.safe_state = 0 /\ (facts.output = expected \/ Uncompared)
      /\ facts.corrected = 1 <=> facts.detected = 1 /\ facts.output = expected
  BY DEF GuestsInv, FlowAgrees, Done
<1>3. Ending = Judged
  BY <1>1, EndingIsJudged
<1>4. Judged = IF Struck(MonitorWords, FlowSteps)
             THEN IF facts.safe_state = 1 THEN "fail_safe" ELSE "corrected"
             ELSE IF facts.output = expected THEN "passed" ELSE "sdc"
  BY <1>1 DEF Judged
<1>5. campaign = "ram-bitflip" => hit.before = "start" /\ hit.word \in MonitorWords \cup {"transitions"}
  BY <1>1 DEF Timed, AtTheOpening, WordsOf, MonitorWords
<1>6. RamFaultsOnTechniques
  BY <1>1, <1>3, <1>4, <1>5
  DEF RamFaultsOnTechniques, Struck, MonitorWords, FlowSteps, Uncompared
<1>7. FactsAgree /\ RamFaultsOnWorkflow /\ LateStopIsTheMonitors
  BY <1>3, <1>4 DEF FactsAgree, RamFaultsOnWorkflow, LateStopIsTheMonitors
<1>8. StopsHoldTheResultBack
  BY <1>1, <1>3, <1>4 DEF StopsHoldTheResultBack
<1>9. SilentOnlyUncompared
  BY <1>1, <1>3, <1>4 DEF SilentOnlyUncompared
<1> QED
  BY <1>6, <1>7, <1>8, <1>9 DEF Promised

LEMMA BaselineAnswers ==
  ASSUME GuestsInv, image = "baseline", Done PROVE Promised
<1>1. /\ Types /\ pc = "done"
      /\ facts.detected = 0 /\ facts.safe_state = 0 /\ facts.corrected = 0
      /\ Uncompared <=> facts.output # expected
  BY DEF GuestsInv, BaselineAgrees, Done
<1>3. Ending = Judged
  BY <1>1, EndingIsJudged
<1>4. Judged = IF Uncompared THEN "sdc" ELSE "passed"
  BY <1>1 DEF Judged
<1> QED
  BY <1>3, <1>4
  DEF Promised, FactsAgree, RamFaultsOnWorkflow, RamFaultsOnTechniques, StopsHoldTheResultBack,
      LateStopIsTheMonitors, SilentOnlyUncompared

LEMMA CombinedAnswers ==
  ASSUME GuestsInv, image = "combined", Done PROVE Promised
<1>1. /\ Types /\ Timed /\ pc = "done" /\ CombinedFacts
      /\ facts.safe_state \in 0 .. 1 /\ facts.detected \in 0 .. 1
  BY FactsAre DEF GuestsInv, CombinedAgrees, Done, Types
<1>2. /\ facts.safe_state = 1 =>
           /\ facts.detected = 1
           /\ status \in {"COMMITTED", "RESTORED"} =>
                /\ Struck(MonitorWords, LateSteps \cup {"finish"})
                /\ record.active.value = expected
      /\ facts.safe_state = 0 => Settled
      /\ facts.output = record.active.value
      /\ facts.corrected = 1 <=> facts.detected = 1 /\ facts.output = expected
  BY <1>1 DEF CombinedFacts
<1>3. Ending = Judged
  BY <1>1, <1>2, EndingIsJudged
<1>4. /\ Judged = "fail_safe" <=> facts.safe_state = 1
      /\ Judged \in {"sdc", "detected"} => facts.output # expected /\ Settled
      /\ Judged = "sdc" => facts.detected = 0
      /\ Judged = "detected" => facts.detected = 1
      /\ Judged \in {"fail_safe", "corrected", "passed"} \/ Judged \in {"sdc", "detected"}
      /\ Judged \in {"corrected", "passed"} => facts.output = expected
  BY <1>1, <1>2 DEF Judged
<1>5. campaign = "ram-bitflip" => hit.before = "start"
  BY <1>1 DEF Timed, AtTheOpening
<1>6. campaign = "ram-bitflip" => Judged \notin {"sdc", "detected"}
  BY <1>2, <1>4, <1>5 DEF Settled, Uncompared, Struck
<1>7. FactsAgree /\ RamFaultsOnTechniques /\ StopsHoldTheResultBack
  BY <1>3, JudgedIsValid DEF FactsAgree, RamFaultsOnTechniques, StopsHoldTheResultBack
<1>8. RamFaultsOnWorkflow
  BY <1>3, <1>4, <1>6 DEF RamFaultsOnWorkflow
<1>9. LateStopIsTheMonitors
  BY <1>2, <1>3, <1>4 DEF LateStopIsTheMonitors, Struck, MonitorWords, LateSteps
<1>10. SilentOnlyUncompared
  BY <1>2, <1>3, <1>4 DEF SilentOnlyUncompared, Settled, Struck, ActiveWords
<1> QED
  BY <1>7, <1>8, <1>9, <1>10 DEF Promised

LEMMA GuestsAnswer ==
  ASSUME GuestsInv PROVE GuestsTypeOK /\ Promised
<1>1. GuestsTypeOK
  <2>1. Types
    BY DEF GuestsInv
  <2>2. /\ facts.detected \in 0 .. 1 /\ facts.corrected \in 0 .. 1
        /\ facts.safe_state \in 0 .. 1 /\ facts.output \in Nat
        /\ record.active \in CopyType /\ record.checkpoint \in CopyType
    BY <2>1, FactsAre, RecordParts DEF Types
  <2> QED
    BY <2>1, <2>2 DEF GuestsTypeOK, Types, CopyType
<1>2. CASE Done
  <2>1. image \in Images
    BY DEF GuestsInv, Types
  <2> QED
    BY <1>1, <1>2, <2>1, TmrAnswers, RestartAnswers, RecoveryAnswers, FlowAnswers,
       BaselineAnswers, CombinedAnswers DEF Images
<1>3. CASE ~Done
  BY <1>1, <1>3
  DEF Promised, FactsAgree, RamFaultsOnWorkflow, RamFaultsOnTechniques, StopsHoldTheResultBack,
      LateStopIsTheMonitors, SilentOnlyUncompared
<1> QED
  BY <1>2, <1>3

(* FuzzGuests!RamFaultsAreAnswered: a bit flipped in the exported state of *)
(* a protected image as its window opens is corrected, stopped or without  *)
(* effect, each by the technique it hit, whatever the draws; no faulted    *)
(* trial contradicts itself, and a stop holds the result back.             *)
THEOREM RamFaultsAnswered == Spec => []RamFaultsAreAnswered
<1>1. GuestsInv => RamFaultsAreAnswered
  BY GuestsAnswer DEF RamFaultsAreAnswered, Promised
<1> QED
  BY <1>1, GuestsInvariant, PTL

(* FuzzGuests!SilentOnlyUncompared: a wrong output gets through in silence *)
(* only where nothing compares the word that is hit, through the baseline  *)
(* whenever the word is still read, and is found without a stop only when  *)
(* the commit puts the entry record back.                                  *)
THEOREM SilenceIsUncompared == Spec => []SilentOnlyUncompared
<1>1. GuestsInv => SilentOnlyUncompared
  BY GuestsAnswer DEF Promised
<1> QED
  BY <1>1, GuestsInvariant, PTL
=============================================================================
