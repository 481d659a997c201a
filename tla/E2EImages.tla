------------------------------ MODULE E2EImages ------------------------------
(***************************************************************************)
(* The six e2e images under every campaign a request resolves to: the      *)
(* protected and the unprotected workflow (Combined.tla, Baseline.tla) and *)
(* the four techniques on their own (TechniqueImages.tla).  One image runs *)
(* at a time; the words of the others stay as they were.                   *)
(***************************************************************************)
EXTENDS Workload

CONSTANT TechniqueIterations   \* bound: iterations of a single technique's image

ASSUME ImagesAssumption ==
  /\ TechniqueIterations \in 1 .. MaxIteration
  /\ AllOnes % 2 = 1 /\ AllOnes > 2 * TechniqueIterations + 1000

VARIABLES
  technique,                                             \* which image runs
  campaign, iteration, pc,                               \* every image
  fault, passed,                                         \* both workflow images
  triplet, voted, record, monitor, facts, committed,     \* Combined
  last_value, outcome,                                   \* Baseline
  request, state, last, passes, failures, injected       \* TechniqueImages

workflow == <<fault, passed>>
combined == <<triplet, voted, record, monitor, facts, committed>>
baseline == <<last_value, outcome>>
single   == <<request, state, last, passes, failures, injected>>

imagesVars == <<technique, campaign, iteration, pc, workflow, combined, baseline, single>>

Protected == INSTANCE Combined WITH last <- facts

Unprotected == INSTANCE Baseline

Single == INSTANCE TechniqueImages WITH MaxIteration <- TechniqueIterations

R == INSTANCE Resolve WITH MaxRunCount <- MaxIteration

-----------------------------------------------------------------------------
(* What may be asked for; an unset campaign or count is resolved, too.     *)
Requests ==
  [technique : R!ToSet(R!Techniques), language : {"c"}, target : R!ToSet(R!Targets),
   campaign : R!ToSet(R!CampaignChoices) \cup {""}, count : {0, MaxIteration}]

Default == [count |-> MaxIteration]

ImagesInit ==
  /\ \E asked \in Requests :
       /\ R!ResolveE2E(asked, Default)
       /\ technique = asked.technique
       /\ campaign = R!CampaignOr(asked.campaign, "mixed")
  /\ iteration = 0 /\ pc = "top"
  /\ fault = Fault("none", 0) /\ passed = TRUE
  /\ triplet = Protected!Triplet(0, 0, 0, 0) /\ voted = 0
  /\ record = Protected!Double(Protected!Copy(0, FALSE), Protected!Copy(0, FALSE))
  /\ monitor = Protected!Monitor(0) /\ facts = Protected!NoFacts(0) /\ committed = FALSE
  /\ last_value = 0 /\ outcome = "CORRECT"
  /\ IF technique \in Single!Techniques THEN Single!Init
     ELSE /\ request = Single!NoFault /\ state = <<>> /\ last = <<>>
          /\ passes = 0 /\ failures = 0 /\ injected = {}

RunCombined ==
  technique = "combined" /\ Protected!Next /\ UNCHANGED <<technique, baseline, single>>

RunBaseline ==
  technique = "baseline" /\ Unprotected!Next /\ UNCHANGED <<technique, combined, single>>

RunTechnique ==
  technique \in Single!Techniques /\ Single!Next /\ UNCHANGED <<workflow, combined, baseline>>

ImagesNext == RunCombined \/ RunBaseline \/ RunTechnique

ImagesSpec == ImagesInit /\ [][ImagesNext]_imagesVars

-----------------------------------------------------------------------------
(* Properties *)

(* Every campaign fault is absorbed or stops the protected run: no         *)
(* iteration of any campaign commits a wrong value, and a safe stop comes  *)
(* before the commit and leaves a valid record in memory.                  *)
ProtectedRunIsSafe ==
  technique = "combined" =>
    Protected!NoSilentCorruption /\ Protected!SafeStopKeepsRecord

(* Which technique of the protected run answers which fault.               *)
EachFaultHasItsAnswer == technique = "combined" => Protected!EachFaultHasItsAnswer

(* Without protection every fault of every campaign becomes silent         *)
(* corruption, but for an input with the remainder of the true one.        *)
FaultsComeThrough == technique = "baseline" => Unprotected!FaultsComeThrough

(* A request that resolves is one the form would offer, and its campaign   *)
(* meets the faults it names, each with the answer its image waits for: an *)
(* accepted name that the technique has no fault for would rotate through  *)
(* all of them, and every row would still pass.                            *)
CampaignsMeetTheirFaults ==
  /\ campaign \in R!ToSet(R!CampaignsForTechnique(technique))
  /\ technique \in Single!Techniques =>
       /\ Single!TypeOK
       /\ Single!CampaignPasses
       /\ Single!CampaignInjectsWhatItNames

(* What the row of an iteration says is true of that iteration, and        *)
(* nothing of an earlier one is left in it.                                *)
RowTellsTheTruth == technique \in Single!Techniques => Single!RowTellsTheTruth
=============================================================================
