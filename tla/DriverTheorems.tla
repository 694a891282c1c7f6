---------------------------- MODULE DriverTheorems ----------------------------
(***************************************************************************)
(* A run of the demo driver, for any accounts and strangers, any number of *)
(* failures and of calls of strangers in between: no transaction is sent   *)
(* twice, and a success that is reported is one the chain holds; and a run *)
(* that meets neither a failure nor a stranger succeeds.                   *)
(***************************************************************************)
EXTENDS DemoDriver, IdentityTheorems

(* The names of all steps. *)
StepName ==
  {"createClaim", "recordRelationship", "openChallenge", "requestVerification", "registerA",
   "registerB", "submitEvidence", "lockEvidence", "beginInvestigation", "investigate", "reportA",
   "reportB", "waitForChallengeWindow", "resolve"}

(* The steps that submit no text of evidence, and those that submit one. *)
LEMMA EvidenceSteps ==
  /\ [i \in 1..0 |-> "submitEvidence"] = <<>>
  /\ [i \in 1..1 |-> "submitEvidence"] = <<"submitEvidence">>
  OBVIOUS

(* A verification for an agent who has no evidence goes through these stages. *)
LEMMA VerificationProgram ==
  LET program == AgentVerifyClaim(0)
  IN /\ program \in Seq(StepName) /\ Len(program) = 10
     /\ program[1] = "createClaim" /\ program[2] = "requestVerification"
     /\ program[3] = "registerA" /\ program[4] = "registerB"
     /\ program[5] = "lockEvidence" /\ program[6] = "beginInvestigation"
     /\ program[7] = "investigate"
     /\ program[8] = "reportA" /\ program[9] = "reportB" /\ program[10] = "resolve"
  <1> DEFINE start == <<"createClaim", "requestVerification", "registerA", "registerB">>
             end == <<"reportA", "reportB", "resolve">>
  <1>1. AgentVerifyClaim(0) = start \o Investigation \o end
    <2>1. start \o <<>> = start
      OBVIOUS
    <2> QED BY <2>1, EvidenceSteps DEF AgentVerifyClaim
  <1>2. PICK program : program = start \o Investigation \o end
    OBVIOUS
  <1>3. /\ program \in Seq(StepName) /\ Len(program) = 10
        /\ program[1] = "createClaim" /\ program[2] = "requestVerification"
        /\ program[3] = "registerA" /\ program[4] = "registerB"
        /\ program[5] = "lockEvidence" /\ program[6] = "beginInvestigation"
        /\ program[7] = "investigate"
        /\ program[8] = "reportA" /\ program[9] = "reportB" /\ program[10] = "resolve"
    BY <1>2 DEF Investigation, StepName
  <1> HIDE DEF start, end
  <1> QED BY <1>1, <1>2, <1>3

(* One for an agent with a piece of evidence, which scenario C is too. *)
LEMMA EvidencedProgram ==
  LET program == AgentVerifyClaim(1)
  IN /\ program \in Seq(StepName) /\ Len(program) = 11
     /\ program[1] = "createClaim" /\ program[2] = "requestVerification"
     /\ program[3] = "registerA" /\ program[4] = "registerB"
     /\ program[5] = "submitEvidence"
     /\ program[6] = "lockEvidence" /\ program[7] = "beginInvestigation"
     /\ program[8] = "investigate"
     /\ program[9] = "reportA" /\ program[10] = "reportB" /\ program[11] = "resolve"
  <1> DEFINE start == <<"createClaim", "requestVerification", "registerA", "registerB">>
             end == <<"reportA", "reportB", "resolve">>
  <1>1. AgentVerifyClaim(1) = start \o <<"submitEvidence">> \o Investigation \o end
    BY EvidenceSteps DEF AgentVerifyClaim
  <1>2. PICK program : program = start \o <<"submitEvidence">> \o Investigation \o end
    OBVIOUS
  <1>3. /\ program \in Seq(StepName) /\ Len(program) = 11
        /\ program[1] = "createClaim" /\ program[2] = "requestVerification"
        /\ program[3] = "registerA" /\ program[4] = "registerB"
        /\ program[5] = "submitEvidence"
        /\ program[6] = "lockEvidence" /\ program[7] = "beginInvestigation"
        /\ program[8] = "investigate"
        /\ program[9] = "reportA" /\ program[10] = "reportB" /\ program[11] = "resolve"
    BY <1>2 DEF Investigation, StepName
  <1> HIDE DEF start, end
  <1> QED BY <1>1, <1>2, <1>3

(* Scenario B goes through these stages. *)
LEMMA ChallengeProgram ==
  /\ ScenarioB \in Seq(StepName) /\ Len(ScenarioB) = 11
  /\ ScenarioB[1] = "createClaim" /\ ScenarioB[2] = "openChallenge"
  /\ ScenarioB[3] = "submitEvidence" /\ ScenarioB[4] = "submitEvidence"
  /\ ScenarioB[5] = "lockEvidence" /\ ScenarioB[6] = "beginInvestigation"
  /\ ScenarioB[7] = "investigate"
  /\ ScenarioB[8] = "reportA" /\ ScenarioB[9] = "reportB"
  /\ ScenarioB[10] = "waitForChallengeWindow" /\ ScenarioB[11] = "resolve"
  BY DEF ScenarioB, Investigation, StepName
(***************************************************************************)
(* When the evidence is locked; what follows is the same for all           *)
(* scenarios with a case: the investigation, two reports, and at the very  *)
(* end, after a wait in scenario B, the resolution.                        *)
(***************************************************************************)
LockAt(s) == IF s = "C" THEN 6 ELSE 5

EndAt(s) == IF s = "agentWithoutEvidence" THEN 10 ELSE 11

CaseScenario == {"B", "C", "agentWithoutEvidence"}

(* Which step is where. *)
AtItsPlace(s, i, name) ==
  /\ name = "createClaim" <=> i = 1
  /\ name \in {"openChallenge", "requestVerification"} <=> i = 2
  /\ name = "registerA" <=> i = 3 /\ s # "B"
  /\ name = "registerB" <=> i = 4 /\ s # "B"
  /\ name = "submitEvidence" => i \in 3..5 /\ (i = 5 <=> s # "B")
  /\ name = "lockEvidence" <=> i = LockAt(s)
  /\ name = "beginInvestigation" <=> i = LockAt(s) + 1
  /\ name = "investigate" <=> i = LockAt(s) + 2
  /\ name = "reportA" <=> i = LockAt(s) + 3
  /\ name = "reportB" <=> i = LockAt(s) + 4
  /\ name = "waitForChallengeWindow" <=> i = 10 /\ s = "B"
  /\ name = "resolve" <=> i = EndAt(s)
  /\ name # "recordRelationship"

(* Every step of a scenario with a case is at its place. *)
LEMMA Stages ==
  ASSUME NEW s \in CaseScenario
  PROVE  /\ Program[s] \in Seq(StepName) /\ Len(Program[s]) = EndAt(s)
         /\ \A i \in 1..EndAt(s) : AtItsPlace(s, i, Program[s][i])
  <1>1. /\ Program["B"] = ScenarioB /\ Program["C"] = AgentVerifyClaim(1)
        /\ Program["agentWithoutEvidence"] = AgentVerifyClaim(0)
    BY DEF Program, ScenarioC
  <1>2. CASE s = "B"
    <2>1. LockAt(s) = 5 /\ EndAt(s) = 11
      BY <1>2 DEF LockAt, EndAt
    <2>2. Program[s] \in Seq(StepName) /\ Len(Program[s]) = 11
      BY <1>1, <1>2, ChallengeProgram
    <2>3. ASSUME NEW i \in 1..11 PROVE AtItsPlace(s, i, Program[s][i])
      <3>1. i \in {1, 2, 3, 4, 5, 6, 7, 8, 9, 10, 11}
        OBVIOUS
      <3> QED BY <1>1, <1>2, <2>1, <3>1, ChallengeProgram DEF AtItsPlace
    <2> QED BY <2>1, <2>2, <2>3
  <1>3. CASE s = "C"
    <2>1. LockAt(s) = 6 /\ EndAt(s) = 11
      BY <1>3 DEF LockAt, EndAt
    <2>2. Program[s] \in Seq(StepName) /\ Len(Program[s]) = 11
      BY <1>1, <1>3, EvidencedProgram
    <2>3. ASSUME NEW i \in 1..11 PROVE AtItsPlace(s, i, Program[s][i])
      <3>1. i \in {1, 2, 3, 4, 5, 6, 7, 8, 9, 10, 11}
        OBVIOUS
      <3> QED BY <1>1, <1>3, <2>1, <3>1, EvidencedProgram DEF AtItsPlace
    <2> QED BY <2>1, <2>2, <2>3
  <1>4. CASE s = "agentWithoutEvidence"
    <2>1. LockAt(s) = 5 /\ EndAt(s) = 10
      BY <1>4 DEF LockAt, EndAt
    <2>2. Program[s] \in Seq(StepName) /\ Len(Program[s]) = 10
      BY <1>1, <1>4, VerificationProgram
    <2>3. ASSUME NEW i \in 1..10 PROVE AtItsPlace(s, i, Program[s][i])
      <3>1. i \in {1, 2, 3, 4, 5, 6, 7, 8, 9, 10}
        OBVIOUS
      <3> QED BY <1>1, <1>4, <2>1, <3>1, VerificationProgram DEF AtItsPlace
    <2> QED BY <2>1, <2>2, <2>3
  <1> QED BY <1>2, <1>3, <1>4 DEF CaseScenario

(* Scenario A has three steps, and every scenario has some. *)
LEMMA ProgramsTyped ==
  ASSUME NEW s \in DOMAIN Program
  PROVE  Program[s] \in Seq(StepName) /\ Len(Program[s]) \in Nat \ {0}
  <1>1. Program["A"] \in Seq(StepName) /\ Len(Program["A"]) = 3
    BY DEF Program, ScenarioA, StepName
  <1>2. s = "A" \/ s \in CaseScenario
    BY DEF Program, CaseScenario
  <1>3. ASSUME s \in CaseScenario PROVE Program[s] \in Seq(StepName) /\ Len(Program[s]) \in Nat \ {0}
    <2>1. EndAt(s) \in Nat \ {0}
      BY DEF EndAt
    <2> QED BY <1>3, <2>1, Stages
  <1>4. CASE s = "A"
    <2>1. 3 \in Nat \ {0}
      OBVIOUS
    <2> QED BY <1>1, <1>4, <2>1
  <1> QED BY <1>2, <1>3, <1>4
-----------------------------------------------------------------------------
(***************************************************************************)
(* Where a run is: it waits for the receipt of a transaction and sleeps    *)
(* for the challenge window.                                               *)
(***************************************************************************)
PlaceOK ==
  /\ deployment \in {"localDevnet", "twoKeys", "oneKey"}
  /\ scenario \in DOMAIN Program
  /\ step \in 1..Len(Program[scenario])
  /\ phase \in {"call", "waiting", "reading", "sleeping"}
  /\ phase \in {"waiting", "reading"} => Step \notin Computed
  /\ phase = "sleeping" => Step = "waitForChallengeWindow"
  /\ outcome \in {"running", "ok", "error"}

(* A run starts with the call of its first step. *)
LEMMA PlaceInit == DemoInit => PlaceOK
  BY ProgramsTyped DEF DemoInit, PlaceOK

(* The steps of a run, by what they do to its place and to what landed. *)
Stays == UNCHANGED <<deployment, scenario, step, phase, outcome, landed>>

Lost ==
  /\ outcome = "running" /\ outcome' = "error"
  /\ UNCHANGED <<deployment, scenario, step, phase>>
  /\ landed' = landed \/ (phase = "call" /\ Step \notin Computed /\ landed' = Append(landed, step))

Landing ==
  /\ outcome = "running" /\ phase = "call" /\ Step \notin Computed
  /\ phase' = "waiting" /\ landed' = Append(landed, step)
  /\ UNCHANGED <<deployment, scenario, step, outcome>>

Looking ==
  /\ outcome = "running" /\ phase = "waiting" /\ phase' = "reading"
  /\ UNCHANGED <<deployment, scenario, step, outcome, landed>>

Advancing ==
  /\ outcome = "running"
  /\ phase \in {"waiting", "reading", "sleeping"} \/ Step \in Computed
  /\ NextStep

FallingAsleep ==
  /\ outcome = "running" /\ Waiting
  /\ phase' = "sleeping"
  /\ UNCHANGED <<deployment, scenario, step, outcome, landed>>

(* Every step of the system is one of these to the run. *)
LEMMA HowRunsMove ==
  ASSUME [DemoNext]_demoVars
  PROVE  Stays \/ Lost \/ Landing \/ Looking \/ Advancing \/ FallingAsleep
  <1>1. CASE StrangerCall \/ TimePasses \/ UNCHANGED demoVars
    BY <1>1 DEF StrangerCall, TimePasses, Stays, demoVars, driverVars, progressVars
  <1>2. CASE DriverStep
    <2>1. ASSUME outcome = "running", Reverts PROVE Lost
      BY <2>1 DEF Reverts, AfterRevert, Fail, Lost
    <2>2. ASSUME outcome = "running", CallFails PROVE Lost
      BY <2>2 DEF CallFails, Fail, Lost
    <2>3. ASSUME outcome = "running", GiveUp PROVE Lost
      BY <2>3 DEF GiveUp, Fail, Lost
    <2>4. ASSUME Retry PROVE Stays
      BY <2>4 DEF Retry, PhaseOfRetry, Stays
    <2>5. ASSUME outcome = "running", Lands PROVE Landing
      BY <2>5 DEF Lands, Landing
    <2>6. ASSUME outcome = "running", Acknowledged PROVE Looking \/ Advancing
      BY <2>6 DEF Acknowledged, Looking, Advancing
    <2>7. ASSUME outcome = "running", Investigate \/ SetClock \/ StopSleeping PROVE Advancing
      BY <2>7 DEF Investigate, SetClock, StopSleeping, Waiting, Computed, Advancing
    <2>8. ASSUME outcome = "running", StartSleeping PROVE FallingAsleep
      BY <2>8 DEF StartSleeping, FallingAsleep
    <2> QED BY <1>2, <2>1, <2>2, <2>3, <2>4, <2>5, <2>6, <2>7, <2>8 DEF DriverStep
  <1> QED BY <1>1, <1>2 DEF DemoNext, Ended

(* Each of them leaves a run at a place it can be at. *)
LEMMA PlaceStep ==
  ASSUME PlaceOK, [DemoNext]_demoVars
  PROVE  PlaceOK'
  <1>1. CASE Stays
    BY <1>1 DEF Stays, PlaceOK, Step
  <1>2. CASE Lost
    BY <1>2 DEF Lost, PlaceOK, Step
  <1>3. CASE Landing
    BY <1>3 DEF Landing, PlaceOK, Step
  <1>4. CASE Looking
    BY <1>4 DEF Looking, PlaceOK, Step
  <1>5. CASE FallingAsleep
    BY <1>5 DEF FallingAsleep, Waiting, PlaceOK, Step
  <1>6. CASE Advancing
    <2>1. CASE step = Len(Program[scenario])
      BY <1>6, <2>1 DEF Advancing, NextStep, PlaceOK, Step
    <2>2. CASE step # Len(Program[scenario])
      <3>1. /\ step' = step + 1 /\ phase' = "call" /\ outcome' = outcome
            /\ deployment' = deployment /\ scenario' = scenario
        BY <1>6, <2>2 DEF Advancing, NextStep
      <3>2. step + 1 \in 1..Len(Program[scenario])
        BY <2>2, ProgramsTyped DEF PlaceOK
      <3> QED BY <3>1, <3>2 DEF PlaceOK
    <2> QED BY <2>1, <2>2
  <1> QED BY <1>1, <1>2, <1>3, <1>4, <1>5, <1>6, HowRunsMove
-----------------------------------------------------------------------------
(***************************************************************************)
(* What took effect: the transactions before the present step and, once    *)
(* the run waits for a receipt, the present one.  Only a run that ended in *)
(* an error does not know whether the present one did.                     *)
(***************************************************************************)
Transactions(k) == {i \in 1..k : Program[scenario][i] \notin Computed}

LandedOnce ==
  /\ landed \in Seq(Nat)
  /\ \A i, j \in 1..Len(landed) : i < j => landed[i] < landed[j]
  /\ \A i \in 1..Len(landed) :
       landed[i] \in Transactions(step) /\ (outcome = "running" /\ phase = "call" => landed[i] # step)
  /\ Transactions(step - 1) \subseteq Range(landed)
  /\ phase # "call" => Transactions(step) \subseteq Range(landed)

(* What follows from it for the set of the steps that took effect. *)
LEMMA RangeLanded ==
  ASSUME LandedOnce
  PROVE  Range(landed) \subseteq Transactions(step)
  BY DEF LandedOnce, Range

(* An element more in a sequence is an element more in its range. *)
LEMMA RangeOfAppend ==
  ASSUME NEW s \in Seq(Nat), NEW e \in Nat
  PROVE  Range(Append(s, e)) = Range(s) \cup {e}
  <1> DEFINE t == Append(s, e)
  <1>1. /\ t \in Seq(Nat) /\ DOMAIN s = 1..Len(s) /\ DOMAIN t = 1..Len(s) + 1
        /\ t[Len(s) + 1] = e /\ \A i \in 1..Len(s) : t[i] = s[i]
    OBVIOUS
  <1>2. Len(s) + 1 \in DOMAIN t /\ DOMAIN s \subseteq DOMAIN t
    BY <1>1
  <1>3. \A i \in DOMAIN t : i \in DOMAIN s \/ i = Len(s) + 1
    BY <1>1
  <1> HIDE DEF t
  <1> QED BY <1>1, <1>2, <1>3 DEF Range, t

(* The transactions up to the next step, to the present and before it. *)
LEMMA TransactionsUpTo ==
  ASSUME PlaceOK
  PROVE  /\ step \in Nat /\ step \in 1..step
         /\ \A k \in Int : Transactions(k) \subseteq 1..k
         /\ Transactions(step) \subseteq Transactions(step - 1) \cup {step}
         /\ Step \in Computed => Transactions(step) = Transactions(step - 1)
         /\ Step \notin Computed => step \in Transactions(step)
         /\ Transactions(step) \subseteq Transactions(step + 1)
  <1>1. step \in Nat /\ step \in 1..step
    BY ProgramsTyped DEF PlaceOK
  <1>2. \A i : i \in 1..step <=> i \in 1..step - 1 \/ i = step
    BY <1>1
  <1>3. \A i \in 1..step : i \in 1..step + 1
    BY <1>1
  <1> QED BY <1>1, <1>2, <1>3 DEF Transactions, Step

(* Nothing took effect before a run begins. *)
LEMMA OnceInit == DemoInit => LandedOnce
  <1> SUFFICES ASSUME DemoInit PROVE LandedOnce
    OBVIOUS
  <1>1. landed = <<>> /\ step = 1 /\ phase = "call"
    BY DEF DemoInit
  <1>2. Transactions(0) = {}
    BY DEF Transactions
  <1> QED BY <1>1, <1>2 DEF LandedOnce

(* Every step of the system keeps it. *)
LEMMA OnceStep ==
  ASSUME PlaceOK, LandedOnce, [DemoNext]_demoVars
  PROVE  LandedOnce'
  <1>1. CASE Stays \/ Looking
    <2>1. Transactions(step)' = Transactions(step) /\ Transactions(step - 1)' = Transactions(step - 1)
      BY <1>1 DEF Stays, Looking, Transactions
    <2> QED BY <1>1, <2>1 DEF Stays, Looking, LandedOnce
  <1>2. CASE FallingAsleep
    <2>1. Transactions(step)' = Transactions(step) /\ Transactions(step - 1)' = Transactions(step - 1)
      BY <1>2 DEF FallingAsleep, Transactions
    <2>2. Step \in Computed
      BY <1>2 DEF FallingAsleep, Waiting, Computed
    <2> QED BY <1>2, <2>1, <2>2, TransactionsUpTo DEF FallingAsleep, LandedOnce
  <1>3. ASSUME /\ phase = "call" /\ Step \notin Computed
               /\ outcome = "running" /\ landed' = Append(landed, step)
               /\ UNCHANGED <<scenario, step>>
               /\ outcome' = "error" \/ phase' # "call"
        PROVE  LandedOnce'
    <2>1. Transactions(step)' = Transactions(step) /\ Transactions(step - 1)' = Transactions(step - 1)
      BY <1>3 DEF Transactions
    <2>2. /\ landed \in Seq(Nat) /\ step \in Nat /\ Len(landed') = Len(landed) + 1 /\ landed' \in Seq(Nat)
          /\ landed'[Len(landed) + 1] = step /\ \A i \in 1..Len(landed) : landed'[i] = landed[i]
      BY <1>3, TransactionsUpTo DEF LandedOnce
    <2>3. \A i \in 1..Len(landed') : i \in 1..Len(landed) \/ i = Len(landed) + 1
      BY <2>2
    <2>4. \A i \in 1..Len(landed) : landed[i] < step
      <3>1. \A i \in 1..Len(landed) : landed[i] \in 1..step /\ landed[i] # step
        BY <1>3, <2>2, TransactionsUpTo DEF LandedOnce
      <3> QED BY <2>2, <3>1
    <2>5. \A i, j \in 1..Len(landed') : i < j => landed'[i] < landed'[j]
      <3> SUFFICES ASSUME NEW i \in 1..Len(landed'), NEW j \in 1..Len(landed'), i < j
                   PROVE  landed'[i] < landed'[j]
        OBVIOUS
      <3>1. i \in 1..Len(landed)
        BY <2>2
      <3>2. CASE j = Len(landed) + 1
        BY <2>2, <2>4, <3>1, <3>2
      <3>3. CASE j \in 1..Len(landed)
        BY <2>2, <3>1, <3>3 DEF LandedOnce
      <3> QED BY <2>3, <3>2, <3>3
    <2>6. \A i \in 1..Len(landed') : landed'[i] \in Transactions(step)
      BY <1>3, <2>2, <2>3, TransactionsUpTo DEF LandedOnce
    <2>7. Range(landed') = Range(landed) \cup {step}
      BY <1>3, <2>2, RangeOfAppend
    <2>8. Transactions(step) \subseteq Range(landed')
      BY <2>7, TransactionsUpTo DEF LandedOnce
    <2>9. Transactions(step - 1) \subseteq Range(landed')
      BY <2>7 DEF LandedOnce
    <2> QED BY <1>3, <2>1, <2>2, <2>5, <2>6, <2>8, <2>9 DEF LandedOnce
  <1>4. CASE Landing
    BY <1>3, <1>4 DEF Landing
  <1>5. CASE Lost
    <2>1. CASE landed' = landed
      <3>1. Transactions(step)' = Transactions(step) /\ Transactions(step - 1)' = Transactions(step - 1)
        BY <1>5 DEF Lost, Transactions
      <3> QED BY <1>5, <2>1, <3>1 DEF Lost, LandedOnce
    <2>2. CASE landed' # landed
      BY <1>3, <1>5, <2>2 DEF Lost
    <2> QED BY <2>1, <2>2
  <1>6. CASE Advancing
    <2>1. Transactions(step) \subseteq Range(landed)
      BY <1>6, TransactionsUpTo DEF Advancing, LandedOnce
    <2>2. CASE step = Len(Program[scenario])
      <3>1. outcome' = "ok" /\ UNCHANGED <<scenario, step, phase, landed>>
        BY <1>6, <2>2 DEF Advancing, NextStep
      <3>2. Transactions(step)' = Transactions(step) /\ Transactions(step - 1)' = Transactions(step - 1)
        BY <3>1 DEF Transactions
      <3> QED BY <2>1, <3>1, <3>2 DEF LandedOnce
    <2>3. CASE step # Len(Program[scenario])
      <3>1. step' = step + 1 /\ phase' = "call" /\ UNCHANGED <<scenario, landed>>
        BY <1>6, <2>3 DEF Advancing, NextStep
      <3>2. step \in Nat /\ step' - 1 = step
        BY <3>1, TransactionsUpTo
      <3>3. Transactions(step)' = Transactions(step + 1) /\ Transactions(step - 1)' = Transactions(step)
        BY <3>1, <3>2 DEF Transactions
      <3>4. \A i \in 1..Len(landed) : landed[i] \in Transactions(step + 1) /\ landed[i] # step + 1
        BY <3>2, TransactionsUpTo DEF LandedOnce
      <3> QED BY <2>1, <3>1, <3>3, <3>4 DEF LandedOnce
    <2> QED BY <2>2, <2>3
  <1> QED BY <1>1, <1>2, <1>4, <1>5, <1>6, HowRunsMove

(* The property follows from where the run is and what landed. *)
LEMMA OnceEnough == LandedOnce => EachTransactionOnce
  BY RangeLanded DEF LandedOnce, EachTransactionOnce, Transactions

(***************************************************************************)
(* No transaction of a run is sent twice, and no run goes on without the   *)
(* effect of the step before, however often waits are repeated, receipts   *)
(* are read anew, and whatever strangers do meanwhile.                     *)
(***************************************************************************)
THEOREM TransactionsOnce == DemoSpec => []EachTransactionOnce
  <1>1. DemoInit => PlaceOK /\ LandedOnce
    BY PlaceInit, OnceInit
  <1>2. PlaceOK /\ LandedOnce /\ [DemoNext]_demoVars => (PlaceOK /\ LandedOnce)'
    BY PlaceStep, OnceStep
  <1>3. PlaceOK /\ LandedOnce => EachTransactionOnce
    BY OnceEnough
  <1> QED BY <1>1, <1>2, <1>3, PTL DEF DemoSpec
-----------------------------------------------------------------------------
(***************************************************************************)
(* What a run has learned has its type.                                    *)
(***************************************************************************)
OwnOK ==
  own \in [ claimIds : Seq(Claims), caseId : Challenges \cup {None},
            idA : Investigators \cup {None}, idB : Investigators \cup {None},
            verdictA : Verdicts \cup {None}, verdictB : Verdicts \cup {None},
            status : VerdictStatus \cup {None}, wakesAt : Nat ]

Reported(role, verdict) ==
  \E i \in 1..Len(reports[own.caseId]) :
    /\ reports[own.caseId][i].investigator = makeChain(role)
    /\ reports[own.caseId][i].verdict = verdict

(***************************************************************************)
(* What the run knows of the chain once the first k steps of a scenario    *)
(* with a case are done, which nobody undoes.                              *)
(***************************************************************************)
Known(k) ==
  /\ k >= 1 => own.claimIds # <<>>
  /\ k >= 2 => own.caseId \in Challenges /\ challenges[own.caseId].exists
  /\ k >= LockAt(scenario) =>
       evidenceLocked[own.caseId] /\ challenges[own.caseId].evidenceRoot = OwnRoot
  /\ k >= LockAt(scenario) + 2 => own.verdictA \in Verdicts /\ own.verdictB \in Verdicts
  /\ k >= LockAt(scenario) + 3 => Reported("investigatorA", own.verdictA)
  /\ k >= LockAt(scenario) + 4 => Reported("investigatorB", own.verdictB)
  /\ k >= EndAt(scenario) =>
       verdicts[own.caseId].exists /\ verdicts[own.caseId].status = own.status

Done == IF phase \in {"waiting", "reading"} THEN step ELSE step - 1

ContractInv == TypeOK /\ CaseInv /\ TalliesMatchReports /\ BondAccounted

(***************************************************************************)
(* A run in which nothing went wrong so far knows what its steps did.  It  *)
(* succeeds when the last one, a transaction, is acknowledged.             *)
(***************************************************************************)
KnowledgeInv ==
  /\ ContractInv
  /\ OwnOK
  /\ Known(Done)
  /\ outcome = "ok" => step = EndAt(scenario) /\ phase \in {"waiting", "reading"}

RunInv == scenario # "A" /\ outcome # "error" => KnowledgeInv
(* The step a run with a case is at, and the last one, are at their place. *)
LEMMA StepIs ==
  ASSUME PlaceOK, scenario # "A"
  PROVE  /\ scenario \in CaseScenario /\ Len(Program[scenario]) = EndAt(scenario)
         /\ step \in 1..EndAt(scenario) /\ AtItsPlace(scenario, step, Step)
         /\ step = EndAt(scenario) => Step \notin Computed
         /\ LockAt(scenario) \in {5, 6} /\ EndAt(scenario) \in {10, 11}
         /\ EndAt(scenario) > LockAt(scenario) + 4
         /\ step \in Nat
  <1>1. scenario \in CaseScenario
    BY DEF PlaceOK, Program, CaseScenario
  <1>2. /\ Len(Program[scenario]) = EndAt(scenario) /\ step \in 1..EndAt(scenario)
        /\ AtItsPlace(scenario, step, Step)
    BY <1>1, Stages DEF PlaceOK, Step
  <1>3. /\ LockAt(scenario) \in {5, 6} /\ EndAt(scenario) \in {10, 11}
        /\ EndAt(scenario) > LockAt(scenario) + 4
        /\ scenario = "B" => EndAt(scenario) = 11
    BY <1>1 DEF CaseScenario, LockAt, EndAt
  <1>4. step = EndAt(scenario) => Step \notin Computed
    BY <1>2, <1>3 DEF AtItsPlace, Computed
  <1> QED BY <1>1, <1>2, <1>3, <1>4

(***************************************************************************)
(* What the contract goes through: its own steps, and a clock that moves   *)
(* by more than one.                                                       *)
(***************************************************************************)
ClockMove == now' \in Nat /\ ClockAt(now')

ContractMove == [Next]_vars \/ ClockMove

(* Both keep what is proved of the contract. *)
LEMMA ContractKept ==
  ASSUME ContractInv, ContractMove
  PROVE  ContractInv'
  <1>1. CASE [Next]_vars
    BY <1>1, TypeStep, CaseStep, TalliesStep, BondStep DEF ContractInv
  <1>2. CASE ClockMove
    <2>1. /\ UNCHANGED <<claims, supersededBy>> /\ UNCHANGED <<challenges, verdicts, appeals>>
          /\ UNCHANGED <<pendingEvidence, evidenceLocked>>
          /\ UNCHANGED <<hasReported, tally, investigatorsOf, reports>>
          /\ UNCHANGED <<balance, ledger>> /\ now' \in Nat
      BY <1>2 DEF ClockMove, ClockAt, claimVars, caseVars, evidenceVars, reportVars, moneyVars
    <2>2. TypeOK'
      BY <2>1 DEF ContractInv, TypeOK
    <2>3. CaseInv'
      BY <2>1 DEF ContractInv, CaseInv, StatusesAgree, Agrees, StatusDuring, OneCasePerClaim,
                  VerdictIffDecided, Decided
    <2>4. TalliesMatchReports'
      BY <2>1 DEF ContractInv, TalliesMatchReports
    <2>5. BondAccounted'
      BY <2>1 DEF ContractInv, BondAccounted, Decided
    <2> QED BY <2>2, <2>3, <2>4, <2>5 DEF ContractInv
  <1> QED BY <1>1, <1>2 DEF ContractMove

(* A report stays where it is in the list. *)
LEMMA ReportsStay ==
  ASSUME TypeOK, ContractMove, NEW ch \in Challenges, NEW i \in 1..Len(reports[ch])
  PROVE  i \in 1..Len(reports'[ch]) /\ reports'[ch][i] = reports[ch][i]
  <1>1. ASSUME NEW x \in Challenges, NEW a \in Accounts, NEW v \in Verdicts, NEW bundle \in Roots,
               SubmitReport(x, a, v, bundle)
        PROVE  i \in 1..Len(reports'[ch]) /\ reports'[ch][i] = reports[ch][i]
    <2>1. reports \in [Challenges -> Seq(Report)]
      BY DEF TypeOK
    <2>2. CASE ch = x
      <3> DEFINE r == [investigator |-> a, verdict |-> v, evidenceBundleHash |-> bundle]
      <3>1. reports'[ch] = Append(reports[ch], r)
        BY <1>1, <2>1, <2>2 DEF SubmitReport
      <3>2. reports[ch] \in Seq(Report) /\ r \in Report
        BY <2>1 DEF Report
      <3> HIDE DEF r
      <3> QED BY <3>1, <3>2
    <2>3. CASE ch # x
      BY <1>1, <2>1, <2>3 DEF SubmitReport
    <2> QED BY <2>2, <2>3
  <1>2. CASE ClockMove
    BY <1>2 DEF ClockMove, ClockAt, reportVars
  <1> QED BY <1>1, <1>2, OnlySubmitReportReports DEF ContractMove, reportVars

(* A case that exists stays, and so do its locked evidence, its root and its verdict. *)
LEMMA CasesStay ==
  ASSUME ContractInv, ContractMove, NEW ch \in Challenges, challenges[ch].exists
  PROVE  /\ challenges'[ch].exists
         /\ evidenceLocked[ch] => /\ evidenceLocked'[ch]
                                  /\ challenges'[ch].evidenceRoot = challenges[ch].evidenceRoot
         /\ verdicts[ch].exists => verdicts'[ch] = verdicts[ch]
  <1>1. TypeOK /\ CaseInv /\ ch \in Subjects
    BY DEF ContractInv, Subjects
  <1>2. CASE [Next]_vars
    <2>1. challenges'[ch].exists
      <3>1. CASE challenges'[ch] = challenges[ch]
        BY <3>1
      <3>2. ASSUME NEW cl, NEW a, NEW type, NEW v, NEW closesAt, OpenCase(ch, cl, a, type, v, closesAt)
            PROVE  challenges'[ch].exists
        BY <3>2 DEF OpenCase
      <3>3. ASSUME NEW root, LockEvidence(ch, root)
            PROVE  challenges'[ch].exists
        BY <3>3, <1>1 DEF LockEvidence, Progressed, TypeOK
      <3>4. CASE BeginInvestigation(ch)
        BY <3>4, <1>1 DEF BeginInvestigation, Progressed, TypeOK
      <3>5. ASSUME NEW status, NEW refusing, Resolve(ch, status, refusing)
            PROVE  challenges'[ch].exists
        BY <3>5, <1>1 DEF Resolve, Progressed, TypeOK
      <3>6. CASE FileAppeal(ch)
        BY <3>6, <1>1 DEF FileAppeal, Progressed, TypeOK
      <3> QED BY <1>1, <1>2, <3>1, <3>2, <3>3, <3>4, <3>5, <3>6, HowCasesMove
    <2>2. evidenceLocked[ch] => evidenceLocked'[ch]
      BY <1>1, <1>2, LocksStay
    <2>3. evidenceLocked[ch] => challenges'[ch].evidenceRoot = challenges[ch].evidenceRoot
      BY <1>1, <1>2, LockedRootStays
    <2>4. verdicts[ch].exists => verdicts'[ch] = verdicts[ch]
      BY <1>1, <1>2, DecidedStaysPut
    <2> QED BY <2>1, <2>2, <2>3, <2>4
  <1>3. CASE ClockMove
    BY <1>3 DEF ClockMove, ClockAt, caseVars, evidenceVars
  <1> QED BY <1>2, <1>3 DEF ContractMove

(***************************************************************************)
(* Whatever the contract goes through, a run keeps what it knows, also     *)
(* when it learns what the steps to come are to tell.                      *)
(***************************************************************************)
LEMMA KnownStays ==
  ASSUME ContractInv, ContractMove, NEW k \in Nat, Known(k), scenario \in CaseScenario,
         UNCHANGED <<scenario, deployment>>,
         own'.claimIds = own.claimIds, own'.caseId = own.caseId,
         k >= LockAt(scenario) + 2 => own'.verdictA = own.verdictA /\ own'.verdictB = own.verdictB,
         k >= EndAt(scenario) => own'.status = own.status
  PROVE  Known(k)'
  <1> DEFINE ch == own.caseId
  <1>1. /\ LockAt(scenario) \in {5, 6} /\ EndAt(scenario) \in {10, 11}
        /\ EndAt(scenario) > LockAt(scenario) + 4
        /\ LockAt(scenario)' = LockAt(scenario) /\ EndAt(scenario)' = EndAt(scenario)
    BY DEF CaseScenario, LockAt, EndAt
  <1>2. (k >= 1 => own.claimIds # <<>>)'
    BY DEF Known
  <1>3. k >= 2 => /\ ch \in Challenges /\ challenges[ch].exists
                  /\ challenges'[ch].exists
                  /\ evidenceLocked[ch] => /\ evidenceLocked'[ch]
                                           /\ challenges'[ch].evidenceRoot = challenges[ch].evidenceRoot
                  /\ verdicts[ch].exists => verdicts'[ch] = verdicts[ch]
    BY CasesStay DEF Known
  <1>4. ASSUME k >= 2, NEW role, NEW v, Reported(role, v)
        PROVE  \E i \in 1..Len(reports'[ch]) :
                 /\ reports'[ch][i].investigator = makeChain(role)
                 /\ reports'[ch][i].verdict = v
    <2>1. PICK i \in 1..Len(reports[ch]) : /\ reports[ch][i].investigator = makeChain(role)
                                           /\ reports[ch][i].verdict = v
      BY <1>4 DEF Reported
    <2>2. i \in 1..Len(reports'[ch]) /\ reports'[ch][i] = reports[ch][i]
      BY <1>3, <1>4, ReportsStay DEF ContractInv
    <2> QED BY <2>1, <2>2
  <1>5. /\ makeChain("investigatorA")' = makeChain("investigatorA")
        /\ makeChain("investigatorB")' = makeChain("investigatorB")
    BY DEF makeChain
  <1>6. ASSUME k >= LockAt(scenario) + 3
        PROVE  Reported("investigatorA", own.verdictA)'
    <2>1. Reported("investigatorA", own.verdictA) /\ k >= 2 /\ own'.verdictA = own.verdictA
      BY <1>1, <1>6 DEF Known
    <2>2. \E i \in 1..Len(reports'[ch]) :
            /\ reports'[ch][i].investigator = makeChain("investigatorA")
            /\ reports'[ch][i].verdict = own.verdictA
      BY <1>4, <2>1
    <2> QED BY <1>5, <2>1, <2>2 DEF Reported
  <1>7. ASSUME k >= LockAt(scenario) + 4
        PROVE  Reported("investigatorB", own.verdictB)'
    <2>1. Reported("investigatorB", own.verdictB) /\ k >= 2 /\ own'.verdictB = own.verdictB
      BY <1>1, <1>7 DEF Known
    <2>2. \E i \in 1..Len(reports'[ch]) :
            /\ reports'[ch][i].investigator = makeChain("investigatorB")
            /\ reports'[ch][i].verdict = own.verdictB
      BY <1>4, <2>1
    <2> QED BY <1>5, <2>1, <2>2 DEF Reported
  <1>8. (k >= EndAt(scenario) =>
          verdicts[own.caseId].exists /\ verdicts[own.caseId].status = own.status)'
    BY <1>1, <1>3 DEF Known
  <1>9. (k >= 2 => own.caseId \in Challenges /\ challenges[own.caseId].exists)'
    BY <1>3
  <1>10. (k >= LockAt(scenario) =>
            evidenceLocked[own.caseId] /\ challenges[own.caseId].evidenceRoot = OwnRoot)'
    BY <1>1, <1>3 DEF Known
  <1>11. (k >= LockAt(scenario) + 2 => own.verdictA \in Verdicts /\ own.verdictB \in Verdicts)'
    BY <1>1 DEF Known
  <1> HIDE DEF ch
  <1> QED BY <1>1, <1>2, <1>6, <1>7, <1>8, <1>9, <1>10, <1>11 DEF Known
(* Whoever signs for the run has an account. *)
LEMMA SignersHaveAccounts ==
  ASSUME NEW role \in {"challenger", "investigatorA", "investigatorB"}
  PROVE  makeChain(role) \in Accounts
  BY DriverAssumption DEF makeChain, LOCAL_DEVNET_KEYS

(***************************************************************************)
(* Each transaction is a call of the contract, or of the other one, and    *)
(* once it took effect, the run knows what it did.                         *)
(***************************************************************************)
LEMMA TransactionKnown ==
  ASSUME PlaceOK, scenario # "A", KnowledgeInv, phase = "call", Transaction,
         UNCHANGED <<scenario, deployment, step>>
  PROVE  ContractMove /\ OwnOK' /\ Known(step)'
  <1> PICK k : k = step - 1
    OBVIOUS
  <1>1. /\ scenario \in CaseScenario /\ AtItsPlace(scenario, step, Step)
        /\ LockAt(scenario) \in {5, 6} /\ EndAt(scenario) \in {10, 11}
        /\ EndAt(scenario) > LockAt(scenario) + 4
        /\ k \in Nat /\ step = k + 1 /\ step' = k + 1 /\ step \in Nat
    BY StepIs
  <1>2. LockAt(scenario)' = LockAt(scenario) /\ EndAt(scenario)' = EndAt(scenario)
    BY DEF LockAt, EndAt
  <1>3. Known(k) /\ ContractInv /\ TypeOK /\ OwnOK
    BY DEF KnowledgeInv, Done, ContractInv
  <1>4. k >= 2 => own.caseId \in Challenges /\ own.caseId \in Subjects /\ challenges[own.caseId].exists
    BY <1>3 DEF Known, Subjects
  (* The steps that teach nothing the run has to remember. *)
  <1>5. ASSUME ContractMove, own'.claimIds = own.claimIds, own'.caseId = own.caseId,
               own'.verdictA = own.verdictA, own'.verdictB = own.verdictB, own'.status = own.status
        PROVE  Known(k)'
    BY <1>1, <1>3, <1>5, KnownStays
  <1>6. ASSUME Known(k)', step \notin {1, 2, LockAt(scenario), LockAt(scenario) + 2,
                                       LockAt(scenario) + 3, LockAt(scenario) + 4, EndAt(scenario)}
        PROVE  Known(step)'
    BY <1>1, <1>2, <1>6 DEF Known
  <1>7. ASSUME ClaimTransaction PROVE ContractMove /\ OwnOK' /\ Known(step)'
    <2>1. PICK cl \in Claims : CreateClaim(cl) /\ own' = [own EXCEPT !.claimIds = Append(@, cl)]
      BY <1>1, <1>7 DEF ClaimTransaction, AtItsPlace
    <2>2. ContractMove
      BY <2>1 DEF Next, ContractMove
    <2>3. OwnOK' /\ own'.claimIds # <<>>
      <3>1. own.claimIds \in Seq(Claims)
        BY <1>3 DEF OwnOK
      <3>2. PICK ids : ids = Append(own.claimIds, cl)
        OBVIOUS
      <3>3. ids \in Seq(Claims) /\ ids # <<>>
        BY <3>1, <3>2
      <3> QED BY <1>3, <2>1, <3>2, <3>3 DEF OwnOK
    <2>4. step = 1
      BY <1>1, <1>7 DEF ClaimTransaction, AtItsPlace
    <2> QED BY <1>1, <1>2, <2>2, <2>3, <2>4 DEF Known
  <1>8. ASSUME CaseTransaction PROVE ContractMove /\ OwnOK' /\ Known(step)'
    <2>1. ASSUME Step \in {"openChallenge", "requestVerification"}
          PROVE  ContractMove /\ OwnOK' /\ Known(step)'
      <3>1. step = 2 /\ own.claimIds # <<>> /\ own.claimIds \in Seq(Claims)
        BY <1>1, <1>3, <2>1 DEF AtItsPlace, Known, OwnOK
      <3>2. own.claimIds[1] \in Claims /\ Fee \in Amounts /\ makeChain("challenger") \in Accounts
        BY <3>1, DriverAssumption, SignersHaveAccounts
      <3>3. PICK ch \in Challenges :
               /\ \/ OpenChallenge(ch, own.claimIds[1], makeChain("challenger"), "CONTRADICTION", Fee)
                  \/ RequestVerification(ch, own.claimIds[1], makeChain("challenger"), Fee)
               /\ own' = [own EXCEPT !.caseId = ch]
        BY <1>8, <2>1 DEF CaseTransaction
      <3>4. ContractMove
        BY <3>2, <3>3 DEF Next, ContractMove, ChallengeType
      <3>5. OwnOK' /\ own'.claimIds = own.claimIds /\ own'.caseId = ch
        BY <1>3, <3>3 DEF OwnOK
      <3>6. challenges'[ch].exists
        BY <1>3, <3>3 DEF OpenChallenge, RequestVerification, OpenCase, TypeOK
      <3> QED BY <1>1, <1>2, <3>1, <3>4, <3>5, <3>6 DEF Known
    <2>2. ASSUME Step = "submitEvidence", SubmitEvidence(own.caseId, OwnEvidence), UNCHANGED own
          PROVE  ContractMove /\ OwnOK' /\ Known(step)'
      <3>1. step \in 3..5 /\ (step = 5 <=> scenario # "B") /\ k >= 2
        BY <1>1, <2>2 DEF AtItsPlace
      <3>2. step < LockAt(scenario)
        BY <1>1, <2>2, <3>1 DEF AtItsPlace, LockAt, CaseScenario
      <3>3. ContractMove
        BY <1>4, <2>2, <3>1, DriverAssumption DEF Next, ContractMove
      <3>4. Known(k)'
        BY <1>5, <2>2, <3>3
      <3>5. OwnOK'
        BY <1>3, <2>2 DEF OwnOK
      <3> QED BY <1>1, <1>6, <3>1, <3>2, <3>3, <3>4, <3>5
    <2>3. ASSUME Step = "lockEvidence", LockEvidence(own.caseId, OwnRoot), UNCHANGED own
          PROVE  ContractMove /\ OwnOK' /\ Known(step)'
      <3>1. step = LockAt(scenario) /\ k >= 2
        BY <1>1, <2>3 DEF AtItsPlace
      <3>2. ContractMove
        BY <1>4, <2>3, <3>1, DriverAssumption DEF Next, ContractMove
      <3>3. Known(k)'
        BY <1>5, <2>3, <3>2
      <3>4. evidenceLocked'[own.caseId] /\ challenges'[own.caseId].evidenceRoot = OwnRoot
        BY <1>3, <1>4, <2>3, <3>1 DEF LockEvidence, Progressed, TypeOK
      <3>5. OwnOK'
        BY <1>3, <2>3 DEF OwnOK
      <3> QED BY <1>1, <1>2, <2>3, <3>1, <3>2, <3>3, <3>4, <3>5 DEF Known
    <2>4. ASSUME Step = "beginInvestigation", BeginInvestigation(own.caseId), UNCHANGED own
          PROVE  ContractMove /\ OwnOK' /\ Known(step)'
      <3>1. step = LockAt(scenario) + 1 /\ k >= 2
        BY <1>1, <2>4 DEF AtItsPlace
      <3>2. ContractMove
        BY <1>4, <2>4, <3>1 DEF Next, ContractMove
      <3>3. Known(k)'
        BY <1>5, <2>4, <3>2
      <3>4. OwnOK'
        BY <1>3, <2>4 DEF OwnOK
      <3> QED BY <1>1, <1>6, <3>1, <3>2, <3>3, <3>4
    <2> QED BY <1>8, <2>1, <2>2, <2>3, <2>4 DEF CaseTransaction
  <1>9. ASSUME IdentityTransaction PROVE ContractMove /\ OwnOK' /\ Known(step)'
    <2>1. step \in {3, 4}
      BY <1>1, <1>9 DEF IdentityTransaction, AtItsPlace
    <2>2. ContractMove
      BY <1>9 DEF IdentityTransaction, ContractMove
    <2>3. PICK id \in Investigators : own' = [own EXCEPT !.idA = id] \/ own' = [own EXCEPT !.idB = id]
      BY <1>9 DEF IdentityTransaction
    <2>4. /\ OwnOK' /\ own'.claimIds = own.claimIds /\ own'.caseId = own.caseId
          /\ own'.verdictA = own.verdictA /\ own'.verdictB = own.verdictB /\ own'.status = own.status
      BY <1>3, <2>3 DEF OwnOK
    <2>5. Known(k)'
      BY <1>5, <2>2, <2>4
    <2> QED BY <1>1, <1>6, <2>1, <2>2, <2>4, <2>5
  <1>10. ASSUME VerdictTransaction PROVE ContractMove /\ OwnOK' /\ Known(step)'
    (* A report of either investigator is on the list then. *)
    <2>1. ASSUME NEW role \in {"investigatorA", "investigatorB"}, NEW id, NEW v \in Verdicts,
                 ReportTransaction(makeChain(role), id, v), UNCHANGED own, k >= 2
          PROVE  ContractMove /\ Reported(role, v)'
      <3>1. SubmitReport(own.caseId, makeChain(role), v, OwnRoot)
        BY <2>1 DEF ReportTransaction, SubmitReportAsIdentity
      <3>2. ContractMove
        BY <1>4, <2>1, <3>1, DriverAssumption, SignersHaveAccounts DEF Next, ContractMove
      <3> DEFINE rs == reports[own.caseId]
                 r == [investigator |-> makeChain(role), verdict |-> v, evidenceBundleHash |-> OwnRoot]
      <3>3. reports'[own.caseId] = Append(rs, r) /\ rs \in Seq(Report)
        BY <1>3, <1>4, <2>1, <3>1 DEF SubmitReport, TypeOK
      <3>4. r.investigator = makeChain(role) /\ r.verdict = v /\ r \in Report
        BY <2>1, DriverAssumption, SignersHaveAccounts DEF Report
      <3> HIDE DEF rs, r
      <3>5. /\ Len(rs) + 1 \in 1..Len(reports'[own.caseId])
            /\ reports'[own.caseId][Len(rs) + 1] = r
        BY <3>3, <3>4
      <3>6. makeChain(role)' = makeChain(role) /\ own' = own
        BY <2>1 DEF makeChain
      <3> QED BY <3>2, <3>4, <3>5, <3>6 DEF Reported
    <2>2. ASSUME Step = "reportA", ReportTransaction(makeChain("investigatorA"), own.idA, own.verdictA),
                 UNCHANGED own
          PROVE  ContractMove /\ OwnOK' /\ Known(step)'
      <3>1. step = LockAt(scenario) + 3 /\ k >= 2 /\ own.verdictA \in Verdicts
        BY <1>1, <1>3, <2>2 DEF AtItsPlace, Known
      <3>2. PICK v \in Verdicts : v = own.verdictA
        BY <3>1
      <3>3. ContractMove /\ Reported("investigatorA", v)'
        BY <2>1, <2>2, <3>1, <3>2
      <3>4. Known(k)' /\ OwnOK'
        BY <1>3, <1>5, <2>2, <3>3 DEF OwnOK
      <3>5. Reported("investigatorA", own.verdictA)'
        BY <2>2, <3>2, <3>3 DEF Reported
      <3> QED BY <1>1, <1>2, <3>1, <3>3, <3>4, <3>5 DEF Known
    <2>3. ASSUME Step = "reportB", ReportTransaction(makeChain("investigatorB"), own.idB, own.verdictB),
                 UNCHANGED own
          PROVE  ContractMove /\ OwnOK' /\ Known(step)'
      <3>1. step = LockAt(scenario) + 4 /\ k >= 2 /\ own.verdictB \in Verdicts
        BY <1>1, <1>3, <2>3 DEF AtItsPlace, Known
      <3>2. PICK v \in Verdicts : v = own.verdictB
        BY <3>1
      <3>3. ContractMove /\ Reported("investigatorB", v)'
        BY <2>1, <2>3, <3>1, <3>2
      <3>4. Known(k)' /\ OwnOK'
        BY <1>3, <1>5, <2>3, <3>3 DEF OwnOK
      <3>5. Reported("investigatorB", own.verdictB)'
        BY <2>3, <3>2, <3>3 DEF Reported
      <3> QED BY <1>1, <1>2, <3>1, <3>3, <3>4, <3>5 DEF Known
    <2>4. ASSUME Step = "resolve", NEW refusing \in SUBSET Contracts,
                 Resolve(own.caseId, OwnStatus, refusing), own' = [own EXCEPT !.status = OwnStatus]
          PROVE  ContractMove /\ OwnOK' /\ Known(step)'
      <3>1. step = EndAt(scenario) /\ k >= 2 /\ k < EndAt(scenario)
        BY <1>1, <2>4 DEF AtItsPlace
      <3>2. PICK status : status = OwnStatus
        OBVIOUS
      <3>3. Resolve(own.caseId, status, refusing)
        BY <2>4, <3>2
      <3>4. status \in VerdictStatus
        BY <3>3, StatusTypes DEF Resolve, VerdictStatus
      <3>5. ContractMove
        BY <1>4, <3>1, <3>3, <3>4 DEF Next, ContractMove
      <3>6. /\ OwnOK' /\ own'.claimIds = own.claimIds /\ own'.caseId = own.caseId
            /\ own'.verdictA = own.verdictA /\ own'.verdictB = own.verdictB /\ own'.status = status
        BY <1>3, <2>4, <3>2, <3>4 DEF OwnOK
      <3>7. Known(k)'
        BY <1>1, <1>3, <3>1, <3>5, <3>6, KnownStays
      <3>8. verdicts'[own.caseId].exists /\ verdicts'[own.caseId].status = status
        BY <1>3, <1>4, <3>1, <3>3 DEF Resolve, TypeOK
      <3> QED BY <1>1, <1>2, <3>1, <3>5, <3>6, <3>7, <3>8 DEF Known
    <2> QED BY <1>10, <2>2, <2>3, <2>4 DEF VerdictTransaction
  <1> QED BY <1>7, <1>8, <1>9, <1>10 DEF Transaction
(* A run that begins knows nothing yet. *)
LEMMA RunInit == DemoInit => RunInv
  <1> SUFFICES ASSUME DemoInit, scenario # "A" PROVE KnowledgeInv
    BY DEF RunInv
  <1>1. ContractInv
    BY TypeInit, CaseInit, TalliesInit, BondInit DEF DemoInit, IdentifiedInit, ContractInv
  <1>2. OwnOK
    BY DEF DemoInit, OwnOK
  <1>3. outcome = "running" /\ Done = 0
    BY DEF DemoInit, Done
  <1>4. Known(0)
    BY DEF Known, LockAt, EndAt
  <1> QED BY <1>1, <1>2, <1>3, <1>4 DEF KnowledgeInv

(* The later of two times and the earlier one are times. *)
LEMMA LaterAndEarlier ==
  ASSUME NEW a \in Nat, NEW b \in Nat
  PROVE  Max({a, b}) \in Nat /\ Min({a, b}) \in Nat
  <1>1. (\A y \in {a, b} : a >= y) \/ (\A y \in {a, b} : b >= y)
    OBVIOUS
  <1>2. (\A y \in {a, b} : a =< y) \/ (\A y \in {a, b} : b =< y)
    OBVIOUS
  <1>3. Max({a, b}) \in {a, b}
    BY <1>1 DEF Max
  <1>4. Min({a, b}) \in {a, b}
    BY <1>2 DEF Min
  <1> QED BY <1>3, <1>4

(* A call of a stranger is a step of the contract. *)
LEMMA StrangersKeepContract ==
  ASSUME StrangerCall
  PROVE  Next
  <1>1. Strangers \subseteq Accounts /\ Challenges \subseteq Subjects
    BY DriverAssumption DEF Subjects
  <1>2. ASSUME NEW ch \in Challenges,
               \/ \E e \in EvidenceIds : SubmitEvidence(ch, e)
               \/ \E root \in Roots : LockEvidence(ch, root)
               \/ BeginInvestigation(ch)
               \/ \E a \in Strangers, v \in Verdicts, bundle \in Roots : SubmitReport(ch, a, v, bundle)
               \/ \E status \in VerdictStatus, refusing \in SUBSET Contracts : Resolve(ch, status, refusing)
               \/ FileAppeal(ch)
        PROVE  Next
    BY <1>1, <1>2 DEF Next
  <1>3. ASSUME NEW clA \in Claims, NEW clB \in Claims, NEW relation \in RelationshipType,
               RecordRelationship(clA, clB, relation)
        PROVE  Next
    BY <1>3 DEF Next
  <1>4. ASSUME NEW ch \in Challenges, NEW cl \in Claims, NEW a \in Strangers,
               NEW type \in ChallengeType, NEW v \in Amounts, OpenChallenge(ch, cl, a, type, v)
        PROVE  Next
    BY <1>1, <1>4 DEF Next
  <1> QED BY <1>2, <1>3, <1>4 DEF StrangerCall

(* Every step of the system that leads to no error adds to what a run knows. *)
LEMMA RunStep ==
  ASSUME PlaceOK, RunInv, [DemoNext]_demoVars
  PROVE  RunInv'
  <1> SUFFICES ASSUME scenario' # "A", outcome' # "error" PROVE KnowledgeInv'
    BY DEF RunInv
  <1>1. scenario' = scenario /\ deployment' = deployment /\ outcome # "error"
    BY HowRunsMove DEF Stays, Lost, Landing, Looking, Advancing, NextStep, FallingAsleep
  <1>2. KnowledgeInv /\ scenario # "A"
    BY <1>1 DEF RunInv
  <1>3. ContractInv /\ OwnOK /\ Known(Done) /\ TypeOK
    BY <1>2 DEF KnowledgeInv, ContractInv
  <1>4. /\ scenario \in CaseScenario /\ AtItsPlace(scenario, step, Step)
        /\ Len(Program[scenario]) = EndAt(scenario)
        /\ step = EndAt(scenario) => Step \notin Computed
        /\ LockAt(scenario) \in {5, 6} /\ EndAt(scenario) \in {10, 11}
        /\ EndAt(scenario) > LockAt(scenario) + 4
        /\ step \in Nat /\ step >= 1 /\ Done \in Nat
    BY <1>2, StepIs DEF Done
  <1>5. LockAt(scenario)' = LockAt(scenario) /\ EndAt(scenario)' = EndAt(scenario)
    BY <1>1 DEF LockAt, EndAt
  (* The place of the run and the contract may move, while it learns nothing. *)
  <1>6. ASSUME ContractMove,
               own'.claimIds = own.claimIds, own'.caseId = own.caseId, own'.verdictA = own.verdictA,
               own'.verdictB = own.verdictB, own'.status = own.status
        PROVE  ContractInv' /\ (Done' = Done => Known(Done)')
    <2>1. ContractInv'
      BY <1>3, <1>6, ContractKept
    <2>2. PICK k : k = Done
      OBVIOUS
    <2>3. Known(k)'
      BY <1>1, <1>3, <1>4, <1>6, <2>2, KnownStays
    <2> QED BY <2>1, <2>2, <2>3
  <1>7. ASSUME [Next]_vars, UNCHANGED <<own, step, phase, outcome>>
        PROVE  KnowledgeInv'
    <2>1. Done' = Done /\ OwnOK'
      BY <1>3, <1>7 DEF Done, OwnOK
    <2> QED BY <1>2, <1>5, <1>6, <1>7, <2>1 DEF KnowledgeInv, ContractMove
  <1>8. CASE StrangerCall
    BY <1>7, <1>8, StrangersKeepContract DEF StrangerCall, progressVars
  <1>9. CASE TimePasses
    BY <1>7, <1>9 DEF TimePasses, Next, driverVars, progressVars
  <1>10. CASE UNCHANGED demoVars
    BY <1>7, <1>10 DEF demoVars, allVars, driverVars, progressVars
  <1>11. ASSUME outcome = "running", Lands PROVE KnowledgeInv'
    <2>1. /\ phase = "call" /\ Transaction /\ phase' = "waiting"
          /\ UNCHANGED <<deployment, scenario, step, outcome>>
      BY <1>11 DEF Lands
    <2>2. ContractMove /\ OwnOK' /\ Known(step)'
      BY <1>2, <2>1, TransactionKnown
    <2>3. ContractInv'
      BY <1>3, <2>2, ContractKept
    <2>4. Done' = step'
      BY <2>1 DEF Done
    <2> QED BY <1>11, <2>1, <2>2, <2>3, <2>4 DEF KnowledgeInv
  <1>12. CASE Retry
    BY <1>7, <1>12 DEF Retry, PhaseOfRetry, allVars
  <1>13. ASSUME outcome = "running", Acknowledged PROVE KnowledgeInv'
    <2>1. UNCHANGED <<vars, own>> /\ phase \in {"waiting", "reading"} /\ Done = step
      BY <1>13 DEF Acknowledged, allVars, Done
    <2>2. Done' = Done /\ (outcome' = "ok" => step' = EndAt(scenario) /\ phase' \in {"waiting", "reading"})
      <3>1. CASE /\ phase' = "reading" /\ UNCHANGED <<step, outcome>>
        BY <1>13, <2>1, <3>1 DEF Done
      <3>2. CASE NextStep
        BY <1>4, <1>13, <2>1, <3>2 DEF NextStep, Done
      <3> QED BY <1>13, <3>1, <3>2 DEF Acknowledged
    <2>3. ContractInv' /\ Known(Done)'
      BY <1>6, <2>1, <2>2 DEF ContractMove
    <2>4. OwnOK'
      BY <1>3, <2>1 DEF OwnOK
    <2> QED BY <1>5, <2>2, <2>3, <2>4 DEF KnowledgeInv
  (* Behind a computed step. *)
  <1>14. ASSUME outcome = "running", Step \in Computed, phase \notin {"waiting", "reading"}, NextStep
         PROVE  outcome' = "running" /\ Done' = step /\ Done = step - 1
    <2>1. step' = step + 1 /\ phase' = "call" /\ outcome' = outcome
      BY <1>4, <1>14 DEF NextStep
    <2> QED BY <1>4, <1>14, <2>1 DEF Done
  <1>15. ASSUME outcome = "running", Investigate PROVE KnowledgeInv'
    <2>1. /\ phase = "call" /\ Step = "investigate" /\ Step \in Computed /\ NextStep /\ UNCHANGED vars
      BY <1>15 DEF Investigate, Computed, allVars
    <2>2. step = LockAt(scenario) + 2
      BY <1>4, <2>1 DEF AtItsPlace
    <2>3. outcome' = "running" /\ Done' = step /\ Done = step - 1
      BY <1>14, <1>15, <2>1
    <2>4. PICK v \in Verdicts, w \in Verdicts : own' = [own EXCEPT !.verdictA = v, !.verdictB = w]
      BY <1>15 DEF Investigate
    <2>5. /\ OwnOK' /\ own'.claimIds = own.claimIds /\ own'.caseId = own.caseId
          /\ own'.status = own.status /\ own'.verdictA = v /\ own'.verdictB = w
      BY <1>3, <2>4 DEF OwnOK
    <2>6. PICK k : k = Done
      OBVIOUS
    <2>7. ContractMove /\ k = LockAt(scenario) + 1 /\ k \in Nat
      BY <1>4, <2>1, <2>2, <2>3, <2>6 DEF ContractMove
    <2>8. Known(k)'
      BY <1>1, <1>3, <1>4, <2>5, <2>6, <2>7, KnownStays
    <2>9. Known(Done)'
      BY <1>4, <1>5, <2>2, <2>3, <2>5, <2>7, <2>8 DEF Known
    <2>10. ContractInv'
      BY <1>3, <2>7, ContractKept
    <2> QED BY <2>3, <2>5, <2>9, <2>10 DEF KnowledgeInv
  (* The window is waited for between the reports and the resolution. *)
  <1>16. ASSUME outcome = "running", Step = "waitForChallengeWindow",
                phase \notin {"waiting", "reading"}, NextStep, ClockMove, UNCHANGED own
         PROVE  KnowledgeInv'
    <2>1. step = 10 /\ scenario = "B" /\ LockAt(scenario) = 5 /\ EndAt(scenario) = 11
      BY <1>4, <1>16 DEF AtItsPlace, LockAt, EndAt
    <2>2. outcome' = "running" /\ Done' = 10 /\ Done = 9
      BY <1>14, <1>16, <2>1 DEF Computed
    <2>3. PICK k : k = Done
      OBVIOUS
    <2>4. Known(k)'
      BY <1>1, <1>3, <1>4, <1>16, <2>3, KnownStays DEF ContractMove
    <2>5. Known(Done)'
      BY <1>5, <2>1, <2>2, <2>3, <2>4 DEF Known
    <2>6. ContractInv' /\ OwnOK'
      BY <1>3, <1>16, ContractKept DEF ContractMove, OwnOK
    <2> QED BY <2>2, <2>5, <2>6 DEF KnowledgeInv
  <1>17. ASSUME outcome = "running", SetClock PROVE KnowledgeInv'
    <2>1. now + DEVNET_SKIP \in Nat
      BY <1>3, DriverAssumption DEF TypeOK
    <2>2. now' = now + DEVNET_SKIP /\ ClockAt(now')
      BY <1>17 DEF SetClock, ClockAt
    <2> QED BY <1>16, <1>17, <2>1, <2>2 DEF SetClock, Waiting, ClockMove
  <1>18. ASSUME outcome = "running", StopSleeping PROVE KnowledgeInv'
    <2>1. Max({now, own.wakesAt}) \in Nat
      BY <1>3, LaterAndEarlier DEF TypeOK, OwnOK
    <2>2. now' = Max({now, own.wakesAt}) /\ ClockAt(now')
      BY <1>18 DEF StopSleeping, ClockAt
    <2> QED BY <1>16, <1>18, <2>1, <2>2 DEF StopSleeping, ClockMove, PlaceOK
  <1>19. ASSUME outcome = "running", StartSleeping PROVE KnowledgeInv'
    <2> DEFINE time == Min({challenges[own.caseId].windowCloseAt, now + MAX_WINDOW_WAIT})
    <2>1. /\ phase = "call" /\ Step = "waitForChallengeWindow" /\ phase' = "sleeping"
          /\ own' = [own EXCEPT !.wakesAt = time]
          /\ UNCHANGED <<vars, step, outcome>>
      BY <1>19 DEF StartSleeping, Waiting, allVars
    <2>2. step = 10 /\ Done' = Done /\ Done = 9
      BY <1>4, <2>1 DEF AtItsPlace, Done
    <2>3. time \in Nat
      <3>1. own.caseId \in Challenges
        BY <1>3, <2>2 DEF Known
      <3>2. challenges[own.caseId].windowCloseAt \in Nat /\ now + MAX_WINDOW_WAIT \in Nat
        BY <1>3, <3>1, DriverAssumption DEF TypeOK, ChallengeRecord
      <3> QED BY <3>2, LaterAndEarlier
    <2> HIDE DEF time
    <2>4. /\ OwnOK' /\ own'.claimIds = own.claimIds /\ own'.caseId = own.caseId
          /\ own'.verdictA = own.verdictA /\ own'.verdictB = own.verdictB /\ own'.status = own.status
      BY <1>3, <2>1, <2>3 DEF OwnOK
    <2>5. ContractInv' /\ Known(Done)'
      BY <1>6, <2>1, <2>2, <2>4 DEF ContractMove
    <2> QED BY <1>19, <2>1, <2>4, <2>5 DEF KnowledgeInv
  <1>20. ASSUME Reverts \/ CallFails \/ GiveUp PROVE FALSE
    BY <1>20 DEF Reverts, AfterRevert, CallFails, GiveUp, Fail
  <1>21. CASE DriverStep
    BY <1>11, <1>12, <1>13, <1>15, <1>17, <1>18, <1>19, <1>20, <1>21 DEF DriverStep
  <1> QED BY <1>8, <1>9, <1>10, <1>21 DEF DemoNext, Ended

(***************************************************************************)
(* What a successful run knows is what it reports: its reports are on the  *)
(* list, the root is its own, the verdict the one it computed, and the     *)
(* bond of a case with a verdict is settled.                               *)
(***************************************************************************)
LEMMA KnowledgeEnough == PlaceOK /\ RunInv => ResultMatchesChain
  <1> SUFFICES ASSUME PlaceOK, RunInv, outcome = "ok", scenario # "A" PROVE ResultMatchesChain
    BY DEF ResultMatchesChain
  <1>1. KnowledgeInv
    BY DEF RunInv
  <1>2. Done = EndAt(scenario)
    BY <1>1 DEF KnowledgeInv, Done
  <1>3. /\ LockAt(scenario) \in {5, 6} /\ EndAt(scenario) \in {10, 11}
        /\ EndAt(scenario) > LockAt(scenario) + 4
    BY StepIs
  <1>4. /\ own.caseId \in Challenges /\ challenges[own.caseId].evidenceRoot = OwnRoot
        /\ Reported("investigatorA", own.verdictA) /\ Reported("investigatorB", own.verdictB)
        /\ verdicts[own.caseId].exists /\ verdicts[own.caseId].status = own.status
    BY <1>1, <1>2, <1>3 DEF KnowledgeInv, Known
  <1>5. challenges[own.caseId].bond = 0
    BY <1>1, <1>4 DEF KnowledgeInv, ContractInv, CaseInv, VerdictIffDecided, BondAccounted
  <1> QED BY <1>4, <1>5 DEF ResultMatchesChain, Reported

(***************************************************************************)
(* A run that reports success reports what the chain holds, whatever       *)
(* strangers called and whichever waits and look-ups were repeated.        *)
(***************************************************************************)
THEOREM SuccessIsReal == DemoSpec => []ResultMatchesChain
  <1>1. DemoInit => PlaceOK /\ RunInv
    BY PlaceInit, RunInit
  <1>2. PlaceOK /\ RunInv /\ [DemoNext]_demoVars => (PlaceOK /\ RunInv)'
    BY PlaceStep, RunStep
  <1>3. PlaceOK /\ RunInv => ResultMatchesChain
    BY KnowledgeEnough
  <1> QED BY <1>1, <1>2, <1>3, PTL DEF DemoSpec

-----------------------------------------------------------------------------
(***************************************************************************)
(* Undisturbed runs.  No call has failed, and nobody else has called.      *)
(***************************************************************************)
Undisturbed == faults = 0 /\ strangerCalls = 0 /\ outcome # "error"

OwnReport(role, verdict) ==
  [investigator |-> makeChain(role), verdict |-> verdict, evidenceBundleHash |-> OwnRoot]

(* The state of the case, and the reports on it, once the first k steps are done. *)
StateAfter(k) ==
  IF k < LockAt(scenario) THEN "OPEN"
  ELSE IF k = LockAt(scenario) THEN "EVIDENCE_LOCKED" ELSE "INVESTIGATING"

ReportsAfter(k) ==
  IF k < LockAt(scenario) + 3 THEN <<>>
  ELSE IF k = LockAt(scenario) + 3 THEN <<OwnReport("investigatorA", own.verdictA)>>
  ELSE <<OwnReport("investigatorA", own.verdictA), OwnReport("investigatorB", own.verdictB)>>

(***************************************************************************)
(* How the first k steps of a scenario with a case leave the contracts, if *)
(* nobody else calls them.                                                 *)
(***************************************************************************)
AsLeft(k) ==
  /\ k = 0 => own.claimIds = <<>>
  /\ k = 1 => Challengeable(own.claimIds[1])
  /\ k <= 1 => \A ch \in Challenges : reports[ch] = <<>>
  /\ k < LockAt(scenario) => \A s \in Subjects : ~evidenceLocked[s]
  /\ k >= 2 /\ k < EndAt(scenario) =>
       challenges[own.caseId].state = StateAfter(k) /\ reports[own.caseId] = ReportsAfter(k)
  /\ k >= 3 /\ scenario # "B" =>
       /\ own.idA \in Investigators /\ investigators[own.idA].exists
       /\ SignsFor(makeChain("investigatorA"), own.idA)
  /\ k >= 4 /\ scenario # "B" =>
       own.idB \in Investigators /\ SignsFor(makeChain("investigatorB"), own.idB)

(* And those of scenario A, which is about two claims. *)
ClaimsMade ==
  /\ OwnOK
  /\ Len(own.claimIds) = (IF Done < 2 THEN Done ELSE 2)
  /\ \A i \in 1..Len(own.claimIds) : claims[own.claimIds[i]].exists

UndisturbedInv ==
  /\ faults \in Nat /\ strangerCalls \in Nat
  /\ Undisturbed /\ scenario # "A" =>
       investigators \in [Investigators -> Identities!Investigator] /\ AsLeft(Done)
  /\ Undisturbed /\ scenario = "A" => TypeOK /\ ClaimsMade

(* A run that ended in an error does nothing any more. *)
LEMMA ErrorsAreFinal ==
  ASSUME outcome = "error", [DemoNext]_demoVars
  PROVE  UNCHANGED demoVars
  BY DEF DemoNext, Ended, DriverStep, StrangerCall, TimePasses

(* What is undisturbed was so before, and nothing but these steps was taken. *)
LEMMA UndisturbedBefore ==
  ASSUME faults \in Nat, strangerCalls \in Nat, [DemoNext]_demoVars
  PROVE  /\ faults' \in Nat /\ strangerCalls' \in Nat
         /\ faults' = 0 /\ strangerCalls' = 0 =>
              /\ faults = 0 /\ strangerCalls = 0
              /\ \/ UNCHANGED demoVars \/ TimePasses
                 \/ /\ outcome = "running"
                    /\ \/ Lands \/ Reverts \/ Acknowledged
                       \/ Investigate \/ SetClock \/ StartSleeping \/ StopSleeping
  <1>1. CASE UNCHANGED demoVars \/ TimePasses
    BY <1>1 DEF TimePasses, demoVars, driverVars, countVars
  <1>2. CASE StrangerCall
    BY <1>2 DEF StrangerCall
  <1>3. CASE CallFails \/ Retry \/ GiveUp
    BY <1>3 DEF CallFails, Retry, GiveUp, Fault, Fail
  <1>4. CASE /\ outcome = "running"
             /\ \/ Lands \/ Reverts \/ Acknowledged
                \/ Investigate \/ SetClock \/ StartSleeping \/ StopSleeping
    <2>1. UNCHANGED countVars
      BY <1>4 DEF Lands, Reverts, AfterRevert, Fail, Acknowledged, NextStep, Investigate, SetClock,
                  StartSleeping, StopSleeping, countVars
    <2> QED BY <1>4, <2>1 DEF countVars
  <1> QED BY <1>1, <1>2, <1>3, <1>4 DEF DemoNext, Ended, DriverStep

(* What a step does not touch is as it was left. *)
LEMMA AsLeftStays ==
  ASSUME NEW k \in Nat, AsLeft(k), scenario \in CaseScenario,
         UNCHANGED <<claims, challenges, reports, evidenceLocked, investigators>>,
         UNCHANGED <<scenario, deployment>>,
         own'.claimIds = own.claimIds, own'.caseId = own.caseId,
         own'.idA = own.idA, own'.idB = own.idB,
         k >= LockAt(scenario) + 3 => own'.verdictA = own.verdictA /\ own'.verdictB = own.verdictB
  PROVE  AsLeft(k)'
  <1>1. LockAt(scenario) \in Nat /\ LockAt(scenario)' = LockAt(scenario) /\ EndAt(scenario)' = EndAt(scenario)
    BY DEF LockAt, EndAt
  <1>2. /\ makeChain("investigatorA")' = makeChain("investigatorA")
        /\ makeChain("investigatorB")' = makeChain("investigatorB")
    BY DEF makeChain
  <1>3. StateAfter(k)' = StateAfter(k)
    BY <1>1 DEF StateAfter
  <1>4. ReportsAfter(k)' = ReportsAfter(k)
    <2>1. CASE k < LockAt(scenario) + 3
      BY <1>1, <2>1 DEF ReportsAfter
    <2>2. CASE ~(k < LockAt(scenario) + 3)
      <3>1. own'.verdictA = own.verdictA /\ own'.verdictB = own.verdictB
        BY <1>1, <2>2
      <3>2. /\ OwnReport("investigatorA", own.verdictA)' = OwnReport("investigatorA", own.verdictA)
            /\ OwnReport("investigatorB", own.verdictB)' = OwnReport("investigatorB", own.verdictB)
        BY <1>2, <3>1 DEF OwnReport
      <3> QED BY <1>1, <2>2, <3>2 DEF ReportsAfter
    <2> QED BY <2>1, <2>2
  <1>5. /\ SignsFor(makeChain("investigatorA"), own.idA)' = SignsFor(makeChain("investigatorA"), own.idA)
        /\ SignsFor(makeChain("investigatorB"), own.idB)' = SignsFor(makeChain("investigatorB"), own.idB)
    BY <1>2 DEF SignsFor, Identities!Controls
  <1>6. Challengeable(own.claimIds[1])' = Challengeable(own.claimIds[1])
    BY DEF Challengeable
  <1> QED BY <1>1, <1>3, <1>4, <1>5, <1>6 DEF AsLeft

(* Two accounts report, unless there is one key for both. *)
LEMMA TwoReporters ==
  ASSUME PlaceOK, deployment # "oneKey"
  PROVE  makeChain("investigatorA") # makeChain("investigatorB")
  BY DriverAssumption DEF PlaceOK, makeChain, LOCAL_DEVNET_KEYS

(* The run's two reports decide for the contract what they decide off it. *)
LEMMA OwnReportsDecide ==
  ASSUME own.verdictA \in Verdicts, own.verdictB \in Verdicts
  PROVE  LET filed == <<OwnReport("investigatorA", own.verdictA), OwnReport("investigatorB", own.verdictB)>>
         IN ExpectedStatus(TallyOf(filed)) = OwnStatus /\ OwnStatus # "NONE"
  <1> DEFINE filed == <<OwnReport("investigatorA", own.verdictA), OwnReport("investigatorB", own.verdictB)>>
             judged == <<[verdict |-> own.verdictA, modelProvider |-> "provider-alpha"],
                         [verdict |-> own.verdictB, modelProvider |-> "provider-beta"]>>
             R == [verdict : Verdicts, modelProvider : {"provider-alpha", "provider-beta"}]
  <1>1. /\ Len(filed) = 2 /\ Len(judged) = 2
        /\ filed[1].verdict = judged[1].verdict /\ filed[2].verdict = judged[2].verdict
    BY DEF OwnReport
  <1>2. \A i \in 1..2 : i = 1 \/ i = 2
    OBVIOUS
  <1>3. judged \in Seq(R)
    OBVIOUS
  <1>4. judged[1].modelProvider = "provider-alpha" /\ judged[2].modelProvider = "provider-beta"
    OBVIOUS
  <1> HIDE DEF filed, judged, R
  <1>5. \A v : Voting(filed, v) = Voting(judged, v)
    BY <1>1, <1>2 DEF Voting
  <1>6. TallyOf(filed) = TallyOf(judged)
    BY <1>1, <1>5 DEF TallyOf
  <1>7. Providers(judged) = {"provider-alpha", "provider-beta"}
    <2>1. \A x : x \in Providers(judged) <=> x = "provider-alpha" \/ x = "provider-beta"
      BY <1>1, <1>2, <1>4 DEF Providers
    <2> QED BY <2>1
  <1>8. Cardinality(Providers(judged)) = 2
    <2>1. {"provider-alpha", "provider-beta"} = {"provider-alpha"} \cup {"provider-beta"}
      OBVIOUS
    <2>2. IsFiniteSet({"provider-alpha"}) /\ Cardinality({"provider-alpha"}) = 1
      BY FS_Singleton
    <2>3. "provider-beta" \notin {"provider-alpha"}
      OBVIOUS
    <2> QED BY <1>7, <2>1, <2>2, <2>3, FS_AddElement
  <1>9. ExpectedStatus(TallyOf(judged)) = Apply(judged).status
    BY <1>3, <1>8, ContractDecidesAsProcedure DEF MIN_DISTINCT_PROVIDERS
  <1>10. OwnStatus = Apply(judged).status
    BY DEF OwnStatus, judged
  <1>11. ExpectedStatus(TallyOf(judged)) # "NONE"
    BY DEF ExpectedStatus
  <1> QED BY <1>6, <1>9, <1>10, <1>11 DEF filed

(* Who reported on a case, read from its reports. *)
LEMMA ReportersAfter ==
  ASSUME TalliesMatchReports, NEW ch \in Challenges
  PROVE  /\ reports[ch] = <<>> => hasReported[ch] = {}
         /\ \A r : reports[ch] = <<r>> => hasReported[ch] = {r.investigator}
  <1>1. /\ Len(investigatorsOf[ch]) = Len(reports[ch])
        /\ \A i \in 1..Len(reports[ch]) : investigatorsOf[ch][i] = reports[ch][i].investigator
        /\ hasReported[ch] = {investigatorsOf[ch][i] : i \in 1..Len(investigatorsOf[ch])}
    BY DEF TalliesMatchReports
  <1>2. ASSUME reports[ch] = <<>> PROVE hasReported[ch] = {}
    <2>1. Len(reports[ch]) = 0
      BY <1>2
    <2>2. 1..0 = {}
      OBVIOUS
    <2> QED BY <1>1, <2>1, <2>2
  <1>3. ASSUME NEW r, reports[ch] = <<r>> PROVE hasReported[ch] = {r.investigator}
    <2>1. Len(reports[ch]) = 1 /\ reports[ch][1] = r /\ 1..1 = {1}
      BY <1>3
    <2> QED BY <1>1, <2>1
  <1> QED BY <1>2, <1>3

(***************************************************************************)
(* The contracts refuse an undisturbed run two calls at most.              *)
(***************************************************************************)
LEMMA FewRefusals ==
  ASSUME PlaceOK, scenario # "A", KnowledgeInv, AsLeft(Done), phase = "call", Refused
  PROVE  \/ deployment = "oneKey" /\ Step = "reportB"
         \/ Step = "resolve" /\ ~WindowClosed(own.caseId)
  <1> DEFINE ch == own.caseId
             L == LockAt(scenario)
             E == EndAt(scenario)
  <1> PICK k : k = step - 1
    OBVIOUS
  <1>1. /\ scenario \in CaseScenario /\ AtItsPlace(scenario, step, Step)
        /\ L \in {5, 6} /\ E \in {10, 11} /\ E > L + 4
        /\ k \in Nat /\ step = k + 1 /\ Done = k /\ step \in 1..E
    BY StepIs DEF Done
  <1>2. Known(k) /\ AsLeft(k) /\ ContractInv
    BY <1>1 DEF KnowledgeInv
  <1>3. k >= 2 => ch \in Challenges /\ ch \in Subjects /\ challenges[ch].exists
    BY <1>2 DEF Known, Subjects
  <1>4. k < L => \A s \in Subjects : ~evidenceLocked[s]
    BY <1>2 DEF AsLeft
  <1>5. k >= 2 /\ k < E => challenges[ch].state = StateAfter(k) /\ reports[ch] = ReportsAfter(k)
    BY <1>2 DEF AsLeft
  <1> HIDE DEF ch
  <1>6. Step # "recordRelationship"
    BY <1>1 DEF AtItsPlace
  <1>7. ASSUME Step \in {"openChallenge", "requestVerification"}
        PROVE  Challengeable(own.claimIds[1]) /\ Fee # 0
    BY <1>1, <1>2, <1>7, DriverAssumption DEF AtItsPlace, AsLeft
  <1>8. ASSUME Step = "submitEvidence" PROVE AcceptsEvidence(own.caseId)
    <2>1. k >= 2 /\ k < L
      BY <1>1, <1>8 DEF AtItsPlace, LockAt, CaseScenario
    <2> QED BY <1>3, <1>4, <2>1 DEF AcceptsEvidence, ch
  <1>9. ASSUME Step = "lockEvidence"
        PROVE  ~evidenceLocked[own.caseId] /\ challenges[own.caseId].state = "OPEN"
    <2>1. k >= 2 /\ k < L /\ k < E
      BY <1>1, <1>9 DEF AtItsPlace
    <2> QED BY <1>3, <1>4, <1>5, <2>1 DEF StateAfter, ch
  <1>10. ASSUME Step = "beginInvestigation" PROVE ReadyToInvestigate(own.caseId)
    <2>1. k >= 2 /\ k = L /\ k < E
      BY <1>1, <1>10 DEF AtItsPlace
    <2>2. ~(k < L)
      BY <1>1, <2>1
    <2> QED BY <1>3, <1>5, <2>1, <2>2 DEF StateAfter, ReadyToInvestigate, ch
  (* From then on the case is investigated. *)
  <1>11. ASSUME k > L, k < E
         PROVE  /\ ch \in Challenges /\ challenges[ch].exists /\ challenges[ch].state = "INVESTIGATING"
                /\ reports[ch] = ReportsAfter(k)
    <2>1. k >= 2 /\ ~(k < L) /\ k # L
      BY <1>1, <1>11
    <2> QED BY <1>3, <1>5, <1>11, <2>1 DEF StateAfter
  <1>12. TalliesMatchReports
    BY <1>2 DEF ContractInv
  <1>13. ASSUME Step = "reportA" PROVE ~RefusedReport(makeChain("investigatorA"), own.idA)
    <2>1. k = L + 2 /\ k > L /\ k < E /\ k >= 3
      BY <1>1, <1>13 DEF AtItsPlace
    <2>2. reports[ch] = <<>>
      BY <1>1, <1>11, <2>1 DEF ReportsAfter
    <2>3. hasReported[ch] = {}
      BY <1>11, <1>12, <2>1, <2>2, ReportersAfter
    <2>4. scenario # "B" => SignsFor(makeChain("investigatorA"), own.idA)
      BY <1>2, <2>1 DEF AsLeft
    <2> QED BY <1>11, <2>1, <2>3, <2>4 DEF RefusedReport, TakesReports, MayReport, ch
  <1>14. ASSUME Step = "reportB", deployment # "oneKey"
         PROVE  ~RefusedReport(makeChain("investigatorB"), own.idB)
    <2>1. k = L + 3 /\ k > L /\ k < E /\ k >= 4
      BY <1>1, <1>14 DEF AtItsPlace
    <2>2. reports[ch] = <<OwnReport("investigatorA", own.verdictA)>>
      BY <1>1, <1>11, <2>1 DEF ReportsAfter
    <2>3. hasReported[ch] = {makeChain("investigatorA")}
      BY <1>11, <1>12, <2>1, <2>2, ReportersAfter DEF OwnReport
    <2>4. scenario # "B" => SignsFor(makeChain("investigatorB"), own.idB)
      BY <1>2, <2>1 DEF AsLeft
    <2> QED BY <1>11, <1>14, <2>1, <2>3, <2>4, TwoReporters DEF RefusedReport, TakesReports, MayReport, ch
  <1>15. ASSUME Step = "resolve", WindowClosed(own.caseId) PROVE ~RefusedResolution
    <2>1. k = E - 1 /\ k > L + 3 /\ k > L /\ k < E
      BY <1>1, <1>15 DEF AtItsPlace
    <2>2. reports[ch] = <<OwnReport("investigatorA", own.verdictA), OwnReport("investigatorB", own.verdictB)>>
      BY <1>1, <1>11, <2>1 DEF ReportsAfter
    <2>3. own.verdictA \in Verdicts /\ own.verdictB \in Verdicts
      BY <1>1, <1>2, <2>1 DEF Known
    <2>4. tally[ch] = TallyOf(reports[ch])
      BY <1>11, <1>12, <2>1 DEF TalliesMatchReports
    <2>5. OwnStatus = ExpectedStatus(tally[ch]) /\ OwnStatus # "NONE"
      BY <2>2, <2>3, <2>4, OwnReportsDecide
    <2> QED BY <1>11, <1>15, <2>1, <2>5 DEF RefusedResolution, Resolvable, ch
  <1> QED BY <1>6, <1>7, <1>8, <1>9, <1>10, <1>13, <1>14, <1>15 DEF Refused

(***************************************************************************)
(* Each transaction leaves the contracts as the next step finds them.      *)
(***************************************************************************)
LEMMA LeavesAsExpected ==
  ASSUME PlaceOK, scenario # "A", KnowledgeInv, AsLeft(Done), phase = "call", Transaction,
         investigators \in [Investigators -> Identities!Investigator],
         UNCHANGED <<scenario, deployment, step>>
  PROVE  investigators' \in [Investigators -> Identities!Investigator] /\ AsLeft(step)'
  <1> DEFINE L == LockAt(scenario)
             E == EndAt(scenario)
             A == makeChain("investigatorA")
             B == makeChain("investigatorB")
  <1> PICK k : k = step - 1
    OBVIOUS
  <1>1. /\ scenario \in CaseScenario /\ AtItsPlace(scenario, step, Step)
        /\ L \in {5, 6} /\ E \in {10, 11} /\ E > L + 4
        /\ k \in Nat /\ step = k + 1 /\ step' = k + 1 /\ Done = k /\ step \in Nat
    BY StepIs DEF Done
  <1>2. L' = L /\ E' = E /\ A' = A /\ B' = B
    BY DEF LockAt, EndAt, makeChain
  <1>3. AsLeft(k) /\ Known(k) /\ TypeOK /\ OwnOK
    BY <1>1 DEF KnowledgeInv, ContractInv
  <1>4. A \in Accounts /\ B \in Accounts
    BY SignersHaveAccounts
  <1>5. k >= 2 => own.caseId \in Challenges /\ own.caseId \in Subjects /\ challenges[own.caseId].exists
    BY <1>3 DEF Known, Subjects
  (* The identities the run registered. *)
  <1>6. ASSUME UNCHANGED investigators, own'.idA = own.idA, own'.idB = own.idB, step \notin {3, 4}
        PROVE  (/\ step >= 3 /\ scenario # "B" =>
                     /\ own.idA \in Investigators /\ investigators[own.idA].exists
                     /\ SignsFor(makeChain("investigatorA"), own.idA)
                /\ step >= 4 /\ scenario # "B" =>
                     own.idB \in Investigators /\ SignsFor(makeChain("investigatorB"), own.idB))'
    BY <1>1, <1>2, <1>3, <1>6 DEF AsLeft, SignsFor, Identities!Controls
  <1>7. ASSUME UNCHANGED <<investigators, own>>, scenario = "B" \/ step \notin {3, 4}
        PROVE  (/\ step >= 3 /\ scenario # "B" =>
                     /\ own.idA \in Investigators /\ investigators[own.idA].exists
                     /\ SignsFor(makeChain("investigatorA"), own.idA)
                /\ step >= 4 /\ scenario # "B" =>
                     own.idB \in Investigators /\ SignsFor(makeChain("investigatorB"), own.idB))'
    BY <1>1, <1>6, <1>7
  <1>8. ASSUME ClaimTransaction PROVE UNCHANGED investigators /\ AsLeft(step)'
    <2>1. PICK cl \in Claims : CreateClaim(cl) /\ own' = [own EXCEPT !.claimIds = Append(@, cl)]
      BY <1>1, <1>8 DEF ClaimTransaction, AtItsPlace
    <2>2. step = 1 /\ k = 0 /\ UNCHANGED investigators
      BY <1>1, <1>8 DEF ClaimTransaction, AtItsPlace, OnRegistry, identityVars
    <2>3. own'.claimIds[1] = cl
      <3>1. own'.claimIds = Append(own.claimIds, cl) /\ own.claimIds = <<>>
        BY <1>3, <2>1, <2>2 DEF AsLeft, OwnOK
      <3> QED BY <3>1
    <2>4. Challengeable(cl)' /\ UNCHANGED <<reports, evidenceLocked>>
      BY <1>3, <2>1 DEF CreateClaim, Challengeable, TypeOK, evidenceVars, reportVars
    <2>5. Challengeable(own.claimIds[1])'
      BY <2>3, <2>4 DEF Challengeable
    <2> QED BY <1>1, <1>2, <1>3, <2>2, <2>4, <2>5 DEF AsLeft
  <1>9. ASSUME CaseTransaction PROVE UNCHANGED investigators /\ AsLeft(step)'
    <2>1. UNCHANGED investigators
      BY <1>9 DEF CaseTransaction, OnRegistry, identityVars
    <2>2. ASSUME Step \in {"openChallenge", "requestVerification"} PROVE AsLeft(step)'
      <3>1. step = 2 /\ k = 1
        BY <1>1, <2>2 DEF AtItsPlace
      <3>2. PICK ch \in Challenges : \E cl, a, type, v, closesAt :
               /\ OpenCase(ch, cl, a, type, v, closesAt)
               /\ own' = [own EXCEPT !.caseId = ch]
        BY <1>9, <2>2 DEF CaseTransaction, OpenChallenge, RequestVerification
      <3>3. own'.caseId = ch
        BY <1>3, <3>2 DEF OwnOK
      <3>4. challenges'[ch].state = "OPEN" /\ UNCHANGED <<reports, evidenceLocked>>
        BY <1>3, <3>2 DEF OpenCase, TypeOK, evidenceVars, reportVars
      <3>5. reports'[own'.caseId] = <<>>
        BY <1>3, <3>1, <3>3, <3>4 DEF AsLeft
      <3>6. StateAfter(2)' = "OPEN" /\ ReportsAfter(2)' = <<>>
        BY <1>1, <1>2 DEF StateAfter, ReportsAfter
      <3> QED BY <1>1, <1>2, <1>3, <3>1, <3>3, <3>4, <3>5, <3>6 DEF AsLeft
    (* The rest is about the case. *)
    <2>3. ASSUME k >= 2, step < L + 3, UNCHANGED <<own, reports>>, step \notin {3, 4} \/ scenario = "B",
                 challenges'[own.caseId].state = StateAfter(step),
                 step < L => UNCHANGED evidenceLocked
          PROVE  AsLeft(step)'
      <3>1. StateAfter(step)' = StateAfter(step)
        BY <1>1, <1>2 DEF StateAfter
      <3>2. ReportsAfter(step)' = <<>> /\ ReportsAfter(k) = <<>>
        BY <1>1, <1>2, <2>3 DEF ReportsAfter
      <3>3. reports[own.caseId] = <<>> /\ k < E
        BY <1>1, <1>3, <2>3, <3>2 DEF AsLeft
      <3>4. (step < LockAt(scenario) => \A s \in Subjects : ~evidenceLocked[s])'
        <4> SUFFICES ASSUME step < L PROVE \A s \in Subjects : ~evidenceLocked'[s]
          BY <1>1, <1>2
        <4>1. k < L /\ UNCHANGED evidenceLocked
          BY <1>1, <2>3
        <4>2. \A s \in Subjects : ~evidenceLocked[s]
          BY <1>3, <4>1 DEF AsLeft
        <4> QED BY <4>1, <4>2
      <3>5. (challenges[own.caseId].state = StateAfter(step) /\ reports[own.caseId] = ReportsAfter(step))'
        BY <1>1, <2>3, <3>1, <3>2, <3>3
      <3>6. step \notin {0, 1} /\ ~(step <= 1)
        BY <1>1, <2>3
      <3> QED BY <1>1, <1>7, <2>1, <2>3, <3>4, <3>5, <3>6 DEF AsLeft
    <2>4. ASSUME Step = "submitEvidence", SubmitEvidence(own.caseId, OwnEvidence), UNCHANGED own
          PROVE  AsLeft(step)'
      <3>1. k >= 2 /\ step < L /\ (step \in {3, 4} => scenario = "B")
        BY <1>1, <2>4 DEF AtItsPlace, LockAt, CaseScenario
      <3>2. UNCHANGED <<challenges, reports, evidenceLocked>>
        BY <2>4 DEF SubmitEvidence, caseVars, reportVars
      <3>3. challenges[own.caseId].state = StateAfter(step)
        BY <1>1, <1>3, <3>1 DEF AsLeft, StateAfter
      <3>4. step < L + 3 /\ (step \notin {3, 4} \/ scenario = "B")
        BY <1>1, <3>1
      <3>5. challenges'[own.caseId].state = StateAfter(step) /\ UNCHANGED <<own, reports>>
        BY <2>4, <3>2, <3>3
      <3> QED BY <2>3, <3>1, <3>2, <3>4, <3>5
    <2>5. ASSUME Step = "lockEvidence", LockEvidence(own.caseId, OwnRoot), UNCHANGED own
          PROVE  AsLeft(step)'
      <3>1. step = L /\ k >= 2 /\ step \notin {3, 4}
        BY <1>1, <2>5 DEF AtItsPlace
      <3>2. challenges'[own.caseId].state = "EVIDENCE_LOCKED" /\ UNCHANGED reports
        BY <1>3, <1>5, <2>5, <3>1 DEF LockEvidence, Progressed, TypeOK, reportVars
      <3>3. StateAfter(step) = "EVIDENCE_LOCKED"
        BY <1>1, <3>1 DEF StateAfter
      <3> QED BY <1>1, <2>3, <2>5, <3>1, <3>2, <3>3
    <2>6. ASSUME Step = "beginInvestigation", BeginInvestigation(own.caseId), UNCHANGED own
          PROVE  AsLeft(step)'
      <3>1. step = L + 1 /\ k >= 2 /\ step \notin {3, 4}
        BY <1>1, <2>6 DEF AtItsPlace
      <3>2. challenges'[own.caseId].state = "INVESTIGATING" /\ UNCHANGED reports
        BY <1>3, <1>5, <2>6, <3>1 DEF BeginInvestigation, Progressed, TypeOK, reportVars
      <3>3. StateAfter(step) = "INVESTIGATING"
        BY <1>1, <3>1 DEF StateAfter
      <3> QED BY <1>1, <2>3, <2>6, <3>1, <3>2, <3>3
    <2> QED BY <1>9, <2>1, <2>2, <2>4, <2>5, <2>6 DEF CaseTransaction
  <1>10. ASSUME IdentityTransaction
         PROVE  investigators' \in [Investigators -> Identities!Investigator] /\ AsLeft(step)'
    <2>1. step \in {3, 4} /\ scenario # "B" /\ k >= 2 /\ k < L /\ (Step = "registerA" <=> step = 3)
          /\ (Step = "registerB" <=> step = 4)
      BY <1>1, <1>10 DEF IdentityTransaction, AtItsPlace
    <2>2. PICK id \in Investigators :
             \/ /\ step = 3 /\ Identities!Register(id, A, None)
                /\ own' = [own EXCEPT !.idA = id]
             \/ /\ step = 4 /\ Identities!Register(id, B, None)
                /\ own' = [own EXCEPT !.idB = id]
      BY <1>10, <2>1 DEF IdentityTransaction
    <2>3. UNCHANGED <<claims, challenges, reports, evidenceLocked>>
      BY <1>10 DEF IdentityTransaction, vars, claimVars, caseVars, evidenceVars, reportVars
    <2>4. own'.claimIds = own.claimIds /\ own'.caseId = own.caseId
      BY <1>3, <2>2 DEF OwnOK
    <2>5. PICK a \in Accounts : /\ Identities!Register(id, a, None)
                                /\ step = 3 => a = A /\ own'.idA = id
                                /\ step = 4 => a = B /\ own'.idB = id /\ own'.idA = own.idA
      BY <1>3, <1>4, <2>2 DEF OwnOK
    <2>6. /\ investigators'[id].controller = a /\ investigators'[id].exists
          /\ ~investigators[id].exists
          /\ \A x \in Investigators : x # id => investigators'[x] = investigators[x]
          /\ investigators' \in [Investigators -> Identities!Investigator]
      BY <2>5 DEF Identities!Register, Identities!Investigator
    <2>7. CASE step = 3
      <3>1. (/\ own.idA \in Investigators /\ investigators[own.idA].exists
             /\ SignsFor(makeChain("investigatorA"), own.idA))'
        BY <1>2, <2>5, <2>6, <2>7 DEF SignsFor, Identities!Controls
      <3>2. StateAfter(3)' = StateAfter(k) /\ ReportsAfter(3)' = <<>> /\ ReportsAfter(k) = <<>> /\ k < E
        BY <1>1, <1>2, <2>1, <2>7 DEF StateAfter, ReportsAfter
      <3>3. challenges[own.caseId].state = StateAfter(k) /\ reports[own.caseId] = <<>>
            /\ \A s \in Subjects : ~evidenceLocked[s]
        BY <1>3, <2>1, <3>2 DEF AsLeft
      <3> QED BY <1>1, <2>3, <2>4, <2>6, <2>7, <3>1, <3>2, <3>3 DEF AsLeft
    <2>8. CASE step = 4
      <3>1. (own.idB \in Investigators /\ SignsFor(makeChain("investigatorB"), own.idB))'
        BY <1>2, <2>5, <2>6, <2>8 DEF SignsFor, Identities!Controls
      <3>2. /\ own.idA \in Investigators /\ investigators[own.idA].exists
            /\ SignsFor(makeChain("investigatorA"), own.idA)
        BY <1>1, <1>3, <2>1, <2>8 DEF AsLeft
      <3>3. (/\ own.idA \in Investigators /\ investigators[own.idA].exists
             /\ SignsFor(makeChain("investigatorA"), own.idA))'
        <4>1. own.idA # id
          BY <2>6, <3>2
        <4> QED BY <1>2, <2>5, <2>6, <2>8, <3>2, <4>1 DEF SignsFor, Identities!Controls
      <3>4. StateAfter(4)' = StateAfter(k) /\ ReportsAfter(4)' = <<>> /\ ReportsAfter(k) = <<>> /\ k < E
        BY <1>1, <1>2, <2>1, <2>8 DEF StateAfter, ReportsAfter
      <3>5. challenges[own.caseId].state = StateAfter(k) /\ reports[own.caseId] = <<>>
            /\ \A s \in Subjects : ~evidenceLocked[s]
        BY <1>3, <2>1, <3>4 DEF AsLeft
      <3> QED BY <1>1, <2>3, <2>4, <2>6, <2>8, <3>1, <3>3, <3>4, <3>5 DEF AsLeft
    <2> QED BY <2>1, <2>6, <2>7, <2>8
  <1>11. ASSUME VerdictTransaction PROVE UNCHANGED investigators /\ AsLeft(step)'
    <2>1. UNCHANGED investigators
      BY <1>11 DEF VerdictTransaction, ReportTransaction, OnRegistry, SubmitReportAsIdentity, identityVars
    (* A report follows the others. *)
    <2>2. ASSUME NEW role, NEW id, NEW v, ReportTransaction(makeChain(role), id, v),
                 UNCHANGED own, k >= 2
          PROVE  /\ UNCHANGED challenges
                 /\ reports'[own.caseId] = Append(reports[own.caseId], OwnReport(role, v))
      BY <1>3, <1>5, <2>2 DEF ReportTransaction, SubmitReportAsIdentity, SubmitReport, OwnReport,
                              TypeOK, caseVars
    <2>3. ASSUME k >= L + 2, k < E, step < E, UNCHANGED <<own, challenges>>,
                 reports'[own.caseId] = ReportsAfter(step)
          PROVE  AsLeft(step)'
      <3>1. StateAfter(step)' = "INVESTIGATING" /\ StateAfter(k) = "INVESTIGATING"
        BY <1>1, <1>2, <2>3 DEF StateAfter
      <3>2. /\ OwnReport("investigatorA", own.verdictA)' = OwnReport("investigatorA", own.verdictA)
            /\ OwnReport("investigatorB", own.verdictB)' = OwnReport("investigatorB", own.verdictB)
        BY <1>2, <2>3 DEF OwnReport
      <3>3. ReportsAfter(step)' = ReportsAfter(step)
        BY <1>1, <1>2, <3>2 DEF ReportsAfter
      <3>4. challenges[own.caseId].state = "INVESTIGATING"
        BY <1>1, <1>3, <2>3, <3>1 DEF AsLeft
      <3> QED BY <1>1, <1>2, <1>7, <2>1, <2>3, <3>1, <3>3, <3>4 DEF AsLeft
    <2>4. ASSUME Step = "reportA", UNCHANGED own,
                 ReportTransaction(makeChain("investigatorA"), own.idA, own.verdictA)
          PROVE  AsLeft(step)'
      <3>1. k = L + 2 /\ step = L + 3 /\ k >= 2 /\ k < E /\ step < E
        BY <1>1, <2>4 DEF AtItsPlace
      <3>2. reports[own.caseId] = <<>>
        BY <1>1, <1>3, <3>1 DEF AsLeft, ReportsAfter
      <3>3. UNCHANGED challenges
            /\ reports'[own.caseId] = Append(<<>>, OwnReport("investigatorA", own.verdictA))
        BY <2>2, <2>4, <3>1, <3>2
      <3>4. ReportsAfter(step) = <<OwnReport("investigatorA", own.verdictA)>>
        BY <1>1, <3>1 DEF ReportsAfter
      <3>5. \A r : Append(<<>>, r) = <<r>>
        OBVIOUS
      <3> QED BY <1>1, <2>3, <2>4, <3>1, <3>3, <3>4, <3>5
    <2>5. ASSUME Step = "reportB", UNCHANGED own,
                 ReportTransaction(makeChain("investigatorB"), own.idB, own.verdictB)
          PROVE  AsLeft(step)'
      <3>1. k = L + 3 /\ step = L + 4 /\ k >= 2 /\ k < E /\ step < E
        BY <1>1, <2>5 DEF AtItsPlace
      <3>2. reports[own.caseId] = <<OwnReport("investigatorA", own.verdictA)>>
        BY <1>1, <1>3, <3>1 DEF AsLeft, ReportsAfter
      <3>3. UNCHANGED challenges
            /\ reports'[own.caseId] = Append(<<OwnReport("investigatorA", own.verdictA)>>,
                                             OwnReport("investigatorB", own.verdictB))
        BY <2>2, <2>5, <3>1, <3>2
      <3>4. ReportsAfter(step) =
              <<OwnReport("investigatorA", own.verdictA), OwnReport("investigatorB", own.verdictB)>>
        BY <1>1, <3>1 DEF ReportsAfter
      <3>5. \A q, r : Append(<<q>>, r) = <<q, r>>
        <4> TAKE q, r
        <4> DEFINE s == Append(<<q>>, r)
        <4>1. <<q>> \in Seq({q, r}) /\ Len(<<q>>) = 1 /\ <<q>>[1] = q
          OBVIOUS
        <4>2. s \in Seq({q, r}) /\ Len(s) = 2 /\ s[1] = q /\ s[2] = r
          BY <4>1
        <4> HIDE DEF s
        <4>3. s = <<q, r>>
          BY <4>2
        <4> QED BY <4>3 DEF s
      <3> QED BY <1>1, <2>3, <2>5, <3>1, <3>3, <3>4, <3>5
    (* After the resolution there is nothing left to call. *)
    <2>6. ASSUME Step = "resolve", own' = [own EXCEPT !.status = OwnStatus] PROVE AsLeft(step)'
      <3>1. step = E /\ k >= 4
        BY <1>1, <2>6 DEF AtItsPlace
      <3>2. own'.idA = own.idA /\ own'.idB = own.idB
        BY <1>3, <2>6 DEF OwnOK
      <3>3. step \notin {0, 1, 3, 4} /\ ~(step <= 1) /\ ~(step < L) /\ ~(step < E)
        BY <1>1, <3>1
      <3> QED BY <1>1, <1>2, <1>6, <2>1, <3>1, <3>2, <3>3 DEF AsLeft
    <2> QED BY <1>11, <2>1, <2>4, <2>5, <2>6 DEF VerdictTransaction
  <1> QED BY <1>8, <1>9, <1>10, <1>11 DEF Transaction

(* Scenario A makes two claims and relates them. *)
LEMMA ClaimsProgram ==
  ASSUME PlaceOK, scenario = "A"
  PROVE  /\ step \in {1, 2, 3} /\ Len(Program[scenario]) = 3
         /\ Step = IF step = 3 THEN "recordRelationship" ELSE "createClaim"
         /\ Step \notin Computed
  <1>1. Program["A"] = <<"createClaim", "createClaim", "recordRelationship">>
    BY DEF Program, ScenarioA
  <1>2. /\ Len(Program["A"]) = 3 /\ Program["A"][1] = "createClaim"
        /\ Program["A"][2] = "createClaim" /\ Program["A"][3] = "recordRelationship"
    BY <1>1
  <1> QED BY <1>2 DEF PlaceOK, Step, Computed

(* Its claims are there as soon as they are made, and the edge is between two of them. *)
LEMMA ClaimsStep ==
  ASSUME PlaceOK, scenario = "A", TypeOK, ClaimsMade, Lands
  PROVE  TypeOK' /\ ClaimsMade'
  <1>1. /\ phase = "call" /\ Transaction /\ phase' = "waiting"
        /\ UNCHANGED <<scenario, deployment, step>>
    BY DEF Lands
  <1>2. /\ step \in {1, 2, 3} /\ Step = IF step = 3 THEN "recordRelationship" ELSE "createClaim"
        /\ Done = step - 1 /\ Done' = step
    BY <1>1, ClaimsProgram DEF Done
  <1>3. ClaimTransaction
    BY <1>1, <1>2 DEF Transaction, CaseTransaction, IdentityTransaction, VerdictTransaction
  <1> PICK ids : ids = own.claimIds
    OBVIOUS
  <1>4. ids \in Seq(Claims) /\ \A i \in 1..Len(ids) : ids[i] \in Claims /\ claims[ids[i]].exists
    BY DEF ClaimsMade, OwnOK
  <1>5. CASE step = 3
    <2>1. Len(ids) = 2 /\ 1 \in 1..2 /\ 2 \in 1..2
      BY <1>2, <1>5 DEF ClaimsMade
    <2>2. /\ RecordRelationship(ids[1], ids[2], "RELATES_TO") /\ UNCHANGED own
          /\ ids[1] \in Claims /\ ids[2] \in Claims
      BY <1>2, <1>3, <1>4, <1>5, <2>1 DEF ClaimTransaction
    <2>3. Next
      BY <2>2 DEF Next, RelationshipType
    <2>4. UNCHANGED claims
      BY <2>2 DEF RecordRelationship, claimVars
    <2> QED BY <1>2, <1>4, <1>5, <2>1, <2>2, <2>3, <2>4, TypeStep DEF ClaimsMade, OwnOK
  <1>6. CASE step # 3
    <2>1. PICK cl \in Claims : CreateClaim(cl) /\ own' = [own EXCEPT !.claimIds = Append(@, cl)]
      BY <1>2, <1>3, <1>6 DEF ClaimTransaction
    <2>2. Next
      BY <2>1 DEF Next
    <2>3. /\ claims'[cl].exists
          /\ \A x \in Claims : claims[x].exists => claims'[x].exists
      BY <2>1 DEF CreateClaim, TypeOK
    <2> PICK more : more = Append(ids, cl)
      OBVIOUS
    <2>4. /\ more \in Seq(Claims) /\ Len(more) = Len(ids) + 1 /\ more[Len(ids) + 1] = cl
          /\ \A i \in 1..Len(ids) : more[i] = ids[i]
      BY <1>4
    <2>5. Len(ids) = step - 1 /\ step \in {1, 2}
      BY <1>2, <1>6 DEF ClaimsMade
    <2>6. \A i \in 1..Len(more) : i \in 1..Len(ids) \/ i = Len(ids) + 1
      BY <2>4, <2>5
    <2>7. \A i \in 1..Len(more) : claims'[more[i]].exists
      BY <1>4, <2>3, <2>4, <2>6
    <2>8. own'.claimIds = more /\ OwnOK'
      BY <2>1, <2>4 DEF ClaimsMade, OwnOK
    <2>9. TypeOK'
      BY <2>2, TypeStep
    <2>10. Len(more) = step /\ step <= 2
      BY <2>4, <2>5
    <2>11. Len(own'.claimIds) = IF Done' < 2 THEN Done' ELSE 2
      BY <1>2, <2>5, <2>8, <2>10
    <2> QED BY <2>7, <2>8, <2>9, <2>11 DEF ClaimsMade
  <1> QED BY <1>5, <1>6

(***************************************************************************)
(* What a scenario with a case does to itself and to the contracts, other  *)
(* than by a transaction.                                                  *)
(***************************************************************************)
LEMMA CaseUntouched ==
  ASSUME PlaceOK, scenario # "A", KnowledgeInv, AsLeft(Done),
         \/ UNCHANGED demoVars \/ TimePasses
         \/ Acknowledged \/ Investigate \/ SetClock \/ StartSleeping \/ StopSleeping
  PROVE  UNCHANGED investigators /\ AsLeft(Done)'
  <1> DEFINE L == LockAt(scenario)
  <1> PICK k : k = Done
    OBVIOUS
  <1>1. /\ scenario \in CaseScenario /\ AtItsPlace(scenario, step, Step)
        /\ L \in {5, 6} /\ EndAt(scenario) \in {10, 11} /\ EndAt(scenario) > L + 4
        /\ step \in Nat /\ step >= 1 /\ k \in Nat /\ OwnOK /\ AsLeft(k)
        /\ Len(Program[scenario]) = EndAt(scenario)
        /\ step = EndAt(scenario) => Step \notin Computed
    BY StepIs DEF Done, KnowledgeInv
  <1>2. UNCHANGED <<scenario, deployment>>
    BY DEF demoVars, driverVars, progressVars, TimePasses, Acknowledged, Investigate, SetClock,
           StartSleeping, StopSleeping, NextStep
  <1>3. UNCHANGED <<claims, challenges, reports, evidenceLocked, investigators>>
    BY DEF demoVars, allVars, vars, claimVars, caseVars, evidenceVars, reportVars, identityVars,
           TimePasses, Tick, Acknowledged, Investigate, SetClock, StartSleeping, StopSleeping, ClockAt
  <1>4. /\ own'.claimIds = own.claimIds /\ own'.caseId = own.caseId
        /\ own'.idA = own.idA /\ own'.idB = own.idB
        /\ k >= L + 3 => own'.verdictA = own.verdictA /\ own'.verdictB = own.verdictB
    <2>1. CASE UNCHANGED own
      BY <2>1
    <2>2. CASE Investigate
      <3>1. PICK v, w : own' = [own EXCEPT !.verdictA = v, !.verdictB = w]
        BY <2>2 DEF Investigate
      <3>2. step = L + 2 /\ k = step - 1
        BY <1>1, <2>2 DEF Investigate, AtItsPlace, Done
      <3>3. ~(k >= L + 3)
        BY <1>1, <3>2
      <3> QED BY <1>1, <3>1, <3>3 DEF OwnOK
    <2>3. CASE StartSleeping
      BY <1>1, <2>3 DEF StartSleeping, OwnOK
    <2> QED BY <2>1, <2>2, <2>3 DEF demoVars, driverVars, TimePasses, Acknowledged, SetClock, StopSleeping
  <1>5. AsLeft(k)'
    BY <1>1, <1>2, <1>3, <1>4, AsLeftStays
  <1>6. CASE UNCHANGED demoVars \/ TimePasses \/ StartSleeping
    <2>1. Done' = k
      BY <1>6 DEF demoVars, driverVars, progressVars, TimePasses, StartSleeping, Waiting, Done
    <2> QED BY <1>3, <1>5, <2>1
  <1>7. CASE Acknowledged
    <2>1. Done' = k
      <3>1. phase \in {"waiting", "reading"} /\ Done = step
        BY <1>7 DEF Acknowledged, Done
      <3>2. CASE /\ phase' = "reading" /\ UNCHANGED step
        BY <3>1, <3>2 DEF Done
      <3>3. CASE NextStep
        BY <1>1, <3>1, <3>3 DEF NextStep, Done
      <3> QED BY <1>7, <3>2, <3>3 DEF Acknowledged
    <2> QED BY <1>3, <1>5, <2>1
  (* What the run computes takes the place of a transaction. *)
  <1>8. ASSUME Step \in {"investigate", "waitForChallengeWindow"}, phase \in {"call", "sleeping"}, NextStep
        PROVE  AsLeft(Done)'
    <2>1. /\ k = step - 1 /\ step \in {L + 2, 10} /\ step \in 7..10 /\ k >= L + 1
          /\ step < EndAt(scenario)
      BY <1>1, <1>8 DEF AtItsPlace, Done, Computed, LockAt, EndAt
    <2>2. Done' = k + 1
      BY <1>1, <1>8, <2>1 DEF NextStep, Done
    <2>3. L' = L /\ EndAt(scenario)' = EndAt(scenario) /\ (L = 5 \/ step = L + 2)
      BY <1>1, <1>2, <1>8 DEF LockAt, EndAt, AtItsPlace
    <2>4. StateAfter(k + 1)' = StateAfter(k)'
      BY <1>1, <2>1, <2>3 DEF StateAfter
    <2>5. ReportsAfter(k + 1)' = ReportsAfter(k)'
      BY <1>1, <2>1, <2>3 DEF ReportsAfter
    <2>6. AsLeft(k + 1)'
      BY <1>1, <1>5, <2>1, <2>3, <2>4, <2>5 DEF AsLeft
    <2> QED BY <2>2, <2>6
  <1>9. CASE Investigate
    BY <1>3, <1>8, <1>9 DEF Investigate
  <1>10. CASE SetClock
    BY <1>3, <1>8, <1>10 DEF SetClock, Waiting
  <1>11. CASE StopSleeping
    BY <1>3, <1>8, <1>11 DEF StopSleeping, PlaceOK
  <1> QED BY <1>6, <1>7, <1>9, <1>10, <1>11

(* Nor does one without a case touch its claims. *)
LEMMA ClaimsUntouched ==
  ASSUME PlaceOK, scenario = "A", TypeOK, ClaimsMade,
         \/ UNCHANGED demoVars \/ TimePasses
         \/ Acknowledged \/ Investigate \/ SetClock \/ StartSleeping \/ StopSleeping
  PROVE  TypeOK' /\ ClaimsMade'
  <1>1. /\ step \in {1, 2, 3} /\ Len(Program[scenario]) = 3 /\ Step \notin Computed
        /\ phase # "sleeping"
    BY ClaimsProgram DEF PlaceOK, Computed
  <1>2. UNCHANGED demoVars \/ TimePasses \/ Acknowledged
    BY <1>1 DEF Investigate, SetClock, StartSleeping, StopSleeping, Waiting, PlaceOK, Computed
  <1>3. [Next]_vars /\ UNCHANGED <<claims, own>>
    BY <1>2 DEF demoVars, allVars, driverVars, TimePasses, Acknowledged, Next, Tick, vars, claimVars
  <1>4. Done' = Done
    <2>1. CASE UNCHANGED demoVars \/ TimePasses
      BY <2>1 DEF demoVars, driverVars, progressVars, TimePasses, Done
    <2>2. CASE Acknowledged
      <3>1. phase \in {"waiting", "reading"} /\ Done = step
        BY <2>2 DEF Acknowledged, Done
      <3>2. CASE /\ phase' = "reading" /\ UNCHANGED step
        BY <3>1, <3>2 DEF Done
      <3>3. CASE NextStep
        BY <1>1, <3>1, <3>3 DEF NextStep, Done
      <3> QED BY <2>2, <3>2, <3>3 DEF Acknowledged
    <2> QED BY <1>2, <2>1, <2>2
  <1> QED BY <1>3, <1>4, TypeStep DEF ClaimsMade, OwnOK

(* A run begins with nothing done. *)
LEMMA UndisturbedInit == DemoInit => UndisturbedInv
  <1> SUFFICES ASSUME DemoInit PROVE UndisturbedInv
    OBVIOUS
  <1>1. faults = 0 /\ strangerCalls = 0 /\ Done = 0 /\ own.claimIds = <<>>
    BY DEF DemoInit, Done
  <1>2. TypeOK
    BY TypeInit DEF DemoInit, IdentifiedInit
  <1>3. OwnOK
    BY DEF DemoInit, OwnOK
  <1>4. investigators \in [Investigators -> Identities!Investigator]
    BY DEF DemoInit, IdentifiedInit, Identities!Init, Identities!Investigator
  <1>5. /\ \A ch \in Challenges : reports[ch] = <<>>
        /\ \A s \in Subjects : ~evidenceLocked[s]
    BY DEF DemoInit, IdentifiedInit, Init
  <1>6. AsLeft(0)
    BY <1>1, <1>5 DEF AsLeft
  <1>7. ClaimsMade
    BY <1>1, <1>3 DEF ClaimsMade
  <1> QED BY <1>1, <1>2, <1>4, <1>6, <1>7 DEF UndisturbedInv

(* Every step of an undisturbed run keeps it. *)
LEMMA UndisturbedStep ==
  ASSUME PlaceOK, RunInv, UndisturbedInv, [DemoNext]_demoVars
  PROVE  UndisturbedInv'
  <1>1. faults \in Nat /\ strangerCalls \in Nat
    BY DEF UndisturbedInv
  <1>2. faults' \in Nat /\ strangerCalls' \in Nat
    BY <1>1, UndisturbedBefore
  <1> SUFFICES ASSUME Undisturbed'
               PROVE  /\ (scenario # "A" => /\ investigators \in [Investigators -> Identities!Investigator]
                                            /\ AsLeft(Done))'
                      /\ (scenario = "A" => TypeOK /\ ClaimsMade)'
    BY <1>2 DEF UndisturbedInv
  <1>3. /\ faults = 0 /\ strangerCalls = 0
        /\ \/ UNCHANGED demoVars \/ TimePasses
           \/ /\ outcome = "running"
              /\ \/ Lands \/ Reverts \/ Acknowledged
                 \/ Investigate \/ SetClock \/ StartSleeping \/ StopSleeping
    BY <1>1, UndisturbedBefore DEF Undisturbed
  <1>4. ~Reverts
    BY DEF Reverts, AfterRevert, Fail, Undisturbed
  <1>5. Undisturbed /\ scenario' = scenario
    <2>1. outcome # "error" /\ scenario' = scenario
      BY HowRunsMove DEF Stays, Lost, Landing, Looking, Advancing, NextStep, FallingAsleep, Undisturbed
    <2> QED BY <1>3, <2>1 DEF Undisturbed
  <1>6. CASE scenario # "A"
    <2>1. /\ KnowledgeInv /\ AsLeft(Done)
          /\ investigators \in [Investigators -> Identities!Investigator]
      BY <1>5, <1>6 DEF UndisturbedInv, RunInv, Undisturbed
    <2>2. CASE Lands
      <3>1. /\ phase = "call" /\ Transaction /\ phase' = "waiting" /\ UNCHANGED <<scenario, deployment, step>>
        BY <2>2 DEF Lands
      <3>2. investigators' \in [Investigators -> Identities!Investigator] /\ AsLeft(step)'
        BY <1>6, <2>1, <3>1, LeavesAsExpected
      <3>3. Done' = step'
        BY <3>1 DEF Done
      <3> QED BY <1>5, <1>6, <3>2, <3>3
    <2>3. CASE ~Lands
      BY <1>3, <1>4, <1>5, <1>6, <2>1, <2>3, CaseUntouched
    <2> QED BY <2>2, <2>3
  <1>7. CASE scenario = "A"
    <2>1. TypeOK /\ ClaimsMade
      BY <1>5, <1>7 DEF UndisturbedInv
    <2> QED BY <1>3, <1>4, <1>5, <1>7, <2>1, ClaimsStep, ClaimsUntouched
  <1> QED BY <1>5, <1>6, <1>7

(* So an error is a fault, the work of a stranger, or one of two refusals. *)
LEMMA ErrorsExplained ==
  ASSUME PlaceOK, RunInv, UndisturbedInv, SucceedsUndisturbed, [DemoNext]_demoVars
  PROVE  SucceedsUndisturbed'
  <1> SUFFICES ASSUME outcome' = "error", faults' = 0, strangerCalls' = 0
               PROVE  (\/ deployment = "oneKey" /\ Step = "reportB"
                       \/ Step = "resolve" /\ ~WindowClosed(own.caseId))'
    BY UndisturbedBefore DEF SucceedsUndisturbed, UndisturbedInv
  <1>1. /\ faults = 0 /\ strangerCalls = 0
        /\ \/ UNCHANGED demoVars \/ TimePasses
           \/ /\ outcome = "running"
              /\ \/ Lands \/ Reverts \/ Acknowledged
                 \/ Investigate \/ SetClock \/ StartSleeping \/ StopSleeping
    BY UndisturbedBefore DEF UndisturbedInv
  <1>2. CASE outcome = "error"
    <2>1. UNCHANGED <<deployment, scenario, step, own, now, challenges>>
      BY <1>2, ErrorsAreFinal DEF demoVars, allVars, vars, caseVars, driverVars, progressVars
    <2>2. \/ deployment = "oneKey" /\ Step = "reportB"
          \/ Step = "resolve" /\ ~WindowClosed(own.caseId)
      BY <1>1, <1>2 DEF SucceedsUndisturbed
    <2> QED BY <2>1, <2>2 DEF Step, WindowClosed
  <1>3. CASE outcome # "error"
    <2>1. outcome = "running" /\ Reverts
      BY <1>1, <1>3 DEF demoVars, driverVars, progressVars, TimePasses, Lands, Acknowledged, Investigate,
                        SetClock, StartSleeping, StopSleeping, NextStep
    <2>2. /\ phase = "call" /\ Refused
          /\ UNCHANGED <<deployment, scenario, step, own, now, challenges>>
      BY <2>1 DEF Reverts, AfterRevert, Fail, allVars, vars, caseVars
    <2>3. scenario # "A"
      <3> SUFFICES ASSUME scenario = "A" PROVE FALSE
        OBVIOUS
      <3>1. ClaimsMade /\ Done = step - 1
        BY <1>1, <1>3, <2>2 DEF UndisturbedInv, Undisturbed, Done
      <3>2. Step = "recordRelationship" /\ step = 3
        BY <2>2, ClaimsProgram DEF Refused
      <3>3. Len(own.claimIds) = 2 /\ \A i \in 1..2 : claims[own.claimIds[i]].exists
        BY <3>1, <3>2 DEF ClaimsMade
      <3>4. 1 \in 1..2 /\ 2 \in 1..2
        OBVIOUS
      <3> QED BY <2>2, <3>2, <3>3, <3>4 DEF Refused
    <2>4. KnowledgeInv /\ AsLeft(Done)
      BY <1>1, <1>3, <2>3 DEF UndisturbedInv, Undisturbed, RunInv
    <2>5. \/ deployment = "oneKey" /\ Step = "reportB"
          \/ Step = "resolve" /\ ~WindowClosed(own.caseId)
      BY <2>2, <2>3, <2>4, FewRefusals
    <2> QED BY <2>2, <2>5 DEF Step, WindowClosed
  <1> QED BY <1>2, <1>3

(***************************************************************************)
(* A run that neither the node nor anybody else disturbs succeeds, but for *)
(* two calls the contract refuses: the second report of one account, and a *)
(* resolution while the window is open.                                    *)
(***************************************************************************)
THEOREM UndisturbedRunsSucceed == DemoSpec => []SucceedsUndisturbed
  <1> DEFINE IInv == PlaceOK /\ RunInv /\ UndisturbedInv /\ SucceedsUndisturbed
  <1>1. DemoInit => IInv
    <2>1. DemoInit => SucceedsUndisturbed
      BY DEF DemoInit, SucceedsUndisturbed
    <2> QED BY <2>1, PlaceInit, RunInit, UndisturbedInit
  <1>2. IInv /\ [DemoNext]_demoVars => IInv'
    BY PlaceStep, RunStep, UndisturbedStep, ErrorsExplained
  <1>3. IInv => SucceedsUndisturbed
    OBVIOUS
  <1> QED BY <1>1, <1>2, <1>3, PTL DEF DemoSpec

(***************************************************************************)
(* A call that is refused has no effect, and one that has an effect is not *)
(* reported as refused.                                                    *)
(***************************************************************************)
THEOREM RefusedNeverLands == DemoSpec => [][Lands => ~Refused]_demoVars
  <1>1. ASSUME PlaceOK, RunInv, outcome = "running", phase = "call", Transaction PROVE ~Refused
    <2>1. ASSUME ClaimTransaction PROVE ~Refused
      BY <2>1 DEF ClaimTransaction, RecordRelationship, Refused
    <2>2. ASSUME Step = "lockEvidence" PROVE own.caseId \in Challenges /\ challenges[own.caseId].exists
      <3>1. scenario # "A"
        BY <1>1, <2>2, ClaimsProgram
      <3>2. step = LockAt(scenario) /\ LockAt(scenario) \in {5, 6} /\ Done = step - 1
        BY <1>1, <2>2, <3>1, StepIs DEF AtItsPlace, Done
      <3>3. Known(Done)
        BY <1>1, <3>1 DEF RunInv, KnowledgeInv
      <3> QED BY <3>2, <3>3 DEF Known
    <2>3. ASSUME CaseTransaction PROVE ~Refused
      <3>1. ASSUME Step \in {"openChallenge", "requestVerification"} PROVE ~Refused
        <4>1. Challengeable(own.claimIds[1]) /\ Fee # 0
          BY <2>3, <3>1, DriverAssumption DEF CaseTransaction, OpenChallenge, RequestVerification
        <4> QED BY <3>1, <4>1 DEF Refused
      <3>2. ASSUME Step = "submitEvidence" PROVE ~Refused
        BY <2>3, <3>2 DEF CaseTransaction, SubmitEvidence, Refused
      <3>3. ASSUME Step = "lockEvidence" PROVE ~Refused
        <4>1. LockEvidence(own.caseId, OwnRoot)
          BY <2>3, <3>3 DEF CaseTransaction
        <4>2. ~evidenceLocked[own.caseId] /\ challenges[own.caseId].state = "OPEN"
          BY <2>2, <3>3, <4>1 DEF LockEvidence
        <4> QED BY <3>3, <4>2 DEF Refused
      <3>4. ASSUME Step = "beginInvestigation" PROVE ~Refused
        BY <2>3, <3>4 DEF CaseTransaction, BeginInvestigation, Refused
      <3> QED BY <2>3, <3>1, <3>2, <3>3, <3>4 DEF CaseTransaction
    <2>4. ASSUME IdentityTransaction PROVE ~Refused
      BY <2>4 DEF IdentityTransaction, Refused
    <2>5. ASSUME VerdictTransaction PROVE ~Refused
      <3>1. ASSUME NEW a, NEW id, NEW v, ReportTransaction(a, id, v) PROVE ~RefusedReport(a, id)
        BY <3>1 DEF ReportTransaction, SubmitReportAsIdentity, SubmitReport, RefusedReport
      <3>2. ASSUME NEW refusing, Resolve(own.caseId, OwnStatus, refusing) PROVE ~RefusedResolution
        BY <3>2 DEF Resolve, RefusedResolution
      <3> QED BY <2>5, <3>1, <3>2 DEF VerdictTransaction, Refused
    <2> QED BY <1>1, <2>1, <2>3, <2>4, <2>5 DEF Transaction
  <1>2. DemoInit => PlaceOK /\ RunInv
    BY PlaceInit, RunInit
  <1>3. PlaceOK /\ RunInv /\ [DemoNext]_demoVars => (PlaceOK /\ RunInv)'
    BY PlaceStep, RunStep
  <1>4. PlaceOK /\ RunInv /\ [DemoNext]_demoVars => [Lands => ~Refused]_demoVars
    <2> SUFFICES ASSUME PlaceOK, RunInv, DemoNext, Lands, demoVars' # demoVars PROVE ~Refused
      BY DEF Lands
    <2>1. outcome = "running" /\ phase = "call" /\ Transaction
      BY DEF Lands, DemoNext, Ended, DriverStep, StrangerCall, TimePasses
    <2> QED BY <1>1, <2>1
  <1> QED BY <1>2, <1>3, <1>4, PTL DEF DemoSpec
=============================================================================
