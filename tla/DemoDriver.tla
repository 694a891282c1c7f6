------------------------------ MODULE DemoDriver ------------------------------
(***************************************************************************)
(* One run of the demo driver (src/demo/lib.ts) against the two contracts: *)
(* a scenario is a sequence of transactions, each sent, awaited and, where *)
(* it made something new, looked up in its receipt before the next one is  *)
(* sent.  Meanwhile the node may fail to answer and anybody else may call  *)
(* the contracts, which ask nobody's permission.                           *)
(*                                                                         *)
(* DemoServer shows that runs do not overlap.  What becomes of an upload   *)
(* is in Storage, as is runTamperDemo, which makes no transaction, and     *)
(* how an investigator comes to its verdict in Investigator.               *)
(***************************************************************************)
EXTENDS IdentifiedReports, SequencesExt

CONSTANTS
  Challenger, InvestigatorA, InvestigatorB,  \* accounts of the local devnet's keys
  Operator, SecondKey,     \* accounts of the keys configured for any other network
  Strangers,               \* accounts of others
  OwnRoot, OwnEvidence, Fee,
  DEVNET_SKIP,             \* by how much a devnet's clock is set forward
  MAX_WINDOW_WAIT,         \* the longest the driver waits for a window elsewhere
  RETRIES,                 \* how often a wait or a look-up is repeated
  MaxFaults, MaxStrangerCalls   \* bounds

ASSUME DriverAssumption ==
  /\ {Challenger, InvestigatorA, InvestigatorB, Operator, SecondKey} \cup Strangers \subseteq Accounts
  /\ InvestigatorA # InvestigatorB /\ Operator # SecondKey
  /\ OwnRoot \in Roots /\ OwnEvidence \in EvidenceIds /\ Fee \in Amounts /\ Fee > 0
  /\ {DEVNET_SKIP, MAX_WINDOW_WAIT, RETRIES, MaxFaults, MaxStrangerCalls} \subseteq Nat

VARIABLES
  deployment,              \* the network, and whether investigatorB has a key there
  scenario, step, phase,   \* the program, the index of the present call, and how far that is
  attempts,                \* repetitions of the present wait or look-up
  own,                     \* what the run has learned and decided
  outcome,                 \* "running", "ok" or "error"
  landed,                  \* history: the steps whose transactions took effect
  faults, strangerCalls

progressVars == <<deployment, scenario, step, phase, attempts, outcome>>
countVars == <<faults, strangerCalls>>
driverVars == <<progressVars, own, landed, countVars>>
demoVars == <<allVars, driverVars>>

LOCAL_DEVNET_KEYS ==
  [challenger |-> Challenger, investigatorA |-> InvestigatorA, investigatorB |-> InvestigatorB]

\* A slip: one key for all roles.
OperatorOnly(role) == Operator

makeChain(role) ==
  IF deployment = "localDevnet" THEN LOCAL_DEVNET_KEYS[role]
  ELSE IF role = "investigatorB" /\ deployment = "twoKeys" THEN SecondKey
  ELSE Operator

Investigation == <<"lockEvidence", "beginInvestigation", "investigate">>

ScenarioA == <<"createClaim", "createClaim", "recordRelationship">>

ScenarioB ==
  <<"createClaim", "openChallenge", "submitEvidence", "submitEvidence">> \o Investigation
    \o <<"reportA", "reportB", "waitForChallengeWindow", "resolve">>

AgentVerifyClaim(evidenceTexts) ==
  <<"createClaim", "requestVerification", "registerA", "registerB">>
    \o [i \in 1..evidenceTexts |-> "submitEvidence"] \o Investigation
    \o <<"reportA", "reportB", "resolve">>

\* The same transactions as those for an agent with one text.
ScenarioC == AgentVerifyClaim(1)

Program ==
  [A |-> ScenarioA, B |-> ScenarioB, C |-> ScenarioC, agentWithoutEvidence |-> AgentVerifyClaim(0)]

Step == Program[scenario][step]

\* The steps that need an id which only an event of their receipt names.
MakesSomething == {"createClaim", "openChallenge", "requestVerification", "registerA", "registerB"}

DemoInit ==
  /\ IdentifiedInit
  /\ deployment \in {"localDevnet", "twoKeys", "oneKey"}
  /\ scenario \in DOMAIN Program
  /\ step = 1 /\ phase = "call" /\ attempts = 0
  /\ own = [ claimIds |-> <<>>, caseId |-> None, idA |-> None, idB |-> None,
             verdictA |-> None, verdictB |-> None, status |-> None, wakesAt |-> 0 ]
  /\ outcome = "running"
  /\ landed = <<>>
  /\ faults = 0 /\ strangerCalls = 0

-----------------------------------------------------------------------------
(***************************************************************************)
(* The transactions.                                                       *)
(***************************************************************************)
OnRegistry == UNCHANGED <<identityVars, links>>

\* Scenario B reports as an address, the others as a registered identity.
ReportTransaction(caller, id, verdict) ==
  IF scenario = "B"
  THEN SubmitReport(own.caseId, caller, verdict, OwnRoot) /\ OnRegistry
  ELSE SubmitReportAsIdentity(own.caseId, caller, id, verdict, OwnRoot)

\* What buildVerdict computes from the two reports, of two model providers.
OwnStatus ==
  Apply(<<[verdict |-> own.verdictA, modelProvider |-> "provider-alpha"],
          [verdict |-> own.verdictB, modelProvider |-> "provider-beta"]>>).status

ClaimTransaction ==
  \/ /\ Step = "createClaim"
     /\ \E cl \in Claims : CreateClaim(cl) /\ own' = [own EXCEPT !.claimIds = Append(@, cl)]
     /\ OnRegistry
  \/ /\ Step = "recordRelationship"
     /\ RecordRelationship(own.claimIds[1], own.claimIds[2], "RELATES_TO") /\ OnRegistry
     /\ UNCHANGED own

CaseTransaction ==
  \/ /\ Step = "openChallenge"
     /\ \E ch \in Challenges :
          /\ OpenChallenge(ch, own.claimIds[1], makeChain("challenger"), "CONTRADICTION", Fee)
          /\ own' = [own EXCEPT !.caseId = ch]
     /\ OnRegistry
  \/ /\ Step = "requestVerification"
     /\ \E ch \in Challenges :
          /\ RequestVerification(ch, own.claimIds[1], makeChain("challenger"), Fee)
          /\ own' = [own EXCEPT !.caseId = ch]
     /\ OnRegistry
  \/ Step = "submitEvidence" /\ SubmitEvidence(own.caseId, OwnEvidence) /\ OnRegistry /\ UNCHANGED own
  \/ Step = "lockEvidence" /\ LockEvidence(own.caseId, OwnRoot) /\ OnRegistry /\ UNCHANGED own
  \/ Step = "beginInvestigation" /\ BeginInvestigation(own.caseId) /\ OnRegistry /\ UNCHANGED own

IdentityTransaction ==
  \E id \in Investigators :
    /\ \/ /\ Step = "registerA" /\ Identities!Register(id, makeChain("investigatorA"), None)
          /\ own' = [own EXCEPT !.idA = id]
       \/ /\ Step = "registerB" /\ Identities!Register(id, makeChain("investigatorB"), None)
          /\ own' = [own EXCEPT !.idB = id]
    /\ UNCHANGED <<vars, links>>

VerdictTransaction ==
  \/ Step = "reportA" /\ ReportTransaction(makeChain("investigatorA"), own.idA, own.verdictA) /\ UNCHANGED own
  \/ Step = "reportB" /\ ReportTransaction(makeChain("investigatorB"), own.idB, own.verdictB) /\ UNCHANGED own
  \/ /\ Step = "resolve"
     /\ \E refusing \in SUBSET Contracts : Resolve(own.caseId, OwnStatus, refusing)
     /\ own' = [own EXCEPT !.status = OwnStatus]
     /\ OnRegistry

Transaction == ClaimTransaction \/ CaseTransaction \/ IdentityTransaction \/ VerdictTransaction

Computed == {"investigate", "waitForChallengeWindow"}

\* What the contracts revert for.  A new id is never taken: it is a hash of what is new.
RefusedReport(caller, id) ==
  \/ ~TakesReports(own.caseId) \/ ~MayReport(own.caseId, caller)
  \/ scenario # "B" /\ ~SignsFor(caller, id)

RefusedResolution ==
  \/ ~Resolvable(own.caseId) \/ ~WindowClosed(own.caseId)
  \/ OwnStatus = "NONE" \/ OwnStatus # ExpectedStatus(tally[own.caseId])

Refused ==
  \/ /\ Step = "recordRelationship"
     /\ ~claims[own.claimIds[1]].exists \/ ~claims[own.claimIds[2]].exists
  \/ Step \in {"openChallenge", "requestVerification"} /\ ~Challengeable(own.claimIds[1])
  \/ Step = "requestVerification" /\ Fee = 0
  \/ Step = "submitEvidence" /\ ~AcceptsEvidence(own.caseId)
  \/ /\ Step = "lockEvidence"
     /\ evidenceLocked[own.caseId] \/ challenges[own.caseId].state # "OPEN"
  \/ Step = "beginInvestigation" /\ ~ReadyToInvestigate(own.caseId)
  \/ Step = "reportA" /\ RefusedReport(makeChain("investigatorA"), own.idA)
  \/ Step = "reportB" /\ RefusedReport(makeChain("investigatorB"), own.idB)
  \/ Step = "resolve" /\ RefusedResolution

-----------------------------------------------------------------------------
(***************************************************************************)
(* One step of a run.                                                      *)
(***************************************************************************)
NextStep ==
  /\ attempts' = 0
  /\ IF step = Len(Program[scenario])
     THEN outcome' = "ok" /\ UNCHANGED <<step, phase>>
     ELSE step' = step + 1 /\ phase' = "call" /\ UNCHANGED outcome
  /\ UNCHANGED <<deployment, scenario, landed, strangerCalls>>

Fail == /\ outcome' = "error"
        /\ UNCHANGED <<deployment, scenario, step, phase, attempts, strangerCalls>>

Fault == faults < MaxFaults /\ faults' = faults + 1

\* The transaction takes effect.
Lands ==
  /\ phase = "call" /\ Step \notin Computed
  /\ Transaction
  /\ landed' = Append(landed, step)
  /\ phase' = "waiting" /\ attempts' = 0
  /\ UNCHANGED <<deployment, scenario, step, outcome, countVars>>

\* A slip: a call that reverts is passed over where its receipt is not read.
PassedOver == IF Step \in MakesSomething THEN Fail /\ UNCHANGED landed ELSE NextStep

AfterRevert == Fail /\ UNCHANGED landed

\* The contract rejects it.
Reverts ==
  /\ phase = "call" /\ Step \notin Computed
  /\ Refused
  /\ AfterRevert
  /\ UNCHANGED <<allVars, own, faults>>

\* The node does not take it, or takes it and does not say so; or a read fails.
CallFails ==
  /\ phase = "call"
  /\ Fault /\ Fail
  /\ \/ Step \notin Computed /\ Transaction /\ landed' = Append(landed, step)
     \/ UNCHANGED <<allVars, own, landed>>

\* A slip: the transaction is sent again, not only awaited.
PhaseOfResend == "call"

PhaseOfRetry == phase

\* waitRobust and findEventInReceipt: the node names no receipt, or one without its logs.
Retry ==
  /\ phase \in {"waiting", "reading"}
  /\ Fault
  /\ attempts < RETRIES
  /\ attempts' = attempts + 1
  /\ phase' = PhaseOfRetry
  /\ UNCHANGED <<allVars, own, landed, deployment, scenario, step, outcome, strangerCalls>>

\* The last attempt, or in a wait another kind of error.
GiveUp ==
  /\ phase = "waiting" \/ (phase = "reading" /\ attempts = RETRIES)
  /\ Fault /\ Fail
  /\ UNCHANGED <<allVars, own, landed>>

Acknowledged ==
  /\ \/ /\ phase = "waiting" /\ Step \in MakesSomething
        /\ phase' = "reading" /\ attempts' = 0
        /\ UNCHANGED <<deployment, scenario, step, outcome, landed, strangerCalls>>
     \/ /\ phase = "reading" \/ (phase = "waiting" /\ Step \notin MakesSomething)
        /\ NextStep
  /\ UNCHANGED <<allVars, own, faults>>

\* Both investigators are asked before the first report is sent.
Investigate ==
  /\ phase = "call" /\ Step = "investigate"
  /\ \E v, w \in Verdicts : own' = [own EXCEPT !.verdictA = v, !.verdictB = w]
  /\ NextStep
  /\ UNCHANGED <<allVars, faults>>

-----------------------------------------------------------------------------
(***************************************************************************)
(* waitForChallengeWindow sets the clock of a devnet forward; on any other *)
(* network it sleeps for as long as the window is open, but never longer   *)
(* than 15 seconds.                                                        *)
(***************************************************************************)
Waiting == phase = "call" /\ Step = "waitForChallengeWindow"

ClockAt(time) ==
  /\ now' = time
  /\ UNCHANGED <<claimVars, caseVars, evidenceVars, reportVars, moneyVars, identityVars, links>>

SetClock ==
  /\ Waiting /\ deployment = "localDevnet"
  /\ ClockAt(now + DEVNET_SKIP)
  /\ NextStep
  /\ UNCHANGED <<own, faults>>

StartSleeping ==
  /\ Waiting /\ deployment # "localDevnet"
  /\ phase' = "sleeping"
  /\ own' = [own EXCEPT !.wakesAt = Min({challenges[own.caseId].windowCloseAt, now + MAX_WINDOW_WAIT})]
  /\ UNCHANGED <<allVars, deployment, scenario, step, attempts, outcome, landed, countVars>>

StopSleeping ==
  /\ phase = "sleeping"
  /\ ClockAt(Max({now, own.wakesAt}))
  /\ NextStep
  /\ UNCHANGED <<own, faults>>

DriverStep ==
  /\ outcome = "running"
  /\ \/ Lands \/ Reverts \/ CallFails \/ Retry \/ GiveUp \/ Acknowledged
     \/ Investigate \/ SetClock \/ StartSleeping \/ StopSleeping

-----------------------------------------------------------------------------
(***************************************************************************)
(* The others.                                                             *)
(***************************************************************************)
StrangerCall ==
  /\ outcome = "running" /\ strangerCalls < MaxStrangerCalls
  /\ \/ \E clA, clB \in Claims, relation \in RelationshipType : RecordRelationship(clA, clB, relation)
     \/ \E ch \in Challenges, cl \in Claims, a \in Strangers, type \in ChallengeType, v \in Amounts :
          OpenChallenge(ch, cl, a, type, v)
     \/ \E ch \in Challenges : challenges[ch].exists /\
          \/ \E e \in EvidenceIds : SubmitEvidence(ch, e)
          \/ \E root \in Roots : LockEvidence(ch, root)
          \/ BeginInvestigation(ch)
          \/ \E a \in Strangers, v \in Verdicts, bundle \in Roots : SubmitReport(ch, a, v, bundle)
          \/ \E status \in VerdictStatus, refusing \in SUBSET Contracts : Resolve(ch, status, refusing)
          \/ FileAppeal(ch)
  /\ strangerCalls' = strangerCalls + 1
  /\ UNCHANGED <<identityVars, links, progressVars, own, landed, faults>>

TimePasses == outcome = "running" /\ Tick /\ UNCHANGED <<identityVars, links, driverVars>>

\* A run that has ended stays as it is; one that has not is never stuck.
Ended == outcome # "running" /\ UNCHANGED demoVars

DemoNext == DriverStep \/ StrangerCall \/ TimePasses \/ Ended

DemoSpec == DemoInit /\ [][DemoNext]_demoVars

-----------------------------------------------------------------------------
(***************************************************************************)
(* server.ts: "a failure is always a real HTTP error, never a fabricated   *)
(* success".  A run that reports success reports what the chain holds: the *)
(* verdict it computed off-chain, on the root it computed, with its own    *)
(* reports among those judged and a bond settled.                          *)
(***************************************************************************)
ResultMatchesChain ==
  outcome = "ok" /\ scenario # "A" =>
    LET ch == own.caseId
        reported(a, v) == \E i \in 1..Len(reports[ch]) :
          reports[ch][i].investigator = a /\ reports[ch][i].verdict = v
    IN /\ verdicts[ch].exists /\ verdicts[ch].status = own.status
       /\ challenges[ch].evidenceRoot = OwnRoot
       /\ reported(makeChain("investigatorA"), own.verdictA) /\ reported(makeChain("investigatorB"), own.verdictB)
       /\ challenges[ch].bond = 0

(***************************************************************************)
(* No transaction is sent twice, however often the wait for it is repeated *)
(* or its receipt read anew, and a run never goes on without the effect of *)
(* the step before.                                                        *)
(***************************************************************************)
EachTransactionOnce ==
  LET transactions(k) == {i \in 1..k : Program[scenario][i] \notin Computed}
  IN /\ \A i, j \in 1..Len(landed) : i < j => landed[i] < landed[j]
     /\ transactions(step - 1) \subseteq Range(landed)
     /\ Range(landed) \subseteq transactions(step)
     /\ phase # "call" => Range(landed) = transactions(step)

(***************************************************************************)
(* Undisturbed, by the node or by others, a run succeeds, but for two      *)
(* cases: AUDIT.md, addendum 7, names the first (one account cannot make   *)
(* both reports); WindowOverWhenResolving, which fails, is the second.     *)
(***************************************************************************)
SucceedsUndisturbed ==
  outcome = "error" =>
    \/ faults > 0 \/ strangerCalls > 0
    \/ deployment = "oneKey" /\ Step = "reportB"
    \/ Step = "resolve" /\ ~WindowClosed(own.caseId)

(***************************************************************************)
(* The contract's window is "deliberately short for local/testnet demos",  *)
(* so that the driver can wait for it: when it resolves, the window is     *)
(* over.                                                                   *)
(***************************************************************************)
WindowOverWhenResolving ==
  outcome = "running" /\ phase = "call" /\ Step = "resolve" => WindowClosed(own.caseId)
==============================================================================
