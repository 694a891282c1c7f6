--------------------------- MODULE MemoryWarRegistry ---------------------------
(***************************************************************************)
(* The registry contract (src/contracts/contracts/MemoryWarRegistry.sol):  *)
(* claims, the challenges against them, evidence, investigator reports,    *)
(* mechanical resolution, settlement of the bond and appeals.              *)
(*                                                                         *)
(* One action per external function; a call that reverts is no step.  A    *)
(* call is atomic.  resolve() does hand control to the recipients of its   *)
(* transfers, but only after all of its own writes, so what a recipient    *)
(* calls from there is, for the contract's state, a later step; whether a  *)
(* recipient accepts its transfer is chosen anew at each settlement.       *)
(*                                                                         *)
(* Ids are hashes of the inputs, the caller and the time; here an id is a  *)
(* value nobody used yet.  Text, predicate and procedure hashes, authors,  *)
(* and the roots resolve() stores without looking at them are left out.    *)
(*                                                                         *)
(* An operator introduced as "A slip" is a mutated form of the definition  *)
(* that follows it; no specification uses it.                              *)
(***************************************************************************)
EXTENDS Resolution, Settlement

CONSTANTS
  Claims,        \* claim ids
  Challenges,    \* ids of challenges and verification requests
  Accounts,      \* addresses that call the contract
  Contracts,     \* the accounts with code, which may refuse a transfer
  EvidenceIds,   \* evidence ids
  Roots,         \* Merkle roots of evidence bundles, of which None may be one
  Amounts,       \* amounts sent along with openChallenge and requestVerification
  None,          \* the zero id, address and root
  DEFAULT_CHALLENGE_WINDOW,
  MaxTime,       \* bound on block.timestamp
  MaxEvidence    \* bound on the evidence submitted for one subject

Subjects == Claims \cup Challenges   \* what evidence can be about

ASSUME ConstantsAssumption ==
  /\ None \notin Claims \cup Challenges \cup Accounts
  /\ Claims \cap Challenges = {}
  /\ IsFiniteSet(Accounts) /\ Contracts \subseteq Accounts
  /\ Amounts \subseteq Nat
  /\ DEFAULT_CHALLENGE_WINDOW \in Nat
  /\ MaxTime \in Nat /\ MaxEvidence \in Nat

VARIABLES
  now,              \* block.timestamp
  claims,           \* claim id -> ClaimRecord
  challenges,       \* challenge id -> ChallengeRecord
  verdicts,         \* challenge id -> VerdictRecord
  pendingEvidence,  \* subject -> the evidence ids submitted so far
  evidenceLocked,   \* subject -> BOOLEAN
  hasReported,      \* challenge id -> the accounts that reported
  tally,            \* challenge id -> reportCount, supportsCount, ...
  investigatorsOf,  \* challenge id -> the reporters, in order
  appeals,          \* the appeals filed, in order of appealId
  balance,          \* native currency held by the contract
  reports,          \* history: challenge id -> its ReportSubmitted events
  ledger,           \* history: challenge id -> what was deposited and paid out
  supersededBy      \* history: claim id -> the claim its Superseded event names

caseVars == <<challenges, verdicts, appeals>>
evidenceVars == <<pendingEvidence, evidenceLocked>>
reportVars == <<hasReported, tally, investigatorsOf, reports>>
moneyVars == <<balance, ledger>>
claimVars == <<claims, supersededBy>>
vars == <<now, claimVars, caseVars, evidenceVars, reportVars, moneyVars>>

-----------------------------------------------------------------------------
ClaimStatus ==
  {"OPEN", "CHALLENGED", "EVIDENCE_LOCKED", "INVESTIGATING", "TRUE", "FALSE",
   "SUPERSEDED", "CONTESTED", "INCONCLUSIVE"}

ChallengeState == {"OPEN", "EVIDENCE_LOCKED", "INVESTIGATING", "RESOLVED", "APPEALED"}

RelationshipType ==
  {"CONTRADICTS", "RELATES_TO", "REFINES", "NARROWS", "EXTENDS", "SUPERSEDES"}

ClaimRecord == [status : ClaimStatus, validUntil : Nat, exists : BOOLEAN]

ChallengeRecord ==
  [ claimId : Claims \cup {None}, challengeType : ChallengeType,
    challenger : Accounts \cup {None}, bond : Nat, windowCloseAt : Nat,
    evidenceRoot : Roots \cup {None}, state : ChallengeState, exists : BOOLEAN ]

\* The record of a claim with a new status, and of a case with new values of
\* the fields that change after it was opened.
WithStatus(c, status) == [status |-> status, validUntil |-> c.validUntil, exists |-> c.exists]

Progressed(c, bond, root, state) ==
  [ claimId |-> c.claimId, challengeType |-> c.challengeType, challenger |-> c.challenger,
    bond |-> bond, windowCloseAt |-> c.windowCloseAt, evidenceRoot |-> root,
    state |-> state, exists |-> c.exists ]

VerdictRecord == [status : VerdictStatus, resolvedAt : Nat, exists : BOOLEAN]

AppealRecord == [challengeId : Challenges, resolved : BOOLEAN]

Report == [investigator : Accounts, verdict : Verdicts, evidenceBundleHash : Roots]

\* What the contract received for a case and what it transferred for it: the
\* bond, the share sent to each paid investigator, and the refund.
LedgerEntry == [deposit : Nat, share : Nat, paid : SUBSET Accounts, refund : Nat]

TypeOK ==
  /\ now \in Nat
  /\ claims \in [Claims -> ClaimRecord]
  /\ challenges \in [Challenges -> ChallengeRecord]
  /\ \A ch \in Challenges : challenges[ch].exists => challenges[ch].claimId \in Claims
  /\ verdicts \in [Challenges -> VerdictRecord]
  /\ pendingEvidence \in [Subjects -> Seq(EvidenceIds)]
  /\ evidenceLocked \in [Subjects -> BOOLEAN]
  /\ hasReported \in [Challenges -> SUBSET Accounts]
  /\ tally \in [Challenges -> Tally]
  /\ investigatorsOf \in [Challenges -> Seq(Accounts)]
  /\ appeals \in Seq(AppealRecord)
  /\ balance \in Int
  /\ reports \in [Challenges -> Seq(Report)]
  /\ ledger \in [Challenges -> LedgerEntry]
  /\ supersededBy \in [Claims -> Claims \cup {None}]

\* Storage reads as zero before it is written; block.timestamp is never zero.
Init ==
  /\ now = 1
  /\ claims = [cl \in Claims |-> [status |-> "OPEN", validUntil |-> 0, exists |-> FALSE]]
  /\ challenges = [ch \in Challenges |->
       [ claimId |-> None, challengeType |-> "CONTRADICTION", challenger |-> None,
         bond |-> 0, windowCloseAt |-> 0, evidenceRoot |-> None, state |-> "OPEN",
         exists |-> FALSE ]]
  /\ verdicts = [ch \in Challenges |-> [status |-> "NONE", resolvedAt |-> 0, exists |-> FALSE]]
  /\ pendingEvidence = [s \in Subjects |-> <<>>]
  /\ evidenceLocked = [s \in Subjects |-> FALSE]
  /\ hasReported = [ch \in Challenges |-> {}]
  /\ tally = [ch \in Challenges |-> EmptyTally]
  /\ investigatorsOf = [ch \in Challenges |-> <<>>]
  /\ appeals = <<>>
  /\ balance = 0
  /\ reports = [ch \in Challenges |-> <<>>]
  /\ ledger = [ch \in Challenges |-> [deposit |-> 0, share |-> 0, paid |-> {}, refund |-> 0]]
  /\ supersededBy = [cl \in Claims |-> None]

\* Time passes between blocks.
Tick == /\ now < MaxTime
        /\ now' = now + 1
        /\ UNCHANGED <<claimVars, caseVars, evidenceVars, reportVars, moneyVars>>

-----------------------------------------------------------------------------
(***************************************************************************)
(* Claims.                                                                 *)
(***************************************************************************)
CreateClaim(cl) ==
  /\ ~claims[cl].exists
  /\ claims' = [claims EXCEPT ![cl] = [status |-> "OPEN", validUntil |-> 0, exists |-> TRUE]]
  /\ UNCHANGED <<now, supersededBy, caseVars, evidenceVars, reportVars, moneyVars>>

\* A slip: a claim superseded already can be superseded anew.
SupersedableAgain(cl) == claims[cl].status \in {"OPEN", "TRUE", "SUPERSEDED"}

\* A claim nobody disputes, or one found true.
Supersedable(cl) == claims[cl].status \in {"OPEN", "TRUE"}

\* The edge itself is an event; only SUPERSEDES touches the older claim.
RecordRelationship(clA, clB, relation) ==
  /\ claims[clA].exists /\ claims[clB].exists
  /\ relation # "CONTRADICTS"
  /\ IF relation = "SUPERSEDES" /\ Supersedable(clA)
     THEN /\ claims' = [claims EXCEPT ![clA] =
               [status |-> "SUPERSEDED", validUntil |-> now, exists |-> TRUE]]
          /\ supersededBy' = [supersededBy EXCEPT ![clA] = clB]
     ELSE UNCHANGED claimVars
  /\ UNCHANGED <<now, caseVars, evidenceVars, reportVars, moneyVars>>

(***************************************************************************)
(* Evidence, about a bare claim, a challenge, or an id not used yet.       *)
(***************************************************************************)
\* A slip: only a challenge past its locking refuses evidence.
AcceptsUntilInvestigated(s) ==
  s \in Challenges => challenges[s].state \in {"OPEN", "EVIDENCE_LOCKED"}

AcceptsEvidence(s) == ~evidenceLocked[s]

SubmitEvidence(s, evidenceId) ==
  /\ AcceptsEvidence(s)
  /\ Len(pendingEvidence[s]) < MaxEvidence
  /\ pendingEvidence' = [pendingEvidence EXCEPT ![s] = Append(@, evidenceId)]
  /\ UNCHANGED <<now, claimVars, caseVars, evidenceLocked, reportVars, moneyVars>>

\* The root is the caller's, zero included; nothing compares it with the
\* evidence.  Locking an id that is no challenge (yet) only sets the flag.
LockEvidence(s, root) ==
  /\ ~evidenceLocked[s]
  /\ evidenceLocked' = [evidenceLocked EXCEPT ![s] = TRUE]
  /\ IF s \in Challenges /\ challenges[s].exists
     THEN /\ challenges[s].state = "OPEN"
          /\ challenges' = [challenges EXCEPT ![s] =
               Progressed(@, @.bond, root, "EVIDENCE_LOCKED")]
          /\ claims' = [claims EXCEPT ![challenges[s].claimId] = WithStatus(@, "EVIDENCE_LOCKED")]
     ELSE UNCHANGED <<claims, challenges>>
  /\ UNCHANGED <<now, supersededBy, verdicts, appeals, pendingEvidence, reportVars, moneyVars>>

(***************************************************************************)
(* Challenges and verification requests.                                   *)
(***************************************************************************)
\* A slip: an undecided claim can be challenged again, as in protocol-core.
ChallengeableAgain(cl) ==
  claims[cl].exists /\ claims[cl].status \in {"OPEN", "CONTESTED", "INCONCLUSIVE"}

Challengeable(cl) == claims[cl].exists /\ claims[cl].status = "OPEN"

\* What both functions do once their guards passed.
OpenCase(ch, cl, caller, challengeType, value, closesAt) ==
  /\ ~challenges[ch].exists
  /\ challenges' = [challenges EXCEPT ![ch] =
       [ claimId |-> cl, challengeType |-> challengeType, challenger |-> caller,
         bond |-> value, windowCloseAt |-> closesAt, evidenceRoot |-> None,
         state |-> "OPEN", exists |-> TRUE ]]
  /\ claims' = [claims EXCEPT ![cl] = WithStatus(@, "CHALLENGED")]
  /\ balance' = balance + value
  /\ ledger' = [ledger EXCEPT ![ch] = [deposit |-> value, share |-> 0, paid |-> {}, refund |-> 0]]
  /\ UNCHANGED <<now, supersededBy, verdicts, appeals, evidenceVars, reportVars>>

OpenChallenge(ch, cl, caller, challengeType, value) ==
  /\ Challengeable(cl)
  /\ OpenCase(ch, cl, caller, challengeType, value, now + DEFAULT_CHALLENGE_WINDOW)

RequestVerification(ch, cl, caller, value) ==
  /\ Challengeable(cl)
  /\ value > 0
  /\ OpenCase(ch, cl, caller, "VERIFICATION_REQUEST", value, now)

\* A slip: investigation starts on evidence that is not locked.
ReadyUnlocked(ch) == challenges[ch].exists /\ challenges[ch].state \in {"OPEN", "EVIDENCE_LOCKED"}

ReadyToInvestigate(ch) == challenges[ch].exists /\ challenges[ch].state = "EVIDENCE_LOCKED"

BeginInvestigation(ch) ==
  /\ ReadyToInvestigate(ch)
  /\ challenges' = [challenges EXCEPT ![ch] = Progressed(@, @.bond, @.evidenceRoot, "INVESTIGATING")]
  /\ claims' = [claims EXCEPT ![challenges[ch].claimId] = WithStatus(@, "INVESTIGATING")]
  /\ UNCHANGED <<now, supersededBy, verdicts, appeals, evidenceVars, reportVars, moneyVars>>

(***************************************************************************)
(* Reports.                                                                *)
(***************************************************************************)
\* A slip: reports are taken once the evidence is locked, and for good.
TakesLateReports(ch) == challenges[ch].exists /\ challenges[ch].state # "OPEN"

TakesReports(ch) == challenges[ch].exists /\ challenges[ch].state = "INVESTIGATING"

\* A slip: an investigator may report again after somebody else did.
MayReportAgain(ch, caller) ==
  investigatorsOf[ch] # <<>> => investigatorsOf[ch][Len(investigatorsOf[ch])] # caller

MayReport(ch, caller) == caller \notin hasReported[ch]

\* A slip: an abstention is counted as a rejection.
CountBinary(t, verdict) ==
  [ total |-> t.total + 1,
    supports |-> t.supports + (IF verdict = "SUPPORTS" THEN 1 ELSE 0),
    rejects |-> t.rejects + (IF verdict = "SUPPORTS" THEN 0 ELSE 1),
    insufficient |-> t.insufficient ]

Count(t, verdict) ==
  [ total |-> t.total + 1,
    supports |-> t.supports + (IF verdict = "SUPPORTS" THEN 1 ELSE 0),
    rejects |-> t.rejects + (IF verdict = "REJECTS" THEN 1 ELSE 0),
    insufficient |-> t.insufficient + (IF verdict = "INSUFFICIENT_EVIDENCE" THEN 1 ELSE 0) ]

\* The bundle hash goes into the event; nothing compares it with the root.
SubmitReport(ch, caller, verdict, bundle) ==
  /\ TakesReports(ch)
  /\ MayReport(ch, caller)
  /\ hasReported' = [hasReported EXCEPT ![ch] = @ \cup {caller}]
  /\ investigatorsOf' = [investigatorsOf EXCEPT ![ch] = Append(@, caller)]
  /\ tally' = [tally EXCEPT ![ch] = Count(@, verdict)]
  /\ reports' = [reports EXCEPT ![ch] = Append(@,
       [investigator |-> caller, verdict |-> verdict, evidenceBundleHash |-> bundle])]
  /\ UNCHANGED <<now, claimVars, caseVars, evidenceVars, moneyVars>>

(***************************************************************************)
(* Resolution and settlement.                                              *)
(***************************************************************************)
\* A slip: with too few reports resolve() reverts instead of answering INCONCLUSIVE.
ResolvableWithReports(ch) ==
  /\ challenges[ch].exists /\ challenges[ch].state = "INVESTIGATING"
  /\ tally[ch].total >= MIN_REPORTS_REQUIRED

\* A slip: a resolved case can be settled again.
ResolvableTwice(ch) == challenges[ch].exists /\ challenges[ch].state \in {"INVESTIGATING", "RESOLVED"}

Resolvable(ch) == challenges[ch].exists /\ challenges[ch].state = "INVESTIGATING"

WindowClosed(ch) == now >= challenges[ch].windowCloseAt

\* The indices of the reporters whose share the contract fails to transfer.
Refusals(ch, refusing) == {i \in 1..Len(investigatorsOf[ch]) : investigatorsOf[ch][i] \in refusing}

SettlementOf(ch, status, refusing) ==
  SettleBond(challenges[ch].bond, challenges[ch].challengeType, status,
             Len(investigatorsOf[ch]), Cardinality(Refusals(ch, refusing)))

\* A slip: the bond stays on the books after it was paid out.
BondKept(ch) == challenges[ch].bond

BondAfter(ch) == 0

\* A slip: the share of a refusing investigator is subtracted all the same.
OutflowAll(ch, s, refusing) == s.share * Len(investigatorsOf[ch]) + s.refund

\* What leaves the contract: a share for each reporter that accepts it, and the refund.
Outflow(ch, s, refusing) ==
  s.share * (Len(investigatorsOf[ch]) - Cardinality(Refusals(ch, refusing))) + s.refund

\* The caller's status must be the expected one.  The investigators in
\* refusing do not get their share; a challenger who refuses a refund
\* reverts the whole call, so here a refund that is due is accepted.
Resolve(ch, status, refusing) ==
  LET s == SettlementOf(ch, status, refusing)
  IN /\ Resolvable(ch)
     /\ WindowClosed(ch)
     /\ status # "NONE"
     /\ status = ExpectedStatus(tally[ch])
     /\ challenges' = [challenges EXCEPT ![ch] =
          Progressed(@, BondAfter(ch), @.evidenceRoot, "RESOLVED")]
     /\ claims' = [claims EXCEPT ![challenges[ch].claimId] = WithStatus(@, ClaimStatusFor(status))]
     /\ verdicts' = [verdicts EXCEPT ![ch] =
          [status |-> status, resolvedAt |-> now, exists |-> TRUE]]
     /\ balance' = balance - Outflow(ch, s, refusing)
     /\ ledger' = [ledger EXCEPT ![ch] =
          [ deposit |-> @.deposit, share |-> s.share,
            paid |-> IF s.share > 0 THEN hasReported[ch] \ refusing ELSE {},
            refund |-> s.refund ]]
     /\ UNCHANGED <<now, supersededBy, appeals, evidenceVars, reportVars>>

(***************************************************************************)
(* Appeals.                                                                *)
(***************************************************************************)
Appealable(ch) == challenges[ch].exists /\ challenges[ch].state = "RESOLVED"

FileAppeal(ch) ==
  /\ Appealable(ch)
  /\ challenges' = [challenges EXCEPT ![ch] = Progressed(@, @.bond, @.evidenceRoot, "APPEALED")]
  /\ appeals' = Append(appeals, [challengeId |-> ch, resolved |-> FALSE])
  /\ UNCHANGED <<now, claimVars, verdicts, evidenceVars, reportVars, moneyVars>>

\* The new status is an event only: neither claim nor verdict changes.
ResolveAppeal(appealId) ==
  /\ ~appeals[appealId].resolved
  /\ appeals' = [appeals EXCEPT ![appealId] = [challengeId |-> @.challengeId, resolved |-> TRUE]]
  /\ UNCHANGED <<now, claimVars, challenges, verdicts, evidenceVars, reportVars, moneyVars>>

-----------------------------------------------------------------------------
Next ==
  \/ Tick
  \/ \E cl \in Claims : CreateClaim(cl)
  \/ \E clA, clB \in Claims, relation \in RelationshipType : RecordRelationship(clA, clB, relation)
  \/ \E s \in Subjects, e \in EvidenceIds : SubmitEvidence(s, e)
  \/ \E s \in Subjects, root \in Roots : LockEvidence(s, root)
  \/ \E ch \in Challenges, cl \in Claims, a \in Accounts, type \in ChallengeType, v \in Amounts :
       OpenChallenge(ch, cl, a, type, v)
  \/ \E ch \in Challenges, cl \in Claims, a \in Accounts, v \in Amounts :
       RequestVerification(ch, cl, a, v)
  \/ \E ch \in Challenges : BeginInvestigation(ch)
  \/ \E ch \in Challenges, a \in Accounts, v \in Verdicts, bundle \in Roots :
       SubmitReport(ch, a, v, bundle)
  \/ \E ch \in Challenges, status \in VerdictStatus, refusing \in SUBSET Contracts :
       Resolve(ch, status, refusing)
  \/ \E ch \in Challenges : FileAppeal(ch)
  \/ \E appealId \in 1..Len(appeals) : ResolveAppeal(appealId)

Spec == Init /\ [][Next]_vars

-----------------------------------------------------------------------------
(***************************************************************************)
(* Safety.                                                                 *)
(***************************************************************************)
Decided(ch) == challenges[ch].state \in {"RESOLVED", "APPEALED"}

\* The claim status that goes with the state of its case.
StatusDuring(ch) ==
  IF challenges[ch].state = "OPEN" THEN "CHALLENGED"
  ELSE IF Decided(ch) THEN ClaimStatusFor(verdicts[ch].status)
  ELSE challenges[ch].state

\* A case agrees with the claim it is about.
Agrees(ch) ==
  LET claim == claims[challenges[ch].claimId]
  IN /\ claim.exists
     /\ \/ claim.status = StatusDuring(ch)
        \/ StatusDuring(ch) = "TRUE" /\ claim.status = "SUPERSEDED"

(***************************************************************************)
(* The two records resolve() and its predecessors write side by side never *)
(* drift apart: a case is about an existing claim whose status mirrors the *)
(* state of the case, or, once found TRUE, may have been superseded since. *)
(***************************************************************************)
StatusesAgree == \A ch \in Challenges : challenges[ch].exists => Agrees(ch)

(***************************************************************************)
(* No two cases are ever opened about one claim, in whatever order the     *)
(* challengers and requesters race, so no case can overwrite the status    *)
(* another one gave the claim.                                             *)
(***************************************************************************)
OneCasePerClaim ==
  \A ch1, ch2 \in Challenges :
    /\ challenges[ch1].exists /\ challenges[ch2].exists
    /\ challenges[ch1].claimId = challenges[ch2].claimId
    => ch1 = ch2

(***************************************************************************)
(* The tallies resolve() decides by, the replay guard and the list of      *)
(* payees are three views of the same reports: each report is counted once *)
(* under its verdict, and each reporter is there once.                     *)
(***************************************************************************)
TalliesMatchReports ==
  \A ch \in Challenges :
    /\ tally[ch] = TallyOf(reports[ch])
    /\ Len(investigatorsOf[ch]) = Len(reports[ch])
    /\ \A i \in 1..Len(reports[ch]) : investigatorsOf[ch][i] = reports[ch][i].investigator
    /\ hasReported[ch] = {investigatorsOf[ch][i] : i \in 1..Len(investigatorsOf[ch])}
    /\ \A i, j \in 1..Len(investigatorsOf[ch]) :
         investigatorsOf[ch][i] = investigatorsOf[ch][j] => i = j

(***************************************************************************)
(* Anybody can audit a verdict later: a decided case has a verdict, an     *)
(* undecided one has none, and the verdict is what the disclosed procedure *)
(* gives for all the reports of the case, none of which came afterwards.   *)
(***************************************************************************)
VerdictMatchesReports ==
  \A ch \in Challenges :
    /\ verdicts[ch].exists <=> challenges[ch].exists /\ Decided(ch)
    /\ verdicts[ch].exists => verdicts[ch].status = ExpectedStatus(TallyOf(reports[ch]))

(***************************************************************************)
(* The bond of a case is escrowed whole until the case is decided, and     *)
(* then is off the books, with at most the deposit paid out: no refund to  *)
(* a requester or to a challenger proven wrong, none paid but reporters.   *)
(***************************************************************************)
BondAccounted ==
  \A ch \in Challenges :
    LET entry == ledger[ch]
    IN /\ ~Decided(ch) => /\ challenges[ch].bond = entry.deposit
                          /\ entry.paid = {} /\ entry.refund = 0
       /\ Decided(ch) => challenges[ch].bond = 0
       /\ entry.paid \subseteq hasReported[ch]
       /\ entry.share * Cardinality(entry.paid) + entry.refund <= entry.deposit
       /\ entry.refund > 0 => Refunded(challenges[ch].challengeType, verdicts[ch].status)

(***************************************************************************)
(* What a step may never do.  Investigators judge what was locked and      *)
(* nothing else: once evidence is locked nothing is added to it and the    *)
(* root of its case stays, whatever root was given, and no report is filed *)
(* before that.                                                            *)
(***************************************************************************)
LockedEvidenceFrozen ==
  [][ /\ \A s \in Subjects : evidenceLocked[s] =>
           /\ evidenceLocked'[s]
           /\ pendingEvidence'[s] = pendingEvidence[s]
           /\ s \in Challenges /\ challenges[s].exists =>
                challenges'[s].evidenceRoot = challenges[s].evidenceRoot
      /\ \A ch \in Challenges : reports'[ch] # reports[ch] => evidenceLocked[ch] ]_vars

(***************************************************************************)
(* A verdict is final: no later call, an appeal included, changes it, the  *)
(* reports it rests on, or what was paid for the case.                     *)
(***************************************************************************)
VerdictsFinal ==
  [][ \A ch \in Challenges : verdicts[ch].exists =>
        /\ verdicts'[ch] = verdicts[ch]
        /\ reports'[ch] = reports[ch] /\ tally'[ch] = tally[ch]
        /\ ledger'[ch] = ledger[ch] ]_vars

(***************************************************************************)
(* The valid time of a claim is closed once, by the step that supersedes   *)
(* it, and from then on nothing about the claim changes.                   *)
(***************************************************************************)
ValidTimeClosedOnce ==
  [][ \A cl \in Claims :
        /\ claims[cl].validUntil # 0 =>
             claims'[cl] = claims[cl] /\ supersededBy'[cl] = supersededBy[cl]
        /\ claims'[cl].validUntil # 0 <=> claims'[cl].status = "SUPERSEDED" ]_vars

(***************************************************************************)
(* The contract implements the lifecycle protocol-core promises.           *)
(***************************************************************************)
Promised == INSTANCE Lifecycle WITH
  claimStatus    <- [cl \in Claims |-> IF claims[cl].exists THEN claims[cl].status ELSE "ABSENT"],
  challengeState <- [ch \in Challenges |->
                       IF challenges[ch].exists THEN challenges[ch].state ELSE "ABSENT"]

LifecycleKept == Promised!Spec
=============================================================================
