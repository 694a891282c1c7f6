---------------------------- MODULE IndexedRegistry ----------------------------
(***************************************************************************)
(* The two contracts with the events they emit, and the read model the     *)
(* indexer rebuilds from those events.                                     *)
(*                                                                         *)
(* resolve() emits InvestigatorPaid after each transfer that went through  *)
(* and Resolved at its very end; the recipient of a transfer runs before   *)
(* the event that follows it, and may call the contracts from there.  So   *)
(* resolve() leaves its events in unemitted, with the account that runs    *)
(* before each, and until they are out only such an account makes calls.   *)
(*                                                                         *)
(* The log itself is not kept: indexed is what applyLogs makes of it, the  *)
(* state after each event being a function of the state before.            *)
(***************************************************************************)
EXTENDS IdentifiedReports

CONSTANTS
  Callers,          \* the accounts whose code calls the contracts when it is paid
  MaxRegistryLog    \* bound on the length of the investigator registry's log

ASSUME CallersAssumption == Callers \subseteq Contracts

VARIABLES
  unemitted,    \* the events a running resolve() is yet to emit
  calledBack,   \* history: whether a call was made while resolve() was paying
  indexed,      \* applyLogs of the registry's log
  registryLog   \* the investigator registry's log

indexVars == <<unemitted, calledBack, indexed, registryLog>>
systemVars == <<allVars, indexVars>>

Store == INSTANCE EventStore

\* What rebuildFromChain returns now.
State == Store!ApplyRegistryLogs(registryLog, indexed)

SystemInit ==
  /\ IdentifiedInit
  /\ unemitted = <<>>
  /\ calledBack = FALSE
  /\ indexed = Store!EmptyState
  /\ registryLog = <<>>

-----------------------------------------------------------------------------
\* A call is made by a transaction, or by the account that was just paid.
MayCall(caller) ==
  unemitted # <<>> => caller = Head(unemitted).payee /\ caller \in Callers

Emit(events) ==
  /\ indexed' = Store!ApplyLogs(events, indexed)
  /\ UNCHANGED <<unemitted, registryLog>>

ClaimCall ==
  \/ \E cl \in Claims :
       CreateClaim(cl) /\ Emit(<<[name |-> "ClaimCreated", claimId |-> cl]>>)
  \/ \E clA, clB \in Claims, relation \in RelationshipType :
       /\ RecordRelationship(clA, clB, relation)
       /\ Emit(IF relation = "SUPERSEDES" /\ Supersedable(clA)
               THEN <<[name |-> "Superseded", oldClaimId |-> clA, newClaimId |-> clB,
                       occurredAt |-> now]>>
               ELSE <<>>)

EvidenceCall ==
  \/ \E s \in Subjects, e \in EvidenceIds :
       SubmitEvidence(s, e) /\ Emit(<<[name |-> "EvidenceSubmitted", subjectId |-> s, evidenceId |-> e]>>)
  \/ \E s \in Subjects, root \in Roots :
       LockEvidence(s, root) /\ Emit(<<[name |-> "EvidenceLocked", subjectId |-> s, evidenceRoot |-> root]>>)

Opened(ch, cl, caller, type, value, closesAt) ==
  [ name |-> "ChallengeOpened", challengeId |-> ch, claimId |-> cl, challengeType |-> type,
    challenger |-> caller, bond |-> value, windowCloseAt |-> closesAt ]

CaseCall(caller) ==
  \E ch \in Challenges :
    \/ \E cl \in Claims, type \in ChallengeType, v \in Amounts :
         /\ OpenChallenge(ch, cl, caller, type, v)
         /\ Emit(<<Opened(ch, cl, caller, type, v, now + DEFAULT_CHALLENGE_WINDOW)>>)
    \/ \E cl \in Claims, v \in Amounts :
         /\ RequestVerification(ch, cl, caller, v)
         /\ Emit(<<Opened(ch, cl, caller, "VERIFICATION_REQUEST", v, now)>>)
    \/ /\ BeginInvestigation(ch)
       /\ Emit(<<[name |-> "InvestigationStarted", challengeId |-> ch]>>)

Submitted(ch, caller, verdict) ==
  [name |-> "ReportSubmitted", challengeId |-> ch, investigator |-> caller, verdict |-> verdict]

ReportCall(caller) ==
  \E ch \in Challenges, v \in Verdicts, bundle \in Roots :
    \/ /\ SubmitReport(ch, caller, v, bundle) /\ UNCHANGED links
       /\ Emit(<<Submitted(ch, caller, v)>>)
    \/ \E id \in Investigators :
         /\ SubmitReportAsIdentity(ch, caller, id, v, bundle)
         /\ Emit(<<Submitted(ch, caller, v),
                   [ name |-> "ReportIdentityLinked", challengeId |-> ch,
                     investigator |-> caller, investigatorId |-> id ]>>)

\* A slip: the event does not wait for what the transfer returned.
AllReporters(ch, refusing) == investigatorsOf[ch]

\* The loop of _settleBond over the reporters: those that take their share.
Accepting(ch, refusing) ==
  LET all == investigatorsOf[ch]
      taking[n \in 0..Len(all)] ==
        IF n = 0 THEN <<>>
        ELSE IF all[n] \in refusing THEN taking[n - 1] ELSE Append(taking[n - 1], all[n])
  IN taking[Len(all)]

\* InvestigatorPaid for each reporter that takes its share, a share of zero
\* included, then Resolved, which follows the refund.
ResolutionEvents(ch, status, refusing) ==
  LET s == SettlementOf(ch, status, refusing)
      c == challenges[ch]
      payees == IF InvestigatorPool(c.bond, c.challengeType) > 0 THEN Accepting(ch, refusing) ELSE <<>>
      paid(a) == [ payee |-> a,
                   event |-> [ name |-> "InvestigatorPaid", challengeId |-> ch,
                               investigator |-> a, amount |-> s.share ] ]
      resolved == [ payee |-> IF s.refund > 0 THEN c.challenger ELSE None,
                    event |-> [ name |-> "Resolved", challengeId |-> ch, claimId |-> c.claimId,
                                status |-> status, occurredAt |-> now ] ]
  IN [i \in 1..Len(payees) |-> paid(payees[i])] \o <<resolved>>

\* A resolve() called from within another one emits its events first.
ResolveCall ==
  \E ch \in Challenges, status \in VerdictStatus, refusing \in SUBSET Contracts :
    /\ Resolve(ch, status, refusing)
    /\ unemitted' = ResolutionEvents(ch, status, refusing) \o unemitted
    /\ UNCHANGED <<indexed, registryLog>>

EmitNext ==
  /\ unemitted # <<>>
  /\ indexed' = Store!ApplyLogs(<<Head(unemitted).event>>, indexed)
  /\ unemitted' = Tail(unemitted)
  /\ UNCHANGED <<allVars, calledBack, registryLog>>

AppealCall ==
  \/ \E ch \in Challenges :
       /\ FileAppeal(ch)
       /\ Emit(<<[name |-> "AppealFiled", appealId |-> Len(appeals'), challengeId |-> ch]>>)
  \/ \E appealId \in 1..Len(appeals) :
       ResolveAppeal(appealId) /\ Emit(<<[name |-> "AppealResolved", appealId |-> appealId]>>)

IdentityCall(caller) ==
  \E id \in Investigators :
    \/ \E parentId \in Investigators \cup {None} :
         /\ Identities!Register(id, caller, parentId)
         /\ registryLog' = Append(registryLog,
              [ name |-> "InvestigatorRegistered", investigatorId |-> id,
                controller |-> caller, parentId |-> parentId ])
         /\ UNCHANGED <<unemitted, indexed>>
    \/ \E newController \in Accounts :
         /\ Len(registryLog) < MaxRegistryLog
         /\ Identities!RotateController(id, caller, newController)
         /\ registryLog' = Append(registryLog,
              [ name |-> "ControllerRotated", investigatorId |-> id,
                newController |-> newController ])
         /\ UNCHANGED <<unemitted, indexed>>

\* The calls of one account; calls the contracts do not ask the sender of included.
Call(caller) ==
  \/ (ClaimCall \/ EvidenceCall \/ CaseCall(caller) \/ ResolveCall \/ AppealCall)
       /\ UNCHANGED <<identityVars, links>>
  \/ ReportCall(caller) /\ UNCHANGED identityVars
  \/ IdentityCall(caller) /\ UNCHANGED <<vars, links>>

SystemNext ==
  \/ /\ \E a \in Accounts : MayCall(a) /\ Call(a)
     /\ calledBack' = (calledBack \/ unemitted # <<>>)
  \/ EmitNext
  \/ unemitted = <<>> /\ Tick /\ UNCHANGED <<identityVars, links, indexVars>>

SystemSpec == SystemInit /\ [][SystemNext]_systemVars

-----------------------------------------------------------------------------
(***************************************************************************)
(* Safety.  What follows holds between transactions, and what says so only *)
(* as long as no payee ever called the contracts while resolve() paid it.  *)
(***************************************************************************)
Settled == unemitted = <<>>

Undisturbed == Settled /\ ~calledBack

Existing(records) == {id \in DOMAIN records : records[id].exists}

\* A claim with the cases about it, as the read model has it.
ClaimIndexed(cl) ==
  LET claim == State.claims[cl]
  IN /\ claim.status = claims[cl].status
     /\ claim.validUntil = claims[cl].validUntil
     /\ Store!Range(claim.challengeIds) =
          {ch \in Existing(challenges) : challenges[ch].claimId = cl}

\* A case with its verdict and appeals, as the read model has it.
CaseIndexed(ch) ==
  LET case == State.challenges[ch]
  IN /\ case.claimId = challenges[ch].claimId
     /\ case.state = challenges[ch].state
     /\ case.evidenceRoot = challenges[ch].evidenceRoot
     /\ case.windowCloseAt = challenges[ch].windowCloseAt
     /\ case.verdict =
          IF verdicts[ch].exists
          THEN [status |-> verdicts[ch].status, resolvedAt |-> verdicts[ch].resolvedAt]
          ELSE None
     /\ Store!Range(case.appeals) =
          {[appealId |-> i, resolved |-> appeals[i].resolved] :
             i \in {j \in 1..Len(appeals) : appeals[j].challengeId = ch}}

(***************************************************************************)
(* A rebuild from nothing knows the claims and cases of the chain, gives   *)
(* each claim the status and valid time it has there and the cases about   *)
(* it, and each case its state, root, verdict and appeals, though events   *)
(* name no state and an appeal's resolution no case; undisturbed.          *)
(***************************************************************************)
ReadModelExact ==
  Undisturbed =>
    /\ DOMAIN State.claims = Existing(claims)
    /\ DOMAIN State.challenges = Existing(challenges)
    /\ \A cl \in Existing(claims) : ClaimIndexed(cl)
    /\ \A ch \in Existing(challenges) : CaseIndexed(ch)

(***************************************************************************)
(* What a rebuild knows of the work on a case is what the contract counts: *)
(* the same reports in the same order, evidence that is the latest part of *)
(* what was submitted, and payouts that add up to what left the escrow,    *)
(* whatever a payee called while it was paid.                              *)
(***************************************************************************)
WorkIndexed ==
  Settled =>
    \A ch \in Existing(challenges) :
      LET case == State.challenges[ch]
      IN /\ Len(case.reports) = tally[ch].total
         /\ \A i \in 1..Len(case.reports) :
              /\ case.reports[i].investigator = investigatorsOf[ch][i]
              /\ case.reports[i].verdict = reports[ch][i].verdict
         /\ Store!IsSuffix(case.evidenceIds, pendingEvidence[ch])
         /\ case.bondWei = ledger[ch].deposit
         /\ {p.investigator : p \in {case.payouts[i] : i \in {j \in DOMAIN case.payouts :
              case.payouts[j].amountWei > 0}}} = ledger[ch].paid
         /\ \A i \in DOMAIN case.payouts : case.payouts[i].amountWei = ledger[ch].share

(***************************************************************************)
(* Each linked report is on the record of the identity that signed it, of  *)
(* no other, and that identity is indexed with its present controller: the *)
(* links come with one contract's log, the keys with the other's.  So it   *)
(* is even if a payee registered, rotated or reported while it was paid.   *)
(***************************************************************************)
IdentitiesIndexed ==
  Settled =>
    /\ DOMAIN State.investigators = Existing(investigators)
    /\ \A id \in Existing(investigators) :
         /\ State.investigators[id].controller = investigators[id].controller
         /\ State.investigators[id].parentId = investigators[id].parentId
    /\ \A ch \in Existing(challenges) : \A i \in 1..Len(reports[ch]) :
         LET signedAs == {k \in 1..Len(links) :
                            /\ links[k].challengeId = ch
                            /\ links[k].investigator = investigatorsOf[ch][i]}
             indexedAs == State.challenges[ch].reports[i].investigatorId
         IN IF signedAs = {} THEN indexedAs = None
            ELSE \A k \in signedAs : indexedAs = links[k].investigatorId

(***************************************************************************)
(* calibrationOf reads, for each link, the identity's first report of the  *)
(* case, and a rotated identity may have several; still it counts as if it *)
(* had compared each linked report with the verdict, contested ones apart. *)
(* Nor does it ever count a disagreement: a verdict is TRUE or FALSE by    *)
(* unanimity only.                                                         *)
(***************************************************************************)
CalibrationPerReport ==
  Settled =>
    \A id \in DOMAIN State.investigators :
      LET outcome(l) ==
            LET i == CHOOSE j \in LinkedReports(l) : TRUE
            IN Store!Agreement(State.challenges[l.challengeId].verdict,
                               reports[l.challengeId][i].verdict)
          outcomes(o) ==
            Cardinality({k \in 1..Len(links) : links[k].investigatorId = id /\ outcome(links[k]) = o})
          contested ==
            {k \in 1..Len(links) :
               /\ links[k].investigatorId = id
               /\ Store!Contested(State.challenges[links[k].challengeId].verdict)}
      IN /\ Store!CalibrationOf(State, id) =
              [ agreed |-> outcomes("agreed"), disagreed |-> 0, pending |-> outcomes("pending"),
                contestedInvolvement |-> Cardinality(contested) ]
         /\ outcomes("disagreed") = 0
=============================================================================
