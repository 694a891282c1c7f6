------------------------------- MODULE EventStore -------------------------------
(***************************************************************************)
(* The indexer's read model (src/apps/indexer/src/eventStore.ts): what one *)
(* event of the registry or of the investigator registry does to it.  A    *)
(* Map is a function whose domain grows.  Hashes, authors, block numbers,  *)
(* times no property reads and the list of relationships are left out.     *)
(***************************************************************************)
EXTENDS Integers, Sequences, SequencesExt

CONSTANT None

EmptyState == [claims |-> <<>>, challenges |-> <<>>, investigators |-> <<>>]

\* The entry of a map for a key, made with defaults when there is none yet.
GetClaim(state, id) ==
  IF id \in DOMAIN state.claims THEN state.claims[id]
  ELSE [status |-> "OPEN", validUntil |-> 0, challengeIds |-> <<>>]

GetChallenge(state, id) ==
  IF id \in DOMAIN state.challenges THEN state.challenges[id]
  ELSE [ claimId |-> None, challengeType |-> "CONTRADICTION", challenger |-> None, bondWei |-> 0,
         windowCloseAt |-> 0, evidenceRoot |-> None, state |-> "OPEN", evidenceIds |-> <<>>,
         reports |-> <<>>, verdict |-> None, appeals |-> <<>>, payouts |-> <<>> ]

GetInvestigator(state, id) ==
  IF id \in DOMAIN state.investigators THEN state.investigators[id]
  ELSE [controller |-> None, parentId |-> None, controllerHistory |-> <<>>, linkedReports |-> <<>>]

\* Map.set.
SetEntry(map, id, value) == [k \in DOMAIN map \cup {id} |-> IF k = id THEN value ELSE map[k]]

PutClaim(state, id, claim) == [state EXCEPT !.claims = SetEntry(@, id, claim)]

PutChallenge(state, id, challenge) == [state EXCEPT !.challenges = SetEntry(@, id, challenge)]

PutInvestigator(state, id, inv) == [state EXCEPT !.investigators = SetEntry(@, id, inv)]

\* A new status for a claim; a claim not indexed stays so.
MarkClaim(state, id, status) ==
  IF id \in DOMAIN state.claims
  THEN PutClaim(state, id, [state.claims[id] EXCEPT !.status = status]) ELSE state

-----------------------------------------------------------------------------
OnSuperseded(state, e) ==
  PutClaim(state, e.oldClaimId,
    [GetClaim(state, e.oldClaimId) EXCEPT !.status = "SUPERSEDED", !.validUntil = e.occurredAt])

OnChallengeOpened(state, e) ==
  LET opened == PutChallenge(state, e.challengeId,
        [GetChallenge(state, e.challengeId) EXCEPT
           !.claimId = e.claimId, !.challengeType = e.challengeType, !.challenger = e.challenger,
           !.bondWei = e.bond, !.windowCloseAt = e.windowCloseAt, !.state = "OPEN"])
  IN PutClaim(opened, e.claimId,
       [GetClaim(state, e.claimId) EXCEPT
          !.status = "CHALLENGED", !.challengeIds = Append(@, e.challengeId)])

\* Evidence about anything but an indexed challenge leaves no trace.
OnEvidenceSubmitted(state, e) ==
  IF e.subjectId \in DOMAIN state.challenges
  THEN PutChallenge(state, e.subjectId,
         [state.challenges[e.subjectId] EXCEPT !.evidenceIds = Append(@, e.evidenceId)])
  ELSE state

OnEvidenceLocked(state, e) ==
  IF e.subjectId \in DOMAIN state.challenges
  THEN MarkClaim(
         PutChallenge(state, e.subjectId,
           [state.challenges[e.subjectId] EXCEPT
              !.evidenceRoot = e.evidenceRoot, !.state = "EVIDENCE_LOCKED"]),
         state.challenges[e.subjectId].claimId, "EVIDENCE_LOCKED")
  ELSE state

OnInvestigationStarted(state, e) ==
  LET challenge == GetChallenge(state, e.challengeId)
  IN MarkClaim(PutChallenge(state, e.challengeId, [challenge EXCEPT !.state = "INVESTIGATING"]),
               challenge.claimId, "INVESTIGATING")

OnReportSubmitted(state, e) ==
  PutChallenge(state, e.challengeId,
    [GetChallenge(state, e.challengeId) EXCEPT !.reports = Append(@,
       [investigator |-> e.investigator, investigatorId |-> None, verdict |-> e.verdict])])

\* A slip: the link goes to the first report of the case without one.
FirstUnlinked(reports, investigator) ==
  SelectInSeq(reports, LAMBDA r : r.investigatorId = None)

\* The report a link is about: the account's latest one that has none yet.
Unlinked(reports, investigator) ==
  SelectLastInSeq(reports, LAMBDA r : r.investigator = investigator /\ r.investigatorId = None)

OnReportIdentityLinked(state, e) ==
  LET challenge == GetChallenge(state, e.challengeId)
      i         == Unlinked(challenge.reports, e.investigator)
      linked    == IF i = 0 THEN challenge
                   ELSE [challenge EXCEPT !.reports[i].investigatorId = e.investigatorId]
  IN PutInvestigator(PutChallenge(state, e.challengeId, linked), e.investigatorId,
       [GetInvestigator(state, e.investigatorId) EXCEPT
          !.linkedReports = Append(@, e.challengeId)])

OnInvestigatorPaid(state, e) ==
  PutChallenge(state, e.challengeId,
    [GetChallenge(state, e.challengeId) EXCEPT !.payouts = Append(@,
       [investigator |-> e.investigator, amountWei |-> e.amount])])

OnResolved(state, e) ==
  MarkClaim(
    PutChallenge(state, e.challengeId,
      [GetChallenge(state, e.challengeId) EXCEPT
         !.state = "RESOLVED",
         !.verdict = [status |-> e.status, resolvedAt |-> e.occurredAt]]),
    e.claimId, e.status)

\* A slip: the appeal is noted, the state of the case is not.
AppealNotedOnly(state, e) ==
  PutChallenge(state, e.challengeId,
    [GetChallenge(state, e.challengeId) EXCEPT
       !.appeals = Append(@, [appealId |-> e.appealId, resolved |-> FALSE])])

OnAppealFiled(state, e) ==
  PutChallenge(state, e.challengeId,
    [GetChallenge(state, e.challengeId) EXCEPT
       !.state = "APPEALED",
       !.appeals = Append(@, [appealId |-> e.appealId, resolved |-> FALSE])])

\* The event does not name the case; the challenge that has the appeal is looked for.
OnAppealResolved(state, e) ==
  LET closed(appeal) == [appeal EXCEPT !.resolved = @ \/ appeal.appealId = e.appealId]
      marked(challenge) ==
        [challenge EXCEPT !.appeals = [i \in DOMAIN @ |-> closed(@[i])]]
  IN [state EXCEPT !.challenges = [id \in DOMAIN @ |-> marked(@[id])]]

ApplyEvent(state, e) ==
  CASE e.name = "ClaimCreated" -> PutClaim(state, e.claimId, GetClaim(state, e.claimId))
    [] e.name = "Superseded" -> OnSuperseded(state, e)
    [] e.name = "ChallengeOpened" -> OnChallengeOpened(state, e)
    [] e.name = "EvidenceSubmitted" -> OnEvidenceSubmitted(state, e)
    [] e.name = "EvidenceLocked" -> OnEvidenceLocked(state, e)
    [] e.name = "InvestigationStarted" -> OnInvestigationStarted(state, e)
    [] e.name = "ReportSubmitted" -> OnReportSubmitted(state, e)
    [] e.name = "ReportIdentityLinked" -> OnReportIdentityLinked(state, e)
    [] e.name = "InvestigatorPaid" -> OnInvestigatorPaid(state, e)
    [] e.name = "Resolved" -> OnResolved(state, e)
    [] e.name = "AppealFiled" -> OnAppealFiled(state, e)
    [] e.name = "AppealResolved" -> OnAppealResolved(state, e)

ApplyRegistryEvent(state, e) ==
  LET inv == GetInvestigator(state, e.investigatorId)
  IN PutInvestigator(state, e.investigatorId,
       IF e.name = "InvestigatorRegistered"
       THEN [inv EXCEPT !.controller = e.controller, !.parentId = e.parentId]
       ELSE [inv EXCEPT !.controller = e.newController,
                        !.controllerHistory = Append(@, e.newController)])

\* applyLogs and applyRegistryLogs apply the events of their logs in order.
ApplyLogs(logs, state) ==
  LET after[n \in 0..Len(logs)] ==
        IF n = 0 THEN state ELSE ApplyEvent(after[n - 1], logs[n])
  IN after[Len(logs)]

ApplyRegistryLogs(logs, state) ==
  LET after[n \in 0..Len(logs)] ==
        IF n = 0 THEN state ELSE ApplyRegistryEvent(after[n - 1], logs[n])
  IN after[Len(logs)]

\* rebuildFromChain: all logs of the one contract, then all of the other.
Rebuilt(logs, registryLogs) == ApplyRegistryLogs(registryLogs, ApplyLogs(logs, EmptyState))

-----------------------------------------------------------------------------
(***************************************************************************)
(* calibrationOf (server.ts): how an identity's linked reports compare     *)
(* with the final verdicts, and how many are about contested cases.  For   *)
(* each link it reads the identity's first report of the case.             *)
(***************************************************************************)
Agreement(final, reported) ==
  IF final = None \/ final.status \notin {"TRUE", "FALSE"} THEN "pending"
  ELSE IF reported = (IF final.status = "TRUE" THEN "SUPPORTS" ELSE "REJECTS") THEN "agreed"
  ELSE "disagreed"

Contested(final) == final # None /\ final.status = "CONTESTED"

CalibrationOf(state, investigatorId) ==
  LET outcome(challengeId) ==
        LET challenge == state.challenges[challengeId]
            i == SelectInSeq(challenge.reports, LAMBDA r : r.investigatorId = investigatorId)
        IN Agreement(challenge.verdict, IF i = 0 THEN None ELSE challenge.reports[i].verdict)
      links == state.investigators[investigatorId].linkedReports
      outcomes(o) == Cardinality({i \in DOMAIN links : outcome(links[i]) = o})
  IN [ agreed |-> outcomes("agreed"), disagreed |-> outcomes("disagreed"),
       pending |-> outcomes("pending"),
       contestedInvolvement |->
         Cardinality({i \in DOMAIN links : Contested(state.challenges[links[i]].verdict)}) ]
=============================================================================
