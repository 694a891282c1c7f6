--------------------------- MODULE ReadModelTheorems ---------------------------
(***************************************************************************)
(* The indexer's read model against the two contracts, for any sets of     *)
(* claims, cases, accounts and identities, whatever payees call while they *)
(* are paid.                                                               *)
(***************************************************************************)
EXTENDS IndexedRegistry, IdentityTheorems

-----------------------------------------------------------------------------
(***************************************************************************)
(* Logs.  The states a log goes through, from state s on.                  *)
(***************************************************************************)
Through(h, log, s) ==
  h = [n \in 0..Len(log) |-> IF n = 0 THEN s ELSE Store!ApplyEvent(h[n - 1], log[n])]

(* applyLogs ends in the last of them. *)
LEMMA LogsEnd ==
  ASSUME NEW log, NEW s
  PROVE  Store!ApplyLogs(log, s) = (CHOOSE h : Through(h, log, s))[Len(log)]
  BY DEF Store!ApplyLogs, Through

(* A log of no event. *)
LEMMA NoEvent ==
  ASSUME NEW s
  PROVE  Store!ApplyLogs(<<>>, s) = s
  <1> DEFINE h == [n \in 0..0 |-> s]
             g == CHOOSE g : Through(g, <<>>, s)
  <1>1. Through(h, <<>>, s)
    BY DEF Through
  <1> HIDE DEF h
  <1>2. Through(g, <<>>, s)
    BY <1>1
  <1> HIDE DEF g
  <1>3. g[0] = s
    BY <1>2 DEF Through
  <1> QED BY <1>3, LogsEnd DEF g

(* A log of one event. *)
LEMMA OneEvent ==
  ASSUME NEW s, NEW e
  PROVE  Store!ApplyLogs(<<e>>, s) = Store!ApplyEvent(s, e)
  <1> DEFINE h == [n \in 0..1 |-> IF n = 0 THEN s ELSE Store!ApplyEvent(s, e)]
             g == CHOOSE g : Through(g, <<e>>, s)
  <1>1. Through(h, <<e>>, s)
    <2>1. Len(<<e>>) = 1 /\ <<e>>[1] = e
      OBVIOUS
    <2> QED BY <2>1 DEF Through
  <1> HIDE DEF h
  <1>2. Through(g, <<e>>, s)
    BY <1>1
  <1> HIDE DEF g
  <1>3. g[0] = s /\ g[1] = Store!ApplyEvent(g[0], e)
    BY <1>2 DEF Through
  <1> QED BY <1>3, LogsEnd DEF g

(* A log of two events. *)
LEMMA TwoEvents ==
  ASSUME NEW s, NEW a, NEW b
  PROVE  Store!ApplyLogs(<<a, b>>, s) = Store!ApplyEvent(Store!ApplyEvent(s, a), b)
  <1> DEFINE once == Store!ApplyEvent(s, a)
             h == [n \in 0..2 |-> IF n = 0 THEN s ELSE IF n = 1 THEN once
                                  ELSE Store!ApplyEvent(once, b)]
             g == CHOOSE g : Through(g, <<a, b>>, s)
  <1>1. Through(h, <<a, b>>, s)
    <2>1. Len(<<a, b>>) = 2 /\ <<a, b>>[1] = a /\ <<a, b>>[2] = b
      OBVIOUS
    <2> QED BY <2>1 DEF Through
  <1> HIDE DEF h
  <1>2. Through(g, <<a, b>>, s)
    BY <1>1
  <1> HIDE DEF g
  <1>3. /\ g[0] = s /\ g[1] = Store!ApplyEvent(g[0], a)
        /\ g[2] = Store!ApplyEvent(g[1], b)
    BY <1>2 DEF Through
  <1> QED BY <1>3, LogsEnd DEF g

-----------------------------------------------------------------------------
(***************************************************************************)
(* The read model.  Its maps are typed where they are defined.             *)
(***************************************************************************)
ClaimEntry == [status : ClaimStatus, validUntil : Nat, challengeIds : Seq(Challenges)]

ReportEntry ==
  [investigator : Accounts, investigatorId : Investigators \cup {None}, verdict : Verdicts]

FinalVerdict == [status : VerdictStatus, resolvedAt : Nat]

AppealEntry == [appealId : Nat, resolved : BOOLEAN]

Payout == [investigator : Accounts, amountWei : Nat]

CaseEntry ==
  [ claimId : Claims \cup {None}, challengeType : ChallengeType, challenger : Accounts \cup {None},
    bondWei : Nat, windowCloseAt : Nat, evidenceRoot : Roots \cup {None}, state : ChallengeState,
    evidenceIds : Seq(EvidenceIds), reports : Seq(ReportEntry), verdict : FinalVerdict \cup {None},
    appeals : Seq(AppealEntry), payouts : Seq(Payout) ]

InvestigatorEntry ==
  [ controller : Accounts \cup {None}, parentId : Investigators \cup {None},
    controllerHistory : Seq(Accounts), linkedReports : Seq(Challenges) ]

StoreTyped(s) ==
  /\ s = [claims |-> s.claims, challenges |-> s.challenges, investigators |-> s.investigators]
  /\ DOMAIN s.claims \subseteq Claims /\ s.claims \in [DOMAIN s.claims -> ClaimEntry]
  /\ DOMAIN s.challenges \subseteq Challenges /\ s.challenges \in [DOMAIN s.challenges -> CaseEntry]
  /\ DOMAIN s.investigators \subseteq Investigators
  /\ s.investigators \in [DOMAIN s.investigators -> InvestigatorEntry]

\* Two entries of a case differ in no field but these.
CaseFields ==
  { "claimId", "challengeType", "challenger", "bondWei", "windowCloseAt", "evidenceRoot", "state",
    "evidenceIds", "reports", "verdict", "appeals", "payouts" }

SameBut(c, d, fields) == \A f \in CaseFields \ fields : d[f] = c[f]

\* The entry of claim cl differs in its status alone.
Marked(s, t, cl, status) ==
  /\ t.claims[cl].status = status
  /\ t.claims[cl].validUntil = s.claims[cl].validUntil
  /\ t.claims[cl].challengeIds = s.claims[cl].challengeIds

\* Nothing of t differs from s but the entry of claim cl, of case ch, of identity id.
ClaimPut(s, t, cl) ==
  /\ t.challenges = s.challenges /\ t.investigators = s.investigators
  /\ DOMAIN t.claims = DOMAIN s.claims \cup {cl}
  /\ \A y \in DOMAIN s.claims \ {cl} : t.claims[y] = s.claims[y]

CasePut(s, t, ch) ==
  /\ t.claims = s.claims /\ t.investigators = s.investigators
  /\ DOMAIN t.challenges = DOMAIN s.challenges \cup {ch}
  /\ \A x \in DOMAIN s.challenges \ {ch} : t.challenges[x] = s.challenges[x]

CaseAndClaimPut(s, t, ch, cl) ==
  /\ t.investigators = s.investigators
  /\ DOMAIN t.challenges = DOMAIN s.challenges \cup {ch}
  /\ \A x \in DOMAIN s.challenges \ {ch} : t.challenges[x] = s.challenges[x]
  /\ DOMAIN t.claims = DOMAIN s.claims \cup {cl}
  /\ \A y \in DOMAIN s.claims \ {cl} : t.claims[y] = s.claims[y]

InvestigatorPut(s, t, id) ==
  /\ t.claims = s.claims /\ t.challenges = s.challenges
  /\ DOMAIN t.investigators = DOMAIN s.investigators \cup {id}
  /\ \A i \in DOMAIN s.investigators \ {id} : t.investigators[i] = s.investigators[i]

(* A state has three maps; an update of one leaves the others. *)
LEMMA MapUpdates ==
  ASSUME NEW s, StoreTyped(s), NEW v
  PROVE  /\ [s EXCEPT !.claims = v] =
              [claims |-> v, challenges |-> s.challenges, investigators |-> s.investigators]
         /\ [s EXCEPT !.challenges = v] =
              [claims |-> s.claims, challenges |-> v, investigators |-> s.investigators]
         /\ [s EXCEPT !.investigators = v] =
              [claims |-> s.claims, challenges |-> s.challenges, investigators |-> v]
  <1>1. PICK a, b, c : s = [claims |-> a, challenges |-> b, investigators |-> c]
    BY DEF StoreTyped
  <1> QED BY <1>1

(* An entry put for a claim. *)
LEMMA PuttingClaim ==
  ASSUME NEW s, StoreTyped(s), NEW cl \in Claims, NEW c \in ClaimEntry
  PROVE  LET t == Store!PutClaim(s, cl, c)
         IN StoreTyped(t) /\ ClaimPut(s, t, cl) /\ t.claims[cl] = c
  <1> DEFINE t == Store!PutClaim(s, cl, c)
             put == Store!SetEntry(s.claims, cl, c)
  <1>0. s.claims \in [DOMAIN s.claims -> ClaimEntry]
    BY DEF StoreTyped
  <1>1. /\ DOMAIN put = DOMAIN s.claims \cup {cl} /\ put \in [DOMAIN put -> ClaimEntry]
        /\ put[cl] = c /\ \A y \in DOMAIN s.claims \ {cl} : put[y] = s.claims[y]
    BY <1>0 DEF put, Store!SetEntry
  <1> HIDE DEF put
  <1>2. t = [claims |-> put, challenges |-> s.challenges, investigators |-> s.investigators]
    BY MapUpdates DEF Store!PutClaim, put
  <1> HIDE DEF t
  <1> QED BY <1>1, <1>2 DEF StoreTyped, ClaimPut, t

(* An entry put for a case. *)
LEMMA PuttingCase ==
  ASSUME NEW s, StoreTyped(s), NEW ch \in Challenges, NEW c \in CaseEntry
  PROVE  LET t == Store!PutChallenge(s, ch, c)
         IN StoreTyped(t) /\ CasePut(s, t, ch) /\ t.challenges[ch] = c
  <1> DEFINE t == Store!PutChallenge(s, ch, c)
             put == Store!SetEntry(s.challenges, ch, c)
  <1>0. s.challenges \in [DOMAIN s.challenges -> CaseEntry]
    BY DEF StoreTyped
  <1>1. /\ DOMAIN put = DOMAIN s.challenges \cup {ch} /\ put \in [DOMAIN put -> CaseEntry]
        /\ put[ch] = c /\ \A x \in DOMAIN s.challenges \ {ch} : put[x] = s.challenges[x]
    BY <1>0 DEF put, Store!SetEntry
  <1> HIDE DEF put
  <1>2. t = [claims |-> s.claims, challenges |-> put, investigators |-> s.investigators]
    BY MapUpdates DEF Store!PutChallenge, put
  <1> HIDE DEF t
  <1> QED BY <1>1, <1>2 DEF StoreTyped, CasePut, t

(* An entry put for an identity. *)
LEMMA PuttingInvestigator ==
  ASSUME NEW s, StoreTyped(s), NEW id \in Investigators, NEW c \in InvestigatorEntry
  PROVE  LET t == Store!PutInvestigator(s, id, c)
         IN StoreTyped(t) /\ InvestigatorPut(s, t, id) /\ t.investigators[id] = c
  <1> DEFINE t == Store!PutInvestigator(s, id, c)
             put == Store!SetEntry(s.investigators, id, c)
  <1>0. s.investigators \in [DOMAIN s.investigators -> InvestigatorEntry]
    BY DEF StoreTyped
  <1>1. /\ DOMAIN put = DOMAIN s.investigators \cup {id} /\ put \in [DOMAIN put -> InvestigatorEntry]
        /\ put[id] = c /\ \A x \in DOMAIN s.investigators \ {id} : put[x] = s.investigators[x]
    BY <1>0 DEF put, Store!SetEntry
  <1> HIDE DEF put
  <1>2. t = [claims |-> s.claims, challenges |-> s.challenges, investigators |-> put]
    BY MapUpdates DEF Store!PutInvestigator, put
  <1> HIDE DEF t
  <1> QED BY <1>1, <1>2 DEF StoreTyped, InvestigatorPut, t

(* What an entry is by default. *)
LEMMA Defaults ==
  ASSUME NEW s, StoreTyped(s)
  PROVE  /\ \A cl \in Claims : Store!GetClaim(s, cl) \in ClaimEntry
         /\ \A ch \in Challenges : Store!GetChallenge(s, ch) \in CaseEntry
         /\ \A id \in Investigators : Store!GetInvestigator(s, id) \in InvestigatorEntry
  BY DEF StoreTyped, ClaimEntry, CaseEntry, InvestigatorEntry, Store!GetClaim, Store!GetChallenge,
         Store!GetInvestigator, ClaimStatus, ChallengeType, ChallengeState, FinalVerdict

(* A claim marked with a status keeps the rest of its entry. *)
LEMMA MarkingClaim ==
  ASSUME NEW s, StoreTyped(s), NEW cl \in DOMAIN s.claims, NEW status \in ClaimStatus
  PROVE  LET t == Store!MarkClaim(s, cl, status)
         IN StoreTyped(t) /\ ClaimPut(s, t, cl) /\ Marked(s, t, cl, status)
  <1> DEFINE d == [s.claims[cl] EXCEPT !.status = status]
  <1>1. cl \in Claims /\ s.claims[cl] \in ClaimEntry
    BY DEF StoreTyped
  <1>2. /\ d \in ClaimEntry /\ d.status = status /\ d.validUntil = s.claims[cl].validUntil
        /\ d.challengeIds = s.claims[cl].challengeIds
    BY <1>1 DEF ClaimEntry
  <1>3. PICK t : t = Store!MarkClaim(s, cl, status)
    OBVIOUS
  <1>4. t = Store!PutClaim(s, cl, d)
    BY <1>3 DEF Store!MarkClaim
  <1> HIDE DEF d
  <1>5. StoreTyped(t) /\ ClaimPut(s, t, cl) /\ t.claims[cl] = d
    BY <1>1, <1>2, <1>4, PuttingClaim
  <1> QED BY <1>2, <1>3, <1>5 DEF Marked

-----------------------------------------------------------------------------
(***************************************************************************)
(* Events.  A claim is created.                                            *)
(***************************************************************************)
LEMMA ClaimCreatedEvent ==
  ASSUME NEW s, StoreTyped(s), NEW cl \in Claims, cl \notin DOMAIN s.claims,
         NEW e, e = [name |-> "ClaimCreated", claimId |-> cl]
  PROVE  LET t == Store!ApplyEvent(s, e)
         IN /\ StoreTyped(t) /\ ClaimPut(s, t, cl)
            /\ t.claims[cl] = [status |-> "OPEN", validUntil |-> 0, challengeIds |-> <<>>]
  <1>1. e.name = "ClaimCreated" /\ e.claimId = cl
    OBVIOUS
  <1>2. Store!ApplyEvent(s, e) = Store!PutClaim(s, cl, Store!GetClaim(s, cl))
    BY <1>1 DEF Store!ApplyEvent
  <1> QED BY <1>2, Defaults, PuttingClaim DEF Store!GetClaim

(* A claim is superseded. *)
LEMMA SupersededEvent ==
  ASSUME NEW s, StoreTyped(s), NEW cl \in DOMAIN s.claims, NEW other, NEW time \in Nat,
         NEW e, e = [ name |-> "Superseded", oldClaimId |-> cl, newClaimId |-> other,
                      occurredAt |-> time ]
  PROVE  LET t == Store!ApplyEvent(s, e)
         IN /\ StoreTyped(t) /\ ClaimPut(s, t, cl)
            /\ t.claims[cl].status = "SUPERSEDED" /\ t.claims[cl].validUntil = time
            /\ t.claims[cl].challengeIds = s.claims[cl].challengeIds
  <1> DEFINE c == [s.claims[cl] EXCEPT !.status = "SUPERSEDED", !.validUntil = time]
  <1>1. e.name = "Superseded" /\ e.oldClaimId = cl /\ e.occurredAt = time
    OBVIOUS
  <1>2. Store!ApplyEvent(s, e) = Store!PutClaim(s, cl, c)
    BY <1>1 DEF Store!ApplyEvent, Store!OnSuperseded, Store!GetClaim
  <1>3. cl \in Claims /\ s.claims[cl] \in ClaimEntry
    BY DEF StoreTyped
  <1>4. /\ c \in ClaimEntry /\ c.status = "SUPERSEDED" /\ c.validUntil = time
        /\ c.challengeIds = s.claims[cl].challengeIds
    BY <1>3 DEF ClaimEntry, ClaimStatus
  <1> HIDE DEF c
  <1>5. PICK t : t = Store!ApplyEvent(s, e)
    OBVIOUS
  <1>6. StoreTyped(t) /\ ClaimPut(s, t, cl) /\ t.claims[cl] = c
    BY <1>2, <1>3, <1>4, <1>5, PuttingClaim
  <1> QED BY <1>4, <1>5, <1>6

(* A case is opened. *)
LEMMA ChallengeOpenedEvent ==
  ASSUME NEW s, StoreTyped(s), NEW ch \in Challenges, ch \notin DOMAIN s.challenges,
         NEW cl \in DOMAIN s.claims, NEW a \in Accounts, NEW type \in ChallengeType,
         NEW v \in Nat, NEW closesAt \in Nat,
         NEW e, e = Opened(ch, cl, a, type, v, closesAt)
  PROVE  LET t == Store!ApplyEvent(s, e)
             c == t.challenges[ch]
         IN /\ StoreTyped(t) /\ CaseAndClaimPut(s, t, ch, cl)
            /\ t.claims[cl] = [status |-> "CHALLENGED", validUntil |-> s.claims[cl].validUntil,
                               challengeIds |-> Append(s.claims[cl].challengeIds, ch)]
            /\ c.claimId = cl /\ c.bondWei = v /\ c.windowCloseAt = closesAt
            /\ c.evidenceRoot = None /\ c.state = "OPEN" /\ c.evidenceIds = <<>>
            /\ c.reports = <<>> /\ c.verdict = None /\ c.appeals = <<>> /\ c.payouts = <<>>
  <1> DEFINE c == [Store!GetChallenge(s, ch) EXCEPT
                     !.claimId = cl, !.challengeType = type, !.challenger = a, !.bondWei = v,
                     !.windowCloseAt = closesAt, !.state = "OPEN"]
             d == [s.claims[cl] EXCEPT !.status = "CHALLENGED", !.challengeIds = Append(@, ch)]
             u == Store!PutChallenge(s, ch, c)
  <1>1. /\ e.name = "ChallengeOpened" /\ e.challengeId = ch /\ e.claimId = cl
        /\ e.challengeType = type /\ e.challenger = a /\ e.bond = v /\ e.windowCloseAt = closesAt
    BY DEF Opened
  <1>2. cl \in Claims /\ s.claims[cl] \in ClaimEntry
    BY DEF StoreTyped
  <1>3. d \in ClaimEntry /\ d.status = "CHALLENGED" /\ d.validUntil = s.claims[cl].validUntil
        /\ d.challengeIds = Append(s.claims[cl].challengeIds, ch)
    <2>1. s.claims[cl].challengeIds \in Seq(Challenges)
      BY <1>2 DEF ClaimEntry
    <2>2. Append(s.claims[cl].challengeIds, ch) \in Seq(Challenges)
      BY <2>1
    <2> QED BY <1>2, <2>2 DEF ClaimEntry, ClaimStatus
  <1>4. /\ c \in CaseEntry /\ c.claimId = cl /\ c.bondWei = v /\ c.windowCloseAt = closesAt
        /\ c.evidenceRoot = None /\ c.state = "OPEN" /\ c.evidenceIds = <<>>
        /\ c.reports = <<>> /\ c.verdict = None /\ c.appeals = <<>> /\ c.payouts = <<>>
    <2>1. Store!GetChallenge(s, ch) =
            [ claimId |-> None, challengeType |-> "CONTRADICTION", challenger |-> None,
              bondWei |-> 0, windowCloseAt |-> 0, evidenceRoot |-> None, state |-> "OPEN",
              evidenceIds |-> <<>>, reports |-> <<>>, verdict |-> None, appeals |-> <<>>,
              payouts |-> <<>> ]
      BY DEF Store!GetChallenge
    <2>2. Store!GetChallenge(s, ch) \in CaseEntry
      BY Defaults
    <2>3. c \in CaseEntry
      BY <1>2, <2>2 DEF CaseEntry, ChallengeState
    <2>4. c.claimId = cl /\ c.bondWei = v /\ c.windowCloseAt = closesAt /\ c.state = "OPEN"
      BY <2>2 DEF CaseEntry
    <2>5. c.evidenceRoot = None /\ c.evidenceIds = <<>> /\ c.reports = <<>> /\ c.verdict = None
          /\ c.appeals = <<>> /\ c.payouts = <<>>
      BY <2>1
    <2> QED BY <2>3, <2>4, <2>5
  <1>5. d = [status |-> "CHALLENGED", validUntil |-> s.claims[cl].validUntil,
             challengeIds |-> Append(s.claims[cl].challengeIds, ch)]
    <2> HIDE DEF d
    <2> QED BY <1>3 DEF ClaimEntry
  <1>6. Store!ApplyEvent(s, e) = Store!OnChallengeOpened(s, e)
    BY <1>1 DEF Store!ApplyEvent
  <1>7. Store!OnChallengeOpened(s, e) = Store!PutClaim(u, cl, d)
    <2>1. [Store!GetClaim(s, e.claimId) EXCEPT
             !.status = "CHALLENGED", !.challengeIds = Append(@, e.challengeId)] = d
      BY <1>1 DEF Store!GetClaim
    <2>2. [Store!GetChallenge(s, e.challengeId) EXCEPT
             !.claimId = e.claimId, !.challengeType = e.challengeType, !.challenger = e.challenger,
             !.bondWei = e.bond, !.windowCloseAt = e.windowCloseAt, !.state = "OPEN"] = c
      BY <1>1
    <2> HIDE DEF c, d
    <2> QED BY <1>1, <2>1, <2>2 DEF Store!OnChallengeOpened
  <1> HIDE DEF c, d
  <1>8. StoreTyped(u) /\ CasePut(s, u, ch) /\ u.challenges[ch] = c
    BY <1>4, PuttingCase
  <1> HIDE DEF u
  <1>9. PICK t : t = Store!ApplyEvent(s, e)
    OBVIOUS
  <1>10. StoreTyped(t) /\ ClaimPut(u, t, cl) /\ t.claims[cl] = d
    BY <1>2, <1>3, <1>6, <1>7, <1>8, <1>9, PuttingClaim
  <1>11. CaseAndClaimPut(s, t, ch, cl) /\ t.challenges[ch] = c
    BY <1>8, <1>10 DEF CasePut, ClaimPut, CaseAndClaimPut
  <1> QED BY <1>4, <1>5, <1>9, <1>10, <1>11

(* The entry of an indexed case. *)
LEMMA IndexedCase ==
  ASSUME NEW s, StoreTyped(s), NEW ch \in DOMAIN s.challenges
  PROVE  /\ ch \in Challenges /\ s.challenges[ch] \in CaseEntry
         /\ Store!GetChallenge(s, ch) = s.challenges[ch]
  BY DEF StoreTyped, Store!GetChallenge

(* Evidence is submitted. *)
LEMMA EvidenceSubmittedEvent ==
  ASSUME NEW s, StoreTyped(s), NEW subject, NEW evidenceId \in EvidenceIds,
         NEW e, e = [ name |-> "EvidenceSubmitted", subjectId |-> subject,
                      evidenceId |-> evidenceId ]
  PROVE  LET t == Store!ApplyEvent(s, e)
         IN IF subject \in DOMAIN s.challenges
            THEN /\ StoreTyped(t) /\ CasePut(s, t, subject)
                 /\ SameBut(s.challenges[subject], t.challenges[subject], {"evidenceIds"})
                 /\ t.challenges[subject].evidenceIds =
                      Append(s.challenges[subject].evidenceIds, evidenceId)
            ELSE t = s
  <1>1. e.name = "EvidenceSubmitted" /\ e.subjectId = subject /\ e.evidenceId = evidenceId
    OBVIOUS
  <1>2. Store!ApplyEvent(s, e) = Store!OnEvidenceSubmitted(s, e)
    BY <1>1 DEF Store!ApplyEvent
  <1>3. CASE subject \notin DOMAIN s.challenges
    BY <1>1, <1>2, <1>3 DEF Store!OnEvidenceSubmitted
  <1>4. CASE subject \in DOMAIN s.challenges
    <2> DEFINE c == [s.challenges[subject] EXCEPT !.evidenceIds = Append(@, evidenceId)]
    <2>1. subject \in Challenges /\ s.challenges[subject] \in CaseEntry
      BY <1>4, IndexedCase
    <2>2. s.challenges[subject].evidenceIds \in Seq(EvidenceIds)
      BY <2>1 DEF CaseEntry
    <2>3. Append(s.challenges[subject].evidenceIds, evidenceId) \in Seq(EvidenceIds)
      BY <2>2
    <2>4. /\ c \in CaseEntry /\ SameBut(s.challenges[subject], c, {"evidenceIds"})
          /\ c.evidenceIds = Append(s.challenges[subject].evidenceIds, evidenceId)
      BY <2>1, <2>3 DEF CaseEntry, SameBut, CaseFields
    <2>5. Store!ApplyEvent(s, e) = Store!PutChallenge(s, subject, c)
      BY <1>1, <1>2, <1>4 DEF Store!OnEvidenceSubmitted
    <2> HIDE DEF c
    <2>6. PICK t : t = Store!ApplyEvent(s, e)
      OBVIOUS
    <2>7. StoreTyped(t) /\ CasePut(s, t, subject) /\ t.challenges[subject] = c
      BY <2>1, <2>4, <2>5, <2>6, PuttingCase
    <2> QED BY <1>4, <2>4, <2>6, <2>7
  <1> QED BY <1>3, <1>4

(* An entry put for a case, and a status for the claim it is about. *)
LEMMA PuttingCaseAndMarking ==
  ASSUME NEW s, StoreTyped(s), NEW ch \in Challenges, NEW c \in CaseEntry,
         NEW cl \in DOMAIN s.claims, NEW status \in ClaimStatus
  PROVE  LET t == Store!MarkClaim(Store!PutChallenge(s, ch, c), cl, status)
         IN /\ StoreTyped(t) /\ CaseAndClaimPut(s, t, ch, cl) /\ t.challenges[ch] = c
            /\ Marked(s, t, cl, status)
  <1>1. PICK u : u = Store!PutChallenge(s, ch, c)
    OBVIOUS
  <1>2. StoreTyped(u) /\ CasePut(s, u, ch) /\ u.challenges[ch] = c
    BY <1>1, PuttingCase
  <1>3. cl \in DOMAIN u.claims /\ u.claims = s.claims
    BY <1>2 DEF CasePut
  <1>4. PICK t : t = Store!MarkClaim(u, cl, status)
    OBVIOUS
  <1>5. StoreTyped(t) /\ ClaimPut(u, t, cl) /\ Marked(u, t, cl, status)
    BY <1>2, <1>3, <1>4, MarkingClaim
  <1>6. /\ CaseAndClaimPut(s, t, ch, cl) /\ t.challenges[ch] = c
        /\ Marked(s, t, cl, status)
    BY <1>2, <1>3, <1>5 DEF CasePut, ClaimPut, CaseAndClaimPut, Marked
  <1> QED BY <1>1, <1>4, <1>5, <1>6

(* The evidence of a case is locked. *)
LEMMA EvidenceLockedEvent ==
  ASSUME NEW s, StoreTyped(s), NEW ch \in DOMAIN s.challenges, NEW root \in Roots,
         s.challenges[ch].claimId \in DOMAIN s.claims,
         NEW e, e = [name |-> "EvidenceLocked", subjectId |-> ch, evidenceRoot |-> root]
  PROVE  LET t == Store!ApplyEvent(s, e)
             cl == s.challenges[ch].claimId
         IN /\ StoreTyped(t) /\ CaseAndClaimPut(s, t, ch, cl)
            /\ SameBut(s.challenges[ch], t.challenges[ch], {"evidenceRoot", "state"})
            /\ t.challenges[ch].evidenceRoot = root
            /\ t.challenges[ch].state = "EVIDENCE_LOCKED"
            /\ Marked(s, t, cl, "EVIDENCE_LOCKED")
  <1> DEFINE c == [s.challenges[ch] EXCEPT !.evidenceRoot = root, !.state = "EVIDENCE_LOCKED"]
             cl == s.challenges[ch].claimId
  <1>1. e.name = "EvidenceLocked" /\ e.subjectId = ch /\ e.evidenceRoot = root
    OBVIOUS
  <1>2. Store!ApplyEvent(s, e) = Store!OnEvidenceLocked(s, e)
    BY <1>1 DEF Store!ApplyEvent
  <1>3. Store!OnEvidenceLocked(s, e) =
          Store!MarkClaim(Store!PutChallenge(s, ch, c), cl, "EVIDENCE_LOCKED")
    BY <1>1 DEF Store!OnEvidenceLocked
  <1>4. ch \in Challenges /\ s.challenges[ch] \in CaseEntry
    BY IndexedCase
  <1>5. /\ c \in CaseEntry /\ "EVIDENCE_LOCKED" \in ClaimStatus
        /\ SameBut(s.challenges[ch], c, {"evidenceRoot", "state"})
        /\ c.evidenceRoot = root /\ c.state = "EVIDENCE_LOCKED"
    BY <1>4 DEF CaseEntry, ChallengeState, ClaimStatus, SameBut, CaseFields
  <1> HIDE DEF c
  <1>6. PICK t : t = Store!ApplyEvent(s, e)
    OBVIOUS
  <1>7. /\ StoreTyped(t) /\ CaseAndClaimPut(s, t, ch, cl) /\ t.challenges[ch] = c
        /\ Marked(s, t, cl, "EVIDENCE_LOCKED")
    BY <1>2, <1>3, <1>4, <1>5, <1>6, PuttingCaseAndMarking
  <1> QED BY <1>5, <1>6, <1>7

(* Evidence locked for anything else leaves no trace. *)
LEMMA EvidenceLockedElsewhere ==
  ASSUME NEW s, NEW subject, subject \notin DOMAIN s.challenges, NEW root,
         NEW e, e = [name |-> "EvidenceLocked", subjectId |-> subject, evidenceRoot |-> root]
  PROVE  Store!ApplyEvent(s, e) = s
  <1>1. e.name = "EvidenceLocked" /\ e.subjectId = subject
    OBVIOUS
  <1> QED BY <1>1 DEF Store!ApplyEvent, Store!OnEvidenceLocked

(* The investigation of a case starts. *)
LEMMA InvestigationStartedEvent ==
  ASSUME NEW s, StoreTyped(s), NEW ch \in DOMAIN s.challenges,
         s.challenges[ch].claimId \in DOMAIN s.claims,
         NEW e, e = [name |-> "InvestigationStarted", challengeId |-> ch]
  PROVE  LET t == Store!ApplyEvent(s, e)
             cl == s.challenges[ch].claimId
         IN /\ StoreTyped(t) /\ CaseAndClaimPut(s, t, ch, cl)
            /\ SameBut(s.challenges[ch], t.challenges[ch], {"state"})
            /\ t.challenges[ch].state = "INVESTIGATING"
            /\ Marked(s, t, cl, "INVESTIGATING")
  <1> DEFINE c == [s.challenges[ch] EXCEPT !.state = "INVESTIGATING"]
             cl == s.challenges[ch].claimId
  <1>1. e.name = "InvestigationStarted" /\ e.challengeId = ch
    OBVIOUS
  <1>2. Store!ApplyEvent(s, e) = Store!OnInvestigationStarted(s, e)
    BY <1>1 DEF Store!ApplyEvent
  <1>3. ch \in Challenges /\ s.challenges[ch] \in CaseEntry
        /\ Store!GetChallenge(s, ch) = s.challenges[ch]
    BY IndexedCase
  <1>4. Store!OnInvestigationStarted(s, e) =
          Store!MarkClaim(Store!PutChallenge(s, ch, c), cl, "INVESTIGATING")
    BY <1>1, <1>3 DEF Store!OnInvestigationStarted
  <1>5. /\ c \in CaseEntry /\ "INVESTIGATING" \in ClaimStatus
        /\ SameBut(s.challenges[ch], c, {"state"}) /\ c.state = "INVESTIGATING"
    BY <1>3 DEF CaseEntry, ChallengeState, ClaimStatus, SameBut, CaseFields
  <1> HIDE DEF c
  <1>6. PICK t : t = Store!ApplyEvent(s, e)
    OBVIOUS
  <1>7. /\ StoreTyped(t) /\ CaseAndClaimPut(s, t, ch, cl) /\ t.challenges[ch] = c
        /\ Marked(s, t, cl, "INVESTIGATING")
    BY <1>2, <1>3, <1>4, <1>5, <1>6, PuttingCaseAndMarking
  <1> QED BY <1>5, <1>6, <1>7

(* A case is resolved. *)
LEMMA ResolvedEventIndexed ==
  ASSUME NEW s, StoreTyped(s), NEW ch \in DOMAIN s.challenges, NEW cl \in DOMAIN s.claims,
         NEW status \in ClaimStatus \cap VerdictStatus, NEW time \in Nat,
         NEW e, e = [ name |-> "Resolved", challengeId |-> ch, claimId |-> cl,
                      status |-> status, occurredAt |-> time ]
  PROVE  LET t == Store!ApplyEvent(s, e)
         IN /\ StoreTyped(t) /\ CaseAndClaimPut(s, t, ch, cl)
            /\ SameBut(s.challenges[ch], t.challenges[ch], {"state", "verdict"})
            /\ t.challenges[ch].state = "RESOLVED"
            /\ t.challenges[ch].verdict = [status |-> status, resolvedAt |-> time]
            /\ Marked(s, t, cl, status)
  <1> DEFINE v == [status |-> status, resolvedAt |-> time]
             c == [s.challenges[ch] EXCEPT !.state = "RESOLVED", !.verdict = v]
  <1>1. e.name = "Resolved" /\ e.challengeId = ch /\ e.claimId = cl /\ e.status = status
        /\ e.occurredAt = time
    OBVIOUS
  <1>2. Store!ApplyEvent(s, e) = Store!OnResolved(s, e)
    BY <1>1 DEF Store!ApplyEvent
  <1>3. ch \in Challenges /\ s.challenges[ch] \in CaseEntry
        /\ Store!GetChallenge(s, ch) = s.challenges[ch]
    BY IndexedCase
  <1>4. Store!OnResolved(s, e) = Store!MarkClaim(Store!PutChallenge(s, ch, c), cl, status)
    BY <1>1, <1>3 DEF Store!OnResolved
  <1>5. v \in FinalVerdict
    BY DEF FinalVerdict
  <1> HIDE DEF v
  <1>6. /\ c \in CaseEntry /\ SameBut(s.challenges[ch], c, {"state", "verdict"})
        /\ c.state = "RESOLVED" /\ c.verdict = v
    BY <1>3, <1>5 DEF CaseEntry, ChallengeState, SameBut, CaseFields
  <1> HIDE DEF c
  <1>7. PICK t : t = Store!MarkClaim(Store!PutChallenge(s, ch, c), cl, status)
    OBVIOUS
  <1>8. /\ StoreTyped(t) /\ CaseAndClaimPut(s, t, ch, cl) /\ t.challenges[ch] = c
        /\ Marked(s, t, cl, status)
    BY <1>3, <1>6, <1>7, PuttingCaseAndMarking
  <1> QED BY <1>2, <1>4, <1>6, <1>7, <1>8 DEF v

(* A payout is noted. *)
LEMMA InvestigatorPaidEvent ==
  ASSUME NEW s, StoreTyped(s), NEW ch \in DOMAIN s.challenges, NEW a \in Accounts,
         NEW amount \in Nat,
         NEW e, e = [ name |-> "InvestigatorPaid", challengeId |-> ch, investigator |-> a,
                      amount |-> amount ]
  PROVE  LET t == Store!ApplyEvent(s, e)
         IN /\ StoreTyped(t) /\ CasePut(s, t, ch)
            /\ SameBut(s.challenges[ch], t.challenges[ch], {"payouts"})
            /\ t.challenges[ch].payouts =
                 Append(s.challenges[ch].payouts, [investigator |-> a, amountWei |-> amount])
  <1> DEFINE p == [investigator |-> a, amountWei |-> amount]
             c == [s.challenges[ch] EXCEPT !.payouts = Append(@, p)]
  <1>1. e.name = "InvestigatorPaid" /\ e.challengeId = ch /\ e.investigator = a
        /\ e.amount = amount
    OBVIOUS
  <1>2. Store!ApplyEvent(s, e) = Store!OnInvestigatorPaid(s, e)
    BY <1>1 DEF Store!ApplyEvent
  <1>3. ch \in Challenges /\ s.challenges[ch] \in CaseEntry
        /\ Store!GetChallenge(s, ch) = s.challenges[ch]
    BY IndexedCase
  <1>4. Store!OnInvestigatorPaid(s, e) = Store!PutChallenge(s, ch, c)
    BY <1>1, <1>3 DEF Store!OnInvestigatorPaid
  <1>5. p \in Payout
    BY DEF Payout
  <1> HIDE DEF p
  <1>6. s.challenges[ch].payouts \in Seq(Payout)
    BY <1>3 DEF CaseEntry
  <1>7. Append(s.challenges[ch].payouts, p) \in Seq(Payout)
    BY <1>5, <1>6
  <1>8. /\ c \in CaseEntry /\ SameBut(s.challenges[ch], c, {"payouts"})
        /\ c.payouts = Append(s.challenges[ch].payouts, p)
    BY <1>3, <1>7 DEF CaseEntry, SameBut, CaseFields
  <1> HIDE DEF c
  <1>9. PICK t : t = Store!PutChallenge(s, ch, c)
    OBVIOUS
  <1>10. StoreTyped(t) /\ CasePut(s, t, ch) /\ t.challenges[ch] = c
    BY <1>3, <1>8, <1>9, PuttingCase
  <1> QED BY <1>2, <1>4, <1>8, <1>9, <1>10 DEF p

(* A report is submitted. *)
LEMMA ReportSubmittedEvent ==
  ASSUME NEW s, StoreTyped(s), NEW ch \in DOMAIN s.challenges, NEW a \in Accounts,
         NEW verdict \in Verdicts, NEW e, e = Submitted(ch, a, verdict)
  PROVE  LET t == Store!ApplyEvent(s, e)
         IN /\ StoreTyped(t) /\ CasePut(s, t, ch)
            /\ SameBut(s.challenges[ch], t.challenges[ch], {"reports"})
            /\ t.challenges[ch].reports = Append(s.challenges[ch].reports,
                 [investigator |-> a, investigatorId |-> None, verdict |-> verdict])
  <1> DEFINE r == [investigator |-> a, investigatorId |-> None, verdict |-> verdict]
             c == [s.challenges[ch] EXCEPT !.reports = Append(@, r)]
  <1>1. e.name = "ReportSubmitted" /\ e.challengeId = ch /\ e.investigator = a
        /\ e.verdict = verdict
    BY DEF Submitted
  <1>2. Store!ApplyEvent(s, e) = Store!OnReportSubmitted(s, e)
    BY <1>1 DEF Store!ApplyEvent
  <1>3. ch \in Challenges /\ s.challenges[ch] \in CaseEntry
        /\ Store!GetChallenge(s, ch) = s.challenges[ch]
    BY IndexedCase
  <1>4. Store!OnReportSubmitted(s, e) = Store!PutChallenge(s, ch, c)
    BY <1>1, <1>3 DEF Store!OnReportSubmitted
  <1>5. r \in ReportEntry
    BY DEF ReportEntry
  <1> HIDE DEF r
  <1>6. s.challenges[ch].reports \in Seq(ReportEntry)
    BY <1>3 DEF CaseEntry
  <1>7. Append(s.challenges[ch].reports, r) \in Seq(ReportEntry)
    BY <1>5, <1>6
  <1>8. /\ c \in CaseEntry /\ SameBut(s.challenges[ch], c, {"reports"})
        /\ c.reports = Append(s.challenges[ch].reports, r)
    BY <1>3, <1>7 DEF CaseEntry, SameBut, CaseFields
  <1> HIDE DEF c
  <1>9. PICK t : t = Store!PutChallenge(s, ch, c)
    OBVIOUS
  <1>10. StoreTyped(t) /\ CasePut(s, t, ch) /\ t.challenges[ch] = c
    BY <1>3, <1>8, <1>9, PuttingCase
  <1> QED BY <1>2, <1>4, <1>8, <1>9, <1>10 DEF r

(* A case is appealed. *)
LEMMA AppealFiledEvent ==
  ASSUME NEW s, StoreTyped(s), NEW ch \in DOMAIN s.challenges, NEW n \in Nat,
         NEW e, e = [name |-> "AppealFiled", appealId |-> n, challengeId |-> ch]
  PROVE  LET t == Store!ApplyEvent(s, e)
         IN /\ StoreTyped(t) /\ CasePut(s, t, ch)
            /\ SameBut(s.challenges[ch], t.challenges[ch], {"state", "appeals"})
            /\ t.challenges[ch].state = "APPEALED"
            /\ t.challenges[ch].appeals =
                 Append(s.challenges[ch].appeals, [appealId |-> n, resolved |-> FALSE])
  <1> DEFINE p == [appealId |-> n, resolved |-> FALSE]
             c == [s.challenges[ch] EXCEPT !.state = "APPEALED", !.appeals = Append(@, p)]
  <1>1. e.name = "AppealFiled" /\ e.challengeId = ch /\ e.appealId = n
    OBVIOUS
  <1>2. Store!ApplyEvent(s, e) = Store!OnAppealFiled(s, e)
    BY <1>1 DEF Store!ApplyEvent
  <1>3. ch \in Challenges /\ s.challenges[ch] \in CaseEntry
        /\ Store!GetChallenge(s, ch) = s.challenges[ch]
    BY IndexedCase
  <1>4. Store!OnAppealFiled(s, e) = Store!PutChallenge(s, ch, c)
    BY <1>1, <1>3 DEF Store!OnAppealFiled
  <1>5. p \in AppealEntry
    BY DEF AppealEntry
  <1> HIDE DEF p
  <1>6. s.challenges[ch].appeals \in Seq(AppealEntry)
    BY <1>3 DEF CaseEntry
  <1>7. Append(s.challenges[ch].appeals, p) \in Seq(AppealEntry)
    BY <1>5, <1>6
  <1>8. /\ c \in CaseEntry /\ SameBut(s.challenges[ch], c, {"state", "appeals"})
        /\ c.state = "APPEALED" /\ c.appeals = Append(s.challenges[ch].appeals, p)
    BY <1>3, <1>7 DEF CaseEntry, ChallengeState, SameBut, CaseFields
  <1> HIDE DEF c
  <1>9. PICK t : t = Store!PutChallenge(s, ch, c)
    OBVIOUS
  <1>10. StoreTyped(t) /\ CasePut(s, t, ch) /\ t.challenges[ch] = c
    BY <1>3, <1>8, <1>9, PuttingCase
  <1> QED BY <1>2, <1>4, <1>8, <1>9, <1>10 DEF p

\* An appeal with its resolution noted if it is the n-th.
Closed(appeal, n) == [appeal EXCEPT !.resolved = @ \/ appeal.appealId = n]

AppealClosed(c, d, n) ==
  /\ SameBut(c, d, {"appeals"}) /\ Len(d.appeals) = Len(c.appeals)
  /\ \A i \in 1..Len(c.appeals) :
       /\ d.appeals[i].appealId = c.appeals[i].appealId
       /\ d.appeals[i].resolved = (c.appeals[i].resolved \/ c.appeals[i].appealId = n)

(* An appeal is resolved: the case that has it is looked for. *)
LEMMA AppealResolvedEvent ==
  ASSUME NEW s, StoreTyped(s), NEW n \in Nat,
         NEW e, e = [name |-> "AppealResolved", appealId |-> n]
  PROVE  LET t == Store!ApplyEvent(s, e)
         IN /\ StoreTyped(t) /\ t.claims = s.claims /\ t.investigators = s.investigators
            /\ DOMAIN t.challenges = DOMAIN s.challenges
            /\ \A x \in DOMAIN s.challenges :
                 AppealClosed(s.challenges[x], t.challenges[x], n)
  <1> DEFINE marked(c) == [c EXCEPT !.appeals = [i \in DOMAIN c.appeals |-> Closed(c.appeals[i], n)]]
             put == [x \in DOMAIN s.challenges |-> marked(s.challenges[x])]
  <1>1. e.name = "AppealResolved" /\ e.appealId = n
    OBVIOUS
  <1>2. Store!ApplyEvent(s, e) = Store!OnAppealResolved(s, e)
    BY <1>1 DEF Store!ApplyEvent
  <1>3. Store!OnAppealResolved(s, e) = [s EXCEPT !.challenges = put]
    BY <1>1 DEF Store!OnAppealResolved, Closed
  <1>4. ASSUME NEW c \in CaseEntry
        PROVE  marked(c) \in CaseEntry /\ AppealClosed(c, marked(c), n)
    <2> DEFINE list == [i \in DOMAIN c.appeals |-> Closed(c.appeals[i], n)]
    <2>1. c.appeals \in Seq(AppealEntry)
      BY <1>4 DEF CaseEntry
    <2>2. \A a \in AppealEntry :
            /\ Closed(a, n) \in AppealEntry /\ Closed(a, n).appealId = a.appealId
            /\ Closed(a, n).resolved = (a.resolved \/ a.appealId = n)
      BY DEF Closed, AppealEntry
    <2>3. DOMAIN c.appeals = 1..Len(c.appeals) /\ Len(c.appeals) \in Nat
          /\ \A i \in 1..Len(c.appeals) : c.appeals[i] \in AppealEntry
      BY <2>1
    <2>4. /\ list \in [1..Len(c.appeals) -> AppealEntry]
          /\ \A i \in 1..Len(c.appeals) : list[i] = Closed(c.appeals[i], n)
      BY <2>2, <2>3
    <2>5. list \in Seq(AppealEntry)
      BY <2>3, <2>4, SeqDef
    <2>6. marked(c) = [c EXCEPT !.appeals = list]
      OBVIOUS
    <2> HIDE DEF list
    <2>7. Len(list) = Len(c.appeals)
      BY <2>3, <2>4, <2>5
    <2> HIDE DEF marked
    <2>8. marked(c) \in CaseEntry /\ marked(c).appeals = list /\ SameBut(c, marked(c), {"appeals"})
      BY <1>4, <2>5, <2>6 DEF CaseEntry, SameBut, CaseFields
    <2> QED BY <2>2, <2>3, <2>4, <2>7, <2>8 DEF AppealClosed
  <1> HIDE DEF marked
  <1>5. \A x \in DOMAIN s.challenges : s.challenges[x] \in CaseEntry
    BY IndexedCase
  <1>6. put \in [DOMAIN s.challenges -> CaseEntry] /\ DOMAIN put = DOMAIN s.challenges
        /\ \A x \in DOMAIN s.challenges : put[x] = marked(s.challenges[x])
    BY <1>4, <1>5
  <1> HIDE DEF put
  <1>7. PICK t : t = [claims |-> s.claims, challenges |-> put, investigators |-> s.investigators]
    OBVIOUS
  <1>8. StoreTyped(t) /\ t.claims = s.claims /\ t.investigators = s.investigators
        /\ t.challenges = put
    BY <1>6, <1>7 DEF StoreTyped
  <1>9. Store!ApplyEvent(s, e) = t
    BY <1>2, <1>3, <1>7, MapUpdates
  <1>10. \A x \in DOMAIN s.challenges : AppealClosed(s.challenges[x], t.challenges[x], n)
    BY <1>4, <1>5, <1>6, <1>8
  <1> QED BY <1>6, <1>8, <1>9, <1>10

(* The last report of a list is the one found if it is by the account and has no link. *)
LEMMA LastIsFound ==
  ASSUME NEW list \in Seq(ReportEntry), NEW a, Len(list) > 0,
         list[Len(list)].investigator = a, list[Len(list)].investigatorId = None
  PROVE  Store!Unlinked(list, a) = Len(list)
  <1> DEFINE n == Len(list)
             I == {i \in 1..n : list[i].investigator = a /\ list[i].investigatorId = None}
  <1>1. n \in I /\ \A i \in I : i \in Nat /\ n >= i
    OBVIOUS
  <1>2. Store!Unlinked(list, a) = IF I # {} THEN Store!Max(I) ELSE 0
    BY DEF Store!Unlinked, Store!SelectLastInSeq
  <1>3. n \in Nat
    OBVIOUS
  <1> HIDE DEF I, n
  <1>4. PICK m : m = Store!Max(I)
    OBVIOUS
  <1>5. m \in I /\ \A i \in I : m >= i
    BY <1>1, <1>4 DEF Store!Max
  <1>6. m = n
    BY <1>1, <1>3, <1>5
  <1> QED BY <1>1, <1>2, <1>4, <1>6 DEF n

\* The last of the reports got an identity.
LastLinked(before, after, id) ==
  /\ Len(after) = Len(before)
  /\ \A i \in 1..Len(before) :
       /\ after[i].investigator = before[i].investigator /\ after[i].verdict = before[i].verdict
       /\ after[i].investigatorId = IF i = Len(before) THEN id ELSE before[i].investigatorId

(* The last report is linked to an identity. *)
LEMMA ReportLinkedEvent ==
  ASSUME NEW s, StoreTyped(s), NEW ch \in DOMAIN s.challenges, NEW a \in Accounts,
         NEW id \in Investigators,
         NEW n, n = Len(s.challenges[ch].reports), n > 0,
         s.challenges[ch].reports[n].investigator = a,
         s.challenges[ch].reports[n].investigatorId = None,
         NEW e, e = [ name |-> "ReportIdentityLinked", challengeId |-> ch, investigator |-> a,
                      investigatorId |-> id ]
  PROVE  LET t == Store!ApplyEvent(s, e)
         IN /\ StoreTyped(t) /\ t.claims = s.claims
            /\ DOMAIN t.challenges = DOMAIN s.challenges
            /\ \A x \in DOMAIN s.challenges \ {ch} : t.challenges[x] = s.challenges[x]
            /\ SameBut(s.challenges[ch], t.challenges[ch], {"reports"})
            /\ LastLinked(s.challenges[ch].reports, t.challenges[ch].reports, id)
            /\ DOMAIN t.investigators = DOMAIN s.investigators \cup {id}
            /\ \A x \in DOMAIN s.investigators \ {id} : t.investigators[x] = s.investigators[x]
            /\ t.investigators[id].linkedReports =
                 Append(Store!GetInvestigator(s, id).linkedReports, ch)
  <1> DEFINE old == s.challenges[ch]
             list == [old.reports EXCEPT ![n] = [@ EXCEPT !.investigatorId = id]]
             c == [old EXCEPT !.reports = list]
             inv == [Store!GetInvestigator(s, id) EXCEPT !.linkedReports = Append(@, ch)]
  <1>1. e.name = "ReportIdentityLinked" /\ e.challengeId = ch /\ e.investigator = a
        /\ e.investigatorId = id
    OBVIOUS
  <1>2. Store!ApplyEvent(s, e) = Store!OnReportIdentityLinked(s, e)
    BY <1>1 DEF Store!ApplyEvent
  <1>3. ch \in Challenges /\ old \in CaseEntry /\ Store!GetChallenge(s, ch) = old
    BY IndexedCase
  <1>4. old.reports \in Seq(ReportEntry) /\ n \in 1..Len(old.reports)
    <2>1. old.reports \in Seq(ReportEntry)
      BY <1>3 DEF CaseEntry
    <2> HIDE DEF old
    <2>2. n \in Nat
      BY <2>1 DEF old
    <2> QED BY <2>1, <2>2 DEF old
  <1>5. c \in CaseEntry /\ SameBut(old, c, {"reports"}) /\ LastLinked(old.reports, c.reports, id)
    <2> DEFINE r == [old.reports[n] EXCEPT !.investigatorId = id]
    <2>1. /\ r \in ReportEntry /\ r.investigator = old.reports[n].investigator
          /\ r.verdict = old.reports[n].verdict /\ r.investigatorId = id
      <3>1. old.reports[n] \in ReportEntry
        BY <1>4
      <3> QED BY <3>1 DEF ReportEntry
    <2>2. list = [old.reports EXCEPT ![n] = r]
      OBVIOUS
    <2> HIDE DEF r, list
    <2>3. /\ list \in Seq(ReportEntry) /\ Len(list) = Len(old.reports)
          /\ \A i \in 1..Len(old.reports) : list[i] = IF i = n THEN r ELSE old.reports[i]
      BY <1>4, <2>1, <2>2, ExceptSeq
    <2>4. n = Len(old.reports)
      OBVIOUS
    <2> HIDE DEF old
    <2>5. c \in CaseEntry /\ SameBut(old, c, {"reports"}) /\ c.reports = list
      BY <1>3, <2>3 DEF CaseEntry, SameBut, CaseFields
    <2> HIDE DEF c
    <2> QED BY <2>1, <2>3, <2>4, <2>5 DEF LastLinked
  <1>6. Store!Unlinked(old.reports, a) = n
    <2> HIDE DEF old
    <2> QED BY <1>4, LastIsFound DEF old
  <1>7. /\ inv \in InvestigatorEntry
        /\ inv.linkedReports = Append(Store!GetInvestigator(s, id).linkedReports, ch)
    <2>1. Store!GetInvestigator(s, id) \in InvestigatorEntry
      BY Defaults
    <2>2. Store!GetInvestigator(s, id).linkedReports \in Seq(Challenges)
      BY <2>1 DEF InvestigatorEntry
    <2>3. Append(Store!GetInvestigator(s, id).linkedReports, ch) \in Seq(Challenges)
      BY <1>3, <2>2
    <2> QED BY <2>1, <2>3 DEF InvestigatorEntry
  <1>8. [old EXCEPT !.reports[n].investigatorId = id] = c
    OBVIOUS
  <1>9. Store!OnReportIdentityLinked(s, e) =
          Store!PutInvestigator(Store!PutChallenge(s, ch, c), id,
            [Store!GetInvestigator(s, id) EXCEPT !.linkedReports = Append(@, ch)])
    <2> HIDE DEF c, old
    <2>1. Store!GetChallenge(s, e.challengeId) = old /\ Store!Unlinked(old.reports, e.investigator) = n
      BY <1>1, <1>3, <1>6
    <2>2. Store!OnReportIdentityLinked(s, e) =
            Store!PutInvestigator(
              Store!PutChallenge(s, e.challengeId,
                [old EXCEPT !.reports[n].investigatorId = e.investigatorId]),
              e.investigatorId,
              [Store!GetInvestigator(s, e.investigatorId) EXCEPT
                 !.linkedReports = Append(@, e.challengeId)])
      BY <2>1 DEF Store!OnReportIdentityLinked
    <2> QED BY <1>1, <1>8, <2>2
  <1>10. PICK u : u = Store!PutChallenge(s, ch, c)
    OBVIOUS
  <1>11. PICK t : t = Store!PutInvestigator(u, id, inv)
    OBVIOUS
  <1>12. Store!ApplyEvent(s, e) = t
    BY <1>2, <1>9, <1>10, <1>11
  <1> HIDE DEF c, inv
  <1>13. StoreTyped(u) /\ CasePut(s, u, ch) /\ u.challenges[ch] = c
    BY <1>3, <1>5, <1>10, PuttingCase
  <1>14. StoreTyped(t) /\ InvestigatorPut(u, t, id) /\ t.investigators[id] = inv
    BY <1>7, <1>11, <1>13, PuttingInvestigator
  <1>15. /\ t.claims = s.claims /\ DOMAIN t.challenges = DOMAIN s.challenges
         /\ \A x \in DOMAIN s.challenges \ {ch} : t.challenges[x] = s.challenges[x]
         /\ t.challenges[ch] = c
         /\ DOMAIN t.investigators = DOMAIN s.investigators \cup {id}
         /\ \A x \in DOMAIN s.investigators \ {id} : t.investigators[x] = s.investigators[x]
    BY <1>13, <1>14 DEF CasePut, InvestigatorPut
  <1> QED BY <1>5, <1>7, <1>12, <1>14, <1>15

-----------------------------------------------------------------------------
(***************************************************************************)
(* Events and callbacks add no behaviour to the two contracts.             *)
(***************************************************************************)
LEMMA CallsAreRegistrySteps ==
  ASSUME NEW a \in Accounts,
         ClaimCall \/ EvidenceCall \/ CaseCall(a) \/ ResolveCall \/ AppealCall
  PROVE  Next
  <1>1. CASE ClaimCall
    BY <1>1 DEF ClaimCall, Next
  <1>2. CASE EvidenceCall
    BY <1>2 DEF EvidenceCall, Next
  <1>3. CASE CaseCall(a)
    BY <1>3 DEF CaseCall, Next
  <1>4. CASE ResolveCall
    BY <1>4 DEF ResolveCall, Next
  <1>5. CASE AppealCall
    BY <1>5 DEF AppealCall, Next
  <1> QED BY <1>1, <1>2, <1>3, <1>4, <1>5

(* Every step of the system is one of the two contracts', or none of theirs. *)
LEMMA StepOfContracts ==
  ASSUME [SystemNext]_systemVars
  PROVE  [IdentifiedNext]_allVars
  <1>1. ASSUME NEW a \in Accounts, Call(a)
        PROVE  IdentifiedNext
    <2>1. CASE (ClaimCall \/ EvidenceCall \/ CaseCall(a) \/ ResolveCall \/ AppealCall)
                 /\ UNCHANGED <<identityVars, links>>
      BY <2>1, CallsAreRegistrySteps DEF IdentifiedNext
    <2>2. CASE ReportCall(a) /\ UNCHANGED identityVars
      BY <2>2 DEF ReportCall, IdentifiedNext, Next
    <2>3. CASE IdentityCall(a) /\ UNCHANGED <<vars, links>>
      BY <2>3 DEF IdentityCall, IdentifiedNext, Identities!Next
    <2> QED BY <1>1, <2>1, <2>2, <2>3 DEF Call
  <1>2. ASSUME Tick, UNCHANGED <<identityVars, links>>
        PROVE  IdentifiedNext
    BY <1>2 DEF IdentifiedNext, Next
  <1>3. EmitNext => UNCHANGED allVars
    BY DEF EmitNext
  <1>4. UNCHANGED systemVars => UNCHANGED allVars
    BY DEF systemVars
  <1> QED BY <1>1, <1>2, <1>3, <1>4 DEF SystemNext

(***************************************************************************)
(* A recipient that calls the contracts while resolve() pays it, and the   *)
(* events around those calls, make no behaviour the two contracts do not   *)
(* have between transactions: what is proved of them holds here.           *)
(***************************************************************************)
THEOREM SystemRefinesContracts == SystemSpec => IdentifiedSpec
  <1>1. SystemInit => IdentifiedInit
    BY DEF SystemInit
  <1>2. [SystemNext]_systemVars => [IdentifiedNext]_allVars
    BY StepOfContracts
  <1> QED BY <1>1, <1>2, PTL DEF SystemSpec, IdentifiedSpec

(* An existing case exists on and keeps its claim. *)
LEMMA CasesStay ==
  ASSUME TypeOK, [Next]_vars, NEW ch \in Challenges, challenges[ch].exists
  PROVE  challenges'[ch].exists /\ challenges'[ch].claimId = challenges[ch].claimId
  <1>1. ASSUME NEW cl, NEW a, NEW type, NEW v, NEW closesAt, OpenCase(ch, cl, a, type, v, closesAt)
        PROVE  FALSE
    BY <1>1 DEF OpenCase
  <1>2. ASSUME NEW bond, NEW root, NEW state,
               challenges' = [challenges EXCEPT ![ch] = Progressed(@, bond, root, state)]
        PROVE  challenges'[ch].exists /\ challenges'[ch].claimId = challenges[ch].claimId
    BY <1>2 DEF TypeOK, Progressed
  <1>3. ASSUME NEW root, LockEvidence(ch, root)
        PROVE  challenges'[ch].exists /\ challenges'[ch].claimId = challenges[ch].claimId
    BY <1>2, <1>3 DEF LockEvidence
  <1>4. ASSUME BeginInvestigation(ch)
        PROVE  challenges'[ch].exists /\ challenges'[ch].claimId = challenges[ch].claimId
    BY <1>2, <1>4 DEF BeginInvestigation
  <1>5. ASSUME NEW status, NEW refusing, Resolve(ch, status, refusing)
        PROVE  challenges'[ch].exists /\ challenges'[ch].claimId = challenges[ch].claimId
    BY <1>2, <1>5 DEF Resolve
  <1>6. ASSUME FileAppeal(ch)
        PROVE  challenges'[ch].exists /\ challenges'[ch].claimId = challenges[ch].claimId
    BY <1>2, <1>6 DEF FileAppeal
  <1> QED BY <1>1, <1>3, <1>4, <1>5, <1>6, HowCasesMove

\* Nobody reported on or appealed a case that does not exist.
FreshInv ==
  \A ch \in Challenges : ~challenges[ch].exists =>
    reports[ch] = <<>> /\ \A j \in 1..Len(appeals) : appeals[j].challengeId # ch

(* That stays so. *)
LEMMA FreshStep ==
  ASSUME TypeOK, FreshInv, [Next]_vars
  PROVE  FreshInv'
  <1>1. \A ch \in Challenges : ~challenges'[ch].exists => ~challenges[ch].exists
    BY CasesStay
  <1>2. ASSUME NEW ch \in Challenges, NEW a, NEW v, NEW bundle, SubmitReport(ch, a, v, bundle)
        PROVE  \A x \in Challenges : ~challenges[x].exists => reports'[x] = reports[x]
    BY <1>2 DEF SubmitReport, TakesReports, TypeOK
  <1>3. \A x \in Challenges : ~challenges[x].exists => reports'[x] = reports[x]
    BY <1>2, OnlySubmitReportReports DEF reportVars
  <1>4. \A j \in 1..Len(appeals') :
          \/ j \in 1..Len(appeals) /\ appeals'[j].challengeId = appeals[j].challengeId
          \/ \E ch \in Challenges : challenges[ch].exists /\ appeals'[j].challengeId = ch
    <2>1. ASSUME NEW ch \in Challenges, FileAppeal(ch), NEW j \in 1..Len(appeals')
          PROVE  \/ j \in 1..Len(appeals) /\ appeals'[j].challengeId = appeals[j].challengeId
                 \/ challenges[ch].exists /\ appeals'[j].challengeId = ch
      <3>1. /\ challenges[ch].exists /\ appeals \in Seq(AppealRecord)
            /\ appeals' = Append(appeals, [challengeId |-> ch, resolved |-> FALSE])
        BY <2>1 DEF FileAppeal, Appealable, TypeOK
      <3>2. CASE j = Len(appeals) + 1
        BY <3>1, <3>2
      <3>3. CASE j # Len(appeals) + 1
        BY <2>1, <3>1, <3>3
      <3> QED BY <3>2, <3>3
    <2>2. ASSUME NEW n \in 1..Len(appeals), ResolveAppeal(n), NEW j \in 1..Len(appeals')
          PROVE  j \in 1..Len(appeals) /\ appeals'[j].challengeId = appeals[j].challengeId
      BY <2>2 DEF ResolveAppeal, TypeOK
    <2>3. CASE appeals' = appeals
      BY <2>3
    <2>4. \/ appeals' = appeals
          \/ \E ch \in Challenges : FileAppeal(ch)
          \/ \E n \in 1..Len(appeals) : ResolveAppeal(n)
      BY DEF Next, vars, caseVars, Tick, CreateClaim, RecordRelationship, SubmitEvidence,
             LockEvidence, OpenChallenge, RequestVerification, OpenCase, BeginInvestigation,
             SubmitReport, Resolve
    <2> QED BY <2>1, <2>2, <2>3, <2>4
  <1> QED BY <1>1, <1>3, <1>4 DEF FreshInv

\* What is known of the two contracts.
ChainInv ==
  /\ TypeOK /\ CaseInv /\ TalliesMatchReports /\ VerdictExact /\ BondAccounted
  /\ FreshInv /\ LineageInv /\ LinkInv

(* It holds at first. *)
LEMMA ChainInit == SystemInit => ChainInv
  <1>1. IdentifiedInit => LinkInv
    BY DEF IdentifiedInit, LinkInv
  <1>2. Init => VerdictExact /\ FreshInv
    BY DEF Init, VerdictExact, FreshInv
  <1> QED BY <1>1, <1>2, TypeInit, CaseInit, TalliesInit, BondInit, LineageInit
          DEF SystemInit, IdentifiedInit, ChainInv

(* It is kept. *)
LEMMA ChainStep ==
  ASSUME ChainInv, [SystemNext]_systemVars
  PROVE  ChainInv'
  <1>1. [IdentifiedNext]_allVars
    BY StepOfContracts
  <1> QED BY <1>1, StepOfRegistry, StepOfIdentities, TypeStep, CaseStep, TalliesStep, VerdictStep,
             BondStep, FreshStep, LineageStep, LinkStep DEF ChainInv

-----------------------------------------------------------------------------
(***************************************************************************)
(* What the read model has of the chain at every moment, events that a     *)
(* running resolve() is yet to emit included.  First one case: the facts   *)
(* that were there from the start, its reports, evidence and appeals.      *)
(***************************************************************************)
FactsKept(e, c, led) ==
  /\ e.claimId = c.claimId /\ e.windowCloseAt = c.windowCloseAt
  /\ e.evidenceRoot = c.evidenceRoot /\ e.bondWei = led.deposit

ReportsKept(e, reps) ==
  /\ Len(e.reports) = Len(reps)
  /\ \A i \in 1..Len(reps) : /\ e.reports[i].investigator = reps[i].investigator
                             /\ e.reports[i].verdict = reps[i].verdict

EvidenceKept(e, submitted) ==
  LET missed == Len(submitted) - Len(e.evidenceIds)
  IN /\ missed >= 0
     /\ \A i \in 1..Len(e.evidenceIds) : e.evidenceIds[i] = submitted[missed + i]

AppealsKept(e, ch, apps) ==
  /\ \A n \in 1..Len(e.appeals) :
       LET j == e.appeals[n].appealId
       IN j \in 1..Len(apps) /\ apps[j].challengeId = ch /\ apps[j].resolved = e.appeals[n].resolved
  /\ \A j \in 1..Len(apps) : apps[j].challengeId = ch =>
       \E n \in 1..Len(e.appeals) : e.appeals[n].appealId = j

\* Events in the queue: Resolved of a case, InvestigatorPaid of a case for an account.
Late(ch, queue) ==
  \E k \in 1..Len(queue) : queue[k].event.name = "Resolved" /\ queue[k].event.challengeId = ch

PaidLater(ch, a, queue) ==
  \E k \in 1..Len(queue) : /\ queue[k].event.name = "InvestigatorPaid"
                           /\ queue[k].event.challengeId = ch /\ queue[k].event.investigator = a

VerdictKept(e, ch, v, queue) ==
  \/ e.verdict = None /\ (v.exists => Late(ch, queue))
  \/ v.exists /\ e.verdict = [status |-> v.status, resolvedAt |-> v.resolvedAt]

PayoutsKept(e, ch, v, led, queue) ==
  /\ ~v.exists => e.payouts = <<>>
  /\ \A i \in 1..Len(e.payouts) :
       /\ e.payouts[i].amountWei = led.share
       /\ led.share > 0 => e.payouts[i].investigator \in led.paid
  /\ \A a \in led.paid :
       /\ led.share > 0
       /\ \/ PaidLater(ch, a, queue)
          \/ \E i \in 1..Len(e.payouts) : e.payouts[i].investigator = a

CaseKept(ch) ==
  LET e == indexed.challenges[ch]
  IN /\ FactsKept(e, challenges[ch], ledger[ch])
     /\ ReportsKept(e, reports[ch])
     /\ EvidenceKept(e, pendingEvidence[ch])
     /\ AppealsKept(e, ch, appeals)
     /\ VerdictKept(e, ch, verdicts[ch], unemitted)
     /\ PayoutsKept(e, ch, verdicts[ch], ledger[ch], unemitted)

\* A claim with the cases about it.
ClaimKept(cl) ==
  LET e == indexed.claims[cl]
  IN /\ e.validUntil = claims[cl].validUntil
     /\ \A i \in 1..Len(e.challengeIds) :
          challenges[e.challengeIds[i]].exists /\ challenges[e.challengeIds[i]].claimId = cl
     /\ \A ch \in Challenges : challenges[ch].exists /\ challenges[ch].claimId = cl =>
          \E i \in 1..Len(e.challengeIds) : e.challengeIds[i] = ch

\* The queue holds what resolve() found, and that stays true.
PaidEvent(ch, a, amount) ==
  [name |-> "InvestigatorPaid", challengeId |-> ch, investigator |-> a, amount |-> amount]

ResolvedEvent(ch, cl, v) ==
  [ name |-> "Resolved", challengeId |-> ch, claimId |-> cl, status |-> v.status,
    occurredAt |-> v.resolvedAt ]

StillTrue(event) ==
  \E ch \in Challenges :
    /\ verdicts[ch].exists
    /\ \/ event = ResolvedEvent(ch, challenges[ch].claimId, verdicts[ch])
       \/ \E a \in Accounts :
            /\ event = PaidEvent(ch, a, ledger[ch].share)
            /\ ledger[ch].share > 0 => a \in ledger[ch].paid

(***************************************************************************)
(* Work, evidence, money, verdicts and appeals are there whatever payees   *)
(* call.                                                                   *)
(***************************************************************************)
IndexInv ==
  /\ StoreTyped(indexed)
  /\ DOMAIN indexed.claims = Existing(claims)
  /\ DOMAIN indexed.challenges = Existing(challenges)
  /\ \A cl \in Existing(claims) : ClaimKept(cl)
  /\ \A ch \in Existing(challenges) : CaseKept(ch)
  /\ \A k \in 1..Len(unemitted) : StillTrue(unemitted[k].event)

(***************************************************************************)
(* Links.  A report has an identity if it was linked, and then that one;   *)
(* the record of an identity lists the cases of its links, one entry each. *)
(***************************************************************************)
ReportsLinked ==
  \A ch \in Existing(challenges) : \A i \in 1..Len(reports[ch]) :
    LET id == indexed.challenges[ch].reports[i].investigatorId
        About(k) == /\ links[k].challengeId = ch
                    /\ links[k].investigator = reports[ch][i].investigator
    IN /\ \A k \in 1..Len(links) : About(k) => id = links[k].investigatorId
       /\ id # None => \E k \in 1..Len(links) : About(k)

\* The links of an identity; f numbers the elements of L from 1 to m.
LinksOf(id) == {k \in 1..Len(links) : links[k].investigatorId = id}

Numbers(f, m, L) ==
  /\ f \in [1..m -> L] /\ \A i, j \in 1..m : f[i] = f[j] => i = j
  /\ \A k \in L : \E i \in 1..m : f[i] = k

PairsWithLinks(f, record, id) ==
  /\ Numbers(f, Len(record), LinksOf(id))
  /\ \A i \in 1..Len(record) : links[f[i]].challengeId = record[i]

RecordOf(id) == Store!GetInvestigator(indexed, id).linkedReports

LinksInv ==
  /\ ReportsLinked
  /\ \A id \in Investigators : \E f : PairsWithLinks(f, RecordOf(id), id)
  /\ DOMAIN indexed.investigators \subseteq Existing(investigators)

-----------------------------------------------------------------------------
(***************************************************************************)
(* Every step.                                                             *)
(***************************************************************************)
(* What was resolved stays so, with the claim it is about. *)
LEMMA StillTrueStep ==
  ASSUME ChainInv, [SystemNext]_systemVars, NEW event, StillTrue(event)
  PROVE  StillTrue(event)'
  <1>1. [Next]_vars
    BY StepOfContracts, StepOfRegistry
  <1>2. PICK ch \in Challenges :
          /\ verdicts[ch].exists
          /\ \/ event = ResolvedEvent(ch, challenges[ch].claimId, verdicts[ch])
             \/ \E a \in Accounts :
                  /\ event = PaidEvent(ch, a, ledger[ch].share)
                  /\ ledger[ch].share > 0 => a \in ledger[ch].paid
    BY DEF StillTrue
  <1>3. verdicts'[ch] = verdicts[ch] /\ ledger'[ch] = ledger[ch]
    BY <1>1, <1>2, DecidedStaysPut DEF ChainInv
  <1>4. challenges[ch].exists
    BY <1>2 DEF ChainInv, CaseInv, VerdictIffDecided
  <1>5. challenges'[ch].claimId = challenges[ch].claimId
    BY <1>1, <1>4, CasesStay DEF ChainInv
  <1> QED BY <1>2, <1>3, <1>5 DEF StillTrue

(* So the queue, as long as nothing is added. *)
LEMMA QueueKept ==
  ASSUME ChainInv, IndexInv, [SystemNext]_systemVars, unemitted' = unemitted
  PROVE  (\A k \in 1..Len(unemitted) : StillTrue(unemitted[k].event))'
  <1> SUFFICES ASSUME NEW k \in 1..Len(unemitted)
               PROVE  StillTrue(unemitted[k].event)'
    OBVIOUS
  <1>1. PICK event : event = unemitted[k].event
    OBVIOUS
  <1>2. StillTrue(event)
    BY <1>1 DEF IndexInv
  <1>3. StillTrue(event)'
    BY <1>2, StillTrueStep
  <1> QED BY <1>1, <1>3 DEF StillTrue

(* Each part of what is kept of a case reads a few fields of its entry. *)
LEMMA PartsCarryOver ==
  ASSUME NEW c, NEW d
  PROVE  /\ d.reports = c.reports => \A reps : ReportsKept(c, reps) => ReportsKept(d, reps)
         /\ d.evidenceIds = c.evidenceIds =>
              \A submitted : EvidenceKept(c, submitted) => EvidenceKept(d, submitted)
         /\ d.appeals = c.appeals =>
              \A ch, apps : AppealsKept(c, ch, apps) => AppealsKept(d, ch, apps)
         /\ d.verdict = c.verdict =>
              \A ch, v, queue : VerdictKept(c, ch, v, queue) => VerdictKept(d, ch, v, queue)
         /\ d.payouts = c.payouts =>
              \A ch, v, led, queue :
                PayoutsKept(c, ch, v, led, queue) => PayoutsKept(d, ch, v, led, queue)
  <1>1. d.reports = c.reports => \A reps : ReportsKept(c, reps) => ReportsKept(d, reps)
    BY DEF ReportsKept
  <1>2. d.evidenceIds = c.evidenceIds =>
          \A submitted : EvidenceKept(c, submitted) => EvidenceKept(d, submitted)
    BY DEF EvidenceKept
  <1>3. d.appeals = c.appeals => \A ch, apps : AppealsKept(c, ch, apps) => AppealsKept(d, ch, apps)
    BY DEF AppealsKept
  <1>4. d.verdict = c.verdict =>
          \A ch, v, queue : VerdictKept(c, ch, v, queue) => VerdictKept(d, ch, v, queue)
    BY DEF VerdictKept
  <1>5. d.payouts = c.payouts =>
          \A ch, v, led, queue : PayoutsKept(c, ch, v, led, queue) => PayoutsKept(d, ch, v, led, queue)
    BY DEF PayoutsKept
  <1> QED BY <1>1, <1>2, <1>3, <1>4, <1>5

\* A step that leaves the records of a case alone.
CaseUntouched(ch) ==
  /\ challenges'[ch] = challenges[ch] /\ verdicts'[ch] = verdicts[ch]
  /\ reports'[ch] = reports[ch] /\ pendingEvidence'[ch] = pendingEvidence[ch]
  /\ ledger'[ch] = ledger[ch]

(* Such a case is kept if its entry is left alone too. *)
LEMMA UntouchedCaseKept ==
  ASSUME NEW ch, CaseKept(ch), CaseUntouched(ch), UNCHANGED <<appeals, unemitted>>,
         indexed'.challenges[ch] = indexed.challenges[ch]
  PROVE  CaseKept(ch)'
  BY DEF CaseKept, CaseUntouched

(***************************************************************************)
(* Claims are kept if neither the cases about them change nor what the     *)
(* read model has of them besides the status.                              *)
(***************************************************************************)
LEMMA UntouchedClaimKept ==
  ASSUME IndexInv, NEW cl \in Existing(claims),
         indexed'.claims[cl].validUntil = indexed.claims[cl].validUntil,
         indexed'.claims[cl].challengeIds = indexed.claims[cl].challengeIds,
         claims'[cl].validUntil = claims[cl].validUntil,
         \A ch \in Challenges :
           /\ challenges'[ch].exists <=> challenges[ch].exists
           /\ challenges[ch].exists => challenges'[ch].claimId = challenges[ch].claimId
  PROVE  ClaimKept(cl)'
  <1>1. ClaimKept(cl) /\ cl \in DOMAIN indexed.claims /\ StoreTyped(indexed)
    BY DEF IndexInv
  <1>2. indexed.claims[cl] \in ClaimEntry
    BY <1>1 DEF StoreTyped
  <1>3. indexed.claims[cl].challengeIds \in Seq(Challenges)
    BY <1>2 DEF ClaimEntry
  <1>4. \A i \in 1..Len(indexed.claims[cl].challengeIds) :
          indexed.claims[cl].challengeIds[i] \in Challenges
    BY <1>3
  <1> QED BY <1>1, <1>4 DEF ClaimKept

(* What an existing case has in the read model. *)
LEMMA KeptCase ==
  ASSUME ChainInv, IndexInv, NEW ch \in Challenges, challenges[ch].exists
  PROVE  /\ ch \in DOMAIN indexed.challenges /\ StoreTyped(indexed) /\ CaseKept(ch)
         /\ indexed.challenges[ch] \in CaseEntry
         /\ indexed.challenges[ch].claimId = challenges[ch].claimId
         /\ challenges[ch].claimId \in DOMAIN indexed.claims
         /\ challenges[ch].claimId \in Claims
  <1>1. ch \in Existing(challenges)
    BY DEF Existing, ChainInv, TypeOK
  <1>2. ch \in DOMAIN indexed.challenges /\ StoreTyped(indexed) /\ CaseKept(ch)
    BY <1>1 DEF IndexInv
  <1>3. challenges[ch].claimId \in Claims /\ claims[challenges[ch].claimId].exists
    BY DEF ChainInv, TypeOK, CaseInv, StatusesAgree, Agrees
  <1>4. challenges[ch].claimId \in Existing(claims)
    BY <1>3 DEF Existing, ChainInv, TypeOK
  <1> QED BY <1>2, <1>3, <1>4, IndexedCase DEF CaseKept, FactsKept, IndexInv

-----------------------------------------------------------------------------
(***************************************************************************)
(* One call after the other.  A claim is created.                          *)
(***************************************************************************)
LEMMA IndexCreateClaim ==
  ASSUME ChainInv, IndexInv, [SystemNext]_systemVars, NEW cl \in Claims, CreateClaim(cl),
         Emit(<<[name |-> "ClaimCreated", claimId |-> cl]>>)
  PROVE  IndexInv'
  <1>1. /\ ~claims[cl].exists /\ claims' \in [Claims -> ClaimRecord] /\ claims'[cl].exists
        /\ claims'[cl].validUntil = 0 /\ \A y \in Claims \ {cl} : claims'[y] = claims[y]
        /\ challenges' = challenges /\ verdicts' = verdicts /\ reports' = reports
        /\ appeals' = appeals /\ pendingEvidence' = pendingEvidence /\ ledger' = ledger
    BY DEF CreateClaim, caseVars, evidenceVars, reportVars, moneyVars, ChainInv, TypeOK,
           ClaimRecord, ClaimStatus
  <1>2. claims \in [Claims -> ClaimRecord] /\ DOMAIN challenges = Challenges
    BY DEF ChainInv, TypeOK
  <1>3. Existing(claims') = Existing(claims) \cup {cl} /\ cl \notin Existing(claims)
    BY <1>1, <1>2 DEF Existing
  <1>4. StoreTyped(indexed) /\ cl \notin DOMAIN indexed.claims
    BY <1>3 DEF IndexInv
  <1>5. /\ StoreTyped(indexed') /\ ClaimPut(indexed, indexed', cl)
        /\ indexed'.claims[cl] = [status |-> "OPEN", validUntil |-> 0, challengeIds |-> <<>>]
    BY <1>4, OneEvent, ClaimCreatedEvent DEF Emit
  <1>6. \A ch \in Existing(challenges) : CaseKept(ch)'
    BY <1>1, <1>5, UntouchedCaseKept DEF IndexInv, Emit, ClaimPut, CaseUntouched
  <1>7. \A y \in Existing(claims) : ClaimKept(y)'
    <2> SUFFICES ASSUME NEW y \in Existing(claims)
                 PROVE  ClaimKept(y)'
      OBVIOUS
    <2>1. y \in Claims /\ y # cl /\ y \in DOMAIN indexed.claims
      BY <1>2, <1>3 DEF Existing, IndexInv
    <2>2. indexed'.claims[y] = indexed.claims[y] /\ claims'[y] = claims[y]
      BY <1>1, <1>5, <2>1 DEF ClaimPut
    <2> QED BY <1>1, <2>2, UntouchedClaimKept
  <1>8. ClaimKept(cl)'
    <2>1. \A ch \in Challenges : ~(challenges[ch].exists /\ challenges[ch].claimId = cl)
      BY <1>1 DEF ChainInv, CaseInv, StatusesAgree, Agrees
    <2>2. indexed'.claims[cl].challengeIds = <<>> /\ indexed'.claims[cl].validUntil = 0
      BY <1>5
    <2> QED BY <1>1, <2>1, <2>2 DEF ClaimKept
  <1>9. /\ DOMAIN indexed'.claims = Existing(claims')
        /\ DOMAIN indexed'.challenges = Existing(challenges')
    BY <1>1, <1>3, <1>5 DEF IndexInv, ClaimPut
  <1>10. /\ \A y \in Existing(claims') : ClaimKept(y)'
         /\ \A ch \in Existing(challenges') : CaseKept(ch)'
    BY <1>1, <1>3, <1>6, <1>7, <1>8
  <1>11. (\A k \in 1..Len(unemitted) : StillTrue(unemitted[k].event))'
    BY QueueKept DEF Emit
  <1> QED BY <1>5, <1>9, <1>10, <1>11 DEF IndexInv

(***************************************************************************)
(* A step with which no claim or case begins to exist, no valid time and   *)
(* no list of cases changes, keeps all if it keeps each existing case and  *)
(* the queue.                                                              *)
(***************************************************************************)
LEMMA IndexKept ==
  ASSUME ChainInv, IndexInv, [SystemNext]_systemVars, StoreTyped(indexed'),
         DOMAIN indexed'.claims = DOMAIN indexed.claims,
         DOMAIN indexed'.challenges = DOMAIN indexed.challenges,
         \A cl \in DOMAIN indexed.claims :
           /\ indexed'.claims[cl].validUntil = indexed.claims[cl].validUntil
           /\ indexed'.claims[cl].challengeIds = indexed.claims[cl].challengeIds,
         \A cl \in Claims : /\ claims'[cl].exists <=> claims[cl].exists
                            /\ claims'[cl].validUntil = claims[cl].validUntil,
         \A ch \in Challenges : challenges'[ch].exists => challenges[ch].exists,
         \A ch \in Existing(challenges) : CaseKept(ch)',
         (\A k \in 1..Len(unemitted) : StillTrue(unemitted[k].event))'
  PROVE  IndexInv'
  <1>1. [Next]_vars /\ TypeOK /\ TypeOK'
    BY StepOfContracts, StepOfRegistry, ChainStep DEF ChainInv
  <1>2. \A ch \in Challenges :
          /\ challenges'[ch].exists <=> challenges[ch].exists
          /\ challenges[ch].exists => challenges'[ch].claimId = challenges[ch].claimId
    BY <1>1, CasesStay
  <1>3. Existing(challenges') = Existing(challenges) /\ Existing(claims') = Existing(claims)
    BY <1>1, <1>2 DEF Existing, TypeOK
  <1>4. \A cl \in Existing(claims) : cl \in Claims /\ cl \in DOMAIN indexed.claims
    BY <1>1 DEF Existing, TypeOK, IndexInv
  <1>5. \A cl \in Existing(claims) : ClaimKept(cl)'
    BY <1>2, <1>4, UntouchedClaimKept
  <1>6. /\ \A cl \in Existing(claims') : ClaimKept(cl)'
        /\ \A ch \in Existing(challenges') : CaseKept(ch)'
        /\ DOMAIN indexed'.claims = Existing(claims')
        /\ DOMAIN indexed'.challenges = Existing(challenges')
    BY <1>3, <1>5 DEF IndexInv
  <1> QED BY <1>6 DEF IndexInv

(* What a put that leaves a claim all but its status changes of claims. *)
LEMMA StatusPut ==
  ASSUME NEW s, NEW t, StoreTyped(s), NEW ch \in DOMAIN s.challenges, NEW cl \in DOMAIN s.claims,
         CaseAndClaimPut(s, t, ch, cl), NEW status, Marked(s, t, cl, status)
  PROVE  /\ DOMAIN t.claims = DOMAIN s.claims /\ DOMAIN t.challenges = DOMAIN s.challenges
         /\ \A y \in DOMAIN s.claims : /\ t.claims[y].validUntil = s.claims[y].validUntil
                                       /\ t.claims[y].challengeIds = s.claims[y].challengeIds
  BY DEF CaseAndClaimPut, Marked

(* Evidence is appended on both sides. *)
LEMMA EvidenceAppended ==
  ASSUME NEW ids \in Seq(EvidenceIds), NEW submitted \in Seq(EvidenceIds),
         NEW evidenceId \in EvidenceIds, NEW c, NEW d,
         c.evidenceIds = ids, EvidenceKept(c, submitted), d.evidenceIds = Append(ids, evidenceId)
  PROVE  EvidenceKept(d, Append(submitted, evidenceId))
  <1> DEFINE n == Len(ids)
             m == Len(submitted)
             more == Append(ids, evidenceId)
             after == Append(submitted, evidenceId)
  <1>1. /\ n \in Nat /\ m \in Nat /\ Len(after) = m + 1 /\ Len(more) = n + 1
        /\ \A i \in 1..n : more[i] = ids[i]
        /\ \A i \in 1..m : after[i] = submitted[i]
        /\ more[n + 1] = evidenceId /\ after[m + 1] = evidenceId
    OBVIOUS
  <1>2. m - n >= 0 /\ \A i \in 1..n : ids[i] = submitted[m - n + i]
    BY DEF EvidenceKept
  <1> HIDE DEF more, after, n, m
  <1>3. \A i \in 1..(n + 1) : more[i] = after[(m + 1) - (n + 1) + i]
    <2> SUFFICES ASSUME NEW i \in 1..(n + 1)
                 PROVE  more[i] = after[(m + 1) - (n + 1) + i]
      OBVIOUS
    <2>1. CASE i = n + 1
      <3>1. (m + 1) - (n + 1) + i = m + 1
        BY <1>1, <2>1
      <3> QED BY <1>1, <2>1, <3>1
    <2>2. CASE i # n + 1
      <3>1. i \in 1..n /\ (m + 1) - (n + 1) + i = m - n + i /\ m - n + i \in 1..m
        BY <1>1, <1>2, <2>2
      <3> QED BY <1>1, <1>2, <3>1
    <2> QED BY <2>1, <2>2
  <1>4. (m + 1) - (n + 1) >= 0
    BY <1>1, <1>2
  <1> QED BY <1>1, <1>3, <1>4 DEF EvidenceKept, more, after

(* Evidence is submitted. *)
LEMMA IndexSubmitEvidence ==
  ASSUME ChainInv, IndexInv, [SystemNext]_systemVars, NEW s \in Subjects,
         NEW evidenceId \in EvidenceIds, SubmitEvidence(s, evidenceId),
         Emit(<<[name |-> "EvidenceSubmitted", subjectId |-> s, evidenceId |-> evidenceId]>>)
  PROVE  IndexInv'
  <1> DEFINE e == [name |-> "EvidenceSubmitted", subjectId |-> s, evidenceId |-> evidenceId]
  <1>1. /\ claims' = claims /\ challenges' = challenges /\ verdicts' = verdicts
        /\ reports' = reports /\ appeals' = appeals /\ ledger' = ledger /\ unemitted' = unemitted
        /\ pendingEvidence' = [pendingEvidence EXCEPT ![s] = Append(@, evidenceId)]
    BY DEF SubmitEvidence, claimVars, caseVars, reportVars, moneyVars, Emit
  <1>2. pendingEvidence \in [Subjects -> Seq(EvidenceIds)] /\ DOMAIN challenges = Challenges
    BY DEF ChainInv, TypeOK
  <1>3. StoreTyped(indexed) /\ DOMAIN indexed.challenges = Existing(challenges)
    BY DEF IndexInv
  <1>4. \A x \in Challenges : x \in Subjects
    BY DEF Subjects
  <1>5. \A x \in Existing(challenges) \ {s} : CaseUntouched(x) /\ CaseKept(x)
    BY <1>1, <1>2, <1>4 DEF CaseUntouched, Existing, IndexInv
  <1>6. PICK t : t = Store!ApplyEvent(indexed, e)
    OBVIOUS
  <1>7. indexed' = t
    BY <1>6, OneEvent DEF Emit
  <1>8. CASE s \notin DOMAIN indexed.challenges
    <2>1. indexed' = indexed
      BY <1>3, <1>6, <1>7, <1>8, EvidenceSubmittedEvent
    <2>2. \A x \in Existing(challenges) : CaseKept(x)'
      BY <1>1, <1>3, <1>5, <1>8, <2>1, UntouchedCaseKept
    <2> QED BY <1>1, <1>3, <2>1, <2>2, IndexKept, QueueKept
  <1>9. CASE s \in DOMAIN indexed.challenges
    <2> DEFINE c == indexed.challenges[s]
               d == t.challenges[s]
    <2>1. /\ StoreTyped(t) /\ CasePut(indexed, t, s)
          /\ SameBut(c, d, {"evidenceIds"}) /\ d.evidenceIds = Append(c.evidenceIds, evidenceId)
      BY <1>3, <1>6, <1>9, EvidenceSubmittedEvent
    <2>2. s \in Challenges /\ challenges[s].exists /\ c \in CaseEntry /\ CaseKept(s)
      BY <1>2, <1>3, <1>9, IndexedCase DEF Existing, IndexInv
    <2>3. /\ d.claimId = c.claimId /\ d.windowCloseAt = c.windowCloseAt
          /\ d.evidenceRoot = c.evidenceRoot /\ d.bondWei = c.bondWei /\ d.reports = c.reports
          /\ d.appeals = c.appeals /\ d.verdict = c.verdict /\ d.payouts = c.payouts
      BY <2>1 DEF SameBut, CaseFields
    <2> HIDE DEF d
    <2>4. EvidenceKept(d, pendingEvidence'[s])
      <3>1. c.evidenceIds \in Seq(EvidenceIds) /\ pendingEvidence[s] \in Seq(EvidenceIds)
        BY <1>2, <2>2 DEF CaseEntry, Subjects
      <3>2. EvidenceKept(c, pendingEvidence[s])
        BY <2>2 DEF CaseKept
      <3>3. pendingEvidence'[s] = Append(pendingEvidence[s], evidenceId)
        BY <1>1, <1>2
      <3> HIDE DEF c
      <3> QED BY <2>1, <3>1, <3>2, <3>3, EvidenceAppended
    <2>5. /\ FactsKept(c, challenges[s], ledger[s]) /\ ReportsKept(c, reports[s])
          /\ AppealsKept(c, s, appeals) /\ VerdictKept(c, s, verdicts[s], unemitted)
          /\ PayoutsKept(c, s, verdicts[s], ledger[s], unemitted)
      BY <2>2 DEF CaseKept
    <2> HIDE DEF c
    <2>6. /\ FactsKept(d, challenges[s], ledger[s]) /\ ReportsKept(d, reports[s])
          /\ AppealsKept(d, s, appeals) /\ VerdictKept(d, s, verdicts[s], unemitted)
          /\ PayoutsKept(d, s, verdicts[s], ledger[s], unemitted)
      BY <2>3, <2>5, PartsCarryOver DEF FactsKept
    <2>7. CaseKept(s)'
      BY <1>1, <1>7, <2>4, <2>6 DEF CaseKept, d
    <2>8. \A x \in Existing(challenges) \ {s} : CaseKept(x)'
      BY <1>1, <1>3, <1>5, <1>7, <2>1, UntouchedCaseKept DEF CasePut
    <2>9. /\ indexed'.claims = indexed.claims /\ StoreTyped(indexed')
          /\ DOMAIN indexed'.challenges = DOMAIN indexed.challenges
      BY <1>7, <1>9, <2>1 DEF CasePut
    <2> QED BY <1>1, <2>7, <2>8, <2>9, IndexKept, QueueKept
  <1> QED BY <1>8, <1>9

(***************************************************************************)
(* A case is marked with a state, perhaps with a root too, and its claim   *)
(* with a status, on both sides.                                           *)
(***************************************************************************)
LEMMA IndexProgress ==
  ASSUME ChainInv, IndexInv, [SystemNext]_systemVars, NEW ch \in Challenges,
         challenges[ch].exists, NEW bond, NEW root, NEW state, NEW status,
         challenges' = [challenges EXCEPT ![ch] = Progressed(@, bond, root, state)],
         claims' = [claims EXCEPT ![challenges[ch].claimId] = WithStatus(@, status)],
         UNCHANGED <<verdicts, appeals, pendingEvidence, reports, ledger, unemitted>>,
         StoreTyped(indexed'),
         CaseAndClaimPut(indexed, indexed', ch, challenges[ch].claimId),
         Marked(indexed, indexed', challenges[ch].claimId, status),
         SameBut(indexed.challenges[ch], indexed'.challenges[ch], {"evidenceRoot", "state"}),
         indexed'.challenges[ch].evidenceRoot = root
  PROVE  IndexInv'
  <1> DEFINE c == indexed.challenges[ch]
             d == indexed'.challenges[ch]
             cl == challenges[ch].claimId
  <1>1. /\ challenges \in [Challenges -> ChallengeRecord] /\ claims \in [Claims -> ClaimRecord]
    BY DEF ChainInv, TypeOK
  <1>2. /\ ch \in DOMAIN indexed.challenges /\ StoreTyped(indexed) /\ CaseKept(ch)
        /\ c \in CaseEntry /\ cl \in DOMAIN indexed.claims /\ cl \in Claims
    BY KeptCase
  <1>3. /\ d.claimId = c.claimId /\ d.windowCloseAt = c.windowCloseAt
        /\ d.evidenceRoot = root /\ d.bondWei = c.bondWei /\ d.reports = c.reports
        /\ d.appeals = c.appeals /\ d.verdict = c.verdict /\ d.payouts = c.payouts
        /\ d.evidenceIds = c.evidenceIds
    BY DEF SameBut, CaseFields
  <1>4. /\ challenges'[ch].exists
        /\ challenges'[ch].claimId = cl
        /\ challenges'[ch].windowCloseAt = challenges[ch].windowCloseAt
        /\ challenges'[ch].evidenceRoot = root
        /\ \A x \in Challenges \ {ch} : challenges'[x] = challenges[x]
    BY <1>1 DEF Progressed
  <1>5. \A y \in Claims : /\ claims'[y].exists <=> claims[y].exists
                          /\ claims'[y].validUntil = claims[y].validUntil
    BY <1>1, <1>2 DEF WithStatus
  <1>6. CaseKept(ch)'
    <2>1. /\ FactsKept(c, challenges[ch], ledger[ch]) /\ ReportsKept(c, reports[ch])
          /\ EvidenceKept(c, pendingEvidence[ch]) /\ AppealsKept(c, ch, appeals)
          /\ VerdictKept(c, ch, verdicts[ch], unemitted)
          /\ PayoutsKept(c, ch, verdicts[ch], ledger[ch], unemitted)
      BY <1>2 DEF CaseKept
    <2> HIDE DEF c, d
    <2>2. /\ FactsKept(d, challenges'[ch], ledger[ch]) /\ ReportsKept(d, reports[ch])
          /\ EvidenceKept(d, pendingEvidence[ch]) /\ AppealsKept(d, ch, appeals)
          /\ VerdictKept(d, ch, verdicts[ch], unemitted)
          /\ PayoutsKept(d, ch, verdicts[ch], ledger[ch], unemitted)
      <3>1. FactsKept(d, challenges'[ch], ledger[ch])
        BY <1>3, <1>4, <2>1 DEF FactsKept
      <3> QED BY <1>3, <2>1, <3>1, PartsCarryOver
    <2> QED BY <2>2 DEF CaseKept, d
  <1>7. \A x \in Existing(challenges) \ {ch} : CaseKept(x)'
    <2> SUFFICES ASSUME NEW x \in Existing(challenges) \ {ch}
                 PROVE  CaseKept(x)'
      OBVIOUS
    <2>1. x \in Challenges /\ CaseKept(x) /\ x \in DOMAIN indexed.challenges
      BY <1>1 DEF Existing, IndexInv
    <2>2. CaseUntouched(x) /\ indexed'.challenges[x] = indexed.challenges[x]
      BY <1>4, <2>1 DEF CaseUntouched, CaseAndClaimPut
    <2> QED BY <2>1, <2>2, UntouchedCaseKept
  <1>8. /\ DOMAIN indexed'.claims = DOMAIN indexed.claims
        /\ DOMAIN indexed'.challenges = DOMAIN indexed.challenges
        /\ \A y \in DOMAIN indexed.claims :
             /\ indexed'.claims[y].validUntil = indexed.claims[y].validUntil
             /\ indexed'.claims[y].challengeIds = indexed.claims[y].challengeIds
    BY <1>2, StatusPut
  <1> HIDE DEF c, d, cl
  <1> QED BY <1>4, <1>5, <1>6, <1>7, <1>8, IndexKept, QueueKept

(* Evidence is locked. *)
LEMMA IndexLockEvidence ==
  ASSUME ChainInv, IndexInv, [SystemNext]_systemVars, NEW s \in Subjects, NEW root \in Roots,
         LockEvidence(s, root),
         Emit(<<[name |-> "EvidenceLocked", subjectId |-> s, evidenceRoot |-> root]>>)
  PROVE  IndexInv'
  <1> DEFINE e == [name |-> "EvidenceLocked", subjectId |-> s, evidenceRoot |-> root]
             cl == challenges[s].claimId
  <1>1. UNCHANGED <<verdicts, appeals, pendingEvidence, reports, ledger, unemitted>>
    BY DEF LockEvidence, reportVars, moneyVars, Emit
  <1>2. PICK t : t = Store!ApplyEvent(indexed, e)
    OBVIOUS
  <1>3. indexed' = t
    BY <1>2, OneEvent DEF Emit
  <1>4. CASE s \in Challenges /\ challenges[s].exists
    <2>1. /\ s \in DOMAIN indexed.challenges /\ StoreTyped(indexed)
          /\ indexed.challenges[s].claimId = cl /\ cl \in DOMAIN indexed.claims
      BY <1>4, KeptCase
    <2>2. /\ StoreTyped(t) /\ CaseAndClaimPut(indexed, t, s, cl)
          /\ SameBut(indexed.challenges[s], t.challenges[s], {"evidenceRoot", "state"})
          /\ t.challenges[s].evidenceRoot = root
          /\ Marked(indexed, t, cl, "EVIDENCE_LOCKED")
      BY <1>2, <2>1, EvidenceLockedEvent
    <2>3. /\ challenges' = [challenges EXCEPT ![s] =
                              Progressed(@, challenges[s].bond, root, "EVIDENCE_LOCKED")]
          /\ claims' = [claims EXCEPT ![cl] = WithStatus(@, "EVIDENCE_LOCKED")]
      BY <1>4 DEF LockEvidence
    <2> HIDE DEF cl
    <2> QED BY <1>1, <1>3, <1>4, <2>2, <2>3, IndexProgress DEF cl
  <1>5. CASE ~(s \in Challenges /\ challenges[s].exists)
    <2>1. s \notin DOMAIN indexed.challenges
      BY <1>5 DEF IndexInv, Existing, ChainInv, TypeOK
    <2>2. indexed' = indexed
      BY <1>2, <1>3, <2>1, EvidenceLockedElsewhere
    <2>3. claims' = claims /\ challenges' = challenges
      BY <1>5 DEF LockEvidence
    <2>4. \A x \in Existing(challenges) : CaseKept(x)'
      BY <1>1, <2>2, <2>3, UntouchedCaseKept DEF CaseUntouched, IndexInv
    <2>5. StoreTyped(indexed')
      BY <2>2 DEF IndexInv
    <2> QED BY <1>1, <2>2, <2>3, <2>4, <2>5, IndexKept, QueueKept
  <1> QED BY <1>4, <1>5

(* An investigation starts. *)
LEMMA IndexBeginInvestigation ==
  ASSUME ChainInv, IndexInv, [SystemNext]_systemVars, NEW ch \in Challenges,
         BeginInvestigation(ch), Emit(<<[name |-> "InvestigationStarted", challengeId |-> ch]>>)
  PROVE  IndexInv'
  <1> DEFINE e == [name |-> "InvestigationStarted", challengeId |-> ch]
             cl == challenges[ch].claimId
             root == challenges[ch].evidenceRoot
  <1>1. /\ challenges[ch].exists
        /\ UNCHANGED <<verdicts, appeals, pendingEvidence, reports, ledger, unemitted>>
        /\ challenges' = [challenges EXCEPT ![ch] =
                            Progressed(@, challenges[ch].bond, root, "INVESTIGATING")]
        /\ claims' = [claims EXCEPT ![cl] = WithStatus(@, "INVESTIGATING")]
    BY DEF BeginInvestigation, ReadyToInvestigate, evidenceVars, reportVars, moneyVars, Emit
  <1>2. PICK t : t = Store!ApplyEvent(indexed, e)
    OBVIOUS
  <1>3. indexed' = t
    BY <1>2, OneEvent DEF Emit
  <1>4. /\ ch \in DOMAIN indexed.challenges /\ StoreTyped(indexed) /\ CaseKept(ch)
        /\ indexed.challenges[ch].claimId = cl /\ cl \in DOMAIN indexed.claims
        /\ indexed.challenges[ch] \in CaseEntry
    BY <1>1, KeptCase
  <1>5. /\ StoreTyped(t) /\ CaseAndClaimPut(indexed, t, ch, cl)
        /\ SameBut(indexed.challenges[ch], t.challenges[ch], {"state"})
        /\ Marked(indexed, t, cl, "INVESTIGATING")
    BY <1>2, <1>4, InvestigationStartedEvent
  <1>6. indexed.challenges[ch].evidenceRoot = root
    BY <1>4 DEF CaseKept, FactsKept
  <1>7. /\ SameBut(indexed.challenges[ch], t.challenges[ch], {"evidenceRoot", "state"})
        /\ t.challenges[ch].evidenceRoot = root
    BY <1>5, <1>6 DEF SameBut, CaseFields
  <1> HIDE DEF root, cl
  <1> QED BY <1>1, <1>3, <1>5, <1>7, IndexProgress DEF root, cl

(* Claims are related, the older one perhaps superseded. *)
LEMMA IndexRecordRelationship ==
  ASSUME ChainInv, IndexInv, [SystemNext]_systemVars, NEW clA \in Claims, NEW clB \in Claims,
         NEW relation \in RelationshipType, RecordRelationship(clA, clB, relation),
         Emit(IF relation = "SUPERSEDES" /\ Supersedable(clA)
              THEN <<[name |-> "Superseded", oldClaimId |-> clA, newClaimId |-> clB,
                      occurredAt |-> now]>>
              ELSE <<>>)
  PROVE  IndexInv'
  <1>1. /\ claims[clA].exists /\ unemitted' = unemitted
        /\ UNCHANGED <<challenges, verdicts, appeals, pendingEvidence, reports, ledger>>
    BY DEF RecordRelationship, caseVars, evidenceVars, reportVars, moneyVars, Emit
  <1>2. claims \in [Claims -> ClaimRecord] /\ now \in Nat /\ StoreTyped(indexed)
    BY DEF ChainInv, TypeOK, IndexInv
  <1>3. CASE ~(relation = "SUPERSEDES" /\ Supersedable(clA))
    <2>1. claims' = claims /\ indexed' = indexed
      BY <1>3, NoEvent DEF RecordRelationship, claimVars, Emit
    <2>2. \A x \in Existing(challenges) : CaseKept(x)'
      BY <1>1, <2>1, UntouchedCaseKept DEF CaseUntouched, IndexInv
    <2> QED BY <1>1, <1>2, <2>1, <2>2, IndexKept, QueueKept
  <1>4. CASE relation = "SUPERSEDES" /\ Supersedable(clA)
    <2> DEFINE e == [name |-> "Superseded", oldClaimId |-> clA, newClaimId |-> clB,
                     occurredAt |-> now]
    <2>1. /\ claims'[clA].exists /\ claims'[clA].validUntil = now
          /\ \A y \in Claims \ {clA} : claims'[y] = claims[y]
          /\ DOMAIN claims' = Claims
      BY <1>2, <1>4 DEF RecordRelationship
    <2>2. Existing(claims') = Existing(claims)
      BY <1>1, <1>2, <2>1 DEF Existing
    <2>3. clA \in DOMAIN indexed.claims /\ DOMAIN indexed.claims = Existing(claims)
      BY <1>1, <1>2 DEF IndexInv, Existing
    <2>4. indexed' = Store!ApplyEvent(indexed, e)
      BY <1>4, OneEvent DEF Emit
    <2>5. PICK t : t = Store!ApplyEvent(indexed, e)
      OBVIOUS
    <2>6. PICK time \in Nat : /\ time = now
                             /\ e = [ name |-> "Superseded", oldClaimId |-> clA,
                                     newClaimId |-> clB, occurredAt |-> time ]
      BY <1>2
    <2> HIDE DEF e
    <2>7. /\ StoreTyped(t) /\ ClaimPut(indexed, t, clA)
          /\ t.claims[clA].validUntil = now
          /\ t.claims[clA].challengeIds = indexed.claims[clA].challengeIds
      BY <1>2, <2>3, <2>5, <2>6, SupersededEvent
    <2>8. ClaimKept(clA)'
      <3>1. ClaimKept(clA)
        BY <2>3 DEF IndexInv
      <3> QED BY <1>1, <2>1, <2>4, <2>5, <2>7, <3>1 DEF ClaimKept
    <2>9. ASSUME NEW y \in Existing(claims), y # clA
          PROVE  ClaimKept(y)'
      <3>1. y \in Claims /\ indexed'.claims[y] = indexed.claims[y] /\ claims'[y] = claims[y]
        BY <1>2, <2>1, <2>3, <2>4, <2>5, <2>7, <2>9 DEF Existing, ClaimPut
      <3> QED BY <1>1, <3>1, UntouchedClaimKept
    <2>10. \A x \in Existing(challenges) : CaseKept(x)'
      BY <1>1, <2>4, <2>5, <2>7, UntouchedCaseKept DEF CaseUntouched, IndexInv, ClaimPut
    <2>11. /\ \A y \in Existing(claims') : ClaimKept(y)'
           /\ \A x \in Existing(challenges') : CaseKept(x)'
      BY <1>1, <2>2, <2>8, <2>9, <2>10
    <2>12. /\ DOMAIN indexed'.claims = Existing(claims') /\ StoreTyped(indexed')
           /\ DOMAIN indexed'.challenges = Existing(challenges')
      BY <1>1, <2>2, <2>3, <2>4, <2>5, <2>7 DEF ClaimPut, IndexInv
    <2> QED BY <1>1, <2>11, <2>12, QueueKept DEF IndexInv
  <1> QED BY <1>3, <1>4

(***************************************************************************)
(* A case is opened.                                                       *)
(***************************************************************************)
LEMMA IndexOpenCase ==
  ASSUME ChainInv, IndexInv, [SystemNext]_systemVars, NEW ch \in Challenges, NEW cl \in Claims,
         NEW a \in Accounts, NEW type \in ChallengeType, NEW v \in Amounts, NEW closesAt \in Nat,
         Challengeable(cl), OpenCase(ch, cl, a, type, v, closesAt),
         Emit(<<Opened(ch, cl, a, type, v, closesAt)>>)
  PROVE  IndexInv'
  <1> DEFINE e == Opened(ch, cl, a, type, v, closesAt)
             d == indexed'.challenges[ch]
  <1>1. /\ ~challenges[ch].exists /\ claims[cl].exists
        /\ UNCHANGED <<verdicts, appeals, pendingEvidence, reports, unemitted>>
    BY DEF OpenCase, Challengeable, evidenceVars, reportVars, Emit
  <1>2. /\ claims \in [Claims -> ClaimRecord] /\ challenges \in [Challenges -> ChallengeRecord]
        /\ ledger \in [Challenges -> LedgerEntry] /\ v \in Nat
    BY ConstantsAssumption DEF ChainInv, TypeOK
  <1>3. /\ challenges'[ch].exists /\ challenges'[ch].claimId = cl
        /\ challenges'[ch].windowCloseAt = closesAt /\ challenges'[ch].evidenceRoot = None
        /\ \A x \in Challenges \ {ch} : challenges'[x] = challenges[x]
        /\ DOMAIN challenges' = Challenges
    BY <1>2 DEF OpenCase
  <1>4. /\ claims'[cl].exists /\ claims'[cl].validUntil = claims[cl].validUntil
        /\ \A y \in Claims \ {cl} : claims'[y] = claims[y]
        /\ DOMAIN claims' = Claims
    BY <1>1, <1>2 DEF OpenCase, WithStatus
  <1>5. /\ ledger'[ch].deposit = v /\ ledger'[ch].paid = {}
        /\ \A x \in Challenges \ {ch} : ledger'[x] = ledger[x]
    BY <1>2 DEF OpenCase
  <1>6. /\ Existing(claims') = Existing(claims) /\ cl \in Existing(claims)
        /\ Existing(challenges') = Existing(challenges) \cup {ch} /\ ch \notin Existing(challenges)
    BY <1>1, <1>2, <1>3, <1>4 DEF Existing
  <1>7. /\ StoreTyped(indexed) /\ ch \notin DOMAIN indexed.challenges
        /\ cl \in DOMAIN indexed.claims /\ DOMAIN indexed.claims = Existing(claims)
        /\ DOMAIN indexed.challenges = Existing(challenges)
    BY <1>6 DEF IndexInv
  <1>8. PICK t : t = Store!ApplyEvent(indexed, e)
    OBVIOUS
  <1>9. indexed' = t
    BY <1>8, OneEvent DEF Emit
  <1>10. /\ StoreTyped(indexed') /\ CaseAndClaimPut(indexed, indexed', ch, cl)
         /\ indexed'.claims[cl] =
              [status |-> "CHALLENGED", validUntil |-> indexed.claims[cl].validUntil,
               challengeIds |-> Append(indexed.claims[cl].challengeIds, ch)]
         /\ d.claimId = cl /\ d.bondWei = v /\ d.windowCloseAt = closesAt
         /\ d.evidenceRoot = None /\ d.state = "OPEN" /\ d.evidenceIds = <<>>
         /\ d.reports = <<>> /\ d.verdict = None /\ d.appeals = <<>> /\ d.payouts = <<>>
    <2>1. /\ StoreTyped(t) /\ CaseAndClaimPut(indexed, t, ch, cl)
          /\ t.claims[cl] =
               [status |-> "CHALLENGED", validUntil |-> indexed.claims[cl].validUntil,
                challengeIds |-> Append(indexed.claims[cl].challengeIds, ch)]
          /\ t.challenges[ch].claimId = cl /\ t.challenges[ch].bondWei = v
          /\ t.challenges[ch].windowCloseAt = closesAt /\ t.challenges[ch].evidenceRoot = None
          /\ t.challenges[ch].state = "OPEN" /\ t.challenges[ch].evidenceIds = <<>>
          /\ t.challenges[ch].reports = <<>> /\ t.challenges[ch].verdict = None
          /\ t.challenges[ch].appeals = <<>> /\ t.challenges[ch].payouts = <<>>
      BY <1>2, <1>7, <1>8, ChallengeOpenedEvent, SMTT(90)
    <2> QED BY <1>9, <2>1
  <1> HIDE DEF e, d
  <1>11. CaseKept(ch)'
    <2>1. /\ reports[ch] = <<>> /\ ~verdicts[ch].exists /\ pendingEvidence[ch] \in Seq(EvidenceIds)
          /\ \A j \in 1..Len(appeals) : appeals[j].challengeId # ch
      BY <1>1, UndecidedHasNoVerdict DEF ChainInv, FreshInv, TypeOK, Subjects
    <2>2. FactsKept(d, challenges'[ch], ledger'[ch])
      BY <1>3, <1>5, <1>10 DEF FactsKept
    <2>3. ReportsKept(d, reports[ch])
      BY <1>10, <2>1 DEF ReportsKept
    <2>4. EvidenceKept(d, pendingEvidence[ch])
      BY <1>10, <2>1 DEF EvidenceKept
    <2>5. AppealsKept(d, ch, appeals)
      BY <1>10, <2>1 DEF AppealsKept
    <2>6. VerdictKept(d, ch, verdicts[ch], unemitted)
      BY <1>10, <2>1 DEF VerdictKept
    <2>7. PayoutsKept(d, ch, verdicts[ch], ledger'[ch], unemitted)
      BY <1>5, <1>10, <2>1 DEF PayoutsKept
    <2> QED BY <1>1, <2>2, <2>3, <2>4, <2>5, <2>6, <2>7 DEF CaseKept, d
  <1>12. ASSUME NEW x \in Existing(challenges)
         PROVE  CaseKept(x)'
    <2>1. x \in Challenges \ {ch} /\ CaseKept(x) /\ x \in DOMAIN indexed.challenges
      BY <1>2, <1>6, <1>7 DEF Existing, IndexInv
    <2>2. CaseUntouched(x) /\ indexed'.challenges[x] = indexed.challenges[x]
      BY <1>1, <1>3, <1>5, <1>10, <2>1 DEF CaseUntouched, CaseAndClaimPut
    <2> QED BY <1>1, <2>1, <2>2, UntouchedCaseKept
  <1>13. ASSUME NEW y \in Existing(claims)
         PROVE  ClaimKept(y)'
    <2> DEFINE ids == indexed.claims[y].challengeIds
               after == indexed'.claims[y].challengeIds
    <2>1. y \in Claims /\ ClaimKept(y) /\ y \in DOMAIN indexed.claims
          /\ indexed.claims[y] \in ClaimEntry
      BY <1>2, <1>7 DEF Existing, IndexInv, StoreTyped
    <2>2. /\ indexed'.claims[y].validUntil = claims'[y].validUntil
          /\ after = IF y = cl THEN Append(ids, ch) ELSE ids
      <3>1. indexed.claims[y].validUntil = claims[y].validUntil
        BY <2>1 DEF ClaimKept
      <3>2. CASE y = cl
        BY <1>4, <1>10, <3>1, <3>2
      <3>3. CASE y # cl
        <4>1. indexed'.claims[y] = indexed.claims[y]
          BY <1>10, <2>1, <3>3 DEF CaseAndClaimPut
        <4> QED BY <1>4, <2>1, <3>1, <3>3, <4>1
      <3> QED BY <3>2, <3>3
    <2>3. ids \in Seq(Challenges)
      BY <2>1 DEF ClaimEntry
    <2>4. /\ \A i \in 1..Len(ids) : challenges[ids[i]].exists /\ challenges[ids[i]].claimId = y
          /\ \A x \in Challenges : challenges[x].exists /\ challenges[x].claimId = y =>
               \E i \in 1..Len(ids) : ids[i] = x
      BY <2>1 DEF ClaimKept
    <2>5. CASE y # cl
      <3>1. \A i \in 1..Len(ids) : ids[i] \in Challenges \ {ch}
        BY <1>1, <2>3, <2>4
      <3> QED BY <1>3, <2>2, <2>4, <2>5, <3>1 DEF ClaimKept
    <2>6. CASE y = cl
      <3> HIDE DEF ids, after
      <3>1. /\ after = Append(ids, ch) /\ Len(after) = Len(ids) + 1 /\ after[Len(ids) + 1] = ch
            /\ \A i \in 1..Len(ids) : after[i] = ids[i] /\ ids[i] \in Challenges \ {ch}
            /\ Len(ids) \in Nat
        <4>1. after = Append(ids, ch)
          BY <2>2, <2>6
        <4>2. \A i \in 1..Len(ids) : ids[i] \in Challenges \ {ch}
          BY <1>1, <2>3, <2>4
        <4> QED BY <2>3, <4>1, <4>2
      <3>2. \A i \in 1..Len(after) : challenges'[after[i]].exists /\ challenges'[after[i]].claimId = y
        <4> SUFFICES ASSUME NEW i \in 1..Len(after)
                     PROVE  challenges'[after[i]].exists /\ challenges'[after[i]].claimId = y
          OBVIOUS
        <4>1. CASE i = Len(ids) + 1
          BY <1>3, <2>6, <3>1, <4>1
        <4>2. CASE i # Len(ids) + 1
          BY <1>3, <2>4, <3>1, <4>2
        <4> QED BY <4>1, <4>2
      <3>3. \A x \in Challenges : challenges'[x].exists /\ challenges'[x].claimId = y =>
              \E i \in 1..Len(after) : after[i] = x
        <4> SUFFICES ASSUME NEW x \in Challenges, challenges'[x].exists, challenges'[x].claimId = y
                     PROVE  \E i \in 1..Len(after) : after[i] = x
          OBVIOUS
        <4>1. CASE x = ch
          BY <3>1, <4>1
        <4>2. CASE x # ch
          BY <1>3, <2>4, <3>1, <4>2
        <4> QED BY <4>1, <4>2
      <3> QED BY <2>2, <3>2, <3>3 DEF ClaimKept, after
    <2> QED BY <2>5, <2>6
  <1>14. /\ \A y \in Existing(claims') : ClaimKept(y)'
         /\ \A x \in Existing(challenges') : CaseKept(x)'
    BY <1>6, <1>11, <1>12, <1>13
  <1>15. /\ DOMAIN indexed'.claims = Existing(claims')
         /\ DOMAIN indexed'.challenges = Existing(challenges')
    BY <1>6, <1>7, <1>10 DEF CaseAndClaimPut
  <1> QED BY <1>1, <1>10, <1>14, <1>15, QueueKept DEF IndexInv

(***************************************************************************)
(* Reports.  One is appended on both sides.                                *)
(***************************************************************************)
ReportAdded(before, after, a, verdict) ==
  /\ Len(after) = Len(before) + 1
  /\ \A i \in 1..Len(before) : /\ after[i].investigator = before[i].investigator
                               /\ after[i].verdict = before[i].verdict
  /\ after[Len(before) + 1].investigator = a /\ after[Len(before) + 1].verdict = verdict

(* The reports are still the same. *)
LEMMA ReportAppended ==
  ASSUME NEW reps \in Seq(Report), NEW r \in Report, NEW c, NEW d, ReportsKept(c, reps),
         ReportAdded(c.reports, d.reports, r.investigator, r.verdict)
  PROVE  ReportsKept(d, Append(reps, r))
  <1> DEFINE more == Append(reps, r)
             n == Len(reps)
  <1>1. n \in Nat /\ Len(more) = n + 1 /\ more[n + 1] = r /\ \A i \in 1..n : more[i] = reps[i]
    OBVIOUS
  <1>2. Len(c.reports) = n
    BY DEF ReportsKept
  <1>3. \A i \in 1..n : /\ d.reports[i].investigator = reps[i].investigator
                        /\ d.reports[i].verdict = reps[i].verdict
    BY <1>2 DEF ReportsKept, ReportAdded
  <1>4. /\ Len(d.reports) = n + 1
        /\ d.reports[n + 1].investigator = r.investigator /\ d.reports[n + 1].verdict = r.verdict
    BY <1>2 DEF ReportAdded
  <1> HIDE DEF more, n
  <1>5. \A i \in 1..Len(more) : /\ d.reports[i].investigator = more[i].investigator
                                /\ d.reports[i].verdict = more[i].verdict
    <2> SUFFICES ASSUME NEW i \in 1..Len(more)
                 PROVE  /\ d.reports[i].investigator = more[i].investigator
                        /\ d.reports[i].verdict = more[i].verdict
      OBVIOUS
    <2>1. CASE i = n + 1
      BY <1>1, <1>4, <2>1
    <2>2. CASE i # n + 1
      <3>1. i \in 1..n
        BY <1>1, <2>2
      <3> QED BY <1>1, <1>3, <3>1
    <2> QED BY <2>1, <2>2
  <1>6. Len(d.reports) = Len(more)
    BY <1>1, <1>4
  <1> QED BY <1>5, <1>6 DEF ReportsKept, more

(* A report is submitted, whatever is noted of the identity behind it. *)
LEMMA IndexReport ==
  ASSUME ChainInv, IndexInv, [SystemNext]_systemVars, NEW ch \in Challenges, NEW a \in Accounts,
         NEW verdict \in Verdicts, NEW bundle \in Roots, SubmitReport(ch, a, verdict, bundle),
         unemitted' = unemitted, StoreTyped(indexed'), indexed'.claims = indexed.claims,
         DOMAIN indexed'.challenges = DOMAIN indexed.challenges,
         \A x \in DOMAIN indexed.challenges \ {ch} : indexed'.challenges[x] = indexed.challenges[x],
         SameBut(indexed.challenges[ch], indexed'.challenges[ch], {"reports"}),
         ReportAdded(indexed.challenges[ch].reports, indexed'.challenges[ch].reports, a, verdict)
  PROVE  IndexInv'
  <1> DEFINE c == indexed.challenges[ch]
             d == indexed'.challenges[ch]
             r == [investigator |-> a, verdict |-> verdict, evidenceBundleHash |-> bundle]
  <1>1. /\ claims' = claims /\ challenges' = challenges /\ verdicts' = verdicts
        /\ appeals' = appeals /\ pendingEvidence' = pendingEvidence /\ ledger' = ledger
        /\ reports' = [reports EXCEPT ![ch] = Append(@, r)] /\ challenges[ch].exists
    BY DEF SubmitReport, TakesReports, claimVars, caseVars, evidenceVars, moneyVars
  <1>2. reports \in [Challenges -> Seq(Report)] /\ DOMAIN challenges = Challenges
    BY DEF ChainInv, TypeOK
  <1>3. /\ ch \in DOMAIN indexed.challenges /\ CaseKept(ch)
        /\ DOMAIN indexed.challenges = Existing(challenges)
    BY <1>1, KeptCase DEF IndexInv
  <1>4. /\ d.claimId = c.claimId /\ d.windowCloseAt = c.windowCloseAt
        /\ d.evidenceRoot = c.evidenceRoot /\ d.bondWei = c.bondWei
        /\ d.evidenceIds = c.evidenceIds
        /\ d.appeals = c.appeals /\ d.verdict = c.verdict /\ d.payouts = c.payouts
    BY DEF SameBut, CaseFields
  <1>5. CaseKept(ch)'
    <2>1. /\ FactsKept(c, challenges[ch], ledger[ch]) /\ ReportsKept(c, reports[ch])
          /\ EvidenceKept(c, pendingEvidence[ch]) /\ AppealsKept(c, ch, appeals)
          /\ VerdictKept(c, ch, verdicts[ch], unemitted)
          /\ PayoutsKept(c, ch, verdicts[ch], ledger[ch], unemitted)
      BY <1>3 DEF CaseKept
    <2>2. r \in Report /\ r.investigator = a /\ r.verdict = verdict
      BY DEF Report
    <2>3. reports'[ch] = Append(reports[ch], r) /\ reports[ch] \in Seq(Report)
      BY <1>1, <1>2
    <2> HIDE DEF c, d, r
    <2>4. ReportsKept(d, reports'[ch])
      BY <2>1, <2>2, <2>3, ReportAppended DEF c, d
    <2>5. /\ FactsKept(d, challenges[ch], ledger[ch])
          /\ EvidenceKept(d, pendingEvidence[ch]) /\ AppealsKept(d, ch, appeals)
          /\ VerdictKept(d, ch, verdicts[ch], unemitted)
          /\ PayoutsKept(d, ch, verdicts[ch], ledger[ch], unemitted)
      BY <1>4, <2>1, PartsCarryOver DEF FactsKept
    <2> QED BY <1>1, <2>4, <2>5 DEF CaseKept, d
  <1>6. \A x \in Existing(challenges) \ {ch} : CaseKept(x)'
    <2> SUFFICES ASSUME NEW x \in Existing(challenges) \ {ch}
                 PROVE  CaseKept(x)'
      OBVIOUS
    <2>1. x \in Challenges /\ CaseKept(x) /\ x \in DOMAIN indexed.challenges
      BY <1>2 DEF Existing, IndexInv
    <2>2. CaseUntouched(x) /\ indexed'.challenges[x] = indexed.challenges[x]
      BY <1>1, <1>2, <2>1 DEF CaseUntouched
    <2> QED BY <1>1, <2>1, <2>2, UntouchedCaseKept
  <1> HIDE DEF c, d, r
  <1> QED BY <1>1, <1>5, <1>6, IndexKept, QueueKept

(* A report of an account. *)
LEMMA IndexSubmitReport ==
  ASSUME ChainInv, IndexInv, [SystemNext]_systemVars, NEW ch \in Challenges, NEW a \in Accounts,
         NEW verdict \in Verdicts, NEW bundle \in Roots, SubmitReport(ch, a, verdict, bundle),
         Emit(<<Submitted(ch, a, verdict)>>)
  PROVE  IndexInv'
  <1> DEFINE e == Submitted(ch, a, verdict)
  <1>1. challenges[ch].exists /\ unemitted' = unemitted
    BY DEF SubmitReport, TakesReports, Emit
  <1>2. PICK t : t = Store!ApplyEvent(indexed, e)
    OBVIOUS
  <1>3. indexed' = t
    BY <1>2, OneEvent DEF Emit
  <1>4. ch \in DOMAIN indexed.challenges /\ StoreTyped(indexed)
        /\ indexed.challenges[ch].reports \in Seq(ReportEntry)
    BY <1>1, KeptCase DEF CaseEntry
  <1>5. /\ StoreTyped(t) /\ CasePut(indexed, t, ch)
        /\ SameBut(indexed.challenges[ch], t.challenges[ch], {"reports"})
        /\ t.challenges[ch].reports = Append(indexed.challenges[ch].reports,
             [investigator |-> a, investigatorId |-> None, verdict |-> verdict])
    BY <1>2, <1>4, ReportSubmittedEvent
  <1>6. ReportAdded(indexed.challenges[ch].reports, t.challenges[ch].reports, a, verdict)
    <2>1. [investigator |-> a, investigatorId |-> None, verdict |-> verdict] \in ReportEntry
      BY DEF ReportEntry
    <2> QED BY <1>4, <1>5, <2>1 DEF ReportAdded
  <1>7. /\ DOMAIN indexed'.challenges = DOMAIN indexed.challenges
        /\ indexed'.claims = indexed.claims
    BY <1>3, <1>4, <1>5 DEF CasePut
  <1> QED BY <1>1, <1>3, <1>5, <1>6, <1>7, IndexReport DEF CasePut

(* What a report and its link leave of the read model. *)
LEMMA ReportAndLink ==
  ASSUME ChainInv, IndexInv, NEW ch \in Challenges, challenges[ch].exists, NEW a \in Accounts,
         NEW verdict \in Verdicts, NEW id \in Investigators,
         Emit(<<Submitted(ch, a, verdict),
                [ name |-> "ReportIdentityLinked", challengeId |-> ch,
                  investigator |-> a, investigatorId |-> id ]>>)
  PROVE  /\ StoreTyped(indexed') /\ indexed'.claims = indexed.claims
         /\ DOMAIN indexed'.challenges = DOMAIN indexed.challenges
         /\ \A x \in DOMAIN indexed.challenges \ {ch} :
              indexed'.challenges[x] = indexed.challenges[x]
         /\ SameBut(indexed.challenges[ch], indexed'.challenges[ch], {"reports"})
         /\ ReportAdded(indexed.challenges[ch].reports, indexed'.challenges[ch].reports, a, verdict)
         /\ \A i \in 1..Len(indexed.challenges[ch].reports) :
              indexed'.challenges[ch].reports[i].investigatorId =
                indexed.challenges[ch].reports[i].investigatorId
         /\ indexed'.challenges[ch].reports[Len(indexed.challenges[ch].reports) + 1].investigatorId = id
         /\ DOMAIN indexed'.investigators = DOMAIN indexed.investigators \cup {id}
         /\ \A x \in DOMAIN indexed.investigators \ {id} :
              indexed'.investigators[x] = indexed.investigators[x]
         /\ indexed'.investigators[id].linkedReports =
              Append(Store!GetInvestigator(indexed, id).linkedReports, ch)
  <1> DEFINE e == Submitted(ch, a, verdict)
             f == [ name |-> "ReportIdentityLinked", challengeId |-> ch,
                    investigator |-> a, investigatorId |-> id ]
             r == [investigator |-> a, investigatorId |-> None, verdict |-> verdict]
             reps == indexed.challenges[ch].reports
             n == Len(reps)
  <1>1. PICK s : s = Store!ApplyEvent(indexed, e)
    OBVIOUS
  <1>2. PICK g, t : g = f /\ t = Store!ApplyEvent(s, g)
    OBVIOUS
  <1>3. indexed' = t
    BY <1>1, <1>2, TwoEvents DEF Emit
  <1>4. ch \in DOMAIN indexed.challenges /\ StoreTyped(indexed) /\ reps \in Seq(ReportEntry)
    BY KeptCase DEF CaseEntry
  <1>5. /\ StoreTyped(s) /\ CasePut(indexed, s, ch)
        /\ SameBut(indexed.challenges[ch], s.challenges[ch], {"reports"})
        /\ s.challenges[ch].reports = Append(reps, r)
    BY <1>1, <1>4, ReportSubmittedEvent
  <1>6. /\ n \in Nat /\ Len(s.challenges[ch].reports) = n + 1
        /\ s.challenges[ch].reports[n + 1] = r
        /\ \A i \in 1..n : s.challenges[ch].reports[i] = reps[i]
    BY <1>4, <1>5 DEF ReportEntry
  <1>7. r.investigator = a /\ r.investigatorId = None /\ r.verdict = verdict
    OBVIOUS
  <1>8. /\ ch \in DOMAIN s.challenges
        /\ DOMAIN s.challenges = DOMAIN indexed.challenges
        /\ s.claims = indexed.claims /\ s.investigators = indexed.investigators
        /\ \A x \in DOMAIN indexed.challenges \ {ch} : s.challenges[x] = indexed.challenges[x]
    BY <1>4, <1>5 DEF CasePut
  <1> HIDE DEF e, r, reps, n
  <1>9. PICK m \in Nat : m = n + 1
    BY <1>6
  <1>10. /\ m = Len(s.challenges[ch].reports) /\ m > 0
         /\ s.challenges[ch].reports[m].investigator = a
         /\ s.challenges[ch].reports[m].investigatorId = None
    BY <1>6, <1>7, <1>9
  <1>11. /\ StoreTyped(t) /\ t.claims = s.claims
         /\ DOMAIN t.challenges = DOMAIN s.challenges
         /\ \A x \in DOMAIN s.challenges \ {ch} : t.challenges[x] = s.challenges[x]
         /\ SameBut(s.challenges[ch], t.challenges[ch], {"reports"})
         /\ LastLinked(s.challenges[ch].reports, t.challenges[ch].reports, id)
         /\ DOMAIN t.investigators = DOMAIN s.investigators \cup {id}
         /\ \A x \in DOMAIN s.investigators \ {id} : t.investigators[x] = s.investigators[x]
         /\ t.investigators[id].linkedReports =
              Append(Store!GetInvestigator(s, id).linkedReports, ch)
    <2>1. g = [ name |-> "ReportIdentityLinked", challengeId |-> ch,
                investigator |-> a, investigatorId |-> id ]
      BY <1>2
    <2> HIDE DEF f
    <2>2. StoreTyped(s) /\ t = Store!ApplyEvent(s, g)
      BY <1>2, <1>5
    <2> QED BY <1>8, <1>10, <2>1, <2>2, ReportLinkedEvent
  <1> HIDE DEF f
  <1>12. SameBut(indexed.challenges[ch], t.challenges[ch], {"reports"})
    BY <1>5, <1>11 DEF SameBut
  <1>13. /\ ReportAdded(reps, t.challenges[ch].reports, a, verdict)
         /\ \A i \in 1..n : t.challenges[ch].reports[i].investigatorId = reps[i].investigatorId
         /\ t.challenges[ch].reports[n + 1].investigatorId = id
    <2>1. Len(reps) = n
      BY DEF n
    <2>2. /\ Len(t.challenges[ch].reports) = n + 1
          /\ \A i \in 1..(n + 1) :
               /\ t.challenges[ch].reports[i].investigator = s.challenges[ch].reports[i].investigator
               /\ t.challenges[ch].reports[i].verdict = s.challenges[ch].reports[i].verdict
               /\ t.challenges[ch].reports[i].investigatorId =
                    IF i = n + 1 THEN id ELSE s.challenges[ch].reports[i].investigatorId
      BY <1>6, <1>11 DEF LastLinked
    <2>3. /\ n + 1 \in 1..(n + 1) /\ \A i \in 1..n : i \in 1..(n + 1) /\ i # n + 1
      BY <1>6
    <2> QED BY <1>6, <1>7, <2>1, <2>2, <2>3 DEF ReportAdded
  <1>14. Store!GetInvestigator(s, id) = Store!GetInvestigator(indexed, id)
    BY <1>8 DEF Store!GetInvestigator
  <1> QED BY <1>3, <1>8, <1>11, <1>12, <1>13, <1>14 DEF reps, n

(* A report of an account for an identity. *)
LEMMA IndexSubmitReportAsIdentity ==
  ASSUME ChainInv, IndexInv, [SystemNext]_systemVars, NEW ch \in Challenges, NEW a \in Accounts,
         NEW id \in Investigators, NEW verdict \in Verdicts, NEW bundle \in Roots,
         SubmitReportAsIdentity(ch, a, id, verdict, bundle),
         Emit(<<Submitted(ch, a, verdict),
                [ name |-> "ReportIdentityLinked", challengeId |-> ch,
                  investigator |-> a, investigatorId |-> id ]>>)
  PROVE  IndexInv'
  <1>1. SubmitReport(ch, a, verdict, bundle)
    BY DEF SubmitReportAsIdentity
  <1>2. challenges[ch].exists /\ unemitted' = unemitted
    BY <1>1 DEF SubmitReport, TakesReports, Emit
  <1>3. /\ StoreTyped(indexed') /\ indexed'.claims = indexed.claims
        /\ DOMAIN indexed'.challenges = DOMAIN indexed.challenges
        /\ \A x \in DOMAIN indexed.challenges \ {ch} :
             indexed'.challenges[x] = indexed.challenges[x]
        /\ SameBut(indexed.challenges[ch], indexed'.challenges[ch], {"reports"})
        /\ ReportAdded(indexed.challenges[ch].reports, indexed'.challenges[ch].reports, a, verdict)
    BY <1>2, ReportAndLink
  <1> QED BY <1>1, <1>2, <1>3, IndexReport

(***************************************************************************)
(* Appeals.  One is appended on both sides.                                *)
(***************************************************************************)
LEMMA AppealAppended ==
  ASSUME NEW apps \in Seq(AppealRecord), NEW ch \in Challenges, NEW x, NEW c, NEW d,
         AppealsKept(c, x, apps), c.appeals \in Seq(AppealEntry),
         x = ch => d.appeals = Append(c.appeals, [appealId |-> Len(apps) + 1, resolved |-> FALSE]),
         x # ch => d.appeals = c.appeals
  PROVE  AppealsKept(d, x, Append(apps, [challengeId |-> ch, resolved |-> FALSE]))
  <1> DEFINE r == [challengeId |-> ch, resolved |-> FALSE]
             after == Append(apps, r)
             m == Len(apps)
             n == Len(c.appeals)
             entry == [appealId |-> Len(apps) + 1, resolved |-> FALSE]
  <1>1. /\ m \in Nat /\ n \in Nat /\ r \in AppealRecord /\ entry \in AppealEntry
        /\ r.challengeId = ch /\ r.resolved = FALSE /\ entry.appealId = m + 1 /\ entry.resolved = FALSE
    BY DEF AppealRecord, AppealEntry
  <1> HIDE DEF r, entry
  <1>2. Len(after) = m + 1 /\ after[m + 1] = r /\ \A i \in 1..m : after[i] = apps[i]
    BY <1>1
  <1> HIDE DEF after, m
  <1>3. /\ \A i \in 1..n : LET j == c.appeals[i].appealId
                           IN /\ j \in 1..m /\ apps[j].challengeId = x
                              /\ apps[j].resolved = c.appeals[i].resolved
        /\ \A j \in 1..m : apps[j].challengeId = x => \E i \in 1..n : c.appeals[i].appealId = j
    BY DEF AppealsKept, m, n
  <1>4. CASE x = ch
    <2>1. d.appeals = Append(c.appeals, entry)
      BY <1>4 DEF entry
    <2>2. /\ Len(d.appeals) = n + 1 /\ d.appeals[n + 1] = entry
          /\ \A i \in 1..n : d.appeals[i] = c.appeals[i]
      BY <1>1, <2>1
    <2> HIDE DEF n
    <2>3. ASSUME NEW i \in 1..(n + 1)
          PROVE  LET j == d.appeals[i].appealId
                 IN /\ j \in 1..(m + 1) /\ after[j].challengeId = x
                    /\ after[j].resolved = d.appeals[i].resolved
      <3>1. CASE i = n + 1
        <4>1. d.appeals[i] = entry /\ m + 1 \in 1..(m + 1)
          BY <1>1, <2>2, <3>1
        <4> QED BY <1>1, <1>2, <1>4, <4>1
      <3>2. CASE i # n + 1
        <4>1. i \in 1..n
          BY <1>1, <3>2
        <4>2. PICK j : j = c.appeals[i].appealId
          OBVIOUS
        <4>3. j \in 1..m /\ apps[j].challengeId = x /\ apps[j].resolved = c.appeals[i].resolved
          BY <1>3, <4>1, <4>2
        <4>4. j \in 1..(m + 1) /\ after[j] = apps[j]
          BY <1>1, <1>2, <4>3
        <4>5. d.appeals[i] = c.appeals[i]
          BY <2>2, <4>1
        <4> QED BY <4>2, <4>3, <4>4, <4>5
      <3> QED BY <3>1, <3>2
    <2>4. ASSUME NEW j \in 1..(m + 1), after[j].challengeId = x
          PROVE  \E i \in 1..(n + 1) : d.appeals[i].appealId = j
      <3>1. CASE j = m + 1
        BY <1>1, <2>2, <3>1
      <3>2. CASE j # m + 1
        <4>1. j \in 1..m
          BY <1>1, <3>2
        <4>2. PICK i \in 1..n : c.appeals[i].appealId = j
          BY <1>2, <1>3, <2>4, <4>1
        <4> QED BY <1>1, <2>2, <4>2
      <3> QED BY <3>1, <3>2
    <2> QED BY <1>2, <2>2, <2>3, <2>4 DEF AppealsKept, after, r
  <1>5. CASE x # ch
    <2>1. d.appeals = c.appeals
      BY <1>5
    <2>2. ASSUME NEW i \in 1..n
          PROVE  LET j == d.appeals[i].appealId
                 IN /\ j \in 1..(m + 1) /\ after[j].challengeId = x
                    /\ after[j].resolved = d.appeals[i].resolved
      BY <1>1, <1>2, <1>3, <2>1
    <2>3. ASSUME NEW j \in 1..(m + 1), after[j].challengeId = x
          PROVE  \E i \in 1..n : d.appeals[i].appealId = j
      <3>1. j \in 1..m
        BY <1>1, <1>2, <1>5, <2>3
      <3> QED BY <1>2, <1>3, <2>1, <2>3, <3>1
    <2> QED BY <1>2, <2>1, <2>2, <2>3 DEF AppealsKept, after, r, n
  <1> QED BY <1>4, <1>5

(* A case none of whose records change but perhaps among the appeals. *)
LEMMA AppealsAsideKept ==
  ASSUME NEW ch, CaseKept(ch), CaseUntouched(ch), unemitted' = unemitted,
         indexed'.challenges[ch] = indexed.challenges[ch],
         AppealsKept(indexed.challenges[ch], ch, appeals')
  PROVE  CaseKept(ch)'
  BY DEF CaseKept, CaseUntouched

(* An appeal is filed. *)
LEMMA IndexFileAppeal ==
  ASSUME ChainInv, IndexInv, [SystemNext]_systemVars, NEW ch \in Challenges, FileAppeal(ch),
         Emit(<<[name |-> "AppealFiled", appealId |-> Len(appeals'), challengeId |-> ch]>>)
  PROVE  IndexInv'
  <1> DEFINE r == [challengeId |-> ch, resolved |-> FALSE]
             c == indexed.challenges[ch]
             d == indexed'.challenges[ch]
  <1>1. /\ claims' = claims /\ verdicts' = verdicts /\ reports' = reports
        /\ pendingEvidence' = pendingEvidence /\ ledger' = ledger /\ unemitted' = unemitted
        /\ challenges[ch].exists /\ appeals' = Append(appeals, r)
        /\ challenges' = [challenges EXCEPT ![ch] =
                            Progressed(@, challenges[ch].bond, challenges[ch].evidenceRoot, "APPEALED")]
    BY DEF FileAppeal, Appealable, claimVars, evidenceVars, reportVars, moneyVars, Emit
  <1>2. /\ challenges \in [Challenges -> ChallengeRecord] /\ appeals \in Seq(AppealRecord)
    BY DEF ChainInv, TypeOK
  <1>3. Len(appeals') = Len(appeals) + 1 /\ Len(appeals) \in Nat
    BY <1>1, <1>2 DEF AppealRecord
  <1>4. PICK e, t : /\ e = [name |-> "AppealFiled", appealId |-> Len(appeals) + 1, challengeId |-> ch]
                    /\ t = Store!ApplyEvent(indexed, e)
    OBVIOUS
  <1>5. indexed' = t
    BY <1>3, <1>4, OneEvent DEF Emit
  <1>6. /\ ch \in DOMAIN indexed.challenges /\ StoreTyped(indexed) /\ CaseKept(ch)
        /\ c \in CaseEntry /\ DOMAIN indexed.challenges = Existing(challenges)
    BY <1>1, KeptCase DEF IndexInv
  <1>7. /\ StoreTyped(t) /\ CasePut(indexed, t, ch) /\ SameBut(c, t.challenges[ch], {"state", "appeals"})
        /\ t.challenges[ch].appeals =
             Append(c.appeals, [appealId |-> Len(appeals) + 1, resolved |-> FALSE])
    <2>1. PICK n \in Nat : n = Len(appeals) + 1
      BY <1>3
    <2>2. e = [name |-> "AppealFiled", appealId |-> n, challengeId |-> ch]
      BY <1>4, <2>1
    <2>3. t = Store!ApplyEvent(indexed, e)
      BY <1>4
    <2> QED BY <1>6, <2>1, <2>2, <2>3, AppealFiledEvent
  <1>8. /\ d.claimId = c.claimId /\ d.windowCloseAt = c.windowCloseAt
        /\ d.evidenceRoot = c.evidenceRoot /\ d.bondWei = c.bondWei /\ d.reports = c.reports
        /\ d.evidenceIds = c.evidenceIds /\ d.verdict = c.verdict /\ d.payouts = c.payouts
    BY <1>5, <1>7 DEF SameBut, CaseFields
  <1>9. /\ challenges'[ch].claimId = challenges[ch].claimId
        /\ challenges'[ch].windowCloseAt = challenges[ch].windowCloseAt
        /\ challenges'[ch].evidenceRoot = challenges[ch].evidenceRoot
        /\ \A x \in Challenges : challenges'[x].exists => challenges[x].exists
        /\ \A x \in Challenges \ {ch} : challenges'[x] = challenges[x]
    BY <1>1, <1>2 DEF Progressed
  <1>10. CaseKept(ch)'
    <2>1. /\ FactsKept(c, challenges[ch], ledger[ch]) /\ ReportsKept(c, reports[ch])
          /\ EvidenceKept(c, pendingEvidence[ch]) /\ AppealsKept(c, ch, appeals)
          /\ VerdictKept(c, ch, verdicts[ch], unemitted)
          /\ PayoutsKept(c, ch, verdicts[ch], ledger[ch], unemitted)
      BY <1>6 DEF CaseKept
    <2>2. c.appeals \in Seq(AppealEntry)
      BY <1>6 DEF CaseEntry
    <2>3. d.appeals = Append(c.appeals, [appealId |-> Len(appeals) + 1, resolved |-> FALSE])
      BY <1>5, <1>7
    <2> HIDE DEF c, d
    <2>4. AppealsKept(d, ch, appeals')
      BY <1>1, <1>2, <2>1, <2>2, <2>3, AppealAppended
    <2>5. FactsKept(d, challenges'[ch], ledger[ch])
      BY <1>8, <1>9, <2>1 DEF FactsKept
    <2>6. /\ ReportsKept(d, reports[ch]) /\ EvidenceKept(d, pendingEvidence[ch])
          /\ VerdictKept(d, ch, verdicts[ch], unemitted)
          /\ PayoutsKept(d, ch, verdicts[ch], ledger[ch], unemitted)
      BY <1>8, <2>1, PartsCarryOver
    <2> QED BY <1>1, <2>4, <2>5, <2>6 DEF CaseKept, d
  <1>11. \A x \in Existing(challenges) \ {ch} : CaseKept(x)'
    <2> SUFFICES ASSUME NEW x \in Existing(challenges) \ {ch}
                 PROVE  CaseKept(x)'
      OBVIOUS
    <2>1. /\ x \in Challenges /\ x # ch /\ CaseKept(x) /\ x \in DOMAIN indexed.challenges
          /\ indexed.challenges[x] \in CaseEntry
      BY <1>2, <1>6, IndexedCase DEF Existing, IndexInv
    <2>2. CaseUntouched(x) /\ indexed'.challenges[x] = indexed.challenges[x]
      BY <1>1, <1>5, <1>7, <1>9, <2>1 DEF CaseUntouched, CasePut
    <2>3. PICK f : f = indexed.challenges[x]
      OBVIOUS
    <2>4. f.appeals \in Seq(AppealEntry) /\ AppealsKept(f, x, appeals)
      BY <2>1, <2>3 DEF CaseEntry, CaseKept
    <2>5. AppealsKept(f, x, appeals')
      BY <1>1, <1>2, <2>1, <2>4, AppealAppended
    <2> QED BY <1>1, <2>1, <2>2, <2>3, <2>5, AppealsAsideKept
  <1>12. /\ StoreTyped(indexed') /\ indexed'.claims = indexed.claims
         /\ DOMAIN indexed'.challenges = DOMAIN indexed.challenges
    BY <1>5, <1>6, <1>7 DEF CasePut
  <1> HIDE DEF r, c, d
  <1> QED BY <1>1, <1>9, <1>10, <1>11, <1>12, IndexKept, QueueKept

(* An appeal is resolved. *)
LEMMA IndexResolveAppeal ==
  ASSUME ChainInv, IndexInv, [SystemNext]_systemVars, NEW n \in 1..Len(appeals), ResolveAppeal(n),
         Emit(<<[name |-> "AppealResolved", appealId |-> n]>>)
  PROVE  IndexInv'
  <1>1. /\ claims' = claims /\ challenges' = challenges /\ verdicts' = verdicts /\ reports' = reports
        /\ pendingEvidence' = pendingEvidence /\ ledger' = ledger /\ unemitted' = unemitted
        /\ appeals' = [appeals EXCEPT ![n] = [challengeId |-> @.challengeId, resolved |-> TRUE]]
    BY DEF ResolveAppeal, claimVars, evidenceVars, reportVars, moneyVars, Emit
  <1>2. appeals \in Seq(AppealRecord) /\ DOMAIN challenges = Challenges
    BY DEF ChainInv, TypeOK
  <1>3. /\ Len(appeals') = Len(appeals)
        /\ \A j \in 1..Len(appeals) : /\ appeals'[j].challengeId = appeals[j].challengeId
                                      /\ j = n => appeals'[j].resolved = TRUE
                                      /\ j # n => appeals'[j].resolved = appeals[j].resolved
    <2>1. Len(appeals') = Len(appeals)
      BY <1>1, <1>2
    <2>2. \A j \in 1..Len(appeals) : j # n => appeals'[j] = appeals[j]
      BY <1>1, <1>2
    <2>3. appeals'[n] = [challengeId |-> appeals[n].challengeId, resolved |-> TRUE]
      <3>1. PICK r : r = [challengeId |-> appeals[n].challengeId, resolved |-> TRUE]
        OBVIOUS
      <3>2. appeals' = [appeals EXCEPT ![n] = r]
        BY <1>1, <3>1
      <3>3. n \in DOMAIN appeals
        BY <1>2
      <3> QED BY <3>1, <3>2, <3>3
    <2>4. appeals'[n].challengeId = appeals[n].challengeId /\ appeals'[n].resolved = TRUE
      BY <2>3
    <2> QED BY <2>1, <2>2, <2>4
  <1>4. PICK e, t : /\ e = [name |-> "AppealResolved", appealId |-> n]
                    /\ t = Store!ApplyEvent(indexed, e)
    OBVIOUS
  <1>5. indexed' = t
    BY <1>4, OneEvent DEF Emit
  <1>6. StoreTyped(indexed) /\ DOMAIN indexed.challenges = Existing(challenges) /\ n \in Nat
    BY <1>2 DEF IndexInv
  <1>7. /\ StoreTyped(indexed') /\ indexed'.claims = indexed.claims
        /\ DOMAIN indexed'.challenges = DOMAIN indexed.challenges
        /\ \A x \in DOMAIN indexed.challenges :
             AppealClosed(indexed.challenges[x], indexed'.challenges[x], n)
    BY <1>4, <1>5, <1>6, AppealResolvedEvent
  <1>8. \A x \in Existing(challenges) : CaseKept(x)'
    <2> SUFFICES ASSUME NEW x \in Existing(challenges)
                 PROVE  CaseKept(x)'
      OBVIOUS
    <2> DEFINE c == indexed.challenges[x]
               d == indexed'.challenges[x]
    <2>1. CaseKept(x) /\ AppealClosed(c, d, n) /\ c \in CaseEntry
      BY <1>6, <1>7, IndexedCase DEF IndexInv
    <2>2. /\ FactsKept(c, challenges[x], ledger[x]) /\ ReportsKept(c, reports[x])
          /\ EvidenceKept(c, pendingEvidence[x]) /\ AppealsKept(c, x, appeals)
          /\ VerdictKept(c, x, verdicts[x], unemitted)
          /\ PayoutsKept(c, x, verdicts[x], ledger[x], unemitted)
      BY <2>1 DEF CaseKept
    <2>3. /\ d.claimId = c.claimId /\ d.windowCloseAt = c.windowCloseAt
          /\ d.evidenceRoot = c.evidenceRoot /\ d.bondWei = c.bondWei /\ d.reports = c.reports
          /\ d.evidenceIds = c.evidenceIds /\ d.verdict = c.verdict /\ d.payouts = c.payouts
      BY <2>1 DEF AppealClosed, SameBut, CaseFields
    <2>4. /\ Len(d.appeals) = Len(c.appeals)
          /\ \A i \in 1..Len(c.appeals) :
               /\ d.appeals[i].appealId = c.appeals[i].appealId
               /\ c.appeals[i].appealId = n => d.appeals[i].resolved = TRUE
               /\ c.appeals[i].appealId # n => d.appeals[i].resolved = c.appeals[i].resolved
      <3>1. /\ Len(d.appeals) = Len(c.appeals)
            /\ \A i \in 1..Len(c.appeals) :
                 /\ d.appeals[i].appealId = c.appeals[i].appealId
                 /\ d.appeals[i].resolved = (c.appeals[i].resolved \/ c.appeals[i].appealId = n)
        BY <2>1 DEF AppealClosed
      <3>2. c.appeals \in Seq(AppealEntry)
        BY <2>1 DEF CaseEntry
      <3>3. \A i \in 1..Len(c.appeals) : c.appeals[i] \in AppealEntry
        BY <3>2
      <3>4. \A i \in 1..Len(c.appeals) : c.appeals[i].resolved \in BOOLEAN
        BY <3>3 DEF AppealEntry
      <3> QED BY <3>1, <3>4, Zenon
    <2> HIDE DEF c, d
    <2>5. AppealsKept(d, x, appeals')
      <3>1. ASSUME NEW i \in 1..Len(c.appeals)
            PROVE  LET j == d.appeals[i].appealId
                   IN /\ j \in 1..Len(appeals) /\ appeals'[j].challengeId = x
                      /\ appeals'[j].resolved = d.appeals[i].resolved
        <4> DEFINE j == c.appeals[i].appealId
        <4>1. /\ j \in 1..Len(appeals) /\ appeals[j].challengeId = x
              /\ appeals[j].resolved = c.appeals[i].resolved
          BY <2>2 DEF AppealsKept
        <4>2. d.appeals[i].appealId = j
          BY <2>4
        <4>3. appeals'[j].challengeId = x
          BY <1>3, <4>1
        <4>4. CASE j = n
          BY <1>3, <2>4, <4>1, <4>2, <4>3, <4>4
        <4>5. CASE j # n
          <5>1. d.appeals[i].resolved = c.appeals[i].resolved
            BY <2>4, <4>5
          <5>2. appeals'[j].resolved = appeals[j].resolved
            BY <1>3, <4>1, <4>5
          <5> QED BY <4>1, <4>2, <4>3, <5>1, <5>2
        <4> QED BY <4>4, <4>5
      <3>2. \A j \in 1..Len(appeals) : appeals'[j].challengeId = x =>
              \E i \in 1..Len(c.appeals) : d.appeals[i].appealId = j
        <4>1. \A j \in 1..Len(appeals) : appeals[j].challengeId = x =>
                \E i \in 1..Len(c.appeals) : c.appeals[i].appealId = j
          BY <2>2 DEF AppealsKept
        <4>2. \A i \in 1..Len(c.appeals) : d.appeals[i].appealId = c.appeals[i].appealId
          BY <2>4
        <4>3. \A j \in 1..Len(appeals) : appeals'[j].challengeId = appeals[j].challengeId
          BY <1>3
        <4> QED BY <4>1, <4>2, <4>3, Zenon
      <3> QED BY <1>3, <2>4, <3>1, <3>2 DEF AppealsKept
    <2>6. /\ FactsKept(d, challenges[x], ledger[x]) /\ ReportsKept(d, reports[x])
          /\ EvidenceKept(d, pendingEvidence[x])
          /\ VerdictKept(d, x, verdicts[x], unemitted)
          /\ PayoutsKept(d, x, verdicts[x], ledger[x], unemitted)
      BY <2>2, <2>3, PartsCarryOver DEF FactsKept
    <2> QED BY <1>1, <2>5, <2>6 DEF CaseKept, d
  <1> QED BY <1>1, <1>7, <1>8, IndexKept, QueueKept

-----------------------------------------------------------------------------
(***************************************************************************)
(* The queue of a running resolve().  What stands in it, and what of it is *)
(* left once its first event is out, or once another resolve() came first. *)
(***************************************************************************)
PaidEvents ==
  [name : {"InvestigatorPaid"}, challengeId : Challenges, investigator : Accounts, amount : Nat]

ResolvedEvents ==
  [ name : {"Resolved"}, challengeId : Challenges, claimId : Claims, status : VerdictStatus,
    occurredAt : Nat ]

QueueEntry == [payee : Accounts \cup {None}, event : PaidEvents \cup ResolvedEvents]

QueueTyped == unemitted \in Seq(QueueEntry)

(* The rest of a queue. *)
LEMMA QueueTaken ==
  ASSUME NEW q \in Seq(QueueEntry), q # <<>>
  PROVE  /\ Tail(q) \in Seq(QueueEntry) /\ Head(q) = q[1] /\ 1 \in 1..Len(q)
         /\ \A k \in 1..Len(Tail(q)) : k + 1 \in 1..Len(q) /\ Tail(q)[k] = q[k + 1]
         /\ \A x : Late(x, q) =>
              \/ Late(x, Tail(q))
              \/ q[1].event.name = "Resolved" /\ q[1].event.challengeId = x
         /\ \A x, a : PaidLater(x, a, q) =>
              \/ PaidLater(x, a, Tail(q))
              \/ /\ q[1].event.name = "InvestigatorPaid" /\ q[1].event.challengeId = x
                 /\ q[1].event.investigator = a
         /\ \A x : Late(x, Tail(q)) => Late(x, q)
  <1> DEFINE rest == Tail(q)
             n == Len(q)
  <1>1. /\ rest \in Seq(QueueEntry) /\ Head(q) = q[1] /\ n \in Nat /\ n > 0 /\ Len(rest) = n - 1
        /\ \A k \in 1..(n - 1) : rest[k] = q[k + 1]
    OBVIOUS
  <1> HIDE DEF rest, n
  <1>2. \A k \in 1..n : k = 1 \/ (k - 1 \in 1..(n - 1) /\ rest[k - 1] = q[k])
    <2> SUFFICES ASSUME NEW k \in 1..n, k # 1
                 PROVE  k - 1 \in 1..(n - 1) /\ rest[k - 1] = q[k]
      OBVIOUS
    <2>1. k - 1 \in 1..(n - 1) /\ (k - 1) + 1 = k
      BY <1>1
    <2> QED BY <1>1, <2>1
  <1>3. \A k \in 1..(n - 1) : k + 1 \in 1..n /\ rest[k] = q[k + 1]
    BY <1>1
  <1>4. ASSUME NEW x, Late(x, q)
        PROVE  Late(x, rest) \/ (q[1].event.name = "Resolved" /\ q[1].event.challengeId = x)
    <2>1. PICK k \in 1..n : q[k].event.name = "Resolved" /\ q[k].event.challengeId = x
      BY <1>4 DEF Late, n
    <2> QED BY <1>1, <1>2, <2>1 DEF Late
  <1>5. ASSUME NEW x, NEW a, PaidLater(x, a, q)
        PROVE  \/ PaidLater(x, a, rest)
               \/ /\ q[1].event.name = "InvestigatorPaid" /\ q[1].event.challengeId = x
                  /\ q[1].event.investigator = a
    <2>1. PICK k \in 1..n : /\ q[k].event.name = "InvestigatorPaid" /\ q[k].event.challengeId = x
                            /\ q[k].event.investigator = a
      BY <1>5 DEF PaidLater, n
    <2> QED BY <1>1, <1>2, <2>1 DEF PaidLater
  <1>6. ASSUME NEW x, Late(x, rest)
        PROVE  Late(x, q)
    <2>1. PICK k \in 1..(n - 1) : rest[k].event.name = "Resolved" /\ rest[k].event.challengeId = x
      BY <1>1, <1>6 DEF Late
    <2> QED BY <1>3, <2>1 DEF Late, n
  <1>7. 1 \in 1..n
    BY <1>1
  <1> QED BY <1>1, <1>3, <1>4, <1>5, <1>6, <1>7 DEF rest, n

(* One queue before another. *)
LEMMA QueueJoined ==
  ASSUME NEW p \in Seq(QueueEntry), NEW q \in Seq(QueueEntry)
  PROVE  /\ p \o q \in Seq(QueueEntry)
         /\ \A k \in 1..Len(p \o q) : \/ \E i \in 1..Len(p) : (p \o q)[k] = p[i]
                                      \/ \E i \in 1..Len(q) : (p \o q)[k] = q[i]
         /\ \A x : Late(x, p) \/ Late(x, q) <=> Late(x, p \o q)
         /\ \A x, a : PaidLater(x, a, p) \/ PaidLater(x, a, q) => PaidLater(x, a, p \o q)
  <1> DEFINE all == p \o q
             m == Len(p)
             n == Len(q)
  <1>1. /\ all \in Seq(QueueEntry) /\ m \in Nat /\ n \in Nat /\ Len(all) = m + n
        /\ \A i \in 1..m : all[i] = p[i]
        /\ \A k \in 1..(m + n) : k > m => all[k] = q[k - m]
    OBVIOUS
  <1> HIDE DEF all, m, n
  <1>2. \A i \in 1..n : i + m \in 1..(m + n) /\ all[i + m] = q[i]
    <2> SUFFICES ASSUME NEW i \in 1..n
                 PROVE  i + m \in 1..(m + n) /\ all[i + m] = q[i]
      OBVIOUS
    <2>1. i + m \in 1..(m + n) /\ i + m > m /\ (i + m) - m = i
      BY <1>1
    <2> QED BY <1>1, <2>1
  <1>3. \A i \in 1..m : i \in 1..(m + n) /\ all[i] = p[i]
    BY <1>1
  <1>4. \A k \in 1..(m + n) : (\E i \in 1..m : all[k] = p[i]) \/ (\E i \in 1..n : all[k] = q[i])
    <2> SUFFICES ASSUME NEW k \in 1..(m + n)
                 PROVE  (\E i \in 1..m : all[k] = p[i]) \/ (\E i \in 1..n : all[k] = q[i])
      OBVIOUS
    <2>1. CASE k <= m
      <3>1. k \in 1..m
        BY <1>1, <2>1
      <3> QED BY <1>1, <3>1
    <2>2. CASE k > m
      <3>1. k - m \in 1..n
        BY <1>1, <2>2
      <3> QED BY <1>1, <2>2, <3>1
    <2> QED BY <1>1, <2>1, <2>2
  <1>5. \A x : Late(x, p) \/ Late(x, q) <=> Late(x, all)
    <2> SUFFICES ASSUME NEW x
                 PROVE  Late(x, p) \/ Late(x, q) <=> Late(x, all)
      OBVIOUS
    <2>1. Late(x, p) => Late(x, all)
      BY <1>1, <1>3 DEF Late, m
    <2>2. Late(x, q) => Late(x, all)
      BY <1>1, <1>2 DEF Late, n
    <2>3. ASSUME Late(x, all)
          PROVE  Late(x, p) \/ Late(x, q)
      <3>1. PICK k \in 1..(m + n) : all[k].event.name = "Resolved" /\ all[k].event.challengeId = x
        BY <1>1, <2>3 DEF Late
      <3> QED BY <1>4, <3>1 DEF Late, m, n
    <2> QED BY <2>1, <2>2, <2>3
  <1>6. \A x, a : PaidLater(x, a, p) \/ PaidLater(x, a, q) => PaidLater(x, a, all)
    <2> SUFFICES ASSUME NEW x, NEW a
                 PROVE  PaidLater(x, a, p) \/ PaidLater(x, a, q) => PaidLater(x, a, all)
      OBVIOUS
    <2>1. PaidLater(x, a, p) => PaidLater(x, a, all)
      BY <1>1, <1>3 DEF PaidLater, m
    <2>2. PaidLater(x, a, q) => PaidLater(x, a, all)
      BY <1>1, <1>2 DEF PaidLater, n
    <2> QED BY <2>1, <2>2
  <1> QED BY <1>1, <1>4, <1>5, <1>6 DEF all, m, n

(***************************************************************************)
(* The reporters that take their share, as the loop of _settleBond meets   *)
(* them: the list after each of its turns.                                 *)
(***************************************************************************)
Passing(h, m, all, refusing) ==
  h = [n \in 0..m |-> IF n = 0 THEN <<>>
                      ELSE IF all[n] \in refusing THEN h[n - 1] ELSE Append(h[n - 1], all[n])]

(* Turn by turn. *)
LEMMA PassingTurns ==
  ASSUME NEW h, NEW m \in Nat, NEW all, NEW refusing, Passing(h, m, all, refusing)
  PROVE  /\ h[0] = <<>>
         /\ \A n \in 1..m : /\ all[n] \in refusing => h[n] = h[n - 1]
                            /\ all[n] \notin refusing => h[n] = Append(h[n - 1], all[n])
  <1> DEFINE F(n) == IF n = 0 THEN <<>>
                     ELSE IF all[n] \in refusing THEN h[n - 1] ELSE Append(h[n - 1], all[n])
  <1>1. h = [n \in 0..m |-> F(n)]
    BY DEF Passing
  <1> HIDE DEF F
  <1>2. \A n \in 0..m : h[n] = F(n)
    BY <1>1
  <1>3. 0 \in 0..m /\ \A n \in 1..m : n \in 0..m /\ n # 0
    OBVIOUS
  <1>4. F(0) = <<>>
    BY DEF F
  <1>5. \A n \in 1..m : /\ all[n] \in refusing => F(n) = h[n - 1]
                        /\ all[n] \notin refusing => F(n) = Append(h[n - 1], all[n])
    BY <1>3, Zenon DEF F
  <1> QED BY <1>2, <1>3, <1>4, <1>5, Zenon

(* There are such lists. *)
LEMMA PassingExists ==
  ASSUME NEW all, NEW refusing, NEW length \in Nat
  PROVE  \E h : Passing(h, length, all, refusing)
  <1> DEFINE N == {m \in Nat : \E h : Passing(h, m, all, refusing)}
  <1>1. 0 \in N
    <2>1. Passing([n \in 0..0 |-> <<>>], 0, all, refusing)
      BY DEF Passing
    <2> QED BY <2>1
  <1>2. ASSUME NEW m \in N
        PROVE  m + 1 \in N
    <2>1. PICK h : Passing(h, m, all, refusing)
      OBVIOUS
    <2> DEFINE last == IF all[m + 1] \in refusing THEN h[m] ELSE Append(h[m], all[m + 1])
               g == [n \in 0..(m + 1) |-> IF n = m + 1 THEN last ELSE h[n]]
    <2>2. m \in Nat
      OBVIOUS
    <2>3. /\ h[0] = <<>>
          /\ \A n \in 1..m : /\ all[n] \in refusing => h[n] = h[n - 1]
                             /\ all[n] \notin refusing => h[n] = Append(h[n - 1], all[n])
      BY <2>1, <2>2, PassingTurns
    <2>4. /\ g = [n \in 0..(m + 1) |-> g[n]] /\ g[m + 1] = last /\ \A n \in 0..m : g[n] = h[n]
      BY <2>2
    <2>5. last = IF all[m + 1] \in refusing THEN h[m] ELSE Append(h[m], all[m + 1])
      OBVIOUS
    <2> HIDE DEF g, last
    <2>6. \A n \in 0..(m + 1) :
            g[n] = IF n = 0 THEN <<>>
                   ELSE IF all[n] \in refusing THEN g[n - 1] ELSE Append(g[n - 1], all[n])
      <3> SUFFICES ASSUME NEW n \in 0..(m + 1)
                   PROVE  g[n] = IF n = 0 THEN <<>>
                                 ELSE IF all[n] \in refusing THEN g[n - 1]
                                      ELSE Append(g[n - 1], all[n])
        OBVIOUS
      <3>1. CASE n = 0
        <4>1. g[0] = h[0]
          BY <2>2, <2>4
        <4> QED BY <2>3, <3>1, <4>1
      <3>2. CASE n = m + 1
        <4>1. n # 0 /\ n - 1 = m /\ m \in 0..m
          BY <2>2, <3>2
        <4> QED BY <2>4, <2>5, <3>2, <4>1
      <3>3. CASE n # 0 /\ n # m + 1
        <4>1. n \in 1..m /\ n \in 0..m /\ n - 1 \in 0..m
          BY <2>2, <3>3
        <4>2. g[n] = h[n] /\ g[n - 1] = h[n - 1]
          BY <2>4, <4>1
        <4>3. CASE all[n] \in refusing
          <5>1. h[n] = h[n - 1]
            BY <2>3, <4>1, <4>3
          <5> QED BY <3>3, <4>2, <4>3, <5>1, Zenon
        <4>4. CASE all[n] \notin refusing
          <5>1. h[n] = Append(h[n - 1], all[n])
            BY <2>3, <4>1, <4>4
          <5> QED BY <3>3, <4>2, <4>4, <5>1, Zenon
        <4> QED BY <4>3, <4>4
      <3> QED BY <3>1, <3>2, <3>3
    <2>7. Passing(g, m + 1, all, refusing)
      BY <2>4, <2>6 DEF Passing
    <2> QED BY <2>2, <2>7
  <1>3. N = Nat
    <2> HIDE DEF N
    <2>1. N \in SUBSET Nat
      BY DEF N
    <2> QED BY <1>1, <1>2, <2>1, AllNumbers
  <1> QED BY <1>3

(* The last of them lists the reporters that do not refuse. *)
LEMMA AcceptingList ==
  ASSUME NEW ch, NEW all \in Seq(Accounts), all = investigatorsOf[ch], NEW refusing
  PROVE  LET p == Accepting(ch, refusing)
         IN /\ p \in Seq(Accounts)
            /\ \A k \in 1..Len(p) : p[k] \notin refusing /\ \E i \in 1..Len(all) : all[i] = p[k]
            /\ \A i \in 1..Len(all) : all[i] \notin refusing => \E k \in 1..Len(p) : p[k] = all[i]
  <1> DEFINE length == Len(all)
             h == CHOOSE h : Passing(h, length, all, refusing)
  <1>1. length \in Nat /\ \A i \in 1..length : all[i] \in Accounts
    OBVIOUS
  <1>2. Accepting(ch, refusing) = h[length]
    BY DEF Accepting, Passing
  <1>3. Passing(h, length, all, refusing)
    <2>1. \E g : Passing(g, length, all, refusing)
      <3> HIDE DEF length
      <3> QED BY <1>1, PassingExists
    <2> QED BY <2>1
  <1> HIDE DEF h, length
  <1>4. /\ h[0] = <<>>
        /\ \A n \in 1..length : /\ all[n] \in refusing => h[n] = h[n - 1]
                                /\ all[n] \notin refusing => h[n] = Append(h[n - 1], all[n])
    BY <1>1, <1>3, PassingTurns
  <1> DEFINE Lists(p, n) ==
               /\ p \in Seq(Accounts)
               /\ \A k \in 1..Len(p) : p[k] \notin refusing /\ \E i \in 1..n : all[i] = p[k]
               /\ \A i \in 1..n : all[i] \notin refusing => \E k \in 1..Len(p) : p[k] = all[i]
             N == {n \in Nat : n \in 0..length => Lists(h[n], n)}
  <1>5. 0 \in N
    <2>1. <<>> \in Seq(Accounts) /\ Len(<<>>) = 0
      OBVIOUS
    <2>2. Lists(<<>>, 0)
      BY <2>1
    <2>3. Lists(h[0], 0)
      BY <1>4, <2>2
    <2> QED BY <2>3
  <1>6. ASSUME NEW n \in N
        PROVE  n + 1 \in N
    <2> SUFFICES ASSUME n + 1 \in 0..length
                 PROVE  Lists(h[n + 1], n + 1)
      OBVIOUS
    <2>1. /\ n \in Nat /\ n \in 0..length /\ n + 1 \in 1..length /\ (n + 1) - 1 = n
          /\ \A i \in 1..(n + 1) : i \in 1..n \/ i = n + 1
          /\ \A i \in 1..n : i \in 1..(n + 1)
          /\ n + 1 \in 1..(n + 1)
      BY <1>1
    <2>2. Lists(h[n], n)
      BY <2>1
    <2>3. /\ all[n + 1] \in refusing => h[n + 1] = h[n]
          /\ all[n + 1] \notin refusing => h[n + 1] = Append(h[n], all[n + 1])
      <3>1. PICK m \in 1..length : m = n + 1 /\ m - 1 = n
        BY <2>1
      <3>2. /\ all[m] \in refusing => h[m] = h[m - 1]
            /\ all[m] \notin refusing => h[m] = Append(h[m - 1], all[m])
        BY <1>4
      <3> QED BY <3>1, <3>2
    <2>4. PICK p, a, b : p = h[n] /\ a = all[n + 1] /\ b = h[n + 1]
      OBVIOUS
    <2>5. /\ p \in Seq(Accounts)
          /\ \A k \in 1..Len(p) : p[k] \notin refusing /\ \E i \in 1..n : all[i] = p[k]
          /\ \A i \in 1..n : all[i] \notin refusing => \E k \in 1..Len(p) : p[k] = all[i]
      BY <2>2, <2>4
    <2>6. a \in Accounts
      BY <1>1, <2>1, <2>4
    <2>7. CASE a \in refusing
      <3>1. b = p
        BY <2>3, <2>4, <2>7
      <3>2. Lists(p, n + 1)
        BY <2>1, <2>4, <2>5, <2>7
      <3> QED BY <2>4, <3>1, <3>2
    <2>8. CASE a \notin refusing
      <3>1. b = Append(p, a)
        BY <2>3, <2>4, <2>8
      <3>2. /\ b \in Seq(Accounts) /\ Len(b) = Len(p) + 1 /\ b[Len(p) + 1] = a /\ Len(p) \in Nat
            /\ \A k \in 1..Len(p) : b[k] = p[k]
        BY <2>5, <2>6, <3>1
      <3>3. PICK size \in Nat : size = Len(p)
        BY <3>2
      <3>4. /\ size + 1 \in 1..(size + 1)
            /\ \A k \in 1..(size + 1) : k \in 1..size \/ k = size + 1
            /\ \A k \in 1..size : k \in 1..(size + 1)
        OBVIOUS
      <3>5. \A k \in 1..(size + 1) : b[k] \notin refusing /\ \E i \in 1..(n + 1) : all[i] = b[k]
        <4> SUFFICES ASSUME NEW k \in 1..(size + 1)
                     PROVE  b[k] \notin refusing /\ \E i \in 1..(n + 1) : all[i] = b[k]
          OBVIOUS
        <4>1. CASE k \in 1..size
          BY <2>1, <2>5, <3>2, <3>3, <4>1
        <4>2. CASE k = size + 1
          BY <2>1, <2>4, <2>8, <3>2, <3>3, <4>2
        <4> QED BY <3>4, <4>1, <4>2
      <3>6. \A i \in 1..(n + 1) : all[i] \notin refusing => \E k \in 1..(size + 1) : b[k] = all[i]
        BY <2>1, <2>4, <2>5, <3>2, <3>3, <3>4
      <3>7. Lists(b, n + 1)
        BY <3>2, <3>3, <3>5, <3>6
      <3> QED BY <2>4, <3>7
    <2> QED BY <2>7, <2>8
  <1>7. N = Nat
    <2> HIDE DEF N
    <2>1. N \in SUBSET Nat
      BY DEF N
    <2> QED BY <1>5, <1>6, <2>1, AllNumbers
  <1>8. Lists(h[length], length)
    <2>1. length \in N /\ length \in 0..length
      BY <1>1, <1>7
    <2> QED BY <2>1
  <1> QED BY <1>2, <1>8 DEF length

(* What resolve() leaves to be emitted. *)
LEMMA ResolutionQueue ==
  ASSUME TypeOK, TalliesMatchReports, NEW ch \in Challenges, NEW status \in VerdictStatus,
         NEW refusing \in SUBSET Contracts, Resolve(ch, status, refusing),
         NEW q, q = ResolutionEvents(ch, status, refusing)
  PROVE  /\ q \in Seq(QueueEntry)
         /\ verdicts'[ch] = [status |-> status, resolvedAt |-> now, exists |-> TRUE]
         /\ \A k \in 1..Len(q) :
              \/ q[k].event = ResolvedEvent(ch, challenges[ch].claimId, verdicts'[ch])
              \/ \E a \in hasReported[ch] \ refusing :
                   q[k].event = PaidEvent(ch, a, ledger'[ch].share)
         /\ \E k \in 1..Len(q) :
              q[k].event = ResolvedEvent(ch, challenges[ch].claimId, verdicts'[ch])
         /\ \A a \in hasReported[ch] \ refusing : ledger'[ch].share > 0 =>
              \E k \in 1..Len(q) : q[k].event = PaidEvent(ch, a, ledger'[ch].share)
  <1> DEFINE s == SettlementOf(ch, status, refusing)
             c == challenges[ch]
             all == investigatorsOf[ch]
             list == Accepting(ch, refusing)
             pool == InvestigatorPool(c.bond, c.challengeType)
             payees == IF pool > 0 THEN list ELSE <<>>
             paid(a) == [payee |-> a, event |-> PaidEvent(ch, a, s.share)]
             event == ResolvedEvent(ch, c.claimId, verdicts'[ch])
             resolved == [payee |-> IF s.refund > 0 THEN c.challenger ELSE None, event |-> event]
             payments == [i \in 1..Len(payees) |-> paid(payees[i])]
  <1>1. /\ verdicts'[ch] = [status |-> status, resolvedAt |-> now, exists |-> TRUE]
        /\ ledger'[ch].share = s.share /\ c.exists /\ status # "NONE"
    BY DEF Resolve, Resolvable, TypeOK
  <1>2. /\ c \in ChallengeRecord /\ c.claimId \in Claims /\ all \in Seq(Accounts) /\ now \in Nat
        /\ s.share \in Nat
    BY <1>1, SettlementAmounts DEF TypeOK
  <1>3. q = payments \o <<resolved>>
    <2>1. event = [ name |-> "Resolved", challengeId |-> ch, claimId |-> c.claimId,
                    status |-> status, occurredAt |-> now ]
      BY <1>1 DEF ResolvedEvent
    <2> HIDE DEF event
    <2> QED BY <2>1 DEF ResolutionEvents, PaidEvent
  <1>4. s.share > 0 => pool > 0
    BY DEF SettlementOf, SettleBond, Share
  <1>5. /\ list \in Seq(Accounts)
        /\ \A k \in 1..Len(list) : list[k] \in hasReported[ch] \ refusing
        /\ \A a \in hasReported[ch] \ refusing : \E k \in 1..Len(list) : list[k] = a
    <2>1. /\ list \in Seq(Accounts)
          /\ \A k \in 1..Len(list) : list[k] \notin refusing /\ \E i \in 1..Len(all) : all[i] = list[k]
          /\ \A i \in 1..Len(all) : all[i] \notin refusing => \E k \in 1..Len(list) : list[k] = all[i]
      BY <1>2, AcceptingList
    <2>2. hasReported[ch] = {all[i] : i \in 1..Len(all)}
      BY DEF TalliesMatchReports
    <2> HIDE DEF list, all
    <2> QED BY <2>1, <2>2
  <1> HIDE DEF s, list, pool
  <1>6. payees \in Seq(Accounts) /\ \A k \in 1..Len(payees) : payees[k] \in hasReported[ch] \ refusing
    <2>1. CASE pool > 0
      BY <1>5, <2>1
    <2>2. CASE ~(pool > 0)
      BY <2>2
    <2> QED BY <2>1, <2>2
  <1>7. pool > 0 => payees = list
    OBVIOUS
  <1> HIDE DEF payees
  <1>8. event \in ResolvedEvents /\ resolved.event = event /\ resolved \in QueueEntry
    <2>1. event \in ResolvedEvents
      BY <1>1, <1>2 DEF ResolvedEvent, ResolvedEvents
    <2>2. c.challenger \in Accounts \cup {None}
      BY <1>2 DEF ChallengeRecord
    <2> HIDE DEF event
    <2> QED BY <2>1, <2>2 DEF QueueEntry
  <1>9. \A a \in Accounts : paid(a) \in QueueEntry /\ paid(a).event = PaidEvent(ch, a, s.share)
    <2> SUFFICES ASSUME NEW a \in Accounts
                 PROVE  paid(a) \in QueueEntry /\ paid(a).event = PaidEvent(ch, a, s.share)
      OBVIOUS
    <2>1. PaidEvent(ch, a, s.share) \in PaidEvents
      BY <1>2 DEF PaidEvent, PaidEvents
    <2> QED BY <2>1 DEF QueueEntry
  <1> HIDE DEF paid, resolved, event
  <1>10. PICK n \in Nat : n = Len(payees)
    BY <1>6
  <1>11. /\ payments \in Seq(QueueEntry) /\ Len(payments) = n
         /\ \A k \in 1..n : payments[k] = paid(payees[k]) /\ payees[k] \in Accounts
    BY <1>6, <1>9, <1>10
  <1> HIDE DEF payments
  <1>12. /\ q \in Seq(QueueEntry) /\ Len(q) = n + 1 /\ q[n + 1] = resolved
         /\ \A k \in 1..n : q[k] = payments[k]
    BY <1>3, <1>8, <1>10, <1>11
  <1>13. \A k \in 1..Len(q) : \/ q[k].event = event
                              \/ \E a \in hasReported[ch] \ refusing : q[k].event = PaidEvent(ch, a, s.share)
    <2> SUFFICES ASSUME NEW k \in 1..Len(q)
                 PROVE  \/ q[k].event = event
                        \/ \E a \in hasReported[ch] \ refusing : q[k].event = PaidEvent(ch, a, s.share)
      OBVIOUS
    <2>1. CASE k = n + 1
      BY <1>8, <1>12, <2>1
    <2>2. CASE k # n + 1
      <3>1. k \in 1..n
        BY <1>12, <2>2
      <3>2. q[k] = paid(payees[k]) /\ payees[k] \in Accounts /\ payees[k] \in hasReported[ch] \ refusing
        BY <1>6, <1>10, <1>11, <1>12, <3>1
      <3> QED BY <1>9, <3>2
    <2> QED BY <2>1, <2>2
  <1>14. \E k \in 1..Len(q) : q[k].event = event
    <2>1. n + 1 \in 1..Len(q)
      BY <1>12
    <2> QED BY <1>8, <1>12, <2>1
  <1>15. ASSUME NEW a \in hasReported[ch] \ refusing, s.share > 0
         PROVE  \E k \in 1..Len(q) : q[k].event = PaidEvent(ch, a, s.share)
    <2>1. PICK k \in 1..n : payees[k] = a
      BY <1>4, <1>5, <1>7, <1>10, <1>15
    <2>2. k \in 1..Len(q) /\ q[k] = paid(a) /\ a \in Accounts
      BY <1>11, <1>12, <2>1
    <2> QED BY <1>9, <2>2
  <1>16. event = ResolvedEvent(ch, challenges[ch].claimId, verdicts'[ch])
    BY DEF event
  <1>17. PICK share : share = ledger'[ch].share /\ share = s.share
    BY <1>1
  <1> QED BY <1>1, <1>12, <1>13, <1>14, <1>15, <1>16, <1>17, Zenon

(* The queue holds such events at any time. *)
LEMMA QueueStep ==
  ASSUME ChainInv, QueueTyped, [SystemNext]_systemVars
  PROVE  QueueTyped'
  <1>1. CASE unemitted' = unemitted
    BY <1>1 DEF QueueTyped
  <1>2. CASE EmitNext
    BY <1>2, QueueTaken DEF QueueTyped, EmitNext
  <1>3. CASE ResolveCall
    <2>1. PICK ch \in Challenges, status \in VerdictStatus, refusing \in SUBSET Contracts :
            /\ Resolve(ch, status, refusing)
            /\ unemitted' = ResolutionEvents(ch, status, refusing) \o unemitted
      BY <1>3 DEF ResolveCall
    <2>2. PICK q : q = ResolutionEvents(ch, status, refusing)
      OBVIOUS
    <2>3. q \in Seq(QueueEntry)
      BY <2>1, <2>2, ResolutionQueue DEF ChainInv
    <2> QED BY <2>1, <2>2, <2>3, QueueJoined DEF QueueTyped
  <1> QED BY <1>1, <1>2, <1>3
    DEF SystemNext, Call, ClaimCall, EvidenceCall, CaseCall, ReportCall, AppealCall, IdentityCall,
        Emit, systemVars, indexVars

(***************************************************************************)
(* A case is resolved.  The read model waits; the queue tells it what will *)
(* be missing there.                                                       *)
(***************************************************************************)
LEMMA IndexResolve ==
  ASSUME ChainInv, IndexInv, QueueTyped, [SystemNext]_systemVars, NEW ch \in Challenges,
         NEW status \in VerdictStatus, NEW refusing \in SUBSET Contracts,
         Resolve(ch, status, refusing), indexed' = indexed,
         unemitted' = ResolutionEvents(ch, status, refusing) \o unemitted
  PROVE  IndexInv'
  <1> DEFINE c == indexed.challenges[ch]
             share == ledger'[ch].share
             event == ResolvedEvent(ch, challenges[ch].claimId, verdicts'[ch])
  <1>1. PICK q : q = ResolutionEvents(ch, status, refusing)
    OBVIOUS
  <1>2. /\ q \in Seq(QueueEntry)
        /\ verdicts'[ch] = [status |-> status, resolvedAt |-> now, exists |-> TRUE]
        /\ \A k \in 1..Len(q) :
             \/ q[k].event = event
             \/ \E a \in hasReported[ch] \ refusing : q[k].event = PaidEvent(ch, a, share)
        /\ \E k \in 1..Len(q) : q[k].event = event
        /\ \A a \in hasReported[ch] \ refusing : share > 0 =>
             \E k \in 1..Len(q) : q[k].event = PaidEvent(ch, a, share)
    <2>1. TypeOK /\ TalliesMatchReports
      BY DEF ChainInv
    <2> QED BY <1>1, <2>1, ResolutionQueue
  <1>3. /\ unemitted' = q \o unemitted /\ unemitted \in Seq(QueueEntry)
    BY <1>1 DEF QueueTyped
  <1>4. /\ challenges \in [Challenges -> ChallengeRecord] /\ claims \in [Claims -> ClaimRecord]
        /\ ledger \in [Challenges -> LedgerEntry] /\ verdicts \in [Challenges -> VerdictRecord]
        /\ hasReported \in [Challenges -> SUBSET Accounts]
    BY DEF ChainInv, TypeOK
  <1>5. /\ challenges[ch].exists /\ challenges[ch].state = "INVESTIGATING"
        /\ appeals' = appeals /\ pendingEvidence' = pendingEvidence /\ reports' = reports
    BY DEF Resolve, Resolvable, evidenceVars, reportVars
  <1>6. /\ challenges'[ch].exists /\ challenges'[ch].claimId = challenges[ch].claimId
        /\ challenges'[ch].windowCloseAt = challenges[ch].windowCloseAt
        /\ challenges'[ch].evidenceRoot = challenges[ch].evidenceRoot
        /\ \A x \in Challenges \ {ch} : challenges'[x] = challenges[x]
    BY <1>4 DEF Resolve, Resolvable, Progressed
  <1>7. \A y \in Claims : /\ claims'[y].exists <=> claims[y].exists
                          /\ claims'[y].validUntil = claims[y].validUntil
    <2>1. challenges[ch].claimId \in Claims
      BY <1>5 DEF ChainInv, TypeOK
    <2> QED BY <1>4, <2>1 DEF Resolve, WithStatus
  <1>8. /\ ledger'[ch].deposit = ledger[ch].deposit
        /\ ledger'[ch].paid = IF share > 0 THEN hasReported[ch] \ refusing ELSE {}
        /\ \A x \in Challenges \ {ch} : ledger'[x] = ledger[x] /\ verdicts'[x] = verdicts[x]
    BY <1>4 DEF Resolve
  <1>9. /\ \A x : Late(x, q) \/ Late(x, unemitted) <=> Late(x, unemitted')
        /\ \A x, a : PaidLater(x, a, q) \/ PaidLater(x, a, unemitted) => PaidLater(x, a, unemitted')
        /\ \A k \in 1..Len(unemitted') : \/ \E i \in 1..Len(q) : unemitted'[k] = q[i]
                                         \/ \E i \in 1..Len(unemitted) : unemitted'[k] = unemitted[i]
    BY <1>2, <1>3, QueueJoined
  <1> HIDE DEF event, share
  <1>10. Late(ch, q)
    <2>1. event.name = "Resolved" /\ event.challengeId = ch
      BY DEF event, ResolvedEvent
    <2> QED BY <1>2, <2>1 DEF Late
  <1>11. \A a \in ledger'[ch].paid : share > 0 /\ PaidLater(ch, a, q)
    <2> SUFFICES ASSUME NEW a \in ledger'[ch].paid
                 PROVE  share > 0 /\ PaidLater(ch, a, q)
      OBVIOUS
    <2>1. share > 0 /\ a \in hasReported[ch] \ refusing
      BY <1>8
    <2>2. PICK k \in 1..Len(q) : q[k].event = PaidEvent(ch, a, share)
      BY <1>2, <2>1
    <2>3. /\ q[k].event.name = "InvestigatorPaid" /\ q[k].event.challengeId = ch
          /\ q[k].event.investigator = a
      BY <2>2 DEF PaidEvent
    <2> QED BY <2>1, <2>3 DEF PaidLater
  <1>12. CaseKept(ch)'
    <2>1. CaseKept(ch) /\ ~verdicts[ch].exists
      BY <1>5, KeptCase, UndecidedHasNoVerdict DEF ChainInv
    <2>2. /\ FactsKept(c, challenges[ch], ledger[ch]) /\ ReportsKept(c, reports[ch])
          /\ EvidenceKept(c, pendingEvidence[ch]) /\ AppealsKept(c, ch, appeals)
          /\ VerdictKept(c, ch, verdicts[ch], unemitted)
          /\ PayoutsKept(c, ch, verdicts[ch], ledger[ch], unemitted)
      BY <2>1 DEF CaseKept
    <2>3. c.verdict = None /\ c.payouts = <<>>
      BY <2>1, <2>2 DEF VerdictKept, PayoutsKept
    <2> HIDE DEF c
    <2>4. FactsKept(c, challenges'[ch], ledger'[ch])
      BY <1>6, <1>8, <2>2 DEF FactsKept
    <2>5. VerdictKept(c, ch, verdicts'[ch], unemitted')
      BY <1>9, <1>10, <2>3 DEF VerdictKept
    <2>6. PayoutsKept(c, ch, verdicts'[ch], ledger'[ch], unemitted')
      BY <1>2, <1>9, <1>11, <2>3 DEF PayoutsKept, share
    <2> QED BY <1>5, <2>2, <2>4, <2>5, <2>6 DEF CaseKept, c
  <1>13. \A x \in Existing(challenges) \ {ch} : CaseKept(x)'
    <2> SUFFICES ASSUME NEW x \in Existing(challenges) \ {ch}
                 PROVE  CaseKept(x)'
      OBVIOUS
    <2> DEFINE d == indexed.challenges[x]
    <2>1. x \in Challenges \ {ch} /\ CaseKept(x)
      BY <1>4 DEF Existing, IndexInv
    <2>2. /\ FactsKept(d, challenges[x], ledger[x]) /\ ReportsKept(d, reports[x])
          /\ EvidenceKept(d, pendingEvidence[x]) /\ AppealsKept(d, x, appeals)
          /\ VerdictKept(d, x, verdicts[x], unemitted)
          /\ PayoutsKept(d, x, verdicts[x], ledger[x], unemitted)
      BY <2>1 DEF CaseKept
    <2> HIDE DEF d
    <2>3. VerdictKept(d, x, verdicts[x], unemitted')
      BY <1>9, <2>2 DEF VerdictKept
    <2>4. PayoutsKept(d, x, verdicts[x], ledger[x], unemitted')
      BY <1>9, <2>2 DEF PayoutsKept
    <2>5. challenges'[x] = challenges[x] /\ ledger'[x] = ledger[x] /\ verdicts'[x] = verdicts[x]
      BY <1>6, <1>8, <2>1
    <2> QED BY <1>5, <2>2, <2>3, <2>4, <2>5 DEF CaseKept, d
  <1>14. (\A k \in 1..Len(unemitted) : StillTrue(unemitted[k].event))'
    <2> SUFFICES ASSUME NEW k \in 1..Len(unemitted')
                 PROVE  StillTrue(unemitted[k].event)'
      OBVIOUS
    <2>1. ASSUME NEW i \in 1..Len(unemitted), unemitted'[k] = unemitted[i]
          PROVE  StillTrue(unemitted[k].event)'
      <3>1. PICK old : old = unemitted[i].event
        OBVIOUS
      <3>2. StillTrue(old)
        BY <3>1 DEF IndexInv
      <3>3. StillTrue(old)'
        BY <3>2, StillTrueStep
      <3> QED BY <2>1, <3>1, <3>3 DEF StillTrue
    <2>2. ASSUME NEW i \in 1..Len(q), unemitted'[k] = q[i]
          PROVE  StillTrue(unemitted[k].event)'
      <3>1. verdicts'[ch].exists
        BY <1>2
      <3>2. CASE q[i].event = event
        BY <1>6, <2>2, <3>1, <3>2 DEF StillTrue, event
      <3>3. CASE \E a \in hasReported[ch] \ refusing : q[i].event = PaidEvent(ch, a, share)
        <4>1. PICK a \in hasReported[ch] \ refusing : q[i].event = PaidEvent(ch, a, share)
          BY <3>3
        <4>2. a \in Accounts /\ (share > 0 => a \in ledger'[ch].paid)
          BY <1>4, <1>8
        <4> QED BY <2>2, <3>1, <4>1, <4>2 DEF StillTrue, share
      <3> QED BY <1>2, <3>2, <3>3
    <2> QED BY <1>9, <2>1, <2>2
  <1>15. StoreTyped(indexed')
    BY DEF IndexInv
  <1>16. \A x \in Challenges : challenges'[x].exists => challenges[x].exists
    BY <1>5, <1>6
  <1>17. \A x \in Existing(challenges) : CaseKept(x)'
    BY <1>12, <1>13
  <1> QED BY <1>7, <1>14, <1>15, <1>16, <1>17, IndexKept

(***************************************************************************)
(* The first event of the queue is emitted.                                *)
(***************************************************************************)
LEMMA IndexEmit ==
  ASSUME ChainInv, IndexInv, QueueTyped, [SystemNext]_systemVars, EmitNext
  PROVE  IndexInv'
  <1> DEFINE e == unemitted[1].event
  <1>1. /\ claims' = claims /\ challenges' = challenges /\ verdicts' = verdicts
        /\ reports' = reports /\ appeals' = appeals /\ pendingEvidence' = pendingEvidence
        /\ ledger' = ledger /\ unemitted # <<>> /\ unemitted' = Tail(unemitted)
    BY DEF EmitNext, allVars, vars, claimVars, caseVars, evidenceVars, reportVars, moneyVars
  <1>2. /\ Head(unemitted) = unemitted[1] /\ 1 \in 1..Len(unemitted)
        /\ \A k \in 1..Len(unemitted') :
             k + 1 \in 1..Len(unemitted) /\ unemitted'[k] = unemitted[k + 1]
        /\ \A x : Late(x, unemitted) => Late(x, unemitted') \/ (e.name = "Resolved" /\ e.challengeId = x)
        /\ \A x, a : PaidLater(x, a, unemitted) =>
             \/ PaidLater(x, a, unemitted')
             \/ e.name = "InvestigatorPaid" /\ e.challengeId = x /\ e.investigator = a
    BY <1>1, QueueTaken DEF QueueTyped
  <1>3. (\A k \in 1..Len(unemitted) : StillTrue(unemitted[k].event))'
    <2> SUFFICES ASSUME NEW k \in 1..Len(unemitted')
                 PROVE  StillTrue(unemitted[k].event)'
      OBVIOUS
    <2>1. PICK old : old = unemitted[k + 1].event
      OBVIOUS
    <2>2. StillTrue(old)
      BY <1>2, <2>1 DEF IndexInv
    <2>3. StillTrue(old)'
      BY <2>2, StillTrueStep
    <2> QED BY <1>2, <2>1, <2>3 DEF StillTrue
  <1>4. PICK t : t = Store!ApplyEvent(indexed, e)
    OBVIOUS
  <1>5. indexed' = t
    BY <1>2, <1>4, OneEvent DEF EmitNext
  <1>6. StillTrue(e)
    BY <1>2 DEF IndexInv
  <1>7. PICK ch \in Challenges :
          /\ verdicts[ch].exists
          /\ \/ e = ResolvedEvent(ch, challenges[ch].claimId, verdicts[ch])
             \/ \E a \in Accounts :
                  /\ e = PaidEvent(ch, a, ledger[ch].share)
                  /\ ledger[ch].share > 0 => a \in ledger[ch].paid
    BY <1>6 DEF StillTrue
  <1> HIDE DEF e
  <1> DEFINE c == indexed.challenges[ch]
             d == indexed'.challenges[ch]
  <1>8. challenges[ch].exists
    BY <1>7 DEF ChainInv, CaseInv, VerdictIffDecided
  <1>9. /\ ch \in DOMAIN indexed.challenges /\ StoreTyped(indexed) /\ CaseKept(ch)
        /\ c \in CaseEntry /\ challenges[ch].claimId \in DOMAIN indexed.claims
        /\ DOMAIN indexed.challenges = Existing(challenges)
    BY <1>8, KeptCase DEF IndexInv
  <1>10. /\ FactsKept(c, challenges[ch], ledger[ch]) /\ ReportsKept(c, reports[ch])
         /\ EvidenceKept(c, pendingEvidence[ch]) /\ AppealsKept(c, ch, appeals)
         /\ VerdictKept(c, ch, verdicts[ch], unemitted)
         /\ PayoutsKept(c, ch, verdicts[ch], ledger[ch], unemitted)
    BY <1>9 DEF CaseKept
  <1>11. DOMAIN challenges = Challenges
    BY DEF ChainInv, TypeOK
  <1>12. ASSUME e.challengeId = ch,
                \A x \in DOMAIN indexed.challenges \ {ch} :
                  indexed'.challenges[x] = indexed.challenges[x]
         PROVE  \A x \in Existing(challenges) \ {ch} : CaseKept(x)'
    <2> SUFFICES ASSUME NEW x \in Existing(challenges) \ {ch}
                 PROVE  CaseKept(x)'
      OBVIOUS
    <2>1. PICK f : f = indexed.challenges[x]
      OBVIOUS
    <2>2. indexed'.challenges[x] = f /\ CaseKept(x) /\ x # ch
      BY <1>9, <1>12, <2>1 DEF IndexInv
    <2>3. /\ FactsKept(f, challenges[x], ledger[x]) /\ ReportsKept(f, reports[x])
          /\ EvidenceKept(f, pendingEvidence[x]) /\ AppealsKept(f, x, appeals)
          /\ VerdictKept(f, x, verdicts[x], unemitted)
          /\ PayoutsKept(f, x, verdicts[x], ledger[x], unemitted)
      BY <2>1, <2>2 DEF CaseKept
    <2>4. VerdictKept(f, x, verdicts[x], unemitted')
      BY <1>2, <1>12, <2>2, <2>3 DEF VerdictKept
    <2>5. PayoutsKept(f, x, verdicts[x], ledger[x], unemitted')
      <3>1. \A a : PaidLater(x, a, unemitted) => PaidLater(x, a, unemitted')
        BY <1>2, <1>12, <2>2
      <3> QED BY <2>3, <3>1 DEF PayoutsKept
    <2> QED BY <1>1, <2>2, <2>3, <2>4, <2>5 DEF CaseKept
  <1>13. CASE e = ResolvedEvent(ch, challenges[ch].claimId, verdicts[ch])
    <2> DEFINE cl == challenges[ch].claimId
    <2>1. PICK status \in ClaimStatus \cap VerdictStatus, time \in Nat :
            status = verdicts[ch].status /\ time = verdicts[ch].resolvedAt
      <3>1. verdicts[ch] \in VerdictRecord /\ verdicts[ch].status = ExpectedStatus(TallyOf(reports[ch]))
        BY <1>7 DEF ChainInv, TypeOK, VerdictExact
      <3> QED BY <3>1, StatusTypes DEF VerdictRecord, VerdictStatus, ClaimStatus
    <2>2. e = [ name |-> "Resolved", challengeId |-> ch, claimId |-> cl,
                status |-> status, occurredAt |-> time ]
      BY <1>13, <2>1 DEF ResolvedEvent
    <2>3. cl \in DOMAIN indexed.claims
      BY <1>9
    <2> HIDE DEF cl
    <2>4. /\ StoreTyped(t) /\ CaseAndClaimPut(indexed, t, ch, cl)
          /\ SameBut(c, t.challenges[ch], {"state", "verdict"})
          /\ t.challenges[ch].verdict = [status |-> status, resolvedAt |-> time]
          /\ Marked(indexed, t, cl, status)
      BY <1>4, <1>9, <2>2, <2>3, ResolvedEventIndexed
    <2>5. e.challengeId = ch /\ e.name = "Resolved"
      BY <2>2
    <2>6. /\ d.claimId = c.claimId /\ d.windowCloseAt = c.windowCloseAt
          /\ d.evidenceRoot = c.evidenceRoot /\ d.bondWei = c.bondWei /\ d.reports = c.reports
          /\ d.evidenceIds = c.evidenceIds /\ d.appeals = c.appeals /\ d.payouts = c.payouts
          /\ d.verdict = [status |-> verdicts[ch].status, resolvedAt |-> verdicts[ch].resolvedAt]
      BY <1>5, <2>1, <2>4 DEF SameBut, CaseFields
    <2> HIDE DEF c, d
    <2>7. CaseKept(ch)'
      <3>1. /\ FactsKept(d, challenges[ch], ledger[ch]) /\ ReportsKept(d, reports[ch])
            /\ EvidenceKept(d, pendingEvidence[ch]) /\ AppealsKept(d, ch, appeals)
            /\ PayoutsKept(d, ch, verdicts[ch], ledger[ch], unemitted)
        BY <1>10, <2>6, PartsCarryOver DEF FactsKept
      <3>2. VerdictKept(d, ch, verdicts[ch], unemitted')
        BY <1>7, <2>6 DEF VerdictKept
      <3>3. PayoutsKept(d, ch, verdicts[ch], ledger[ch], unemitted')
        <4>1. \A a : PaidLater(ch, a, unemitted) => PaidLater(ch, a, unemitted')
          BY <1>2, <2>5
        <4> QED BY <3>1, <4>1 DEF PayoutsKept
      <3> QED BY <1>1, <3>1, <3>2, <3>3 DEF CaseKept, d
    <2>8. \A x \in Existing(challenges) : CaseKept(x)'
      BY <1>5, <1>12, <2>4, <2>5, <2>7 DEF CaseAndClaimPut
    <2>9. /\ DOMAIN indexed'.claims = DOMAIN indexed.claims
          /\ DOMAIN indexed'.challenges = DOMAIN indexed.challenges
          /\ \A y \in DOMAIN indexed.claims :
               /\ indexed'.claims[y].validUntil = indexed.claims[y].validUntil
               /\ indexed'.claims[y].challengeIds = indexed.claims[y].challengeIds
      BY <1>5, <1>9, <2>3, <2>4, StatusPut
    <2> QED BY <1>1, <1>3, <1>5, <2>4, <2>8, <2>9, IndexKept
  <1>14. CASE \E a \in Accounts : /\ e = PaidEvent(ch, a, ledger[ch].share)
                                  /\ ledger[ch].share > 0 => a \in ledger[ch].paid
    <2>1. PICK a \in Accounts : /\ e = PaidEvent(ch, a, ledger[ch].share)
                                /\ ledger[ch].share > 0 => a \in ledger[ch].paid
      BY <1>14
    <2>2. PICK share \in Nat : share = ledger[ch].share
      BY DEF ChainInv, TypeOK, LedgerEntry
    <2>3. e = [name |-> "InvestigatorPaid", challengeId |-> ch, investigator |-> a, amount |-> share]
      BY <2>1, <2>2 DEF PaidEvent
    <2>4. /\ StoreTyped(t) /\ CasePut(indexed, t, ch)
          /\ SameBut(c, t.challenges[ch], {"payouts"})
          /\ t.challenges[ch].payouts = Append(c.payouts, [investigator |-> a, amountWei |-> share])
      BY <1>4, <1>9, <2>3, InvestigatorPaidEvent
    <2>5. e.challengeId = ch /\ e.name = "InvestigatorPaid" /\ e.investigator = a
      BY <2>3
    <2>6. /\ d.claimId = c.claimId /\ d.windowCloseAt = c.windowCloseAt
          /\ d.evidenceRoot = c.evidenceRoot /\ d.bondWei = c.bondWei /\ d.reports = c.reports
          /\ d.evidenceIds = c.evidenceIds /\ d.appeals = c.appeals /\ d.verdict = c.verdict
      BY <1>5, <2>4 DEF SameBut, CaseFields
    <2> DEFINE entry == [investigator |-> a, amountWei |-> share]
               n == Len(c.payouts)
    <2>7. entry.investigator = a /\ entry.amountWei = share /\ entry \in Payout
      BY DEF Payout
    <2>8. c.payouts \in Seq(Payout) /\ d.payouts = Append(c.payouts, entry)
      BY <1>5, <1>9, <2>4 DEF CaseEntry
    <2> HIDE DEF c, d, entry
    <2>9. /\ n \in Nat /\ Len(d.payouts) = n + 1 /\ d.payouts[n + 1] = entry
          /\ \A i \in 1..n : d.payouts[i] = c.payouts[i]
      BY <2>7, <2>8
    <2>10. CaseKept(ch)'
      <3>1. /\ FactsKept(d, challenges[ch], ledger[ch]) /\ ReportsKept(d, reports[ch])
            /\ EvidenceKept(d, pendingEvidence[ch]) /\ AppealsKept(d, ch, appeals)
        BY <1>10, <2>6, PartsCarryOver DEF FactsKept
      <3>2. VerdictKept(d, ch, verdicts[ch], unemitted')
        BY <1>2, <1>10, <2>5, <2>6 DEF VerdictKept
      <3>3. PayoutsKept(d, ch, verdicts[ch], ledger[ch], unemitted')
        <4>1. /\ \A i \in 1..n : /\ c.payouts[i].amountWei = share
                                 /\ share > 0 => c.payouts[i].investigator \in ledger[ch].paid
              /\ \A b \in ledger[ch].paid :
                   share > 0 /\ (PaidLater(ch, b, unemitted) \/ \E i \in 1..n : c.payouts[i].investigator = b)
          BY <1>10, <2>2 DEF PayoutsKept
        <4> HIDE DEF n
        <4>2. n + 1 \in 1..(n + 1) /\ \A i \in 1..n : i \in 1..(n + 1)
          BY <2>9
        <4>3. ASSUME NEW i \in 1..(n + 1)
              PROVE  /\ d.payouts[i].amountWei = share
                     /\ share > 0 => d.payouts[i].investigator \in ledger[ch].paid
          <5>1. CASE i = n + 1
            BY <2>1, <2>2, <2>7, <2>9, <5>1
          <5>2. CASE i # n + 1
            <6>1. i \in 1..n
              BY <2>9, <5>2
            <6> QED BY <2>9, <4>1, <6>1
          <5> QED BY <5>1, <5>2
        <4>4. ASSUME NEW b \in ledger[ch].paid
              PROVE  /\ share > 0
                     /\ \/ PaidLater(ch, b, unemitted')
                        \/ \E i \in 1..(n + 1) : d.payouts[i].investigator = b
          <5>1. CASE b = a
            BY <2>7, <2>9, <4>1, <4>2, <5>1
          <5>2. CASE b # a
            BY <1>2, <2>5, <2>9, <4>1, <4>2, <5>2
          <5> QED BY <5>1, <5>2
        <4> QED BY <1>7, <2>2, <2>9, <4>3, <4>4 DEF PayoutsKept
      <3> QED BY <1>1, <3>1, <3>2, <3>3 DEF CaseKept, d
    <2>11. \A x \in Existing(challenges) : CaseKept(x)'
      BY <1>5, <1>12, <2>4, <2>5, <2>10 DEF CasePut
    <2>12. /\ indexed'.claims = indexed.claims /\ StoreTyped(indexed')
           /\ DOMAIN indexed'.challenges = DOMAIN indexed.challenges
      BY <1>5, <1>9, <2>4 DEF CasePut
    <2> QED BY <1>1, <1>3, <2>11, <2>12, IndexKept
  <1> QED BY <1>7, <1>13, <1>14

(***************************************************************************)
(* Nothing is indexed at first, and every step keeps what is.              *)
(***************************************************************************)
LEMMA IndexInit == SystemInit => IndexInv /\ QueueTyped
  <1> SUFFICES ASSUME SystemInit
               PROVE  IndexInv /\ QueueTyped
    OBVIOUS
  <1>1. Init /\ unemitted = <<>> /\ indexed = Store!EmptyState
    BY DEF SystemInit, IdentifiedInit
  <1>2. StoreTyped(indexed) /\ DOMAIN indexed.claims = {} /\ DOMAIN indexed.challenges = {}
    BY <1>1 DEF StoreTyped, Store!EmptyState
  <1>3. Existing(claims) = {} /\ Existing(challenges) = {}
    BY <1>1 DEF Init, Existing
  <1> QED BY <1>1, <1>2, <1>3 DEF IndexInv, QueueTyped

(* A step that neither the registry nor the read model takes part in. *)
LEMMA IndexUntouched ==
  ASSUME IndexInv, UNCHANGED <<claims, challenges, verdicts, appeals, pendingEvidence, reports,
                               ledger, unemitted, indexed>>
  PROVE  IndexInv'
  <1>1. ASSUME NEW ch, CaseKept(ch)
        PROVE  CaseKept(ch)'
    BY <1>1 DEF CaseKept
  <1>2. ASSUME NEW cl, ClaimKept(cl)
        PROVE  ClaimKept(cl)'
    BY <1>2 DEF ClaimKept
  <1>3. ASSUME NEW event, StillTrue(event)
        PROVE  StillTrue(event)'
    BY <1>3 DEF StillTrue
  <1>4. (\A k \in 1..Len(unemitted) : StillTrue(unemitted[k].event))'
    <2> SUFFICES ASSUME NEW k \in 1..Len(unemitted)
                 PROVE  StillTrue(unemitted[k].event)'
      OBVIOUS
    <2>1. PICK event : event = unemitted[k].event
      OBVIOUS
    <2>2. StillTrue(event)'
      BY <1>3, <2>1 DEF IndexInv
    <2> QED BY <2>1, <2>2 DEF StillTrue
  <1>5. /\ \A cl \in Existing(claims') : ClaimKept(cl)'
        /\ \A ch \in Existing(challenges') : CaseKept(ch)'
    BY <1>1, <1>2 DEF IndexInv
  <1>6. /\ StoreTyped(indexed') /\ DOMAIN indexed'.claims = Existing(claims')
        /\ DOMAIN indexed'.challenges = Existing(challenges')
    BY DEF IndexInv
  <1> QED BY <1>4, <1>5, <1>6 DEF IndexInv

(* Every step keeps what is indexed. *)
LEMMA IndexStep ==
  ASSUME ChainInv, IndexInv, QueueTyped, [SystemNext]_systemVars
  PROVE  IndexInv'
  <1>1. CASE UNCHANGED systemVars
    <2>1. UNCHANGED <<claims, challenges, verdicts, appeals, pendingEvidence, reports, ledger,
                      unemitted, indexed>>
      BY <1>1 DEF systemVars, allVars, indexVars, vars, claimVars, caseVars, evidenceVars,
                  reportVars, moneyVars
    <2> QED BY <2>1, IndexUntouched
  <1>2. CASE EmitNext
    BY <1>2, IndexEmit
  <1>3. CASE Tick /\ UNCHANGED indexVars
    <2>1. UNCHANGED <<claims, challenges, verdicts, appeals, pendingEvidence, reports, ledger,
                      unemitted, indexed>>
      BY <1>3 DEF Tick, indexVars, claimVars, caseVars, evidenceVars, reportVars, moneyVars
    <2> QED BY <2>1, IndexUntouched
  <1>4. CASE ClaimCall
    <2>1. ASSUME NEW cl \in Claims, CreateClaim(cl),
                 Emit(<<[name |-> "ClaimCreated", claimId |-> cl]>>)
          PROVE  IndexInv'
      BY <2>1, IndexCreateClaim
    <2>2. ASSUME NEW clA \in Claims, NEW clB \in Claims, NEW relation \in RelationshipType,
                 RecordRelationship(clA, clB, relation),
                 Emit(IF relation = "SUPERSEDES" /\ Supersedable(clA)
                      THEN <<[name |-> "Superseded", oldClaimId |-> clA, newClaimId |-> clB,
                              occurredAt |-> now]>>
                      ELSE <<>>)
          PROVE  IndexInv'
      BY <2>2, IndexRecordRelationship
    <2> QED BY <1>4, <2>1, <2>2 DEF ClaimCall
  <1>5. CASE EvidenceCall
    BY <1>5, IndexSubmitEvidence, IndexLockEvidence DEF EvidenceCall
  <1>6. ASSUME NEW a \in Accounts, CaseCall(a)
        PROVE  IndexInv'
    <2>1. PICK ch \in Challenges :
            \/ \E cl \in Claims, type \in ChallengeType, v \in Amounts :
                 /\ OpenChallenge(ch, cl, a, type, v)
                 /\ Emit(<<Opened(ch, cl, a, type, v, now + DEFAULT_CHALLENGE_WINDOW)>>)
            \/ \E cl \in Claims, v \in Amounts :
                 /\ RequestVerification(ch, cl, a, v)
                 /\ Emit(<<Opened(ch, cl, a, "VERIFICATION_REQUEST", v, now)>>)
            \/ /\ BeginInvestigation(ch)
               /\ Emit(<<[name |-> "InvestigationStarted", challengeId |-> ch]>>)
      BY <1>6 DEF CaseCall
    <2>2. now \in Nat /\ now + DEFAULT_CHALLENGE_WINDOW \in Nat
      BY ConstantsAssumption DEF ChainInv, TypeOK
    <2>3. ASSUME NEW cl \in Claims, NEW type \in ChallengeType, NEW v \in Amounts,
                 OpenChallenge(ch, cl, a, type, v),
                 Emit(<<Opened(ch, cl, a, type, v, now + DEFAULT_CHALLENGE_WINDOW)>>)
          PROVE  IndexInv'
      <3>1. PICK closesAt \in Nat : closesAt = now + DEFAULT_CHALLENGE_WINDOW
        BY <2>2
      <3>2. Challengeable(cl) /\ OpenCase(ch, cl, a, type, v, closesAt)
        BY <2>3, <3>1 DEF OpenChallenge
      <3>3. Emit(<<Opened(ch, cl, a, type, v, closesAt)>>)
        BY <2>3, <3>1
      <3> QED BY <3>2, <3>3, IndexOpenCase
    <2>4. ASSUME NEW cl \in Claims, NEW v \in Amounts, RequestVerification(ch, cl, a, v),
                 Emit(<<Opened(ch, cl, a, "VERIFICATION_REQUEST", v, now)>>)
          PROVE  IndexInv'
      <3>1. PICK closesAt \in Nat : closesAt = now
        BY <2>2
      <3>2. PICK type \in ChallengeType : type = "VERIFICATION_REQUEST"
        BY DEF ChallengeType
      <3>3. Challengeable(cl) /\ OpenCase(ch, cl, a, type, v, closesAt)
        BY <2>4, <3>1, <3>2 DEF RequestVerification
      <3>4. Emit(<<Opened(ch, cl, a, type, v, closesAt)>>)
        BY <2>4, <3>1, <3>2
      <3> QED BY <3>3, <3>4, IndexOpenCase
    <2>5. ASSUME BeginInvestigation(ch),
                 Emit(<<[name |-> "InvestigationStarted", challengeId |-> ch]>>)
          PROVE  IndexInv'
      BY <2>5, IndexBeginInvestigation
    <2> QED BY <2>1, <2>3, <2>4, <2>5
  <1>7. CASE ResolveCall
    BY <1>7, IndexResolve DEF ResolveCall
  <1>8. CASE AppealCall
    BY <1>8, IndexFileAppeal, IndexResolveAppeal DEF AppealCall
  <1>9. ASSUME NEW a \in Accounts, ReportCall(a)
        PROVE  IndexInv'
    BY <1>9, IndexSubmitReport, IndexSubmitReportAsIdentity DEF ReportCall
  <1>10. ASSUME NEW a \in Accounts, IdentityCall(a), UNCHANGED vars
         PROVE  IndexInv'
    <2>1. UNCHANGED <<claims, challenges, verdicts, appeals, pendingEvidence, reports, ledger,
                      unemitted, indexed>>
      BY <1>10 DEF IdentityCall, vars, claimVars, caseVars, evidenceVars, reportVars, moneyVars
    <2> QED BY <2>1, IndexUntouched
  <1> QED BY <1>1, <1>2, <1>3, <1>4, <1>5, <1>6, <1>7, <1>8, <1>9, <1>10 DEF SystemNext, Call

(* What is indexed stays kept in all that can happen. *)
LEMMA IndexAlways == SystemSpec => [](ChainInv /\ IndexInv /\ QueueTyped)
  <1> DEFINE All == ChainInv /\ IndexInv /\ QueueTyped
  <1>1. SystemInit => All
    BY ChainInit, IndexInit
  <1>2. All /\ [SystemNext]_systemVars => All'
    BY ChainStep, IndexStep, QueueStep
  <1> QED BY <1>1, <1>2, PTL DEF SystemSpec

-----------------------------------------------------------------------------
(***************************************************************************)
(* The investigator registry's log.  The states it goes through, from      *)
(* state s on, up to its m-th event.                                       *)
(***************************************************************************)
RegistryEvents ==
  [ name : {"InvestigatorRegistered"}, investigatorId : Investigators, controller : Accounts,
    parentId : Investigators \cup {None} ]
  \cup [name : {"ControllerRotated"}, investigatorId : Investigators, newController : Accounts]

ThroughRegistry(h, m, log, s) ==
  h = [n \in 0..m |-> IF n = 0 THEN s ELSE Store!ApplyRegistryEvent(h[n - 1], log[n])]

(* Event by event. *)
LEMMA RegistryTurns ==
  ASSUME NEW h, NEW m \in Nat, NEW log, NEW s, ThroughRegistry(h, m, log, s)
  PROVE  h[0] = s /\ \A n \in 1..m : h[n] = Store!ApplyRegistryEvent(h[n - 1], log[n])
  <1> DEFINE F(n) == IF n = 0 THEN s ELSE Store!ApplyRegistryEvent(h[n - 1], log[n])
  <1>1. h = [n \in 0..m |-> F(n)]
    BY DEF ThroughRegistry
  <1> HIDE DEF F
  <1>2. \A n \in 0..m : h[n] = F(n)
    BY <1>1
  <1>3. 0 \in 0..m /\ \A n \in 1..m : n \in 0..m /\ n # 0
    OBVIOUS
  <1>4. F(0) = s /\ \A n \in 1..m : F(n) = Store!ApplyRegistryEvent(h[n - 1], log[n])
    BY <1>3 DEF F
  <1> QED BY <1>2, <1>3, <1>4, Zenon

(* One event more. *)
LEMMA RegistryExtended ==
  ASSUME NEW h, NEW m \in Nat, NEW log, NEW s, ThroughRegistry(h, m, log, s)
  PROVE  ThroughRegistry([n \in 0..(m + 1) |-> IF n = m + 1
                                              THEN Store!ApplyRegistryEvent(h[m], log[m + 1])
                                              ELSE h[n]], m + 1, log, s)
  <1> DEFINE last == Store!ApplyRegistryEvent(h[m], log[m + 1])
             g == [n \in 0..(m + 1) |-> IF n = m + 1 THEN last ELSE h[n]]
  <1>1. h[0] = s /\ \A n \in 1..m : h[n] = Store!ApplyRegistryEvent(h[n - 1], log[n])
    BY RegistryTurns
  <1> HIDE DEF last
  <1>2. /\ g = [n \in 0..(m + 1) |-> g[n]] /\ g[m + 1] = last /\ \A n \in 0..m : g[n] = h[n]
    OBVIOUS
  <1> HIDE DEF g
  <1>3. ASSUME NEW n \in 0..(m + 1)
        PROVE  g[n] = IF n = 0 THEN s ELSE Store!ApplyRegistryEvent(g[n - 1], log[n])
    <2>1. CASE n = 0
      <3>1. g[0] = h[0]
        BY <1>2
      <3> QED BY <1>1, <2>1, <3>1
    <2>2. CASE n = m + 1
      <3>1. n # 0 /\ n - 1 = m /\ m \in 0..m
        BY <2>2
      <3>2. g[m] = h[m] /\ g[n] = last
        BY <1>2, <2>2, <3>1
      <3> QED BY <2>2, <3>1, <3>2, Zenon DEF last
    <2>3. CASE n # 0 /\ n # m + 1
      <3>1. n \in 1..m /\ n \in 0..m /\ n - 1 \in 0..m
        BY <2>3
      <3>2. g[n] = h[n] /\ g[n - 1] = h[n - 1]
        BY <1>2, <3>1
      <3>3. h[n] = Store!ApplyRegistryEvent(h[n - 1], log[n])
        BY <1>1, <3>1
      <3> QED BY <2>3, <3>2, <3>3, Zenon
    <2> QED BY <2>1, <2>2, <2>3
  <1>4. ThroughRegistry(g, m + 1, log, s)
    BY <1>2, <1>3 DEF ThroughRegistry
  <1> QED BY <1>4 DEF g, last

(* There are such states. *)
LEMMA RegistryStatesExist ==
  ASSUME NEW log, NEW s, NEW length \in Nat
  PROVE  \E h : ThroughRegistry(h, length, log, s)
  <1> DEFINE N == {m \in Nat : \E h : ThroughRegistry(h, m, log, s)}
  <1>1. 0 \in N
    <2>1. ThroughRegistry([n \in 0..0 |-> s], 0, log, s)
      BY DEF ThroughRegistry
    <2> QED BY <2>1
  <1>2. ASSUME NEW m \in N
        PROVE  m + 1 \in N
    <2>1. PICK h : ThroughRegistry(h, m, log, s)
      OBVIOUS
    <2>2. m \in Nat /\ m + 1 \in Nat
      OBVIOUS
    <2>3. \E g : ThroughRegistry(g, m + 1, log, s)
      BY <2>1, <2>2, RegistryExtended
    <2> QED BY <2>2, <2>3
  <1>3. N = Nat
    <2> HIDE DEF N
    <2>1. N \in SUBSET Nat
      BY DEF N
    <2> QED BY <1>1, <1>2, <2>1, AllNumbers
  <1> QED BY <1>3

(* applyRegistryLogs ends in the last of them. *)
LEMMA RegistryLogsEnd ==
  ASSUME NEW log, NEW s, Len(log) \in Nat
  PROVE  \E h : ThroughRegistry(h, Len(log), log, s) /\ Store!ApplyRegistryLogs(log, s) = h[Len(log)]
  <1> DEFINE h == CHOOSE h : ThroughRegistry(h, Len(log), log, s)
  <1>1. Store!ApplyRegistryLogs(log, s) = h[Len(log)]
    BY DEF Store!ApplyRegistryLogs, ThroughRegistry
  <1>2. ThroughRegistry(h, Len(log), log, s)
    <2>1. \E g : ThroughRegistry(g, Len(log), log, s)
      BY RegistryStatesExist
    <2> QED BY <2>1
  <1> HIDE DEF h
  <1> QED BY <1>1, <1>2

(* So one more event in the log is one more event applied. *)
LEMMA RegistryLogAppended ==
  ASSUME NEW E, NEW log \in Seq(E), NEW e \in E, NEW s
  PROVE  Store!ApplyRegistryLogs(Append(log, e), s) =
           Store!ApplyRegistryEvent(Store!ApplyRegistryLogs(log, s), e)
  <1> DEFINE more == Append(log, e)
             m == Len(log)
  <1>1. /\ m \in Nat /\ Len(more) = m + 1 /\ more[m + 1] = e
        /\ \A n \in 1..m : more[n] = log[n]
    OBVIOUS
  <1>2. PICK h : ThroughRegistry(h, m, log, s) /\ Store!ApplyRegistryLogs(log, s) = h[m]
    <2>1. Len(log) \in Nat
      OBVIOUS
    <2> QED BY <2>1, RegistryLogsEnd
  <1> HIDE DEF more, m
  <1>3. PICK g : ThroughRegistry(g, m + 1, more, s) /\ Store!ApplyRegistryLogs(more, s) = g[m + 1]
    <2>1. Len(more) \in Nat
      BY <1>1
    <2>2. \E g : ThroughRegistry(g, Len(more), more, s)
                 /\ Store!ApplyRegistryLogs(more, s) = g[Len(more)]
      BY <2>1, RegistryLogsEnd
    <2> QED BY <1>1, <2>2
  <1>4. h[0] = s /\ \A n \in 1..m : h[n] = Store!ApplyRegistryEvent(h[n - 1], log[n])
    BY <1>1, <1>2, RegistryTurns
  <1>5. g[0] = s /\ \A n \in 1..(m + 1) : g[n] = Store!ApplyRegistryEvent(g[n - 1], more[n])
    BY <1>1, <1>3, RegistryTurns
  <1> DEFINE N == {n \in Nat : n \in 0..m => g[n] = h[n]}
  <1>6. 0 \in N
    BY <1>4, <1>5
  <1>7. ASSUME NEW n \in N
        PROVE  n + 1 \in N
    <2> SUFFICES ASSUME n + 1 \in 0..m
                 PROVE  g[n + 1] = h[n + 1]
      OBVIOUS
    <2>1. PICK k \in 1..m : k = n + 1 /\ k - 1 = n /\ k \in 1..(m + 1)
      BY <1>1
    <2>2. g[n] = h[n] /\ more[k] = log[k]
      BY <1>1, <2>1
    <2>3. g[k] = Store!ApplyRegistryEvent(g[k - 1], more[k])
      BY <1>5, <2>1
    <2>4. h[k] = Store!ApplyRegistryEvent(h[k - 1], log[k])
      BY <1>4
    <2> QED BY <2>1, <2>2, <2>3, <2>4
  <1>8. N = Nat
    <2> HIDE DEF N
    <2>1. N \in SUBSET Nat
      BY DEF N
    <2> QED BY <1>6, <1>7, <2>1, AllNumbers
  <1>9. g[m] = h[m]
    <2>1. m \in N /\ m \in 0..m
      BY <1>1, <1>8
    <2> QED BY <2>1
  <1>10. g[m + 1] = Store!ApplyRegistryEvent(g[m], e)
    <2>1. PICK k \in 1..(m + 1) : k = m + 1 /\ k - 1 = m
      BY <1>1
    <2>2. g[k] = Store!ApplyRegistryEvent(g[k - 1], more[k])
      BY <1>5
    <2> QED BY <1>1, <2>1, <2>2
  <1> QED BY <1>2, <1>3, <1>9, <1>10 DEF more

(* An empty log changes nothing. *)
LEMMA NoRegistryEvent ==
  ASSUME NEW s
  PROVE  Store!ApplyRegistryLogs(<<>>, s) = s
  <1>1. Len(<<>>) = 0
    OBVIOUS
  <1>2. PICK h : ThroughRegistry(h, 0, <<>>, s) /\ Store!ApplyRegistryLogs(<<>>, s) = h[0]
    BY <1>1, RegistryLogsEnd
  <1> QED BY <1>2, RegistryTurns

-----------------------------------------------------------------------------
(***************************************************************************)
(* Identities.  An event of their registry touches the entry of one.       *)
(***************************************************************************)
LEMMA RegistryEventPut ==
  ASSUME NEW s, StoreTyped(s), NEW e \in RegistryEvents
  PROVE  LET t == Store!ApplyRegistryEvent(s, e)
             id == e.investigatorId
             before == Store!GetInvestigator(s, id)
         IN /\ id \in Investigators /\ StoreTyped(t) /\ InvestigatorPut(s, t, id)
            /\ t.investigators[id].linkedReports = before.linkedReports
            /\ e.name = "InvestigatorRegistered" =>
                 /\ t.investigators[id].controller = e.controller
                 /\ t.investigators[id].parentId = e.parentId
            /\ e.name = "ControllerRotated" =>
                 /\ t.investigators[id].controller = e.newController
                 /\ t.investigators[id].parentId = before.parentId
  <1> DEFINE id == e.investigatorId
             before == Store!GetInvestigator(s, id)
             named == [before EXCEPT !.controller = e.controller, !.parentId = e.parentId]
             more == Append(before.controllerHistory, e.newController)
             rotated == [before EXCEPT !.controller = e.newController, !.controllerHistory = more]
             entry == IF e.name = "InvestigatorRegistered" THEN named ELSE rotated
  <1>1. id \in Investigators
    BY DEF RegistryEvents
  <1>2. before \in InvestigatorEntry
    BY <1>1, Defaults
  <1>3. PICK t : t = Store!ApplyRegistryEvent(s, e)
    OBVIOUS
  <1>4. t = Store!PutInvestigator(s, id, entry)
    BY <1>3 DEF Store!ApplyRegistryEvent
  <1> HIDE DEF id, before
  <1>5. CASE e.name = "InvestigatorRegistered"
    <2>1. e.controller \in Accounts /\ e.parentId \in Investigators \cup {None}
      BY <1>5 DEF RegistryEvents
    <2>2. /\ named \in InvestigatorEntry /\ named.linkedReports = before.linkedReports
          /\ named.controller = e.controller /\ named.parentId = e.parentId
      BY <1>2, <2>1 DEF InvestigatorEntry
    <2>3. t = Store!PutInvestigator(s, id, named)
      BY <1>4, <1>5
    <2> HIDE DEF named
    <2>4. StoreTyped(t) /\ InvestigatorPut(s, t, id) /\ t.investigators[id] = named
      BY <1>1, <2>2, <2>3, PuttingInvestigator
    <2> QED BY <1>1, <1>3, <1>5, <2>2, <2>4 DEF id, before
  <1>6. CASE e.name = "ControllerRotated"
    <2>1. e.newController \in Accounts
      BY <1>6 DEF RegistryEvents
    <2>2. more \in Seq(Accounts)
      <3>1. before.controllerHistory \in Seq(Accounts)
        BY <1>2 DEF InvestigatorEntry
      <3> QED BY <2>1, <3>1
    <2> HIDE DEF more
    <2>3. /\ rotated \in InvestigatorEntry /\ rotated.linkedReports = before.linkedReports
          /\ rotated.controller = e.newController /\ rotated.parentId = before.parentId
      BY <1>2, <2>1, <2>2 DEF InvestigatorEntry
    <2>4. t = Store!PutInvestigator(s, id, rotated)
      BY <1>4, <1>6 DEF more
    <2> HIDE DEF rotated
    <2>5. StoreTyped(t) /\ InvestigatorPut(s, t, id) /\ t.investigators[id] = rotated
      BY <1>1, <2>3, <2>4, PuttingInvestigator
    <2> QED BY <1>1, <1>3, <1>6, <2>3, <2>5 DEF id, before
  <1>7. e.name \in {"InvestigatorRegistered", "ControllerRotated"}
    BY DEF RegistryEvents
  <1> QED BY <1>5, <1>6, <1>7

(***************************************************************************)
(* Whatever state the one log ends in, the other adds the registered       *)
(* identities with their keys to it and takes nothing away.                *)
(***************************************************************************)
LinkedOf(s, id) == Store!GetInvestigator(s, id).linkedReports

KeysAdded(s, t) ==
  /\ StoreTyped(t) /\ t.claims = s.claims /\ t.challenges = s.challenges
  /\ DOMAIN t.investigators = DOMAIN s.investigators \cup Existing(investigators)
  /\ \A id \in Existing(investigators) :
       /\ t.investigators[id].controller = investigators[id].controller
       /\ t.investigators[id].parentId = investigators[id].parentId
  /\ \A id \in Investigators : LinkedOf(t, id) = LinkedOf(s, id)

KeysInv ==
  /\ registryLog \in Seq(RegistryEvents)
  /\ \A s : StoreTyped(s) => KeysAdded(s, Store!ApplyRegistryLogs(registryLog, s))

(* No identity at first. *)
LEMMA KeysInit == SystemInit => KeysInv
  <1> SUFFICES ASSUME SystemInit
               PROVE  KeysInv
    OBVIOUS
  <1>1. registryLog = <<>> /\ Existing(investigators) = {}
    BY DEF SystemInit, IdentifiedInit, Identities!Init, Existing
  <1>2. ASSUME NEW s, StoreTyped(s)
        PROVE  KeysAdded(s, s)
    BY <1>1, <1>2 DEF KeysAdded
  <1> QED BY <1>1, <1>2, NoRegistryEvent DEF KeysInv

(* A new event brings what the identity registry has by then. *)
LEMMA KeysEvent ==
  ASSUME KeysInv, LineageInv, NEW e \in RegistryEvents, registryLog' = Append(registryLog, e),
         investigators' \in [Investigators -> Identities!Investigator],
         \A id \in Investigators \ {e.investigatorId} : investigators'[id] = investigators[id],
         investigators'[e.investigatorId].exists,
         \/ /\ e.name = "InvestigatorRegistered"
            /\ investigators'[e.investigatorId].controller = e.controller
            /\ investigators'[e.investigatorId].parentId = e.parentId
         \/ /\ e.name = "ControllerRotated" /\ investigators[e.investigatorId].exists
            /\ investigators'[e.investigatorId].controller = e.newController
            /\ investigators'[e.investigatorId].parentId = investigators[e.investigatorId].parentId
  PROVE  KeysInv'
  <1>1. PICK x \in Investigators : x = e.investigatorId
    BY DEF RegistryEvents
  <1>2. Existing(investigators') = Existing(investigators) \cup {x}
    <2>1. DOMAIN investigators' = Investigators /\ DOMAIN investigators = Investigators
      BY DEF LineageInv, Identities!TypeOK
    <2> QED BY <1>1, <2>1 DEF Existing
  <1>3. registryLog \in Seq(RegistryEvents)
    BY DEF KeysInv
  <1>4. ASSUME NEW s, StoreTyped(s)
        PROVE  KeysAdded(s, Store!ApplyRegistryLogs(registryLog, s))'
    <2>1. PICK t : t = Store!ApplyRegistryLogs(registryLog, s)
      OBVIOUS
    <2>2. PICK u : u = Store!ApplyRegistryEvent(t, e)
      OBVIOUS
    <2>3. Store!ApplyRegistryLogs(registryLog', s) = u
      BY <1>3, <2>1, <2>2, RegistryLogAppended
    <2>4. KeysAdded(s, t)
      BY <1>4, <2>1 DEF KeysInv
    <2>5. StoreTyped(t)
      BY <2>4 DEF KeysAdded
    <2>6. PICK before : before = Store!GetInvestigator(t, x)
      OBVIOUS
    <2>7. /\ StoreTyped(u) /\ InvestigatorPut(t, u, x)
          /\ u.investigators[x].linkedReports = before.linkedReports
          /\ e.name = "InvestigatorRegistered" =>
               /\ u.investigators[x].controller = e.controller
               /\ u.investigators[x].parentId = e.parentId
          /\ e.name = "ControllerRotated" =>
               /\ u.investigators[x].controller = e.newController
               /\ u.investigators[x].parentId = before.parentId
      BY <1>1, <2>2, <2>5, <2>6, RegistryEventPut
    <2>8. investigators[x].exists =>
            x \in Existing(investigators) /\ before = t.investigators[x]
      <3>1. DOMAIN investigators = Investigators
        BY DEF LineageInv, Identities!TypeOK
      <3> QED BY <1>1, <2>4, <2>6, <3>1 DEF KeysAdded, Existing, Store!GetInvestigator
    <2>9. /\ u.investigators[x].controller = investigators'[x].controller
          /\ u.investigators[x].parentId = investigators'[x].parentId
      BY <1>1, <2>4, <2>7, <2>8 DEF KeysAdded
    <2>10. ASSUME NEW id \in Existing(investigators) \cup {x}
           PROVE  /\ u.investigators[id].controller = investigators'[id].controller
                  /\ u.investigators[id].parentId = investigators'[id].parentId
      <3>1. CASE id = x
        BY <2>9, <3>1
      <3>2. CASE id # x
        <4>1. id \in Existing(investigators) /\ id \in DOMAIN t.investigators /\ id \in Investigators
          BY <2>4, <3>2 DEF KeysAdded, Existing, LineageInv, Identities!TypeOK
        <4>2. u.investigators[id] = t.investigators[id] /\ investigators'[id] = investigators[id]
          BY <1>1, <2>7, <3>2, <4>1 DEF InvestigatorPut
        <4> QED BY <2>4, <4>1, <4>2 DEF KeysAdded
      <3> QED BY <3>1, <3>2
    <2>11. ASSUME NEW id \in Investigators
           PROVE  LinkedOf(u, id) = LinkedOf(t, id)
      <3>1. DOMAIN u.investigators = DOMAIN t.investigators \cup {x}
        BY <2>7 DEF InvestigatorPut
      <3>2. CASE id = x
        BY <2>6, <2>7, <3>1, <3>2 DEF LinkedOf, Store!GetInvestigator
      <3>3. CASE id # x
        <4>1. id \in DOMAIN t.investigators => u.investigators[id] = t.investigators[id]
          BY <2>7, <3>3 DEF InvestigatorPut
        <4> QED BY <3>1, <3>3, <4>1 DEF LinkedOf, Store!GetInvestigator
      <3> QED BY <3>2, <3>3
    <2>12. \A id \in Investigators : LinkedOf(u, id) = LinkedOf(s, id)
      BY <2>4, <2>11 DEF KeysAdded
    <2>13. /\ u.claims = s.claims /\ u.challenges = s.challenges
           /\ DOMAIN u.investigators = DOMAIN s.investigators \cup Existing(investigators')
      BY <1>2, <2>4, <2>7 DEF KeysAdded, InvestigatorPut
    <2> QED BY <1>2, <2>3, <2>7, <2>10, <2>12, <2>13 DEF KeysAdded
  <1>5. registryLog' \in Seq(RegistryEvents)
    BY <1>3
  <1> QED BY <1>4, <1>5 DEF KeysInv

(* Every step. *)
LEMMA KeysStep ==
  ASSUME ChainInv, KeysInv, [SystemNext]_systemVars
  PROVE  KeysInv'
  <1>1. CASE UNCHANGED <<investigators, registryLog>>
    BY <1>1 DEF KeysInv, KeysAdded
  <1>2. ASSUME NEW a \in Accounts, IdentityCall(a)
        PROVE  KeysInv'
    <2>1. LineageInv /\ investigators \in [Investigators -> Identities!Investigator]
      BY DEF ChainInv, LineageInv, Identities!TypeOK
    <2>2. ASSUME NEW id \in Investigators, NEW parentId \in Investigators \cup {None},
                 Identities!Register(id, a, parentId),
                 registryLog' = Append(registryLog,
                   [ name |-> "InvestigatorRegistered", investigatorId |-> id,
                     controller |-> a, parentId |-> parentId ])
          PROVE  KeysInv'
      <3>1. PICK e \in RegistryEvents :
              /\ e.name = "InvestigatorRegistered" /\ e.investigatorId = id
              /\ e.controller = a /\ e.parentId = parentId /\ registryLog' = Append(registryLog, e)
        <4> DEFINE e == [ name |-> "InvestigatorRegistered", investigatorId |-> id,
                          controller |-> a, parentId |-> parentId ]
        <4>1. e \in RegistryEvents
          BY DEF RegistryEvents
        <4> QED BY <2>2, <4>1
      <3>2. /\ investigators' \in [Investigators -> Identities!Investigator]
            /\ \A x \in Investigators \ {id} : investigators'[x] = investigators[x]
            /\ investigators'[id].exists /\ investigators'[id].controller = a
            /\ investigators'[id].parentId = parentId
        BY <2>1, <2>2 DEF Identities!Register, Identities!Investigator
      <3> QED BY <2>1, <3>1, <3>2, KeysEvent
    <2>3. ASSUME NEW id \in Investigators, NEW newController \in Accounts,
                 Identities!RotateController(id, a, newController),
                 registryLog' = Append(registryLog,
                   [ name |-> "ControllerRotated", investigatorId |-> id,
                     newController |-> newController ])
          PROVE  KeysInv'
      <3>1. PICK e \in RegistryEvents :
              /\ e.name = "ControllerRotated" /\ e.investigatorId = id
              /\ e.newController = newController /\ registryLog' = Append(registryLog, e)
        <4> DEFINE e == [ name |-> "ControllerRotated", investigatorId |-> id,
                          newController |-> newController ]
        <4>1. e \in RegistryEvents
          BY DEF RegistryEvents
        <4> QED BY <2>3, <4>1
      <3>2. /\ investigators' \in [Investigators -> Identities!Investigator]
            /\ \A x \in Investigators \ {id} : investigators'[x] = investigators[x]
            /\ investigators'[id].exists /\ investigators'[id].controller = newController
            /\ investigators'[id].parentId = investigators[id].parentId
            /\ investigators[id].exists
        BY <2>1, <2>3 DEF Identities!RotateController, Identities!Investigator
      <3> QED BY <2>1, <3>1, <3>2, KeysEvent
    <2> QED BY <1>2, <2>2, <2>3 DEF IdentityCall
  <1>3. CASE UNCHANGED systemVars
    BY <1>1, <1>3 DEF systemVars, allVars, identityVars, indexVars
  <1>4. CASE EmitNext
    BY <1>1, <1>4 DEF EmitNext, allVars, identityVars
  <1>5. CASE UNCHANGED <<identityVars, links, indexVars>>
    BY <1>1, <1>5 DEF identityVars, indexVars
  <1>6. ASSUME NEW a \in Accounts, Call(a)
        PROVE  KeysInv'
    <2>1. \/ UNCHANGED <<investigators, registryLog>>
          \/ IdentityCall(a)
      BY <1>6 DEF Call, ClaimCall, EvidenceCall, CaseCall, ReportCall, ResolveCall, AppealCall, Emit,
                  identityVars
    <2> QED BY <1>1, <1>2, <2>1
  <1> QED BY <1>3, <1>4, <1>5, <1>6 DEF SystemNext

-----------------------------------------------------------------------------
(***************************************************************************)
(* What holds of the whole, whoever calls what and when.                   *)
(***************************************************************************)
SystemInv == ChainInv /\ IndexInv /\ QueueTyped /\ KeysInv

(* It always does. *)
LEMMA SystemAlways == SystemSpec => []SystemInv
  <1>1. SystemInit => SystemInv
    BY ChainInit, IndexInit, KeysInit DEF SystemInv
  <1>2. SystemInv /\ [SystemNext]_systemVars => SystemInv'
    BY ChainStep, IndexStep, QueueStep, KeysStep DEF SystemInv
  <1> QED BY <1>1, <1>2, PTL DEF SystemSpec

(* The claims and cases of a rebuild are the indexed ones. *)
LEMMA Rebuild ==
  ASSUME IndexInv, KeysInv
  PROVE  /\ State.claims = indexed.claims /\ State.challenges = indexed.challenges
         /\ KeysAdded(indexed, State)
  BY DEF IndexInv, KeysInv, KeysAdded, State

(* What is the latest part of a list is a suffix of it. *)
LEMMA LatestIsSuffix ==
  ASSUME NEW E, NEW s \in Seq(E), NEW t \in Seq(E), NEW missed \in Nat, Len(t) = missed + Len(s),
         \A i \in 1..Len(s) : s[i] = t[missed + i]
  PROVE  Store!IsSuffix(s, t)
  <1> DEFINE n == Len(s)
             rs == Store!Reverse(s)
             rt == Store!Reverse(t)
             a == SubSeq(rs, 1, n)
             b == SubSeq(rt, 1, n)
  <1>1. n \in Nat /\ Len(t) \in Nat /\ n <= Len(t) /\ Len(t) = missed + n
    OBVIOUS
  <1>2. /\ rs \in Seq(E) /\ Len(rs) = n /\ \A i \in 1..n : rs[i] = s[(n - i) + 1]
        /\ rt \in Seq(E) /\ Len(rt) = Len(t) /\ \A i \in 1..Len(t) : rt[i] = t[(Len(t) - i) + 1]
    BY <1>1 DEF Store!Reverse
  <1>3. ASSUME NEW i \in 1..n
        PROVE  rs[i] = rt[i]
    <2>1. PICK k \in 1..n : k = (n - i) + 1 /\ missed + k = (Len(t) - i) + 1
      <3>1. (n - i) + 1 \in 1..n /\ missed + ((n - i) + 1) = (Len(t) - i) + 1
        <4> HIDE DEF n
        <4> QED BY <1>1
      <3> QED BY <3>1
    <2>2. i \in 1..Len(t)
      BY <1>1
    <2> QED BY <1>2, <2>1, <2>2
  <1> HIDE DEF rs, rt, n
  <1>4. /\ Len(a) = n /\ a \in Seq(E) /\ \A i \in 1..n : a[i] = rs[i]
        /\ Len(b) = n /\ b \in Seq(E) /\ \A i \in 1..n : b[i] = rt[i]
    BY <1>1, <1>2
  <1> HIDE DEF a, b
  <1>5. a = b
    BY <1>1, <1>3, <1>4
  <1> QED BY <1>1, <1>2, <1>5 DEF Store!IsSuffix, Store!IsPrefix, a, b, rs, rt

(* The work on a case, between transactions. *)
LEMMA WorkOfCase ==
  ASSUME SystemInv, Settled, NEW ch \in Existing(challenges)
  PROVE  LET case == State.challenges[ch]
         IN /\ Len(case.reports) = tally[ch].total
            /\ \A i \in 1..Len(case.reports) :
                 /\ case.reports[i].investigator = investigatorsOf[ch][i]
                 /\ case.reports[i].verdict = reports[ch][i].verdict
            /\ Store!IsSuffix(case.evidenceIds, pendingEvidence[ch])
            /\ case.bondWei = ledger[ch].deposit
            /\ {p.investigator : p \in {case.payouts[i] : i \in {j \in DOMAIN case.payouts :
                 case.payouts[j].amountWei > 0}}} = ledger[ch].paid
            /\ \A i \in DOMAIN case.payouts : case.payouts[i].amountWei = ledger[ch].share
  <1>1. PICK e : e = indexed.challenges[ch]
    OBVIOUS
  <1>2. State.challenges[ch] = e
    BY <1>1, Rebuild DEF SystemInv
  <1>3. ch \in Challenges /\ challenges[ch].exists
    BY DEF SystemInv, ChainInv, TypeOK, Existing
  <1>4. CaseKept(ch) /\ e \in CaseEntry
    BY <1>1, <1>3, KeptCase DEF SystemInv
  <1>5. FactsKept(e, challenges[ch], ledger[ch]) /\ ReportsKept(e, reports[ch])
    BY <1>1, <1>4 DEF CaseKept
  <1>6. /\ EvidenceKept(e, pendingEvidence[ch])
        /\ PayoutsKept(e, ch, verdicts[ch], ledger[ch], unemitted)
    BY <1>1, <1>4 DEF CaseKept
  <1>7. Len(e.reports) = tally[ch].total
    <2>1. tally[ch] = TallyOf(reports[ch])
      BY <1>3 DEF SystemInv, ChainInv, TalliesMatchReports
    <2> QED BY <1>5, <2>1 DEF ReportsKept, TallyOf
  <1>8. \A i \in 1..Len(e.reports) : /\ e.reports[i].investigator = investigatorsOf[ch][i]
                                     /\ e.reports[i].verdict = reports[ch][i].verdict
    <2>1. \A i \in 1..Len(reports[ch]) : investigatorsOf[ch][i] = reports[ch][i].investigator
      BY <1>3 DEF SystemInv, ChainInv, TalliesMatchReports
    <2> QED BY <1>5, <2>1 DEF ReportsKept
  <1>9. Store!IsSuffix(e.evidenceIds, pendingEvidence[ch])
    <2>1. e.evidenceIds \in Seq(EvidenceIds) /\ pendingEvidence[ch] \in Seq(EvidenceIds)
      BY <1>3, <1>4 DEF CaseEntry, SystemInv, ChainInv, TypeOK, Subjects
    <2>2. PICK s, all : s = e.evidenceIds /\ all = pendingEvidence[ch]
      OBVIOUS
    <2>3. s \in Seq(EvidenceIds) /\ all \in Seq(EvidenceIds)
      BY <2>1, <2>2
    <2>4. PICK missed : missed = Len(all) - Len(s)
      OBVIOUS
    <2>5. missed >= 0 /\ \A i \in 1..Len(s) : s[i] = all[missed + i]
      BY <1>6, <2>2, <2>4 DEF EvidenceKept
    <2>6. missed \in Nat /\ Len(all) = missed + Len(s)
      BY <2>3, <2>4, <2>5
    <2>7. Store!IsSuffix(s, all)
      BY <2>3, <2>5, <2>6, LatestIsSuffix
    <2> QED BY <2>2, <2>7
  <1>10. e.bondWei = ledger[ch].deposit
    BY <1>5 DEF FactsKept
  <1>11. PICK share, paid : /\ share = ledger[ch].share /\ paid = ledger[ch].paid
    OBVIOUS
  <1>12. e.payouts \in Seq(Payout) /\ share \in Nat /\ DOMAIN e.payouts = 1..Len(e.payouts)
    <2>1. e.payouts \in Seq(Payout) /\ share \in Nat
      BY <1>3, <1>4, <1>11 DEF CaseEntry, SystemInv, ChainInv, TypeOK, LedgerEntry
    <2> QED BY <2>1
  <1>13. \A i \in 1..Len(e.payouts) :
           /\ e.payouts[i].amountWei = share
           /\ share > 0 => e.payouts[i].investigator \in paid
    BY <1>6, <1>11 DEF PayoutsKept
  <1>14. \A a \in paid : share > 0 /\ \E i \in 1..Len(e.payouts) : e.payouts[i].investigator = a
    BY <1>6, <1>11 DEF PayoutsKept, PaidLater, Settled
  <1>15. {p.investigator : p \in {e.payouts[i] : i \in {j \in DOMAIN e.payouts :
           e.payouts[j].amountWei > 0}}} = paid
    <2> DEFINE good == {j \in DOMAIN e.payouts : e.payouts[j].amountWei > 0}
    <2>1. good = IF share > 0 THEN 1..Len(e.payouts) ELSE {}
      BY <1>12, <1>13
    <2> HIDE DEF good
    <2>2. {p.investigator : p \in {e.payouts[i] : i \in good}} = {e.payouts[i].investigator : i \in good}
      OBVIOUS
    <2>3. {e.payouts[i].investigator : i \in good} = paid
      BY <1>13, <1>14, <2>1
    <2> QED BY <2>2, <2>3 DEF good
  <1>16. \A i \in DOMAIN e.payouts : e.payouts[i].amountWei = share
    BY <1>12, <1>13
  <1> QED BY <1>2, <1>7, <1>8, <1>9, <1>10, <1>11, <1>15, <1>16

(***************************************************************************)
(* Between transactions a rebuild has the reports, evidence, bonds and     *)
(* payouts of every case as the contract counts them, whatever a payee     *)
(* called while resolve() was paying it.                                   *)
(***************************************************************************)
THEOREM WorkIsIndexed == SystemSpec => []WorkIndexed
  <1>1. SystemInv => WorkIndexed
    BY WorkOfCase DEF WorkIndexed
  <1> QED BY <1>1, SystemAlways, PTL

-----------------------------------------------------------------------------
(***************************************************************************)
(* Links.  Events that are about no report leave reports and identities.   *)
(***************************************************************************)
ThreeMaps(s) ==
  s = [claims |-> s.claims, challenges |-> s.challenges, investigators |-> s.investigators]

ReportsAside(s, t) ==
  /\ ThreeMaps(t) /\ t.investigators = s.investigators
  /\ \A x \in DOMAIN s.challenges :
       x \in DOMAIN t.challenges /\ t.challenges[x].reports = s.challenges[x].reports

(* The updates of maps these events are made of. *)
LEMMA UpdatesAside ==
  ASSUME NEW s, ThreeMaps(s)
  PROVE  /\ ReportsAside(s, s)
         /\ \A cl, c : ReportsAside(s, Store!PutClaim(s, cl, c))
         /\ \A cl, status : ReportsAside(s, Store!MarkClaim(s, cl, status))
         /\ \A x, c : (x \in DOMAIN s.challenges => c.reports = s.challenges[x].reports) =>
              ReportsAside(s, Store!PutChallenge(s, x, c))
  <1>1. PICK a, b, i : s = [claims |-> a, challenges |-> b, investigators |-> i]
    BY DEF ThreeMaps
  <1>2. ReportsAside(s, s)
    BY DEF ReportsAside
  <1>3. ASSUME NEW cl, NEW c
        PROVE  ReportsAside(s, Store!PutClaim(s, cl, c))
    <2>1. PICK put : put = Store!SetEntry(s.claims, cl, c)
      OBVIOUS
    <2>2. PICK t : t = [claims |-> put, challenges |-> b, investigators |-> i]
      OBVIOUS
    <2>3. Store!PutClaim(s, cl, c) = t
      BY <1>1, <2>1, <2>2 DEF Store!PutClaim
    <2>4. ReportsAside(s, t)
      BY <1>1, <2>2 DEF ReportsAside, ThreeMaps
    <2> QED BY <2>3, <2>4
  <1>4. ASSUME NEW x, NEW c, x \in DOMAIN s.challenges => c.reports = s.challenges[x].reports
        PROVE  ReportsAside(s, Store!PutChallenge(s, x, c))
    <2>1. PICK put : put = Store!SetEntry(s.challenges, x, c)
      OBVIOUS
    <2>2. PICK t : t = [claims |-> a, challenges |-> put, investigators |-> i]
      OBVIOUS
    <2>3. Store!PutChallenge(s, x, c) = t
      BY <1>1, <2>1, <2>2 DEF Store!PutChallenge
    <2>4. \A y \in DOMAIN s.challenges : y \in DOMAIN put /\ put[y].reports = s.challenges[y].reports
      BY <1>4, <2>1 DEF Store!SetEntry
    <2>5. ReportsAside(s, t)
      BY <1>1, <2>2, <2>4 DEF ReportsAside, ThreeMaps
    <2> QED BY <2>3, <2>5
  <1>5. ASSUME NEW cl, NEW status
        PROVE  ReportsAside(s, Store!MarkClaim(s, cl, status))
    BY <1>2, <1>3 DEF Store!MarkClaim
  <1> QED BY <1>2, <1>3, <1>4, <1>5

\* The events that are about no report.
OtherEvents ==
  { "ClaimCreated", "Superseded", "ChallengeOpened", "EvidenceSubmitted", "EvidenceLocked",
    "InvestigationStarted", "InvestigatorPaid", "Resolved", "AppealFiled" }

(* Each of them leaves reports and identities. *)
LEMMA OtherEventsAside ==
  ASSUME NEW s, StoreTyped(s), NEW e, e.name \in OtherEvents
  PROVE  ReportsAside(s, Store!ApplyEvent(s, e))
  <1>1. ThreeMaps(s) /\ \A x \in DOMAIN s.challenges : s.challenges[x] \in CaseEntry
    BY IndexedCase DEF StoreTyped, ThreeMaps
  <1>2. \A x \in DOMAIN s.challenges : Store!GetChallenge(s, x) = s.challenges[x]
    BY DEF Store!GetChallenge
  <1>3. ASSUME NEW t, NEW u, ReportsAside(s, t), ReportsAside(t, u)
        PROVE  ReportsAside(s, u)
    BY <1>3 DEF ReportsAside
  <1>4. CASE e.name = "ClaimCreated"
    BY <1>1, <1>4, UpdatesAside DEF Store!ApplyEvent
  <1>5. CASE e.name = "Superseded"
    BY <1>1, <1>5, UpdatesAside DEF Store!ApplyEvent, Store!OnSuperseded
  <1>6. CASE e.name = "ChallengeOpened"
    <2> DEFINE c == [Store!GetChallenge(s, e.challengeId) EXCEPT
                       !.claimId = e.claimId, !.challengeType = e.challengeType,
                       !.challenger = e.challenger, !.bondWei = e.bond,
                       !.windowCloseAt = e.windowCloseAt, !.state = "OPEN"]
    <2>1. e.challengeId \in DOMAIN s.challenges => c.reports = s.challenges[e.challengeId].reports
      BY <1>1, <1>2 DEF CaseEntry
    <2>2. PICK t : t = Store!PutChallenge(s, e.challengeId, c)
      OBVIOUS
    <2>3. \E cl, entry : Store!ApplyEvent(s, e) = Store!PutClaim(t, cl, entry)
      BY <1>6, <2>2 DEF Store!ApplyEvent, Store!OnChallengeOpened
    <2> HIDE DEF c
    <2>4. ReportsAside(s, t)
      BY <1>1, <2>1, <2>2, UpdatesAside
    <2> QED BY <1>3, <2>3, <2>4, UpdatesAside DEF ReportsAside
  <1>7. CASE e.name = "EvidenceSubmitted"
    <2>1. Store!ApplyEvent(s, e) = Store!OnEvidenceSubmitted(s, e)
      BY <1>7 DEF Store!ApplyEvent
    <2>2. CASE e.subjectId \in DOMAIN s.challenges
      <3> DEFINE more == Append(s.challenges[e.subjectId].evidenceIds, e.evidenceId)
                 c == [s.challenges[e.subjectId] EXCEPT !.evidenceIds = more]
      <3>1. Store!ApplyEvent(s, e) = Store!PutChallenge(s, e.subjectId, c)
        BY <1>1, <2>1, <2>2 DEF Store!OnEvidenceSubmitted
      <3> HIDE DEF more
      <3>2. c.reports = s.challenges[e.subjectId].reports
        BY <1>1, <2>2 DEF CaseEntry
      <3> HIDE DEF c
      <3> QED BY <1>1, <3>1, <3>2, UpdatesAside
    <2>3. CASE e.subjectId \notin DOMAIN s.challenges
      BY <1>1, <2>1, <2>3, UpdatesAside DEF Store!OnEvidenceSubmitted
    <2> QED BY <2>2, <2>3
  <1>8. CASE e.name = "EvidenceLocked"
    <2>1. Store!ApplyEvent(s, e) = Store!OnEvidenceLocked(s, e)
      BY <1>8 DEF Store!ApplyEvent
    <2>2. CASE e.subjectId \in DOMAIN s.challenges
      <3> DEFINE c == [s.challenges[e.subjectId] EXCEPT
                         !.evidenceRoot = e.evidenceRoot, !.state = "EVIDENCE_LOCKED"]
      <3>1. c.reports = s.challenges[e.subjectId].reports
        BY <1>1, <2>2 DEF CaseEntry
      <3>2. PICK t : t = Store!PutChallenge(s, e.subjectId, c)
        OBVIOUS
      <3>3. \E cl, status : Store!ApplyEvent(s, e) = Store!MarkClaim(t, cl, status)
        BY <2>1, <2>2, <3>2 DEF Store!OnEvidenceLocked
      <3> HIDE DEF c
      <3>4. ReportsAside(s, t)
        BY <1>1, <3>1, <3>2, UpdatesAside
      <3> QED BY <1>3, <3>3, <3>4, UpdatesAside DEF ReportsAside
    <2>3. CASE e.subjectId \notin DOMAIN s.challenges
      BY <1>1, <2>1, <2>3, UpdatesAside DEF Store!OnEvidenceLocked
    <2> QED BY <2>2, <2>3
  <1>9. CASE e.name = "InvestigationStarted"
    <2> DEFINE c == [Store!GetChallenge(s, e.challengeId) EXCEPT !.state = "INVESTIGATING"]
    <2>1. e.challengeId \in DOMAIN s.challenges => c.reports = s.challenges[e.challengeId].reports
      BY <1>1, <1>2 DEF CaseEntry
    <2>2. PICK t : t = Store!PutChallenge(s, e.challengeId, c)
      OBVIOUS
    <2>3. \E cl, status : Store!ApplyEvent(s, e) = Store!MarkClaim(t, cl, status)
      BY <1>9, <2>2 DEF Store!ApplyEvent, Store!OnInvestigationStarted
    <2> HIDE DEF c
    <2>4. ReportsAside(s, t)
      BY <1>1, <2>1, <2>2, UpdatesAside
    <2> QED BY <1>3, <2>3, <2>4, UpdatesAside DEF ReportsAside
  <1>10. CASE e.name = "InvestigatorPaid"
    <2> DEFINE more == Append(Store!GetChallenge(s, e.challengeId).payouts,
                              [investigator |-> e.investigator, amountWei |-> e.amount])
               c == [Store!GetChallenge(s, e.challengeId) EXCEPT !.payouts = more]
    <2>1. Store!ApplyEvent(s, e) = Store!PutChallenge(s, e.challengeId, c)
      <3>1. Store!ApplyEvent(s, e) = Store!OnInvestigatorPaid(s, e)
        BY <1>10 DEF Store!ApplyEvent
      <3> QED BY <3>1 DEF Store!OnInvestigatorPaid
    <2> HIDE DEF more
    <2>2. e.challengeId \in DOMAIN s.challenges => c.reports = s.challenges[e.challengeId].reports
      BY <1>1, <1>2 DEF CaseEntry
    <2> HIDE DEF c
    <2> QED BY <1>1, <2>1, <2>2, UpdatesAside
  <1>11. CASE e.name = "Resolved"
    <2> DEFINE v == [status |-> e.status, resolvedAt |-> e.occurredAt]
               c == [Store!GetChallenge(s, e.challengeId) EXCEPT !.state = "RESOLVED", !.verdict = v]
    <2>1. PICK t : t = Store!PutChallenge(s, e.challengeId, c)
      OBVIOUS
    <2>2. \E cl, status : Store!ApplyEvent(s, e) = Store!MarkClaim(t, cl, status)
      BY <1>11, <2>1 DEF Store!ApplyEvent, Store!OnResolved
    <2> HIDE DEF v
    <2>3. e.challengeId \in DOMAIN s.challenges => c.reports = s.challenges[e.challengeId].reports
      BY <1>1, <1>2 DEF CaseEntry
    <2> HIDE DEF c
    <2>4. ReportsAside(s, t)
      BY <1>1, <2>1, <2>3, UpdatesAside
    <2> QED BY <1>3, <2>2, <2>4, UpdatesAside DEF ReportsAside
  <1>12. CASE e.name = "AppealFiled"
    <2> DEFINE more == Append(Store!GetChallenge(s, e.challengeId).appeals,
                              [appealId |-> e.appealId, resolved |-> FALSE])
               c == [Store!GetChallenge(s, e.challengeId) EXCEPT
                       !.state = "APPEALED", !.appeals = more]
    <2>1. Store!ApplyEvent(s, e) = Store!PutChallenge(s, e.challengeId, c)
      <3>1. Store!ApplyEvent(s, e) = Store!OnAppealFiled(s, e)
        BY <1>12 DEF Store!ApplyEvent
      <3> QED BY <3>1 DEF Store!OnAppealFiled
    <2> HIDE DEF more
    <2>2. e.challengeId \in DOMAIN s.challenges => c.reports = s.challenges[e.challengeId].reports
      BY <1>1, <1>2 DEF CaseEntry
    <2> HIDE DEF c
    <2> QED BY <1>1, <2>1, <2>2, UpdatesAside
  <1> QED BY <1>4, <1>5, <1>6, <1>7, <1>8, <1>9, <1>10, <1>11, <1>12 DEF OtherEvents

(* Steps about no report leave the links as they are. *)
LEMMA LinksAside ==
  ASSUME ChainInv, IndexInv, LinksInv, [SystemNext]_systemVars, ReportsAside(indexed, indexed'),
         UNCHANGED <<links, reports>>, Existing(investigators) \subseteq Existing(investigators')
  PROVE  LinksInv'
  <1>1. ChainInv'
    BY ChainStep
  <1>2. ReportsLinked'
    <2> SUFFICES ASSUME NEW ch \in Existing(challenges'), NEW i \in 1..Len(reports'[ch])
                 PROVE  LET id == indexed'.challenges[ch].reports[i].investigatorId
                            About(k) == /\ links'[k].challengeId = ch
                                        /\ links'[k].investigator = reports'[ch][i].investigator
                        IN /\ \A k \in 1..Len(links') : About(k) => id = links'[k].investigatorId
                           /\ id # None => \E k \in 1..Len(links') : About(k)
      BY DEF ReportsLinked
    <2>1. ch \in Challenges /\ reports' = reports /\ links' = links
      BY <1>1 DEF ChainInv, TypeOK, Existing
    <2>2. ch \in Existing(challenges)
      <3>1. reports[ch] # <<>>
        BY <2>1
      <3>2. challenges[ch].exists
        BY <2>1, <3>1 DEF ChainInv, FreshInv
      <3> QED BY <2>1, <3>2 DEF Existing, ChainInv, TypeOK
    <2>3. indexed'.challenges[ch].reports = indexed.challenges[ch].reports
      BY <2>2 DEF IndexInv, ReportsAside
    <2> QED BY <2>1, <2>2, <2>3 DEF LinksInv, ReportsLinked
  <1>3. ASSUME NEW id \in Investigators
        PROVE  (\E f : PairsWithLinks(f, RecordOf(id), id))'
    <2>1. RecordOf(id)' = RecordOf(id) /\ links' = links
      BY DEF ReportsAside, RecordOf, Store!GetInvestigator
    <2>2. PICK f : PairsWithLinks(f, RecordOf(id), id)
      BY DEF LinksInv
    <2>3. PairsWithLinks(f, RecordOf(id), id)'
      BY <2>1, <2>2 DEF PairsWithLinks, LinksOf
    <2> QED BY <2>3
  <1>4. (DOMAIN indexed.investigators \subseteq Existing(investigators))'
    BY DEF LinksInv, ReportsAside
  <1> QED BY <1>2, <1>3, <1>4 DEF LinksInv

(* A reporter who reports for the first time wrote none of the reports and signed no link. *)
LEMMA NewReporter ==
  ASSUME ChainInv, NEW ch \in Challenges, NEW a \in Accounts, NEW verdict, NEW bundle,
         SubmitReport(ch, a, verdict, bundle)
  PROVE  /\ challenges[ch].exists /\ UNCHANGED <<challenges, claims>>
         /\ \A i \in 1..Len(reports[ch]) : reports[ch][i].investigator # a
         /\ \A k \in 1..Len(links) : links[k].challengeId # ch \/ links[k].investigator # a
         /\ \A x \in Challenges \ {ch} : reports'[x] = reports[x]
         /\ Len(reports'[ch]) = Len(reports[ch]) + 1 /\ Len(reports[ch]) \in Nat
         /\ \A i \in 1..Len(reports[ch]) : reports'[ch][i] = reports[ch][i]
         /\ reports'[ch][Len(reports[ch]) + 1].investigator = a
  <1> DEFINE r == [investigator |-> a, verdict |-> verdict, evidenceBundleHash |-> bundle]
  <1>1. /\ challenges[ch].exists /\ challenges' = challenges /\ claims' = claims
        /\ a \notin hasReported[ch] /\ reports' = [reports EXCEPT ![ch] = Append(@, r)]
    BY DEF SubmitReport, TakesReports, MayReport, claimVars, caseVars
  <1>2. reports \in [Challenges -> Seq(Report)]
    BY DEF ChainInv, TypeOK
  <1>3. \A i \in 1..Len(reports[ch]) : reports[ch][i].investigator \in hasReported[ch]
    <2>1. /\ Len(investigatorsOf[ch]) = Len(reports[ch])
          /\ \A i \in 1..Len(reports[ch]) : investigatorsOf[ch][i] = reports[ch][i].investigator
          /\ hasReported[ch] = {investigatorsOf[ch][i] : i \in 1..Len(investigatorsOf[ch])}
      BY DEF ChainInv, TalliesMatchReports
    <2> QED BY <2>1
  <1>4. \A k \in 1..Len(links) : links[k].investigator \in hasReported[links[k].challengeId]
    BY DEF ChainInv, LinkInv
  <1>5. r.investigator = a
    OBVIOUS
  <1> HIDE DEF r
  <1>6. /\ reports'[ch] = Append(reports[ch], r) /\ reports[ch] \in Seq(Report)
        /\ \A x \in Challenges \ {ch} : reports'[x] = reports[x]
    BY <1>1, <1>2
  <1>7. /\ Len(reports'[ch]) = Len(reports[ch]) + 1 /\ Len(reports[ch]) \in Nat
        /\ \A i \in 1..Len(reports[ch]) : reports'[ch][i] = reports[ch][i]
        /\ reports'[ch][Len(reports[ch]) + 1] = r
    BY <1>6
  <1> QED BY <1>1, <1>3, <1>4, <1>5, <1>6, <1>7

(* A report without an identity stays without one. *)
LEMMA LinksReport ==
  ASSUME ChainInv, IndexInv, LinksInv, NEW ch \in Challenges, NEW a \in Accounts,
         NEW verdict \in Verdicts, NEW bundle \in Roots, SubmitReport(ch, a, verdict, bundle),
         Emit(<<Submitted(ch, a, verdict)>>), UNCHANGED <<links, identityVars>>
  PROVE  LinksInv'
  <1>1. /\ challenges[ch].exists /\ challenges' = challenges
        /\ \A i \in 1..Len(reports[ch]) : reports[ch][i].investigator # a
        /\ \A k \in 1..Len(links) : links[k].challengeId # ch \/ links[k].investigator # a
        /\ \A x \in Challenges \ {ch} : reports'[x] = reports[x]
        /\ Len(reports'[ch]) = Len(reports[ch]) + 1 /\ Len(reports[ch]) \in Nat
        /\ \A i \in 1..Len(reports[ch]) : reports'[ch][i] = reports[ch][i]
        /\ reports'[ch][Len(reports[ch]) + 1].investigator = a
    BY NewReporter
  <1>2. PICK e : e = Submitted(ch, a, verdict)
    OBVIOUS
  <1>3. PICK t : t = Store!ApplyEvent(indexed, e)
    OBVIOUS
  <1>4. indexed' = t
    BY <1>2, <1>3, OneEvent DEF Emit
  <1>5. PICK r : r = [investigator |-> a, investigatorId |-> None, verdict |-> verdict]
    OBVIOUS
  <1>6. r \in ReportEntry /\ r.investigatorId = None
    BY <1>5 DEF ReportEntry
  <1>7. /\ ch \in DOMAIN indexed.challenges /\ StoreTyped(indexed) /\ CaseKept(ch)
        /\ indexed.challenges[ch] \in CaseEntry
    BY <1>1, KeptCase
  <1>8. CasePut(indexed, t, ch) /\ t.challenges[ch].reports = Append(indexed.challenges[ch].reports, r)
    BY <1>2, <1>3, <1>5, <1>7, ReportSubmittedEvent
  <1>9. /\ indexed.challenges[ch].reports \in Seq(ReportEntry)
        /\ Len(indexed.challenges[ch].reports) = Len(reports[ch])
    BY <1>7 DEF CaseEntry, CaseKept, ReportsKept
  <1>10. /\ \A i \in 1..Len(reports[ch]) :
              t.challenges[ch].reports[i] = indexed.challenges[ch].reports[i]
         /\ t.challenges[ch].reports[Len(reports[ch]) + 1] = r
    BY <1>6, <1>8, <1>9
  <1>11. DOMAIN challenges = Challenges /\ links' = links
    BY DEF ChainInv, TypeOK
  <1>12. ReportsLinked'
    <2> SUFFICES ASSUME NEW x \in Existing(challenges'), NEW i \in 1..Len(reports'[x])
                 PROVE  LET id == t.challenges[x].reports[i].investigatorId
                            About(k) == /\ links[k].challengeId = x
                                        /\ links[k].investigator = reports'[x][i].investigator
                        IN /\ \A k \in 1..Len(links) : About(k) => id = links[k].investigatorId
                           /\ id # None => \E k \in 1..Len(links) : About(k)
      BY <1>4, <1>11 DEF ReportsLinked
    <2>1. x \in Existing(challenges) /\ x \in Challenges /\ x \in DOMAIN indexed.challenges
      BY <1>1, <1>11 DEF Existing, IndexInv
    <2>2. CASE x # ch
      <3>1. t.challenges[x] = indexed.challenges[x] /\ reports'[x] = reports[x]
        BY <1>1, <1>8, <2>1, <2>2 DEF CasePut
      <3> QED BY <2>1, <3>1 DEF LinksInv, ReportsLinked
    <2>3. CASE x = ch /\ i \in 1..Len(reports[ch])
      <3>1. /\ t.challenges[x].reports[i] = indexed.challenges[x].reports[i]
            /\ reports'[x][i] = reports[x][i]
        BY <1>1, <1>10, <2>3
      <3> QED BY <2>1, <2>3, <3>1 DEF LinksInv, ReportsLinked
    <2>4. CASE x = ch /\ i = Len(reports[ch]) + 1
      BY <1>1, <1>6, <1>10, <2>4
    <2> QED BY <1>1, <2>2, <2>3, <2>4
  <1>13. ASSUME NEW id \in Investigators
         PROVE  (\E f : PairsWithLinks(f, RecordOf(id), id))'
    <2>1. RecordOf(id)' = RecordOf(id)
      BY <1>4, <1>8 DEF CasePut, RecordOf, Store!GetInvestigator
    <2>2. PICK f : PairsWithLinks(f, RecordOf(id), id)
      BY DEF LinksInv
    <2>3. PairsWithLinks(f, RecordOf(id), id)'
      BY <1>11, <2>1, <2>2 DEF PairsWithLinks, LinksOf
    <2> QED BY <2>3
  <1>14. (DOMAIN indexed.investigators \subseteq Existing(investigators))'
    BY <1>4, <1>8 DEF LinksInv, CasePut, identityVars
  <1> QED BY <1>12, <1>13, <1>14 DEF LinksInv

\* g numbers one element more than f.
Extends(g, f, m, L, x) ==
  Numbers(g, m + 1, L \cup {x}) /\ g[m + 1] = x /\ \A i \in 1..m : g[i] = f[i]

(* One more element, one more number. *)
LEMMA NumberAdded ==
  ASSUME NEW m \in Nat, NEW L, NEW x, x \notin L, NEW f, Numbers(f, m, L)
  PROVE  \E g : Extends(g, f, m, L, x)
  <1> DEFINE g == [i \in 1..(m + 1) |-> IF i = m + 1 THEN x ELSE f[i]]
  <1>1. /\ 1..(m + 1) = (1..m) \cup {m + 1} /\ m + 1 \notin 1..m
        /\ m + 1 \in 1..(m + 1) /\ \A i \in 1..m : i \in 1..(m + 1) /\ i # m + 1
    OBVIOUS
  <1>2. g[m + 1] = x /\ \A i \in 1..m : g[i] = f[i] /\ f[i] \in L
    BY <1>1 DEF Numbers
  <1>3. g \in [1..(m + 1) -> L \cup {x}]
    BY <1>1 DEF Numbers
  <1> HIDE DEF g
  <1>4. \A i, j \in 1..(m + 1) : g[i] = g[j] => i = j
    BY <1>1, <1>2 DEF Numbers
  <1>5. \A k \in L \cup {x} : \E i \in 1..(m + 1) : g[i] = k
    BY <1>1, <1>2 DEF Numbers
  <1>6. Numbers(g, m + 1, L \cup {x})
    BY <1>3, <1>4, <1>5 DEF Numbers
  <1>7. Extends(g, f, m, L, x)
    BY <1>2, <1>6 DEF Extends
  <1> QED BY <1>7

(* A report for an identity is linked to it and on its record. *)
LEMMA LinksReportAsIdentity ==
  ASSUME ChainInv, IndexInv, LinksInv, NEW ch \in Challenges, NEW a \in Accounts,
         NEW id \in Investigators, NEW verdict \in Verdicts, NEW bundle \in Roots,
         SubmitReportAsIdentity(ch, a, id, verdict, bundle),
         Emit(<<Submitted(ch, a, verdict),
                [ name |-> "ReportIdentityLinked", challengeId |-> ch,
                  investigator |-> a, investigatorId |-> id ]>>)
  PROVE  LinksInv'
  <1> DEFINE old == Len(reports[ch])
             n == Len(links)
  <1>1. PICK l : l = [challengeId |-> ch, investigator |-> a, investigatorId |-> id]
    OBVIOUS
  <1>2. /\ SubmitReport(ch, a, verdict, bundle) /\ links' = Append(links, l)
        /\ investigators' = investigators /\ investigators[id].controller = a
    BY <1>1 DEF SubmitReportAsIdentity, SignsFor, Identities!Controls, identityVars
  <1>3. /\ challenges[ch].exists /\ challenges' = challenges
        /\ \A i \in 1..Len(reports[ch]) : reports[ch][i].investigator # a
        /\ \A k \in 1..Len(links) : links[k].challengeId # ch \/ links[k].investigator # a
        /\ \A x \in Challenges \ {ch} : reports'[x] = reports[x]
        /\ Len(reports'[ch]) = Len(reports[ch]) + 1 /\ Len(reports[ch]) \in Nat
        /\ \A i \in 1..Len(reports[ch]) : reports'[ch][i] = reports[ch][i]
        /\ reports'[ch][Len(reports[ch]) + 1].investigator = a
    BY <1>2, NewReporter
  <1>4. links \in Seq(Link) /\ l \in Link
    BY <1>1 DEF ChainInv, LinkInv, Link
  <1>5. /\ n \in Nat /\ Len(links') = n + 1 /\ links'[n + 1] = l
        /\ \A k \in 1..n : links'[k] = links[k]
    BY <1>2, <1>4
  <1>6. l.challengeId = ch /\ l.investigator = a /\ l.investigatorId = id
    BY <1>1
  <1>7. /\ ch \in DOMAIN indexed.challenges /\ CaseKept(ch) /\ StoreTyped(indexed)
        /\ DOMAIN challenges = Challenges
    BY <1>3, KeptCase DEF ChainInv, TypeOK
  <1>8. Len(indexed.challenges[ch].reports) = old
    BY <1>7 DEF CaseKept, ReportsKept
  <1>9. /\ \A x \in DOMAIN indexed.challenges \ {ch} : indexed'.challenges[x] = indexed.challenges[x]
        /\ \A i \in 1..old : indexed'.challenges[ch].reports[i].investigatorId =
                               indexed.challenges[ch].reports[i].investigatorId
        /\ indexed'.challenges[ch].reports[old + 1].investigatorId = id
        /\ DOMAIN indexed'.investigators = DOMAIN indexed.investigators \cup {id}
        /\ \A x \in DOMAIN indexed.investigators \ {id} :
             indexed'.investigators[x] = indexed.investigators[x]
        /\ indexed'.investigators[id].linkedReports = Append(RecordOf(id), ch)
    <2>1. /\ \A x \in DOMAIN indexed.challenges \ {ch} :
               indexed'.challenges[x] = indexed.challenges[x]
          /\ \A i \in 1..Len(indexed.challenges[ch].reports) :
               indexed'.challenges[ch].reports[i].investigatorId =
                 indexed.challenges[ch].reports[i].investigatorId
          /\ indexed'.challenges[ch].reports[Len(indexed.challenges[ch].reports) + 1].investigatorId = id
          /\ DOMAIN indexed'.investigators = DOMAIN indexed.investigators \cup {id}
          /\ \A x \in DOMAIN indexed.investigators \ {id} :
               indexed'.investigators[x] = indexed.investigators[x]
          /\ indexed'.investigators[id].linkedReports =
               Append(Store!GetInvestigator(indexed, id).linkedReports, ch)
      <3>1. challenges[ch].exists
        BY <1>3
      <3> HIDE DEF old, n
      <3> QED BY <3>1, ReportAndLink
    <2> HIDE DEF old
    <2>2. /\ \A i \in 1..old : indexed'.challenges[ch].reports[i].investigatorId =
                               indexed.challenges[ch].reports[i].investigatorId
          /\ indexed'.challenges[ch].reports[old + 1].investigatorId = id
      BY <1>8, <2>1
    <2>3. indexed'.investigators[id].linkedReports = Append(RecordOf(id), ch)
      BY <2>1 DEF RecordOf
    <2> QED BY <2>1, <2>2, <2>3
  <1> HIDE DEF old, n
  <1>10. /\ 1..(n + 1) = (1..n) \cup {n + 1} /\ n + 1 \notin 1..n
         /\ 1..(old + 1) = (1..old) \cup {old + 1}
    BY <1>3, <1>5 DEF old
  <1>11. ReportsLinked'
    <2> SUFFICES ASSUME NEW x \in Existing(challenges'), NEW i \in 1..Len(reports'[x])
                 PROVE  LET rid == indexed'.challenges[x].reports[i].investigatorId
                            About(k) == /\ links'[k].challengeId = x
                                        /\ links'[k].investigator = reports'[x][i].investigator
                        IN /\ \A k \in 1..Len(links') : About(k) => rid = links'[k].investigatorId
                           /\ rid # None => \E k \in 1..Len(links') : About(k)
      BY DEF ReportsLinked
    <2>1. x \in Existing(challenges) /\ x \in Challenges /\ x \in DOMAIN indexed.challenges
      BY <1>3, <1>7 DEF Existing, IndexInv
    <2>2. CASE x # ch
      <3>1. indexed'.challenges[x] = indexed.challenges[x] /\ reports'[x] = reports[x]
        BY <1>3, <1>9, <2>1, <2>2
      <3> DEFINE rid == indexed.challenges[x].reports[i].investigatorId
                 About(k) == /\ links[k].challengeId = x
                             /\ links[k].investigator = reports[x][i].investigator
      <3>2. /\ \A k \in 1..n : About(k) => rid = links[k].investigatorId
            /\ rid # None => \E k \in 1..n : About(k)
        BY <2>1, <3>1 DEF LinksInv, ReportsLinked, n
      <3> QED BY <1>5, <1>6, <1>10, <2>2, <3>1, <3>2
    <2>3. CASE x = ch /\ i \in 1..old
      <3>1. /\ indexed'.challenges[x].reports[i].investigatorId =
                 indexed.challenges[x].reports[i].investigatorId
            /\ reports'[x][i] = reports[x][i] /\ reports[x][i].investigator # a
        BY <1>3, <1>9, <2>3 DEF old
      <3> DEFINE rid == indexed.challenges[x].reports[i].investigatorId
                 About(k) == /\ links[k].challengeId = x
                             /\ links[k].investigator = reports[x][i].investigator
      <3>2. /\ \A k \in 1..n : About(k) => rid = links[k].investigatorId
            /\ rid # None => \E k \in 1..n : About(k)
        BY <2>1, <2>3 DEF LinksInv, ReportsLinked, n, old
      <3> QED BY <1>5, <1>6, <1>10, <3>1, <3>2
    <2>4. CASE x = ch /\ i = old + 1
      <3>1. /\ reports'[x][i].investigator = a
            /\ indexed'.challenges[x].reports[i].investigatorId = id
        BY <1>3, <1>9, <2>4 DEF old
      <3>2. \A k \in 1..n : links[k].challengeId # x \/ links[k].investigator # a
        BY <1>3, <2>4 DEF n
      <3> QED BY <1>5, <1>6, <1>10, <2>4, <3>1, <3>2
    <2>5. x = ch => i \in 1..(old + 1)
      BY <1>3 DEF old
    <2> QED BY <1>10, <2>2, <2>3, <2>4, <2>5
  <1>12. ASSUME NEW x \in Investigators
         PROVE  (\E f : PairsWithLinks(f, RecordOf(x), x))'
    <2>1. PICK f : PairsWithLinks(f, RecordOf(x), x)
      BY DEF LinksInv
    <2>2. PICK record, m : record = RecordOf(x) /\ m = Len(record)
      OBVIOUS
    <2>3. record \in Seq(Challenges) /\ m \in Nat
      BY <1>7, <2>2, Defaults DEF RecordOf, InvestigatorEntry
    <2>4. LinksOf(x) \subseteq 1..n /\ LinksOf(x)' = LinksOf(x) \cup (IF x = id THEN {n + 1} ELSE {})
      BY <1>5, <1>6, <1>10 DEF LinksOf, n
    <2>5. CASE x # id
      <3>1. RecordOf(x)' = record
        BY <1>9, <2>2, <2>5 DEF RecordOf, Store!GetInvestigator
      <3>2. Numbers(f, m, LinksOf(x)) /\ \A i \in 1..m : links[f[i]].challengeId = record[i]
        BY <2>1, <2>2 DEF PairsWithLinks
      <3>3. LinksOf(x)' = LinksOf(x) /\ \A i \in 1..m : links'[f[i]] = links[f[i]]
        BY <1>5, <2>4, <2>5, <3>2 DEF Numbers
      <3> QED BY <2>2, <3>1, <3>2, <3>3 DEF PairsWithLinks
    <2>6. CASE x = id
      <3>1. RecordOf(x)' = Append(record, ch)
        BY <1>9, <2>2, <2>6 DEF RecordOf, Store!GetInvestigator
      <3>2. Numbers(f, m, LinksOf(x)) /\ \A i \in 1..m : links[f[i]].challengeId = record[i]
        BY <2>1, <2>2 DEF PairsWithLinks
      <3>3. LinksOf(x)' = LinksOf(x) \cup {n + 1} /\ n + 1 \notin LinksOf(x)
        BY <1>10, <2>4, <2>6
      <3>4. PICK g : /\ Numbers(g, m + 1, LinksOf(x) \cup {n + 1})
                     /\ g[m + 1] = n + 1 /\ \A i \in 1..m : g[i] = f[i]
        <4>1. PICK L, z : L = LinksOf(x) /\ z = n + 1
          OBVIOUS
        <4>2. Numbers(f, m, L) /\ z \notin L
          BY <3>2, <3>3, <4>1
        <4>3. PICK g : Extends(g, f, m, L, z)
          BY <2>3, <4>2, NumberAdded
        <4>4. /\ Numbers(g, m + 1, LinksOf(x) \cup {n + 1}) /\ g[m + 1] = n + 1
              /\ \A i \in 1..m : g[i] = f[i]
          BY <4>1, <4>3 DEF Extends
        <4> QED BY <4>4
      <3>5. PICK more : more = Append(record, ch)
        OBVIOUS
      <3>6. Len(more) = m + 1 /\ more[m + 1] = ch /\ \A i \in 1..m : more[i] = record[i]
        BY <2>2, <2>3, <3>5
      <3>7. \A i \in 1..(m + 1) : links'[g[i]].challengeId = more[i]
        <4> SUFFICES ASSUME NEW i \in 1..(m + 1)
                     PROVE  links'[g[i]].challengeId = more[i]
          OBVIOUS
        <4>1. CASE i = m + 1
          BY <1>5, <1>6, <3>4, <3>6, <4>1
        <4>2. CASE i # m + 1
          <5>1. i \in 1..m
            BY <2>3, <4>2
          <5>2. f[i] \in LinksOf(x) /\ g[i] = f[i] /\ links[f[i]].challengeId = record[i]
            BY <3>2, <3>4, <5>1 DEF Numbers
          <5>3. links'[f[i]] = links[f[i]]
            BY <1>5, <2>4, <5>2
          <5> QED BY <3>6, <5>1, <5>2, <5>3
        <4> QED BY <4>1, <4>2
      <3>8. PairsWithLinks(g, RecordOf(x), x)'
        BY <3>1, <3>3, <3>4, <3>5, <3>6, <3>7 DEF PairsWithLinks
      <3> QED BY <3>8
    <2> QED BY <2>5, <2>6
  <1>13. (DOMAIN indexed.investigators \subseteq Existing(investigators))'
    <2>1. /\ LastKeyControls(id) /\ investigators[id].controller # None
          /\ DOMAIN investigators = Investigators
      BY <1>2, ConstantsAssumption DEF ChainInv, LineageInv, Identities!TypeOK
    <2>2. id \in Existing(investigators)
      BY <2>1 DEF LastKeyControls, Existing
    <2> QED BY <1>2, <1>9, <2>2 DEF LinksInv
  <1> QED BY <1>11, <1>12, <1>13 DEF LinksInv

(* No link at first. *)
LEMMA LinksStart == SystemInit => LinksInv
  <1> SUFFICES ASSUME SystemInit
               PROVE  LinksInv
    OBVIOUS
  <1>1. links = <<>> /\ indexed = Store!EmptyState
    BY DEF SystemInit, IdentifiedInit
  <1>2. indexed.investigators = <<>> /\ DOMAIN <<>> = {}
    BY <1>1 DEF Store!EmptyState
  <1>3. Existing(challenges) = {}
    BY DEF SystemInit, IdentifiedInit, Init, Existing
  <1>4. ASSUME NEW id \in Investigators
        PROVE  \E f : PairsWithLinks(f, RecordOf(id), id)
    <2>1. RecordOf(id) = <<>> /\ LinksOf(id) = {} /\ Len(<<>>) = 0
      BY <1>1, <1>2 DEF RecordOf, Store!GetInvestigator, LinksOf
    <2>2. PICK f : f = [i \in 1..0 |-> i]
      OBVIOUS
    <2>3. 1..0 = {}
      OBVIOUS
    <2>4. Numbers(f, 0, {})
      BY <2>2, <2>3 DEF Numbers
    <2> QED BY <2>1, <2>3, <2>4 DEF PairsWithLinks
  <1> QED BY <1>2, <1>3, <1>4 DEF LinksInv, ReportsLinked

(* Every step. *)
LEMMA LinksStep ==
  ASSUME SystemInv, LinksInv, [SystemNext]_systemVars
  PROVE  LinksInv'
  <1>1. ChainInv /\ IndexInv /\ StoreTyped(indexed) /\ LineageInv
    BY DEF SystemInv, ChainInv, IndexInv
  <1>2. ReportsAside(indexed, indexed)
    BY <1>1 DEF StoreTyped, ReportsAside, ThreeMaps
  <1>3. ASSUME UNCHANGED <<links, reports, investigators>>, ReportsAside(indexed, indexed')
        PROVE  LinksInv'
    BY <1>1, <1>3, LinksAside
  <1>4. ASSUME NEW e, e.name \in OtherEvents, indexed' = Store!ApplyLogs(<<e>>, indexed)
        PROVE  ReportsAside(indexed, indexed')
    BY <1>1, <1>4, OneEvent, OtherEventsAside
  <1>5. CASE UNCHANGED systemVars
    BY <1>2, <1>3, <1>5 DEF systemVars, allVars, indexVars, vars, reportVars, identityVars
  <1>6. CASE EmitNext
    <2>1. PICK e : e = Head(unemitted).event
      OBVIOUS
    <2>2. e \in PaidEvents \cup ResolvedEvents
      <3>1. PICK E : E = QueueEntry
        OBVIOUS
      <3>2. unemitted \in Seq(E) /\ unemitted # <<>>
        BY <1>6, <3>1 DEF EmitNext, SystemInv, QueueTyped
      <3>3. Head(unemitted) \in E
        BY <3>2
      <3> QED BY <2>1, <3>1, <3>3 DEF QueueEntry
    <2>3. e.name \in OtherEvents
      BY <2>2 DEF PaidEvents, ResolvedEvents, OtherEvents
    <2> QED BY <1>3, <1>4, <1>6, <2>1, <2>3 DEF EmitNext, allVars, vars, reportVars, identityVars
  <1>7. CASE Tick /\ UNCHANGED <<identityVars, links, indexVars>>
    BY <1>2, <1>3, <1>7 DEF Tick, indexVars, reportVars, identityVars
  <1>8. ASSUME NEW a \in Accounts, Call(a)
        PROVE  LinksInv'
    <2>1. ASSUME ClaimCall, UNCHANGED <<identityVars, links>>
          PROVE  LinksInv'
      <3>1. UNCHANGED <<links, reports, investigators>>
        BY <2>1 DEF ClaimCall, CreateClaim, RecordRelationship, reportVars, identityVars
      <3>2. ReportsAside(indexed, indexed')
        <4>1. CASE indexed' = Store!ApplyLogs(<<>>, indexed)
          BY <1>2, <4>1, NoEvent
        <4>2. ASSUME NEW cl, indexed' = Store!ApplyLogs(<<[name |-> "ClaimCreated", claimId |-> cl]>>, indexed)
              PROVE  ReportsAside(indexed, indexed')
          BY <1>4, <4>2 DEF OtherEvents
        <4>3. ASSUME NEW clA, NEW clB,
                     indexed' = Store!ApplyLogs(<<[name |-> "Superseded", oldClaimId |-> clA,
                                                   newClaimId |-> clB, occurredAt |-> now]>>, indexed)
              PROVE  ReportsAside(indexed, indexed')
          BY <1>4, <4>3 DEF OtherEvents
        <4> QED BY <2>1, <4>1, <4>2, <4>3 DEF ClaimCall, Emit
      <3> QED BY <1>3, <3>1, <3>2
    <2>2. ASSUME EvidenceCall, UNCHANGED <<identityVars, links>>
          PROVE  LinksInv'
      <3>1. UNCHANGED <<links, reports, investigators>>
        BY <2>2 DEF EvidenceCall, SubmitEvidence, LockEvidence, reportVars, identityVars
      <3>2. ASSUME NEW s, NEW e,
                   Emit(<<[name |-> "EvidenceSubmitted", subjectId |-> s, evidenceId |-> e]>>)
            PROVE  ReportsAside(indexed, indexed')
        BY <1>4, <3>2 DEF Emit, OtherEvents
      <3>3. ASSUME NEW s, NEW root,
                   Emit(<<[name |-> "EvidenceLocked", subjectId |-> s, evidenceRoot |-> root]>>)
            PROVE  ReportsAside(indexed, indexed')
        BY <1>4, <3>3 DEF Emit, OtherEvents
      <3>4. ReportsAside(indexed, indexed')
        BY <2>2, <3>2, <3>3 DEF EvidenceCall
      <3> QED BY <1>3, <3>1, <3>4
    <2>3. ASSUME CaseCall(a), UNCHANGED <<identityVars, links>>
          PROVE  LinksInv'
      <3>1. UNCHANGED <<links, reports, investigators>>
        BY <2>3 DEF CaseCall, OpenChallenge, RequestVerification, OpenCase, BeginInvestigation,
                    reportVars, identityVars
      <3>2. ASSUME NEW ch, NEW cl, NEW type, NEW v, NEW closesAt,
                   Emit(<<Opened(ch, cl, a, type, v, closesAt)>>)
            PROVE  ReportsAside(indexed, indexed')
        BY <1>4, <3>2 DEF Emit, Opened, OtherEvents
      <3>3. ASSUME NEW ch, Emit(<<[name |-> "InvestigationStarted", challengeId |-> ch]>>)
            PROVE  ReportsAside(indexed, indexed')
        BY <1>4, <3>3 DEF Emit, OtherEvents
      <3>4. ReportsAside(indexed, indexed')
        BY <2>3, <3>2, <3>3 DEF CaseCall
      <3> QED BY <1>3, <3>1, <3>4
    <2>4. ASSUME ResolveCall, UNCHANGED <<identityVars, links>>
          PROVE  LinksInv'
      BY <1>2, <1>3, <2>4 DEF ResolveCall, Resolve, reportVars, identityVars
    <2>5. ASSUME AppealCall, UNCHANGED <<identityVars, links>>
          PROVE  LinksInv'
      <3>1. UNCHANGED <<links, reports, investigators>>
        BY <2>5 DEF AppealCall, FileAppeal, ResolveAppeal, reportVars, identityVars
      <3>2. ASSUME NEW ch, NEW n,
                   indexed' = Store!ApplyLogs(<<[name |-> "AppealFiled", appealId |-> n,
                                                 challengeId |-> ch]>>, indexed)
            PROVE  ReportsAside(indexed, indexed')
        BY <1>4, <3>2 DEF OtherEvents
      <3>3. ASSUME NEW n \in 1..Len(appeals),
                   indexed' = Store!ApplyLogs(<<[name |-> "AppealResolved", appealId |-> n]>>, indexed)
            PROVE  ReportsAside(indexed, indexed')
        <4>1. PICK e : e = [name |-> "AppealResolved", appealId |-> n]
          OBVIOUS
        <4>2. n \in Nat
          BY DEF ChainInv, TypeOK
        <4>3. PICK t : t = Store!ApplyEvent(indexed, e)
          OBVIOUS
        <4>4. /\ StoreTyped(t) /\ t.investigators = indexed.investigators
              /\ DOMAIN t.challenges = DOMAIN indexed.challenges
              /\ \A x \in DOMAIN indexed.challenges :
                   AppealClosed(indexed.challenges[x], t.challenges[x], n)
          BY <1>1, <4>1, <4>2, <4>3, AppealResolvedEvent
        <4>5. indexed' = t
          BY <3>3, <4>1, <4>3, OneEvent
        <4> QED BY <4>4, <4>5 DEF ReportsAside, ThreeMaps, StoreTyped, AppealClosed, SameBut, CaseFields
      <3>4. ReportsAside(indexed, indexed')
        BY <2>5, <3>2, <3>3 DEF AppealCall, Emit
      <3> QED BY <1>3, <3>1, <3>4
    <2>6. ASSUME ReportCall(a), UNCHANGED identityVars
          PROVE  LinksInv'
      BY <1>1, <2>6, LinksReport, LinksReportAsIdentity DEF ReportCall, SubmitReportAsIdentity
    <2>7. ASSUME IdentityCall(a), UNCHANGED <<vars, links>>
          PROVE  LinksInv'
      <3>1. Existing(investigators) \subseteq Existing(investigators')
        <4>1. ASSUME NEW id, NEW parentId, Identities!Register(id, a, parentId)
              PROVE  Existing(investigators) \subseteq Existing(investigators')
          BY <1>1, <4>1 DEF Identities!Register, Existing, LineageInv, Identities!TypeOK
        <4>2. ASSUME NEW id, NEW newController, Identities!RotateController(id, a, newController)
              PROVE  Existing(investigators) \subseteq Existing(investigators')
          BY <1>1, <4>2 DEF Identities!RotateController, Existing, LineageInv, Identities!TypeOK
        <4> QED BY <2>7, <4>1, <4>2 DEF IdentityCall
      <3>2. UNCHANGED <<links, reports, indexed>>
        BY <2>7 DEF IdentityCall, vars, reportVars
      <3> QED BY <1>1, <1>2, <3>1, <3>2, LinksAside
    <2> QED BY <1>8, <2>1, <2>2, <2>3, <2>4, <2>5, <2>6, <2>7 DEF Call
  <1> QED BY <1>5, <1>6, <1>7, <1>8 DEF SystemNext

(* Links are always as the read model has them. *)
LEMMA LinksAlways == SystemSpec => [](SystemInv /\ LinksInv)
  <1> DEFINE All == SystemInv /\ LinksInv
  <1>1. SystemInit => All
    BY ChainInit, IndexInit, KeysInit, LinksStart DEF SystemInv
  <1>2. All /\ [SystemNext]_systemVars => All'
    BY ChainStep, IndexStep, QueueStep, KeysStep, LinksStep DEF SystemInv
  <1> QED BY <1>1, <1>2, PTL DEF SystemSpec

(* Who signed the reports, at every moment. *)
LEMMA SignersIndexed ==
  ASSUME SystemInv, LinksInv
  PROVE  IdentitiesIndexed
  <1>1. StoreTyped(indexed) /\ KeysAdded(indexed, State) /\ State.challenges = indexed.challenges
    BY Rebuild DEF SystemInv, IndexInv
  <1>2. DOMAIN State.investigators = Existing(investigators)
    BY <1>1 DEF KeysAdded, LinksInv
  <1>3. \A id \in Existing(investigators) :
          /\ State.investigators[id].controller = investigators[id].controller
          /\ State.investigators[id].parentId = investigators[id].parentId
    BY <1>1 DEF KeysAdded
  <1>4. ASSUME NEW ch \in Challenges, NEW i \in 1..Len(reports[ch])
        PROVE  LET signedAs == {k \in 1..Len(links) :
                                  /\ links[k].challengeId = ch
                                  /\ links[k].investigator = investigatorsOf[ch][i]}
                   indexedAs == State.challenges[ch].reports[i].investigatorId
               IN IF signedAs = {} THEN indexedAs = None
                  ELSE \A k \in signedAs : indexedAs = links[k].investigatorId
    <2>1. investigatorsOf[ch][i] = reports[ch][i].investigator
      BY DEF SystemInv, ChainInv, TalliesMatchReports
    <2>2. ch \in Existing(challenges)
      <3>1. reports[ch] # <<>>
        OBVIOUS
      <3> QED BY <3>1 DEF SystemInv, ChainInv, FreshInv, TypeOK, Existing
    <2>3. LET id == indexed.challenges[ch].reports[i].investigatorId
              About(k) == /\ links[k].challengeId = ch
                          /\ links[k].investigator = reports[ch][i].investigator
          IN /\ \A k \in 1..Len(links) : About(k) => id = links[k].investigatorId
             /\ id # None => \E k \in 1..Len(links) : About(k)
      BY <2>2 DEF LinksInv, ReportsLinked
    <2> DEFINE signedAs == {k \in 1..Len(links) :
                              /\ links[k].challengeId = ch
                              /\ links[k].investigator = investigatorsOf[ch][i]}
               indexedAs == State.challenges[ch].reports[i].investigatorId
    <2>4. indexedAs = indexed.challenges[ch].reports[i].investigatorId
      BY <1>1
    <2>5. signedAs = {} => indexedAs = None
      <3> HIDE DEF indexedAs
      <3> QED BY <2>1, <2>3, <2>4
    <2>6. \A k \in signedAs : indexedAs = links[k].investigatorId
      <3> HIDE DEF indexedAs
      <3> QED BY <2>1, <2>3, <2>4
    <2>7. IF signedAs = {} THEN indexedAs = None
          ELSE \A k \in signedAs : indexedAs = links[k].investigatorId
      <3> HIDE DEF indexedAs, signedAs
      <3> QED BY <2>5, <2>6
    <2> QED BY <2>7
  <1>5. Existing(challenges) \subseteq Challenges
    BY DEF SystemInv, ChainInv, TypeOK, Existing
  <1> QED BY <1>2, <1>3, <1>4, <1>5 DEF IdentitiesIndexed

(***************************************************************************)
(* Each linked report is on the record of the identity that signed it and  *)
(* no other, and identities are indexed with their present keys, in        *)
(* whatever order the two contracts' logs were written.                    *)
(***************************************************************************)
THEOREM IdentitiesAreIndexed == SystemSpec => []IdentitiesIndexed
  BY LinksAlways, SignersIndexed, PTL

-----------------------------------------------------------------------------
(***************************************************************************)
(* States and statuses.  As long as no payee calls, those of cases and     *)
(* claims are on both sides the same, those excepted a Resolved in the     *)
(* queue is about.                                                         *)
(***************************************************************************)
StatesMatch ==
  /\ \A ch \in Existing(challenges) : indexed.challenges[ch].state = challenges[ch].state
  /\ \A cl \in Existing(claims) : indexed.claims[cl].status = claims[cl].status

StatesInv ==
  ~calledBack =>
    /\ \A ch \in Challenges : Late(ch, unemitted) =>
         /\ challenges[ch].state = "RESOLVED"
         /\ claims[challenges[ch].claimId].status = verdicts[ch].status
    /\ \A ch \in Existing(challenges) :
         Late(ch, unemitted) \/ indexed.challenges[ch].state = challenges[ch].state
    /\ \A cl \in Existing(claims) :
         \/ indexed.claims[cl].status = claims[cl].status
         \/ \E ch \in Existing(challenges) : Late(ch, unemitted) /\ challenges[ch].claimId = cl

(* With nothing left to emit, nothing is excepted. *)
LEMMA NothingLate ==
  ASSUME unemitted = <<>>, ~calledBack
  PROVE  StatesInv <=> StatesMatch
  <1>1. \A ch : ~Late(ch, unemitted)
    BY DEF Late
  <1> QED BY <1>1 DEF StatesInv, StatesMatch

(* A claim is created, open on both sides. *)
LEMMA MatchCreateClaim ==
  ASSUME ChainInv, IndexInv, StatesMatch, NEW cl \in Claims, CreateClaim(cl),
         Emit(<<[name |-> "ClaimCreated", claimId |-> cl]>>)
  PROVE  StatesMatch'
  <1>1. /\ ~claims[cl].exists /\ claims'[cl].status = "OPEN"
        /\ \A y \in Claims \ {cl} : claims'[y] = claims[y]
        /\ challenges' = challenges /\ DOMAIN claims = Claims /\ DOMAIN claims' = Claims
    BY DEF CreateClaim, caseVars, ChainInv, TypeOK
  <1>2. StoreTyped(indexed) /\ cl \notin DOMAIN indexed.claims /\ DOMAIN indexed.claims = Existing(claims)
    BY <1>1 DEF IndexInv, Existing
  <1>3. /\ ClaimPut(indexed, indexed', cl)
        /\ indexed'.claims[cl] = [status |-> "OPEN", validUntil |-> 0, challengeIds |-> <<>>]
    BY <1>2, OneEvent, ClaimCreatedEvent DEF Emit
  <1>4. ASSUME NEW y \in Existing(claims')
        PROVE  indexed'.claims[y].status = claims'[y].status
    <2>1. CASE y = cl
      BY <1>1, <1>3, <2>1
    <2>2. CASE y # cl
      BY <1>1, <1>2, <1>3, <1>4, <2>2 DEF ClaimPut, StatesMatch, Existing
    <2> QED BY <2>1, <2>2
  <1> QED BY <1>1, <1>3, <1>4 DEF StatesMatch, ClaimPut

(* Claims are related, the older one perhaps superseded. *)
LEMMA MatchRecordRelationship ==
  ASSUME ChainInv, IndexInv, StatesMatch, NEW clA \in Claims, NEW clB \in Claims,
         NEW relation \in RelationshipType, RecordRelationship(clA, clB, relation),
         Emit(IF relation = "SUPERSEDES" /\ Supersedable(clA)
              THEN <<[name |-> "Superseded", oldClaimId |-> clA, newClaimId |-> clB,
                      occurredAt |-> now]>>
              ELSE <<>>)
  PROVE  StatesMatch'
  <1>1. /\ claims[clA].exists /\ challenges' = challenges
        /\ claims \in [Claims -> ClaimRecord] /\ now \in Nat /\ StoreTyped(indexed)
    BY DEF RecordRelationship, caseVars, ChainInv, TypeOK, IndexInv
  <1>2. CASE ~(relation = "SUPERSEDES" /\ Supersedable(clA))
    <2>1. claims' = claims /\ indexed' = indexed
      BY <1>2, NoEvent DEF RecordRelationship, claimVars, Emit
    <2> QED BY <1>1, <2>1 DEF StatesMatch
  <1>3. CASE relation = "SUPERSEDES" /\ Supersedable(clA)
    <2>1. /\ claims'[clA].exists /\ claims'[clA].status = "SUPERSEDED"
          /\ \A y \in Claims \ {clA} : claims'[y] = claims[y]
          /\ DOMAIN claims' = Claims
      BY <1>1, <1>3 DEF RecordRelationship
    <2>2. clA \in DOMAIN indexed.claims /\ DOMAIN indexed.claims = Existing(claims)
      BY <1>1 DEF IndexInv, Existing
    <2>3. PICK time \in Nat : time = now
      BY <1>1
    <2>4. PICK e : e = [ name |-> "Superseded", oldClaimId |-> clA, newClaimId |-> clB,
                         occurredAt |-> time ]
      OBVIOUS
    <2>5. PICK t : t = Store!ApplyEvent(indexed, e)
      OBVIOUS
    <2>6. indexed' = t
      BY <1>3, <2>3, <2>4, <2>5, OneEvent DEF Emit
    <2>7. ClaimPut(indexed, t, clA) /\ t.claims[clA].status = "SUPERSEDED"
      <3>1. StoreTyped(indexed) /\ clA \in DOMAIN indexed.claims
        BY <1>1, <2>2
      <3> QED BY <2>4, <2>5, <3>1, SupersededEvent
    <2>8. ASSUME NEW y \in Existing(claims')
          PROVE  t.claims[y].status = claims'[y].status
      <3>1. CASE y = clA
        BY <2>1, <2>7, <3>1
      <3>2. CASE y # clA
        BY <1>1, <2>1, <2>2, <2>7, <2>8, <3>2 DEF ClaimPut, StatesMatch, Existing
      <3> QED BY <3>1, <3>2
    <2> QED BY <1>1, <2>6, <2>7, <2>8 DEF StatesMatch, ClaimPut
  <1> QED BY <1>2, <1>3

(* A case is opened, its claim challenged. *)
LEMMA MatchOpenCase ==
  ASSUME ChainInv, IndexInv, StatesMatch, NEW ch \in Challenges, NEW cl \in Claims,
         NEW a \in Accounts, NEW type \in ChallengeType, NEW v \in Amounts, NEW closesAt \in Nat,
         Challengeable(cl), OpenCase(ch, cl, a, type, v, closesAt),
         Emit(<<Opened(ch, cl, a, type, v, closesAt)>>)
  PROVE  StatesMatch'
  <1>1. /\ ~challenges[ch].exists /\ claims[cl].exists /\ v \in Nat /\ StoreTyped(indexed)
        /\ claims \in [Claims -> ClaimRecord] /\ challenges \in [Challenges -> ChallengeRecord]
    BY ConstantsAssumption DEF OpenCase, Challengeable, ChainInv, TypeOK, IndexInv
  <1>2. /\ challenges'[ch].state = "OPEN" /\ DOMAIN challenges' = Challenges
        /\ \A x \in Challenges \ {ch} : challenges'[x] = challenges[x]
    BY <1>1 DEF OpenCase
  <1>3. /\ claims'[cl].status = "CHALLENGED" /\ DOMAIN claims' = Claims
        /\ \A y \in Claims \ {cl} : claims'[y] = claims[y]
    BY <1>1 DEF OpenCase, WithStatus
  <1>4. /\ ch \notin DOMAIN indexed.challenges /\ cl \in DOMAIN indexed.claims
        /\ DOMAIN indexed.claims = Existing(claims)
        /\ DOMAIN indexed.challenges = Existing(challenges)
    BY <1>1 DEF IndexInv, Existing
  <1> DEFINE e == Opened(ch, cl, a, type, v, closesAt)
  <1>5. PICK t : t = Store!ApplyEvent(indexed, e)
    OBVIOUS
  <1>6. indexed' = t
    BY <1>5, OneEvent DEF Emit
  <1>7. /\ StoreTyped(t) /\ CaseAndClaimPut(indexed, t, ch, cl) /\ t.challenges[ch].state = "OPEN"
        /\ t.claims[cl] = [status |-> "CHALLENGED", validUntil |-> indexed.claims[cl].validUntil,
                           challengeIds |-> Append(indexed.claims[cl].challengeIds, ch)]
    <2>1. /\ StoreTyped(indexed) /\ v \in Nat /\ ch \notin DOMAIN indexed.challenges
          /\ cl \in DOMAIN indexed.claims
      BY <1>1, <1>4
    <2> QED BY <1>5, <2>1, ChallengeOpenedEvent
  <1>8. t.claims[cl].status = "CHALLENGED"
    BY <1>7
  <1>9. ASSUME NEW x \in Existing(challenges')
        PROVE  t.challenges[x].state = challenges'[x].state
    <2>1. CASE x = ch
      BY <1>2, <1>7, <2>1
    <2>2. CASE x # ch
      BY <1>1, <1>2, <1>4, <1>7, <1>9, <2>2 DEF CaseAndClaimPut, StatesMatch, Existing
    <2> QED BY <2>1, <2>2
  <1>10. ASSUME NEW y \in Existing(claims')
         PROVE  t.claims[y].status = claims'[y].status
    <2>1. CASE y = cl
      BY <1>3, <1>8, <2>1
    <2>2. CASE y # cl
      BY <1>1, <1>3, <1>4, <1>7, <1>10, <2>2 DEF CaseAndClaimPut, StatesMatch, Existing
    <2> QED BY <2>1, <2>2
  <1> QED BY <1>6, <1>9, <1>10 DEF StatesMatch

(* A case is marked with a state and its claim with a status, on both sides. *)
LEMMA MatchProgress ==
  ASSUME ChainInv, IndexInv, StatesMatch, NEW ch \in Challenges, challenges[ch].exists,
         NEW bond, NEW root, NEW state, NEW status,
         challenges' = [challenges EXCEPT ![ch] = Progressed(@, bond, root, state)],
         claims' = [claims EXCEPT ![challenges[ch].claimId] = WithStatus(@, status)],
         CaseAndClaimPut(indexed, indexed', ch, challenges[ch].claimId),
         Marked(indexed, indexed', challenges[ch].claimId, status),
         indexed'.challenges[ch].state = state
  PROVE  StatesMatch'
  <1> DEFINE cl == challenges[ch].claimId
  <1>1. /\ claims \in [Claims -> ClaimRecord] /\ challenges \in [Challenges -> ChallengeRecord]
        /\ cl \in Claims /\ cl \in DOMAIN indexed.claims /\ ch \in DOMAIN indexed.challenges
        /\ DOMAIN indexed.claims = Existing(claims)
        /\ DOMAIN indexed.challenges = Existing(challenges)
    BY KeptCase DEF ChainInv, TypeOK, IndexInv
  <1>2. /\ challenges'[ch].state = state /\ DOMAIN challenges' = Challenges
        /\ \A x \in Challenges \ {ch} : challenges'[x] = challenges[x]
    BY <1>1 DEF Progressed
  <1>3. /\ claims'[cl].status = status /\ DOMAIN claims' = Claims
        /\ \A y \in Claims \ {cl} : claims'[y] = claims[y]
    BY <1>1 DEF WithStatus
  <1> HIDE DEF cl
  <1>4. ASSUME NEW x \in Existing(challenges')
        PROVE  indexed'.challenges[x].state = challenges'[x].state
    <2>1. CASE x = ch
      BY <1>2, <2>1
    <2>2. CASE x # ch
      BY <1>1, <1>2, <1>4, <2>2 DEF CaseAndClaimPut, StatesMatch, Existing
    <2> QED BY <2>1, <2>2
  <1>5. ASSUME NEW y \in Existing(claims')
        PROVE  indexed'.claims[y].status = claims'[y].status
    <2>1. CASE y = cl
      BY <1>3, <2>1 DEF Marked, cl
    <2>2. CASE y # cl
      BY <1>1, <1>3, <1>5, <2>2 DEF CaseAndClaimPut, StatesMatch, Existing, cl
    <2> QED BY <2>1, <2>2
  <1> QED BY <1>4, <1>5 DEF StatesMatch

(* Evidence is locked. *)
LEMMA MatchLockEvidence ==
  ASSUME ChainInv, IndexInv, StatesMatch, NEW s \in Subjects, NEW root \in Roots,
         LockEvidence(s, root),
         Emit(<<[name |-> "EvidenceLocked", subjectId |-> s, evidenceRoot |-> root]>>)
  PROVE  StatesMatch'
  <1>1. PICK e, t : /\ e = [name |-> "EvidenceLocked", subjectId |-> s, evidenceRoot |-> root]
                    /\ t = Store!ApplyEvent(indexed, e)
    OBVIOUS
  <1>2. indexed' = t
    BY <1>1, OneEvent DEF Emit
  <1>3. CASE s \in Challenges /\ challenges[s].exists
    <2>1. PICK cl : cl = challenges[s].claimId
      OBVIOUS
    <2>2. /\ s \in DOMAIN indexed.challenges /\ StoreTyped(indexed)
          /\ indexed.challenges[s].claimId = cl /\ cl \in DOMAIN indexed.claims
      BY <1>3, <2>1, KeptCase
    <2>3. /\ CaseAndClaimPut(indexed, t, s, cl) /\ t.challenges[s].state = "EVIDENCE_LOCKED"
          /\ Marked(indexed, t, cl, "EVIDENCE_LOCKED")
      BY <1>1, <2>2, EvidenceLockedEvent
    <2>4. /\ challenges' = [challenges EXCEPT ![s] =
                              Progressed(@, challenges[s].bond, root, "EVIDENCE_LOCKED")]
          /\ claims' = [claims EXCEPT ![challenges[s].claimId] = WithStatus(@, "EVIDENCE_LOCKED")]
      BY <1>3 DEF LockEvidence
    <2> QED BY <1>2, <1>3, <2>1, <2>3, <2>4, MatchProgress
  <1>4. CASE ~(s \in Challenges /\ challenges[s].exists)
    <2>1. s \notin DOMAIN indexed.challenges
      BY <1>4 DEF IndexInv, Existing, ChainInv, TypeOK
    <2>2. indexed' = indexed /\ claims' = claims /\ challenges' = challenges
      BY <1>1, <1>2, <1>4, <2>1, EvidenceLockedElsewhere DEF LockEvidence
    <2> QED BY <2>2 DEF StatesMatch
  <1> QED BY <1>3, <1>4

(* An investigation starts. *)
LEMMA MatchBeginInvestigation ==
  ASSUME ChainInv, IndexInv, StatesMatch, NEW ch \in Challenges, BeginInvestigation(ch),
         Emit(<<[name |-> "InvestigationStarted", challengeId |-> ch]>>)
  PROVE  StatesMatch'
  <1>1. PICK e, t : /\ e = [name |-> "InvestigationStarted", challengeId |-> ch]
                    /\ t = Store!ApplyEvent(indexed, e)
    OBVIOUS
  <1>2. PICK cl, root : cl = challenges[ch].claimId /\ root = challenges[ch].evidenceRoot
    OBVIOUS
  <1>3. /\ challenges[ch].exists
        /\ challenges' = [challenges EXCEPT ![ch] =
                            Progressed(@, challenges[ch].bond, root, "INVESTIGATING")]
        /\ claims' = [claims EXCEPT ![cl] = WithStatus(@, "INVESTIGATING")]
    BY <1>2 DEF BeginInvestigation, ReadyToInvestigate
  <1>4. /\ ch \in DOMAIN indexed.challenges /\ StoreTyped(indexed)
        /\ indexed.challenges[ch].claimId = cl /\ cl \in DOMAIN indexed.claims
    BY <1>2, <1>3, KeptCase
  <1>5. indexed' = t
    BY <1>1, OneEvent DEF Emit
  <1>6. /\ CaseAndClaimPut(indexed, t, ch, cl) /\ t.challenges[ch].state = "INVESTIGATING"
        /\ Marked(indexed, t, cl, "INVESTIGATING")
    BY <1>1, <1>4, InvestigationStartedEvent
  <1> QED BY <1>2, <1>3, <1>5, <1>6, MatchProgress

(* Neither side changes a state or a status. *)
LEMMA MatchAside ==
  ASSUME IndexInv, StatesMatch, UNCHANGED <<claims, challenges>>, indexed'.claims = indexed.claims,
         \A x \in DOMAIN indexed.challenges :
           indexed'.challenges[x].state = indexed.challenges[x].state
  PROVE  StatesMatch'
  BY DEF StatesMatch, IndexInv

(* Evidence is submitted. *)
LEMMA MatchSubmitEvidence ==
  ASSUME IndexInv, StatesMatch, NEW s \in Subjects, NEW evidenceId \in EvidenceIds,
         SubmitEvidence(s, evidenceId),
         Emit(<<[name |-> "EvidenceSubmitted", subjectId |-> s, evidenceId |-> evidenceId]>>)
  PROVE  StatesMatch'
  <1>1. PICK e, t : /\ e = [ name |-> "EvidenceSubmitted", subjectId |-> s,
                             evidenceId |-> evidenceId ]
                    /\ t = Store!ApplyEvent(indexed, e)
    OBVIOUS
  <1>2. indexed' = t
    BY <1>1, OneEvent DEF Emit
  <1>3. IF s \in DOMAIN indexed.challenges
        THEN /\ StoreTyped(t) /\ CasePut(indexed, t, s)
             /\ SameBut(indexed.challenges[s], t.challenges[s], {"evidenceIds"})
        ELSE t = indexed
    <2>1. StoreTyped(indexed)
      BY DEF IndexInv
    <2> QED BY <1>1, <2>1, EvidenceSubmittedEvent
  <1>4. /\ t.claims = indexed.claims
        /\ \A x \in DOMAIN indexed.challenges : t.challenges[x].state = indexed.challenges[x].state
    BY <1>3 DEF CasePut, SameBut, CaseFields
  <1>5. UNCHANGED <<claims, challenges>>
    BY DEF SubmitEvidence, claimVars, caseVars
  <1> QED BY <1>2, <1>4, <1>5, MatchAside

(* A report of an account. *)
LEMMA MatchSubmitReport ==
  ASSUME ChainInv, IndexInv, StatesMatch, NEW ch \in Challenges, NEW a \in Accounts,
         NEW verdict \in Verdicts, NEW bundle \in Roots, SubmitReport(ch, a, verdict, bundle),
         Emit(<<Submitted(ch, a, verdict)>>)
  PROVE  StatesMatch'
  <1> DEFINE e == Submitted(ch, a, verdict)
  <1>1. challenges[ch].exists /\ UNCHANGED <<claims, challenges>>
    BY DEF SubmitReport, TakesReports, claimVars, caseVars
  <1>2. PICK t : t = Store!ApplyEvent(indexed, e)
    OBVIOUS
  <1>3. indexed' = t
    BY <1>2, OneEvent DEF Emit
  <1>4. ch \in DOMAIN indexed.challenges /\ StoreTyped(indexed)
    BY <1>1, KeptCase
  <1>5. /\ StoreTyped(t) /\ CasePut(indexed, t, ch)
        /\ SameBut(indexed.challenges[ch], t.challenges[ch], {"reports"})
    BY <1>2, <1>4, ReportSubmittedEvent
  <1>6. /\ t.claims = indexed.claims
        /\ \A x \in DOMAIN indexed.challenges : t.challenges[x].state = indexed.challenges[x].state
    BY <1>5 DEF CasePut, SameBut, CaseFields
  <1> QED BY <1>1, <1>3, <1>6, MatchAside

(* A report with its link. *)
LEMMA MatchSubmitReportAsIdentity ==
  ASSUME ChainInv, IndexInv, StatesMatch, NEW ch \in Challenges, NEW a \in Accounts,
         NEW id \in Investigators, NEW verdict \in Verdicts, NEW bundle \in Roots,
         SubmitReportAsIdentity(ch, a, id, verdict, bundle),
         Emit(<<Submitted(ch, a, verdict),
                [ name |-> "ReportIdentityLinked", challengeId |-> ch,
                  investigator |-> a, investigatorId |-> id ]>>)
  PROVE  StatesMatch'
  <1>1. challenges[ch].exists /\ UNCHANGED <<claims, challenges>>
    BY DEF SubmitReportAsIdentity, SubmitReport, TakesReports, claimVars, caseVars
  <1>2. /\ indexed'.claims = indexed.claims
        /\ \A x \in DOMAIN indexed.challenges \ {ch} :
             indexed'.challenges[x] = indexed.challenges[x]
        /\ SameBut(indexed.challenges[ch], indexed'.challenges[ch], {"reports"})
    BY <1>1, ReportAndLink
  <1>3. \A x \in DOMAIN indexed.challenges :
          indexed'.challenges[x].state = indexed.challenges[x].state
    BY <1>2 DEF SameBut, CaseFields
  <1> QED BY <1>1, <1>2, <1>3, MatchAside

(* An appeal is filed. *)
LEMMA MatchFileAppeal ==
  ASSUME ChainInv, IndexInv, StatesMatch, NEW ch \in Challenges, FileAppeal(ch),
         Emit(<<[name |-> "AppealFiled", appealId |-> Len(appeals'), challengeId |-> ch]>>)
  PROVE  StatesMatch'
  <1>1. /\ claims' = claims /\ challenges[ch].exists
        /\ challenges \in [Challenges -> ChallengeRecord]
    BY DEF FileAppeal, Appealable, claimVars, ChainInv, TypeOK
  <1>2. PICK n \in Nat : n = Len(appeals')
    <2>1. appeals \in Seq(AppealRecord) /\ [challengeId |-> ch, resolved |-> FALSE] \in AppealRecord
      BY DEF ChainInv, TypeOK, AppealRecord
    <2>2. appeals' = Append(appeals, [challengeId |-> ch, resolved |-> FALSE])
      BY DEF FileAppeal
    <2>3. appeals' \in Seq(AppealRecord)
      BY <2>1, <2>2
    <2> QED BY <2>3
  <1>3. PICK e, t : /\ e = [name |-> "AppealFiled", appealId |-> n, challengeId |-> ch]
                    /\ t = Store!ApplyEvent(indexed, e)
    OBVIOUS
  <1>4. indexed' = t
    BY <1>2, <1>3, OneEvent DEF Emit
  <1>5. ch \in DOMAIN indexed.challenges /\ StoreTyped(indexed)
    BY <1>1, KeptCase
  <1>6. CasePut(indexed, t, ch) /\ t.challenges[ch].state = "APPEALED"
    BY <1>3, <1>5, AppealFiledEvent
  <1>7. /\ challenges'[ch].state = "APPEALED" /\ DOMAIN challenges' = Challenges
        /\ \A x \in Challenges \ {ch} : challenges'[x] = challenges[x]
    BY <1>1 DEF FileAppeal, Progressed
  <1>8. ASSUME NEW x \in Existing(challenges')
        PROVE  t.challenges[x].state = challenges'[x].state
    <2>1. CASE x = ch
      BY <1>6, <1>7, <2>1
    <2>2. CASE x # ch
      <3>1. x \in Existing(challenges) /\ x \in DOMAIN indexed.challenges \ {ch}
        BY <1>1, <1>7, <1>8, <2>2 DEF Existing, IndexInv
      <3> QED BY <1>1, <1>6, <1>7, <2>2, <3>1 DEF CasePut, StatesMatch, Existing
    <2> QED BY <2>1, <2>2
  <1>9. t.claims = indexed.claims
    BY <1>6 DEF CasePut
  <1> QED BY <1>1, <1>4, <1>8, <1>9 DEF StatesMatch

(* An appeal is resolved. *)
LEMMA MatchResolveAppeal ==
  ASSUME ChainInv, IndexInv, StatesMatch, NEW n \in 1..Len(appeals), ResolveAppeal(n),
         Emit(<<[name |-> "AppealResolved", appealId |-> n]>>)
  PROVE  StatesMatch'
  <1>1. UNCHANGED <<claims, challenges>> /\ StoreTyped(indexed)
    BY DEF ResolveAppeal, claimVars, IndexInv
  <1>2. PICK e, t : /\ e = [name |-> "AppealResolved", appealId |-> n]
                    /\ t = Store!ApplyEvent(indexed, e)
    OBVIOUS
  <1>3. indexed' = t
    BY <1>2, OneEvent DEF Emit
  <1>4. /\ t.claims = indexed.claims
        /\ \A x \in DOMAIN indexed.challenges :
             AppealClosed(indexed.challenges[x], t.challenges[x], n)
    <2>1. n \in Nat
      OBVIOUS
    <2> QED BY <1>1, <1>2, <2>1, AppealResolvedEvent
  <1>5. \A x \in DOMAIN indexed.challenges : t.challenges[x].state = indexed.challenges[x].state
    BY <1>4 DEF AppealClosed, SameBut, CaseFields
  <1> QED BY <1>1, <1>3, <1>4, <1>5, MatchAside

(* A case is resolved: its event is in the queue, and no other case's. *)
LEMMA StatesResolve ==
  ASSUME ChainInv, IndexInv, StatesMatch, NEW ch \in Challenges, NEW status \in VerdictStatus,
         NEW refusing \in SUBSET Contracts, Resolve(ch, status, refusing), indexed' = indexed,
         unemitted = <<>>, unemitted' = ResolutionEvents(ch, status, refusing) \o unemitted
  PROVE  StatesInv'
  <1> DEFINE cl == challenges[ch].claimId
             event == ResolvedEvent(ch, cl, verdicts'[ch])
  <1>1. PICK q : q = ResolutionEvents(ch, status, refusing)
    OBVIOUS
  <1>2. /\ q \in Seq(QueueEntry)
        /\ verdicts'[ch] = [status |-> status, resolvedAt |-> now, exists |-> TRUE]
        /\ \A k \in 1..Len(q) :
             \/ q[k].event = event
             \/ \E a \in hasReported[ch] \ refusing : q[k].event = PaidEvent(ch, a, ledger'[ch].share)
        /\ \E k \in 1..Len(q) : q[k].event = event
    <2>1. TypeOK /\ TalliesMatchReports
      BY DEF ChainInv
    <2> QED BY <1>1, <2>1, ResolutionQueue
  <1>3. unemitted' = q
    BY <1>1, <1>2
  <1>4. /\ challenges \in [Challenges -> ChallengeRecord] /\ claims \in [Claims -> ClaimRecord]
        /\ challenges[ch].exists /\ cl \in Claims
    BY DEF ChainInv, TypeOK, Resolve, Resolvable
  <1>5. /\ challenges'[ch].state = "RESOLVED" /\ challenges'[ch].claimId = cl
        /\ challenges'[ch].exists /\ DOMAIN challenges' = Challenges
        /\ \A x \in Challenges \ {ch} : challenges'[x] = challenges[x]
    BY <1>4 DEF Resolve, Progressed
  <1>6. /\ claims'[cl].status = status /\ DOMAIN claims' = Claims
        /\ claims'[cl].exists <=> claims[cl].exists
        /\ \A y \in Claims \ {cl} : claims'[y] = claims[y]
    <2>1. status \in {"TRUE", "FALSE", "CONTESTED", "INCONCLUSIVE"}
      BY StatusTypes DEF Resolve
    <2>2. ClaimStatusFor(status) = status
      BY <2>1 DEF ClaimStatusFor
    <2>3. claims' = [claims EXCEPT ![cl] = WithStatus(@, status)]
      BY <2>2 DEF Resolve
    <2> QED BY <1>4, <2>3 DEF WithStatus
  <1>7. Late(ch, unemitted')
    <2>1. event.name = "Resolved" /\ event.challengeId = ch
      BY DEF ResolvedEvent
    <2> QED BY <1>2, <1>3, <2>1 DEF Late
  <1>8. \A x : Late(x, unemitted') => x = ch
    <2>1. event.challengeId = ch
      BY DEF ResolvedEvent
    <2>2. \A a : PaidEvent(ch, a, ledger'[ch].share).name = "InvestigatorPaid"
      BY DEF PaidEvent
    <2> HIDE DEF event
    <2> QED BY <1>2, <1>3, <2>1, <2>2 DEF Late
  <1>9. verdicts'[ch].status = status
    BY <1>2
  <1> HIDE DEF cl, event
  <1>10. \A x \in Existing(challenges') : x # ch => indexed'.challenges[x].state = challenges'[x].state
    BY <1>4, <1>5 DEF StatesMatch, Existing
  <1>11. \A y \in Existing(claims') : y # cl => indexed'.claims[y].status = claims'[y].status
    BY <1>4, <1>6 DEF StatesMatch, Existing
  <1>12. ch \in Existing(challenges')
    BY <1>5 DEF Existing
  <1> QED BY <1>5, <1>6, <1>7, <1>8, <1>9, <1>10, <1>11, <1>12 DEF StatesInv

(***************************************************************************)
(* An event of the queue is indexed.  A Resolved gives the case and its    *)
(* claim what they have on the chain; a payout touches no state.           *)
(***************************************************************************)
LEMMA StatesEmit ==
  ASSUME ChainInv, IndexInv, QueueTyped, StatesInv, EmitNext
  PROVE  StatesInv'
  <1> SUFFICES ASSUME ~calledBack
               PROVE  StatesInv'
    BY DEF EmitNext, StatesInv
  <1> DEFINE e == unemitted[1].event
  <1>1. /\ claims' = claims /\ challenges' = challenges /\ verdicts' = verdicts
        /\ ledger' = ledger /\ unemitted # <<>> /\ unemitted' = Tail(unemitted)
    BY DEF EmitNext, allVars, vars, claimVars, caseVars, moneyVars
  <1>2. /\ Head(unemitted) = unemitted[1] /\ 1 \in 1..Len(unemitted)
        /\ \A x : Late(x, unemitted) => Late(x, unemitted') \/ (e.name = "Resolved" /\ e.challengeId = x)
        /\ \A x : Late(x, unemitted') => Late(x, unemitted)
    BY <1>1, QueueTaken DEF QueueTyped
  <1>3. PICK t : t = Store!ApplyEvent(indexed, e)
    OBVIOUS
  <1>4. indexed' = t
    BY <1>2, <1>3, OneEvent DEF EmitNext
  <1>5. PICK ch \in Challenges :
          /\ verdicts[ch].exists
          /\ \/ e = ResolvedEvent(ch, challenges[ch].claimId, verdicts[ch])
             \/ \E a \in Accounts :
                  /\ e = PaidEvent(ch, a, ledger[ch].share)
                  /\ ledger[ch].share > 0 => a \in ledger[ch].paid
    BY <1>2 DEF IndexInv, StillTrue
  <1>6. e.name = "Resolved" /\ e.challengeId = ch => Late(ch, unemitted)
    BY <1>2 DEF Late
  <1> HIDE DEF e
  <1>7. challenges[ch].exists
    BY <1>5 DEF ChainInv, CaseInv, VerdictIffDecided
  <1>8. PICK cl : cl = challenges[ch].claimId
    OBVIOUS
  <1>9. /\ ch \in DOMAIN indexed.challenges /\ StoreTyped(indexed) /\ cl \in DOMAIN indexed.claims
        /\ DOMAIN indexed.challenges = Existing(challenges)
        /\ DOMAIN indexed.claims = Existing(claims)
    BY <1>7, <1>8, KeptCase DEF IndexInv
  <1>10. /\ \A x \in Challenges : Late(x, unemitted) =>
              /\ challenges[x].state = "RESOLVED"
              /\ claims[challenges[x].claimId].status = verdicts[x].status
         /\ \A x \in Existing(challenges) :
              Late(x, unemitted) \/ indexed.challenges[x].state = challenges[x].state
         /\ \A y \in Existing(claims) :
              \/ indexed.claims[y].status = claims[y].status
              \/ \E x \in Existing(challenges) : Late(x, unemitted) /\ challenges[x].claimId = y
    BY DEF StatesInv
  <1>11. CASE e = ResolvedEvent(ch, cl, verdicts[ch])
    <2>1. PICK status \in ClaimStatus \cap VerdictStatus, time \in Nat :
            status = verdicts[ch].status /\ time = verdicts[ch].resolvedAt
      <3>1. verdicts[ch] \in VerdictRecord /\ verdicts[ch].status = ExpectedStatus(TallyOf(reports[ch]))
        BY <1>5 DEF ChainInv, TypeOK, VerdictExact
      <3> QED BY <3>1, StatusTypes DEF VerdictRecord, VerdictStatus, ClaimStatus
    <2>2. e = [ name |-> "Resolved", challengeId |-> ch, claimId |-> cl,
                status |-> status, occurredAt |-> time ]
      BY <1>11, <2>1 DEF ResolvedEvent
    <2>3. /\ StoreTyped(t) /\ CaseAndClaimPut(indexed, t, ch, cl)
          /\ SameBut(indexed.challenges[ch], t.challenges[ch], {"state", "verdict"})
          /\ t.challenges[ch].state = "RESOLVED"
          /\ t.challenges[ch].verdict = [status |-> status, resolvedAt |-> time]
          /\ Marked(indexed, t, cl, status)
      <3>1. ch \in DOMAIN indexed.challenges /\ StoreTyped(indexed) /\ cl \in DOMAIN indexed.claims
        BY <1>9
      <3> QED BY <1>3, <2>2, <3>1, ResolvedEventIndexed
    <2>4. e.challengeId = ch /\ e.name = "Resolved"
      BY <2>2
    <2>5. challenges[ch].state = "RESOLVED" /\ claims[cl].status = status
      BY <1>6, <1>8, <1>10, <2>1, <2>4
    <2>6. ASSUME NEW x \in Existing(challenges)
          PROVE  Late(x, unemitted') \/ t.challenges[x].state = challenges[x].state
      <3>1. CASE x = ch
        BY <2>3, <2>5, <3>1
      <3>2. CASE x # ch
        BY <1>2, <1>9, <1>10, <2>3, <2>4, <3>2 DEF CaseAndClaimPut
      <3> QED BY <3>1, <3>2
    <2>7. ASSUME NEW y \in Existing(claims)
          PROVE  \/ t.claims[y].status = claims[y].status
                 \/ \E x \in Existing(challenges) : Late(x, unemitted') /\ challenges[x].claimId = y
      <3>1. CASE y = cl
        BY <2>3, <2>5, <3>1 DEF Marked
      <3>2. CASE y # cl
        BY <1>2, <1>8, <1>9, <1>10, <2>3, <2>4, <3>2 DEF CaseAndClaimPut
      <3> QED BY <3>1, <3>2
    <2> QED BY <1>1, <1>2, <1>4, <1>10, <2>6, <2>7 DEF StatesInv
  <1>12. CASE \E a \in Accounts : /\ e = PaidEvent(ch, a, ledger[ch].share)
                                  /\ ledger[ch].share > 0 => a \in ledger[ch].paid
    <2>1. PICK a \in Accounts : e = PaidEvent(ch, a, ledger[ch].share)
      BY <1>12
    <2>2. PICK share \in Nat : share = ledger[ch].share
      BY DEF ChainInv, TypeOK, LedgerEntry
    <2>3. e = [name |-> "InvestigatorPaid", challengeId |-> ch, investigator |-> a, amount |-> share]
      BY <2>1, <2>2 DEF PaidEvent
    <2>4. /\ StoreTyped(t) /\ CasePut(indexed, t, ch)
          /\ SameBut(indexed.challenges[ch], t.challenges[ch], {"payouts"})
      BY <1>3, <1>9, <2>3, InvestigatorPaidEvent
    <2>5. e.name = "InvestigatorPaid"
      BY <2>3
    <2>6. /\ t.claims = indexed.claims
          /\ \A x \in Existing(challenges) : t.challenges[x].state = indexed.challenges[x].state
      BY <1>9, <2>4 DEF CasePut, SameBut, CaseFields
    <2>7. \A x : Late(x, unemitted) => Late(x, unemitted')
      BY <1>2, <2>5
    <2> QED BY <1>1, <1>2, <1>4, <1>10, <2>6, <2>7 DEF StatesInv
  <1> QED BY <1>5, <1>8, <1>11, <1>12

(* At first there is no state to match. *)
LEMMA StatesInit == SystemInit => StatesInv
  <1> SUFFICES ASSUME SystemInit
               PROVE  StatesInv
    OBVIOUS
  <1>1. unemitted = <<>> /\ Existing(claims) = {} /\ Existing(challenges) = {}
    BY DEF SystemInit, IdentifiedInit, Init, Existing
  <1> QED BY <1>1 DEF StatesInv, Late

(* A call made while nothing is left to emit, other than resolve(). *)
LEMMA StatesCall ==
  ASSUME ChainInv, IndexInv, StatesMatch, NEW a \in Accounts,
         \/ ClaimCall \/ EvidenceCall \/ CaseCall(a) \/ AppealCall \/ ReportCall(a)
         \/ IdentityCall(a) /\ UNCHANGED vars
  PROVE  StatesMatch'
  <1>1. CASE ClaimCall
    <2>1. ASSUME NEW cl \in Claims, CreateClaim(cl),
                 Emit(<<[name |-> "ClaimCreated", claimId |-> cl]>>)
          PROVE  StatesMatch'
      BY <2>1, MatchCreateClaim
    <2>2. ASSUME NEW clA \in Claims, NEW clB \in Claims, NEW relation \in RelationshipType,
                 RecordRelationship(clA, clB, relation),
                 Emit(IF relation = "SUPERSEDES" /\ Supersedable(clA)
                      THEN <<[name |-> "Superseded", oldClaimId |-> clA, newClaimId |-> clB,
                              occurredAt |-> now]>>
                      ELSE <<>>)
          PROVE  StatesMatch'
      BY <2>2, MatchRecordRelationship
    <2> QED BY <1>1, <2>1, <2>2 DEF ClaimCall
  <1>2. CASE EvidenceCall
    BY <1>2, MatchSubmitEvidence, MatchLockEvidence DEF EvidenceCall
  <1>3. CASE CaseCall(a)
    <2>1. PICK ch \in Challenges :
            \/ \E cl \in Claims, type \in ChallengeType, v \in Amounts :
                 /\ OpenChallenge(ch, cl, a, type, v)
                 /\ Emit(<<Opened(ch, cl, a, type, v, now + DEFAULT_CHALLENGE_WINDOW)>>)
            \/ \E cl \in Claims, v \in Amounts :
                 /\ RequestVerification(ch, cl, a, v)
                 /\ Emit(<<Opened(ch, cl, a, "VERIFICATION_REQUEST", v, now)>>)
            \/ /\ BeginInvestigation(ch)
               /\ Emit(<<[name |-> "InvestigationStarted", challengeId |-> ch]>>)
      BY <1>3 DEF CaseCall
    <2>2. now \in Nat /\ now + DEFAULT_CHALLENGE_WINDOW \in Nat
      BY ConstantsAssumption DEF ChainInv, TypeOK
    <2>3. ASSUME NEW cl \in Claims, NEW type \in ChallengeType, NEW v \in Amounts,
                 OpenChallenge(ch, cl, a, type, v),
                 Emit(<<Opened(ch, cl, a, type, v, now + DEFAULT_CHALLENGE_WINDOW)>>)
          PROVE  StatesMatch'
      <3>1. PICK closesAt \in Nat : closesAt = now + DEFAULT_CHALLENGE_WINDOW
        BY <2>2
      <3>2. Challengeable(cl) /\ OpenCase(ch, cl, a, type, v, closesAt)
        BY <2>3, <3>1 DEF OpenChallenge
      <3>3. Emit(<<Opened(ch, cl, a, type, v, closesAt)>>)
        BY <2>3, <3>1
      <3> QED BY <3>2, <3>3, MatchOpenCase
    <2>4. ASSUME NEW cl \in Claims, NEW v \in Amounts, RequestVerification(ch, cl, a, v),
                 Emit(<<Opened(ch, cl, a, "VERIFICATION_REQUEST", v, now)>>)
          PROVE  StatesMatch'
      <3>1. PICK closesAt \in Nat : closesAt = now
        BY <2>2
      <3>2. PICK type \in ChallengeType : type = "VERIFICATION_REQUEST"
        BY DEF ChallengeType
      <3>3. Challengeable(cl) /\ OpenCase(ch, cl, a, type, v, closesAt)
        BY <2>4, <3>1, <3>2 DEF RequestVerification
      <3>4. Emit(<<Opened(ch, cl, a, type, v, closesAt)>>)
        BY <2>4, <3>1, <3>2
      <3> QED BY <3>3, <3>4, MatchOpenCase
    <2> QED BY <2>1, <2>3, <2>4, MatchBeginInvestigation
  <1>4. CASE AppealCall
    BY <1>4, MatchFileAppeal, MatchResolveAppeal DEF AppealCall
  <1>5. CASE ReportCall(a)
    BY <1>5, MatchSubmitReport, MatchSubmitReportAsIdentity DEF ReportCall
  <1>6. CASE IdentityCall(a) /\ UNCHANGED vars
    BY <1>6 DEF IdentityCall, vars, claimVars, caseVars, StatesMatch
  <1> QED BY <1>1, <1>2, <1>3, <1>4, <1>5, <1>6

(* Every step keeps states and statuses. *)
LEMMA StatesStep ==
  ASSUME ChainInv, IndexInv, QueueTyped, StatesInv, [SystemNext]_systemVars
  PROVE  StatesInv'
  <1>1. CASE UNCHANGED systemVars \/ (Tick /\ UNCHANGED indexVars)
    <2>1. UNCHANGED <<claims, challenges, verdicts, indexed, unemitted, calledBack>>
      BY <1>1 DEF Tick, systemVars, allVars, indexVars, vars, claimVars, caseVars
    <2> QED BY <2>1 DEF StatesInv
  <1>2. CASE EmitNext
    BY <1>2, StatesEmit
  <1>3. ASSUME NEW a \in Accounts, Call(a), calledBack' = (calledBack \/ unemitted # <<>>)
        PROVE  StatesInv'
    <2>1. CASE calledBack \/ unemitted # <<>>
      BY <1>3, <2>1 DEF StatesInv
    <2>2. CASE ~calledBack /\ unemitted = <<>>
      <3>1. StatesMatch
        BY <2>2, NothingLate
      <3>2. CASE ResolveCall
        BY <2>2, <3>1, <3>2, StatesResolve DEF ResolveCall
      <3>3. CASE \/ ClaimCall \/ EvidenceCall \/ CaseCall(a) \/ AppealCall \/ ReportCall(a)
                 \/ IdentityCall(a) /\ UNCHANGED vars
        <4>1. StatesMatch'
          BY <3>1, <3>3, StatesCall
        <4>2. unemitted' = <<>>
          BY <2>2, <3>3 DEF ClaimCall, EvidenceCall, CaseCall, AppealCall, ReportCall,
                            IdentityCall, Emit
        <4>3. \A x : ~Late(x, unemitted')
          BY <4>2 DEF Late
        <4> QED BY <4>1, <4>3 DEF StatesInv, StatesMatch
      <3> QED BY <1>3, <3>2, <3>3 DEF Call
    <2> QED BY <2>1, <2>2
  <1> QED BY <1>1, <1>2, <1>3 DEF SystemNext

(* States and statuses are always as that says. *)
LEMMA StatesAlways == SystemSpec => [](SystemInv /\ StatesInv)
  <1> DEFINE All == SystemInv /\ StatesInv
  <1>1. SystemInit => All
    BY ChainInit, IndexInit, KeysInit, StatesInit DEF SystemInv
  <1>2. All /\ [SystemNext]_systemVars => All'
    BY ChainStep, IndexStep, QueueStep, KeysStep, StatesStep DEF SystemInv
  <1> QED BY <1>1, <1>2, PTL DEF SystemSpec

(* The appeals of a case, as a set of numbered records. *)
LEMMA AppealsAsSet ==
  ASSUME NEW ch, NEW e, e.appeals \in Seq(AppealEntry), AppealsKept(e, ch, appeals)
  PROVE  Store!Range(e.appeals) =
           {[appealId |-> i, resolved |-> appeals[i].resolved] :
              i \in {j \in 1..Len(appeals) : appeals[j].challengeId = ch}}
  <1> DEFINE own == {j \in 1..Len(appeals) : appeals[j].challengeId = ch}
             entry(i) == [appealId |-> i, resolved |-> appeals[i].resolved]
  <1>1. DOMAIN e.appeals = 1..Len(e.appeals)
    OBVIOUS
  <1>2. ASSUME NEW n \in 1..Len(e.appeals)
        PROVE  e.appeals[n].appealId \in own /\ e.appeals[n] = entry(e.appeals[n].appealId)
    <2>1. e.appeals[n] \in AppealEntry
      OBVIOUS
    <2>2. e.appeals[n] = [appealId |-> e.appeals[n].appealId, resolved |-> e.appeals[n].resolved]
      BY <2>1 DEF AppealEntry
    <2> QED BY <2>2 DEF AppealsKept
  <1>3. \A j \in own : \E n \in 1..Len(e.appeals) : e.appeals[n].appealId = j
    BY DEF AppealsKept
  <1> HIDE DEF own, entry
  <1>4. Store!Range(e.appeals) = {entry(i) : i \in own}
    BY <1>1, <1>2, <1>3 DEF Store!Range
  <1> QED BY <1>4 DEF own, entry

(* The read model is that of the chain, undisturbed. *)
LEMMA ExactBetween ==
  ASSUME SystemInv, StatesInv, Undisturbed
  PROVE  /\ DOMAIN State.claims = Existing(claims)
         /\ DOMAIN State.challenges = Existing(challenges)
         /\ \A cl \in Existing(claims) : ClaimIndexed(cl)
         /\ \A ch \in Existing(challenges) : CaseIndexed(ch)
  <1>1. /\ State.claims = indexed.claims /\ State.challenges = indexed.challenges
        /\ StoreTyped(indexed) /\ DOMAIN indexed.claims = Existing(claims)
        /\ DOMAIN indexed.challenges = Existing(challenges)
    BY Rebuild DEF SystemInv, IndexInv
  <1>2. StatesMatch
    BY NothingLate DEF Undisturbed, Settled
  <1>3. \A ch : ~Late(ch, unemitted)
    BY DEF Undisturbed, Settled, Late
  <1>4. DOMAIN claims = Claims /\ DOMAIN challenges = Challenges
    BY DEF SystemInv, ChainInv, TypeOK
  <1>5. ASSUME NEW cl \in Existing(claims)
        PROVE  ClaimIndexed(cl)
    <2>1. PICK e : e = indexed.claims[cl]
      OBVIOUS
    <2>2. ClaimKept(cl) /\ e.status = claims[cl].status
      BY <1>2, <2>1 DEF SystemInv, IndexInv, StatesMatch
    <2>3. e \in ClaimEntry
      BY <1>1, <2>1 DEF StoreTyped
    <2>4. /\ e.challengeIds \in Seq(Challenges) /\ DOMAIN e.challengeIds = 1..Len(e.challengeIds)
          /\ \A i \in 1..Len(e.challengeIds) : e.challengeIds[i] \in Challenges
      <3>1. e.challengeIds \in Seq(Challenges)
        BY <2>3 DEF ClaimEntry
      <3> QED BY <3>1
    <2>5. /\ e.validUntil = claims[cl].validUntil
          /\ \A i \in 1..Len(e.challengeIds) :
               challenges[e.challengeIds[i]].exists /\ challenges[e.challengeIds[i]].claimId = cl
          /\ \A ch \in Challenges : challenges[ch].exists /\ challenges[ch].claimId = cl =>
               \E i \in 1..Len(e.challengeIds) : e.challengeIds[i] = ch
      BY <2>1, <2>2 DEF ClaimKept
    <2>6. Store!Range(e.challengeIds) = {ch \in Existing(challenges) : challenges[ch].claimId = cl}
      BY <1>4, <2>4, <2>5 DEF Store!Range, Existing
    <2> QED BY <1>1, <2>1, <2>2, <2>5, <2>6 DEF ClaimIndexed
  <1>6. ASSUME NEW ch \in Existing(challenges)
        PROVE  CaseIndexed(ch)
    <2>1. PICK e : e = indexed.challenges[ch]
      OBVIOUS
    <2>2. CaseKept(ch) /\ e.state = challenges[ch].state
      BY <1>2, <2>1 DEF SystemInv, IndexInv, StatesMatch
    <2>3. e \in CaseEntry
      BY <1>1, <2>1 DEF StoreTyped
    <2>4. /\ FactsKept(e, challenges[ch], ledger[ch]) /\ AppealsKept(e, ch, appeals)
          /\ VerdictKept(e, ch, verdicts[ch], unemitted)
      BY <2>1, <2>2 DEF CaseKept
    <2>5. Store!Range(e.appeals) =
            {[appealId |-> i, resolved |-> appeals[i].resolved] :
               i \in {j \in 1..Len(appeals) : appeals[j].challengeId = ch}}
      <3>1. e.appeals \in Seq(AppealEntry)
        BY <2>3 DEF CaseEntry
      <3> QED BY <2>4, <3>1, AppealsAsSet
    <2>6. e.verdict =
            IF verdicts[ch].exists
            THEN [status |-> verdicts[ch].status, resolvedAt |-> verdicts[ch].resolvedAt]
            ELSE None
      BY <1>3, <2>4 DEF VerdictKept
    <2>7. /\ e.claimId = challenges[ch].claimId /\ e.windowCloseAt = challenges[ch].windowCloseAt
          /\ e.evidenceRoot = challenges[ch].evidenceRoot
      BY <2>4 DEF FactsKept
    <2> QED BY <1>1, <2>1, <2>2, <2>5, <2>6, <2>7 DEF CaseIndexed
  <1> QED BY <1>1, <1>5, <1>6

(***************************************************************************)
(* Between transactions, as long as no payee called back, a rebuild from   *)
(* the events has the chain's claims and cases and no others, with their   *)
(* statuses, states, verdicts and appeals.                                 *)
(***************************************************************************)
THEOREM ReadModelIsExact == SystemSpec => []ReadModelExact
  <1>1. SystemInv /\ StatesInv => ReadModelExact
    BY ExactBetween DEF ReadModelExact
  <1> QED BY <1>1, StatesAlways, PTL

-----------------------------------------------------------------------------
(***************************************************************************)
(* Calibration.  What calibrationOf compares for one link: the first       *)
(* report of the case under the identity.                                  *)
(***************************************************************************)
FirstSigned(list, id) ==
  LET I == {i \in 1..Len(list) : list[i].investigatorId = id}
  IN IF I # {} THEN Store!Min(I) ELSE 0

Compared(case, id) ==
  LET i == FirstSigned(case.reports, id)
  IN Store!Agreement(case.verdict, IF i = 0 THEN None ELSE case.reports[i].verdict)

Counted(s, id, o) ==
  LET record == s.investigators[id].linkedReports
  IN {i \in DOMAIN record : Compared(s.challenges[record[i]], id) = o}

InContested(s, id) ==
  LET record == s.investigators[id].linkedReports
  IN {i \in DOMAIN record : Store!Contested(s.challenges[record[i]].verdict)}

\* What any report of a case compares like.
OutcomeOf(final) ==
  IF final = None \/ final.status \notin {"TRUE", "FALSE"} THEN "pending" ELSE "agreed"

(* calibrationOf counts what was compared. *)
LEMMA CalibrationCounts ==
  ASSUME NEW s, NEW id
  PROVE  Store!CalibrationOf(s, id) =
           [ agreed |-> Cardinality(Counted(s, id, "agreed")),
             disagreed |-> Cardinality(Counted(s, id, "disagreed")),
             pending |-> Cardinality(Counted(s, id, "pending")),
             contestedInvolvement |-> Cardinality(InContested(s, id)) ]
  <1>1. \A S : Store!Cardinality(S) = Cardinality(S)
    BY DEF Store!Cardinality, Cardinality, Store!IsFiniteSet, IsFiniteSet
  <1> QED BY <1>1 DEF Store!CalibrationOf, Store!SelectInSeq, Counted, Compared, FirstSigned,
                         InContested

(* The first report under an identity is one of its reports. *)
LEMMA FirstSignedIsSigned ==
  ASSUME NEW list \in Seq(ReportEntry), NEW id, NEW j \in 1..Len(list), list[j].investigatorId = id
  PROVE  FirstSigned(list, id) \in 1..Len(list) /\ FirstSigned(list, id) # 0
  <1> DEFINE I == {i \in 1..Len(list) : list[i].investigatorId = id}
  <1>1. I \in SUBSET Nat /\ I # {} /\ \A i \in I : i \in 1..Len(list) /\ i # 0
    OBVIOUS
  <1>2. FirstSigned(list, id) = IF I # {} THEN Store!Min(I) ELSE 0
    BY DEF FirstSigned
  <1> HIDE DEF I
  <1>3. \E n \in I : \A m \in I : n <= m
    BY <1>1, LeastNumber
  <1>4. Store!Min(I) \in I
    BY <1>3 DEF Store!Min
  <1> QED BY <1>1, <1>2, <1>4

(***************************************************************************)
(* However a report of a case is chosen, it compares the same: the verdict *)
(* is TRUE or FALSE only if all the reports are of one mind.               *)
(***************************************************************************)
LEMMA ReportsCompareAlike ==
  ASSUME SystemInv, NEW ch \in Challenges, challenges[ch].exists, NEW i \in 1..Len(reports[ch])
  PROVE  Store!Agreement(indexed.challenges[ch].verdict, reports[ch][i].verdict) =
           OutcomeOf(indexed.challenges[ch].verdict)
  <1>1. PICK final : final = indexed.challenges[ch].verdict
    OBVIOUS
  <1>2. \/ final = None
        \/ verdicts[ch].exists /\ final = [status |-> verdicts[ch].status,
                                           resolvedAt |-> verdicts[ch].resolvedAt]
    <2>1. VerdictKept(indexed.challenges[ch], ch, verdicts[ch], unemitted)
      BY KeptCase DEF SystemInv, CaseKept
    <2> QED BY <1>1, <2>1 DEF VerdictKept
  <1>3. PICK rs : rs = reports[ch]
    OBVIOUS
  <1>4. rs \in Seq(Report) /\ i \in 1..Len(rs)
    BY <1>3 DEF SystemInv, ChainInv, TypeOK
  <1>5. PICK t : t = TallyOf(rs)
    OBVIOUS
  <1>6. /\ t.total = Len(rs)
        /\ t.supports = Cardinality(Voting(rs, "SUPPORTS"))
        /\ t.rejects = Cardinality(Voting(rs, "REJECTS"))
    BY <1>5 DEF TallyOf
  <1>7. /\ t.supports = t.total => rs[i].verdict = "SUPPORTS"
        /\ t.rejects = t.total => rs[i].verdict = "REJECTS"
    <2>1. \A v : Cardinality(Voting(rs, v)) = Len(rs) => AllVote(rs, v)
      BY <1>4, VotingBounds
    <2>2. \A v : AllVote(rs, v) => rs[i].verdict = v
      BY <1>4 DEF AllVote, Voting
    <2> QED BY <1>6, <2>1, <2>2
  <1>8. verdicts[ch].exists => verdicts[ch].status = ExpectedStatus(t)
    BY <1>3, <1>5 DEF SystemInv, ChainInv, VerdictExact
  <1>9. /\ ExpectedStatus(t) = "TRUE" => t.supports = t.total
        /\ ExpectedStatus(t) = "FALSE" => t.rejects = t.total
    BY DEF ExpectedStatus, Unanimous
  <1>10. Store!Agreement(final, rs[i].verdict) = OutcomeOf(final)
    <2>1. CASE final = None
      BY <2>1 DEF Store!Agreement, OutcomeOf
    <2>2. CASE verdicts[ch].exists /\ final = [status |-> verdicts[ch].status,
                                               resolvedAt |-> verdicts[ch].resolvedAt]
      <3>1. final.status = ExpectedStatus(t)
        BY <1>8, <2>2
      <3>2. /\ final.status = "TRUE" => rs[i].verdict = "SUPPORTS"
            /\ final.status = "FALSE" => rs[i].verdict = "REJECTS"
        BY <1>7, <1>9, <3>1
      <3> QED BY <3>2 DEF Store!Agreement, OutcomeOf
    <2> QED BY <1>2, <2>1, <2>2
  <1> QED BY <1>1, <1>3, <1>10

(* A link is about an existing case that its account reported on. *)
LEMMA LinkedCase ==
  ASSUME SystemInv, NEW k \in 1..Len(links)
  PROVE  /\ links[k].challengeId \in Challenges /\ challenges[links[k].challengeId].exists
         /\ LinkedReports(links[k]) # {} /\ links[k].investigatorId \in Investigators
  <1>1. PICK l : l = links[k]
    OBVIOUS
  <1>2. l \in Link /\ l.investigator \in hasReported[l.challengeId]
    BY <1>1 DEF SystemInv, ChainInv, LinkInv
  <1>3. l.challengeId \in Challenges /\ l.investigatorId \in Investigators
    BY <1>2 DEF Link
  <1>4. PICK i \in 1..Len(reports[l.challengeId]) :
          reports[l.challengeId][i].investigator = l.investigator
    BY <1>2, <1>3 DEF SystemInv, ChainInv, TalliesMatchReports
  <1>5. challenges[l.challengeId].exists
    <2>1. reports[l.challengeId] # <<>>
      BY <1>4
    <2> QED BY <1>3, <2>1 DEF SystemInv, ChainInv, FreshInv
  <1> QED BY <1>1, <1>3, <1>4, <1>5 DEF LinkedReports

(* What a link counts as, by the contract's reports and by the read model's. *)
LEMMA LinkOutcome ==
  ASSUME SystemInv, LinksInv, NEW k \in 1..Len(links)
  PROVE  LET ch == links[k].challengeId
             case == indexed.challenges[ch]
             i == CHOOSE j \in LinkedReports(links[k]) : TRUE
         IN /\ Store!Agreement(case.verdict, reports[ch][i].verdict) = OutcomeOf(case.verdict)
            /\ Compared(case, links[k].investigatorId) = OutcomeOf(case.verdict)
  <1>1. PICK ch, id, j : /\ ch = links[k].challengeId /\ id = links[k].investigatorId
                         /\ j = CHOOSE n \in LinkedReports(links[k]) : TRUE
    OBVIOUS
  <1>2. ch \in Challenges /\ challenges[ch].exists /\ j \in LinkedReports(links[k])
    BY <1>1, LinkedCase
  <1>3. j \in 1..Len(reports[ch]) /\ reports[ch][j].investigator = links[k].investigator
    BY <1>1, <1>2 DEF LinkedReports
  <1>4. PICK e : e = indexed.challenges[ch]
    OBVIOUS
  <1>5. Store!Agreement(e.verdict, reports[ch][j].verdict) = OutcomeOf(e.verdict)
    BY <1>2, <1>3, <1>4, ReportsCompareAlike
  <1>6. e \in CaseEntry /\ ReportsKept(e, reports[ch])
    BY <1>2, <1>4, KeptCase DEF SystemInv, CaseKept
  <1>7. e.reports[j].investigatorId = id
    <2>1. ch \in Existing(challenges)
      BY <1>2 DEF Existing, SystemInv, ChainInv, TypeOK
    <2> QED BY <1>1, <1>3, <1>4, <2>1 DEF LinksInv, ReportsLinked
  <1>8. PICK i : i = FirstSigned(e.reports, id)
    OBVIOUS
  <1>9. i \in 1..Len(reports[ch]) /\ i # 0 /\ e.reports[i].verdict = reports[ch][i].verdict
    <2>1. e.reports \in Seq(ReportEntry) /\ Len(e.reports) = Len(reports[ch])
      BY <1>6 DEF CaseEntry, ReportsKept
    <2>2. i \in 1..Len(reports[ch]) /\ i # 0
      BY <1>3, <1>7, <1>8, <2>1, FirstSignedIsSigned
    <2> QED BY <1>6, <2>2 DEF ReportsKept
  <1>10. Store!Agreement(e.verdict, reports[ch][i].verdict) = OutcomeOf(e.verdict)
    BY <1>2, <1>4, <1>9, ReportsCompareAlike
  <1>11. Compared(e, id) = OutcomeOf(e.verdict)
    BY <1>8, <1>9, <1>10 DEF Compared
  <1> QED BY <1>1, <1>4, <1>5, <1>11

(* Elements that are numbered are as many as their numbers. *)
LEMMA SameCount ==
  ASSUME NEW m \in Nat, NEW L, NEW f, Numbers(f, m, L), NEW A \in SUBSET (1..m), NEW B \in SUBSET L,
         \A i \in 1..m : i \in A <=> f[i] \in B
  PROVE  Cardinality(A) = Cardinality(B)
  <1> DEFINE g == [i \in A |-> f[i]]
  <1>1. /\ f \in [1..m -> L] /\ \A i, j \in 1..m : f[i] = f[j] => i = j
        /\ \A k \in L : \E i \in 1..m : f[i] = k
    BY DEF Numbers
  <1>2. g \in [A -> B] /\ \A i, j \in A : g[i] = g[j] => i = j
    BY <1>1
  <1>3. \A k \in B : \E i \in A : g[i] = k
    BY <1>1
  <1>4. g \in Bijection(A, B)
    <2> HIDE DEF g
    <2> QED BY <1>2, <1>3, Fun_IsBij
  <1>5. IsFiniteSet(A)
    <2>1. IsFiniteSet(1..m)
      BY FS_Interval
    <2> QED BY <2>1, FS_Subset
  <1> QED BY <1>4, <1>5, FS_Bijection DEF ExistsBijection

(***************************************************************************)
(* The record of an identity counts like its links, case by case, so the   *)
(* agreements and open verdicts are as many; nothing is a disagreement.    *)
(***************************************************************************)
LEMMA CalibrationOfIdentity ==
  ASSUME SystemInv, LinksInv, NEW id \in DOMAIN State.investigators
  PROVE  LET outcome(l) ==
               LET i == CHOOSE j \in LinkedReports(l) : TRUE
               IN Store!Agreement(State.challenges[l.challengeId].verdict,
                                  reports[l.challengeId][i].verdict)
             outcomes(o) ==
               Cardinality({k \in 1..Len(links) :
                              links[k].investigatorId = id /\ outcome(links[k]) = o})
             contested ==
               {k \in 1..Len(links) :
                  /\ links[k].investigatorId = id
                  /\ Store!Contested(State.challenges[links[k].challengeId].verdict)}
         IN /\ Store!CalibrationOf(State, id) =
                 [ agreed |-> outcomes("agreed"), disagreed |-> 0, pending |-> outcomes("pending"),
                   contestedInvolvement |-> Cardinality(contested) ]
            /\ outcomes("disagreed") = 0
  <1> DEFINE outcome(l) ==
               LET i == CHOOSE j \in LinkedReports(l) : TRUE
               IN Store!Agreement(State.challenges[l.challengeId].verdict,
                                  reports[l.challengeId][i].verdict)
             linked(o) == {k \in 1..Len(links) : links[k].investigatorId = id /\ outcome(links[k]) = o}
             open(ch) == Store!Contested(State.challenges[ch].verdict)
             contested == {k \in 1..Len(links) : links[k].investigatorId = id /\ open(links[k].challengeId)}
             record == State.investigators[id].linkedReports
             m == Len(record)
             case(ch) == OutcomeOf(indexed.challenges[ch].verdict)
  <1>1. State.challenges = indexed.challenges /\ KeysAdded(indexed, State)
    BY Rebuild DEF SystemInv
  <1>2. id \in Investigators /\ State.investigators[id] \in InvestigatorEntry
    BY <1>1 DEF KeysAdded, StoreTyped
  <1>3. record \in Seq(Challenges)
    BY <1>2 DEF InvestigatorEntry
  <1>4. m \in Nat /\ DOMAIN record = 1..m
    BY <1>3
  <1>5. record = RecordOf(id)
    BY <1>1, <1>2 DEF KeysAdded, LinkedOf, RecordOf, Store!GetInvestigator
  <1>6. PICK f : /\ Numbers(f, m, LinksOf(id))
                 /\ \A i \in 1..m : links[f[i]].challengeId = record[i]
    BY <1>2, <1>5 DEF LinksInv, PairsWithLinks
  <1>7. \A i \in 1..m : /\ f[i] \in 1..Len(links) /\ links[f[i]].investigatorId = id
    BY <1>6 DEF Numbers, LinksOf
  <1>8. ASSUME NEW k \in 1..Len(links), links[k].investigatorId = id
        PROVE  /\ outcome(links[k]) = case(links[k].challengeId)
               /\ Compared(State.challenges[links[k].challengeId], id) = case(links[k].challengeId)
    BY <1>1, <1>8, LinkOutcome
  <1>9. \A ch : case(ch) \in {"agreed", "pending"}
    BY DEF OutcomeOf
  <1> HIDE DEF outcome, record, m, case, open
  <1>10. ASSUME NEW o
         PROVE  Cardinality(Counted(State, id, o)) = Cardinality(linked(o))
    <2>1. Counted(State, id, o) = {i \in 1..m : case(record[i]) = o}
      BY <1>4, <1>6, <1>7, <1>8 DEF Counted, record
    <2>2. linked(o) = {k \in LinksOf(id) : case(links[k].challengeId) = o}
      BY <1>8 DEF LinksOf
    <2> DEFINE A == {i \in 1..m : case(record[i]) = o}
               B == {k \in LinksOf(id) : case(links[k].challengeId) = o}
    <2>3. \A i \in 1..m : i \in A <=> f[i] \in B
      BY <1>6, <1>7 DEF LinksOf
    <2>4. A \in SUBSET (1..m) /\ B \in SUBSET LinksOf(id)
      OBVIOUS
    <2> HIDE DEF A, B
    <2>5. Cardinality(A) = Cardinality(B)
      BY <1>4, <1>6, <2>3, <2>4, SameCount
    <2> QED BY <2>1, <2>2, <2>5 DEF A, B
  <1>14. Cardinality(InContested(State, id)) = Cardinality(contested)
    <2>1. InContested(State, id) = {i \in 1..m : open(record[i])}
      BY <1>4 DEF InContested, record, open
    <2>2. contested = {k \in LinksOf(id) : open(links[k].challengeId)}
      BY DEF LinksOf
    <2> DEFINE A == {i \in 1..m : open(record[i])}
               B == {k \in LinksOf(id) : open(links[k].challengeId)}
    <2>3. \A i \in 1..m : i \in A <=> f[i] \in B
      BY <1>6, <1>7 DEF LinksOf
    <2>4. A \in SUBSET (1..m) /\ B \in SUBSET LinksOf(id)
      OBVIOUS
    <2> HIDE DEF A, B
    <2>5. Cardinality(A) = Cardinality(B)
      BY <1>4, <1>6, <2>3, <2>4, SameCount
    <2> QED BY <2>1, <2>2, <2>5 DEF A, B
  <1>11. linked("disagreed") = {}
    BY <1>8, <1>9
  <1>12. Cardinality(linked("disagreed")) = 0
    <2> HIDE DEF linked
    <2> QED BY <1>11, FS_EmptySet
  <1>13. Store!CalibrationOf(State, id) =
           [ agreed |-> Cardinality(linked("agreed")), disagreed |-> 0,
             pending |-> Cardinality(linked("pending")),
             contestedInvolvement |-> Cardinality(contested) ]
    <2> HIDE DEF linked, contested
    <2> QED BY <1>10, <1>12, <1>14, CalibrationCounts
  <1> QED BY <1>12, <1>13 DEF outcome, open

(***************************************************************************)
(* Calibration counts every linked report as if it had been compared with  *)
(* the final verdict itself, though one report per link is read and keys   *)
(* rotate; and it never counts a disagreement.                             *)
(***************************************************************************)
THEOREM CalibrationIsPerReport == SystemSpec => []CalibrationPerReport
  <1>1. SystemInv /\ LinksInv => CalibrationPerReport
    BY CalibrationOfIdentity DEF CalibrationPerReport
  <1> QED BY <1>1, LinksAlways, PTL

=============================================================================
