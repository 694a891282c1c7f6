--------------------------- MODULE RegistryTheorems ---------------------------
(***************************************************************************)
(* The registry contract, for any sets of claims, challenges and accounts,*)
(* any amounts and any times: the records of cases and claims, the reports *)
(* and tallies of a case, its verdict, its locked evidence, its bond and   *)
(* the balance over all cases, the valid time of claims, and the lifecycle *)
(* of protocol-core, which the contract implements.                        *)
(***************************************************************************)
EXTENDS MCRegistry, RuleTheorems, FunctionTheorems, SequenceTheorems

(***************************************************************************)
(* _expectedStatus always answers a verdict status and _claimStatusFor a   *)
(* claim status.                                                           *)
(***************************************************************************)
LEMMA StatusTypes ==
  /\ \A t : ExpectedStatus(t) \in {"TRUE", "FALSE", "CONTESTED", "INCONCLUSIVE"}
  /\ \A status : ClaimStatusFor(status) \in ClaimStatus
  BY DEF ExpectedStatus, ClaimStatusFor, ClaimStatus

(***************************************************************************)
(* The reporters that refuse their share are some of the reporters.        *)
(***************************************************************************)
LEMMA RefusalBounds ==
  ASSUME TypeOK, NEW ch \in Challenges, NEW refusing
  PROVE  /\ Len(investigatorsOf[ch]) \in Nat
         /\ IsFiniteSet(Refusals(ch, refusing))
         /\ Cardinality(Refusals(ch, refusing)) \in 0..Len(investigatorsOf[ch])
  <1> DEFINE n == Len(investigatorsOf[ch])
  <1>1. n \in Nat
    BY DEF TypeOK
  <1>2. IsFiniteSet(1..n) /\ Cardinality(1..n) = n
    BY <1>1, FS_Interval
  <1>3. Refusals(ch, refusing) \in SUBSET (1..n)
    BY DEF Refusals
  <1>4. /\ IsFiniteSet(Refusals(ch, refusing))
        /\ Cardinality(Refusals(ch, refusing)) <= n
    BY <1>2, <1>3, FS_Subset
  <1>5. Cardinality(Refusals(ch, refusing)) \in Nat
    BY <1>4, FS_CardinalityType
  <1> QED BY <1>1, <1>4, <1>5

(***************************************************************************)
(* The amounts of a settlement are natural numbers that add up to the bond.*)
(***************************************************************************)
LEMMA SettlementAmounts ==
  ASSUME TypeOK, NEW ch \in Challenges, NEW status, NEW refusing
  PROVE  LET s == SettlementOf(ch, status, refusing)
             accepting == Len(investigatorsOf[ch]) - Cardinality(Refusals(ch, refusing))
         IN /\ s.share \in Nat
            /\ s.refund \in Nat
            /\ s.retained \in Nat
            /\ s.share * accepting \in Nat
            /\ s.share * accepting + s.refund + s.retained = challenges[ch].bond
  <1>1. challenges[ch].bond \in Nat
    BY DEF TypeOK, ChallengeRecord
  <1> QED BY <1>1, RefusalBounds, SettlementConservesBond DEF SettlementOf

-----------------------------------------------------------------------------
(***************************************************************************)
(* Type correctness.                                                       *)
(***************************************************************************)
LEMMA TypeInit == Init => TypeOK
  BY DEF Init, TypeOK, ClaimRecord, ClaimStatus, ChallengeRecord, ChallengeType, ChallengeState,
         VerdictRecord, VerdictStatus, Tally, EmptyTally, LedgerEntry, Subjects

(***************************************************************************)
(* Changing the fields of a record that change keeps its type.             *)
(***************************************************************************)
LEMMA RecordTypes ==
  /\ \A c \in ClaimRecord, status \in ClaimStatus : WithStatus(c, status) \in ClaimRecord
  /\ \A c \in ChallengeRecord, bond \in Nat, root \in Roots \cup {None}, state \in ChallengeState :
       /\ Progressed(c, bond, root, state) \in ChallengeRecord
       /\ Progressed(c, bond, root, state).claimId = c.claimId
       /\ Progressed(c, bond, root, state).exists = c.exists
  BY DEF WithStatus, ClaimRecord, Progressed, ChallengeRecord

(***************************************************************************)
(* A challenge record always has its type, claim ids where it exists.      *)
(***************************************************************************)
ChallengesTyped ==
  /\ challenges \in [Challenges -> ChallengeRecord]
  /\ \A ch \in Challenges : challenges[ch].exists => challenges[ch].claimId \in Claims

(* A case that progressed is typed like the one before. *)
LEMMA ProgressTyped ==
  ASSUME TypeOK, NEW ch \in Challenges, NEW bond \in Nat, NEW root \in Roots \cup {None},
         NEW state \in ChallengeState,
         challenges' = [challenges EXCEPT ![ch] = Progressed(@, bond, root, state)]
  PROVE  ChallengesTyped'
  <1> DEFINE c == Progressed(challenges[ch], bond, root, state)
  <1>1. challenges[ch] \in ChallengeRecord
    BY DEF TypeOK
  <1>2. /\ c \in ChallengeRecord
        /\ c.claimId = challenges[ch].claimId
        /\ c.exists = challenges[ch].exists
    BY <1>1, RecordTypes
  <1> HIDE DEF c
  <1>3. challenges' = [challenges EXCEPT ![ch] = c]
    BY DEF c
  <1> QED BY <1>2, <1>3 DEF TypeOK, ChallengesTyped

(***************************************************************************)
(* A claim that gets a new status stays a claim.                           *)
(***************************************************************************)
LEMMA StatusTyped ==
  ASSUME TypeOK, NEW cl \in Claims, NEW status \in ClaimStatus,
         claims' = [claims EXCEPT ![cl] = WithStatus(@, status)]
  PROVE  claims' \in [Claims -> ClaimRecord]
  <1> DEFINE c == WithStatus(claims[cl], status)
  <1>1. claims[cl] \in ClaimRecord
    BY DEF TypeOK
  <1>2. c \in ClaimRecord
    BY <1>1, RecordTypes
  <1> HIDE DEF c
  <1>3. claims' = [claims EXCEPT ![cl] = c]
    BY DEF c
  <1> QED BY <1>2, <1>3 DEF TypeOK

(* Every operation keeps the types. *)
LEMMA TypeStep == TypeOK /\ [Next]_vars => TypeOK'
  <1> SUFFICES ASSUME TypeOK, [Next]_vars PROVE TypeOK'
    OBVIOUS
  <1> USE DEF TypeOK
  <1>1. CASE Tick
    BY <1>1 DEF Tick, claimVars, caseVars, evidenceVars, reportVars, moneyVars
  <1>2. ASSUME NEW cl \in Claims, CreateClaim(cl) PROVE TypeOK'
    <2>1. claims' \in [Claims -> ClaimRecord]
      BY <1>2 DEF CreateClaim, ClaimRecord, ClaimStatus
    <2> QED BY <1>2, <2>1 DEF CreateClaim, caseVars, evidenceVars, reportVars, moneyVars
  <1>3. ASSUME NEW clA \in Claims, NEW clB \in Claims, NEW relation \in RelationshipType,
               RecordRelationship(clA, clB, relation)
        PROVE  TypeOK'
    <2>1. claims' \in [Claims -> ClaimRecord]
      <3> DEFINE c == [status |-> "SUPERSEDED", validUntil |-> now, exists |-> TRUE]
      <3>1. c \in ClaimRecord
        BY DEF ClaimRecord, ClaimStatus
      <3>2. claims' = claims \/ claims' = [claims EXCEPT ![clA] = c]
        BY <1>3 DEF RecordRelationship, claimVars
      <3> HIDE DEF c
      <3> QED BY <3>1, <3>2
    <2>2. supersededBy' \in [Claims -> Claims \cup {None}]
      BY <1>3 DEF RecordRelationship, claimVars
    <2> QED BY <1>3, <2>1, <2>2 DEF RecordRelationship, caseVars, evidenceVars, reportVars, moneyVars
  <1>4. ASSUME NEW s \in Subjects, NEW e \in EvidenceIds, SubmitEvidence(s, e) PROVE TypeOK'
    BY <1>4 DEF SubmitEvidence, claimVars, caseVars, reportVars, moneyVars
  <1>5. ASSUME NEW s \in Subjects, NEW root \in Roots, LockEvidence(s, root) PROVE TypeOK'
    <2>1. CASE s \in Challenges /\ challenges[s].exists
      <3>1. claims' \in [Claims -> ClaimRecord]
        BY <1>5, <2>1, StatusTyped DEF LockEvidence, ClaimStatus
      <3>2. challenges[s].bond \in Nat
        BY <2>1 DEF ChallengeRecord
      <3>3. ChallengesTyped'
        BY <1>5, <2>1, <3>2, ProgressTyped DEF LockEvidence, ChallengeState
      <3> QED BY <1>5, <3>1, <3>3 DEF LockEvidence, ChallengesTyped, reportVars, moneyVars
    <2>2. CASE ~(s \in Challenges /\ challenges[s].exists)
      BY <1>5, <2>2 DEF LockEvidence, reportVars, moneyVars
    <2> QED BY <2>1, <2>2
  <1>6. ASSUME NEW ch \in Challenges, NEW cl \in Claims, NEW a \in Accounts,
               NEW type \in ChallengeType, NEW v \in Nat, NEW closesAt \in Nat,
               OpenCase(ch, cl, a, type, v, closesAt)
        PROVE  TypeOK'
    <2>1. claims' \in [Claims -> ClaimRecord]
      BY <1>6, StatusTyped DEF OpenCase, ClaimStatus
    <2>2. ChallengesTyped'
      <3> DEFINE c == [ claimId |-> cl, challengeType |-> type, challenger |-> a, bond |-> v,
                        windowCloseAt |-> closesAt, evidenceRoot |-> None, state |-> "OPEN",
                        exists |-> TRUE ]
      <3>1. c \in ChallengeRecord /\ c.claimId \in Claims
        BY DEF ChallengeRecord, ChallengeState
      <3>2. challenges' = [challenges EXCEPT ![ch] = c]
        BY <1>6 DEF OpenCase
      <3> HIDE DEF c
      <3> QED BY <3>1, <3>2 DEF ChallengesTyped
    <2>3. ledger' \in [Challenges -> LedgerEntry]
      BY <1>6 DEF OpenCase, LedgerEntry
    <2> QED BY <1>6, <2>1, <2>2, <2>3 DEF OpenCase, ChallengesTyped, evidenceVars, reportVars
  <1>7. ASSUME NEW ch \in Challenges, NEW cl \in Claims, NEW a \in Accounts,
               NEW type \in ChallengeType, NEW v \in Amounts, OpenChallenge(ch, cl, a, type, v)
        PROVE  TypeOK'
    <2>1. v \in Nat /\ now + DEFAULT_CHALLENGE_WINDOW \in Nat
      BY ConstantsAssumption
    <2> QED BY <1>6, <1>7, <2>1 DEF OpenChallenge
  <1>8. ASSUME NEW ch \in Challenges, NEW cl \in Claims, NEW a \in Accounts, NEW v \in Amounts,
               RequestVerification(ch, cl, a, v)
        PROVE  TypeOK'
    <2>1. v \in Nat /\ now \in Nat /\ "VERIFICATION_REQUEST" \in ChallengeType
      BY ConstantsAssumption DEF ChallengeType
    <2> QED BY <1>6, <1>8, <2>1 DEF RequestVerification
  <1>9. ASSUME NEW ch \in Challenges, BeginInvestigation(ch) PROVE TypeOK'
    <2>1. claims' \in [Claims -> ClaimRecord]
      BY <1>9, StatusTyped DEF BeginInvestigation, ReadyToInvestigate, ClaimStatus
    <2>2. challenges[ch].bond \in Nat /\ challenges[ch].evidenceRoot \in Roots \cup {None}
      BY DEF ChallengeRecord
    <2>3. ChallengesTyped'
      BY <1>9, <2>2, ProgressTyped DEF BeginInvestigation, ChallengeState
    <2> QED BY <1>9, <2>1, <2>3 DEF BeginInvestigation, ChallengesTyped, evidenceVars, reportVars, moneyVars
  <1>10. ASSUME NEW ch \in Challenges, NEW a \in Accounts, NEW v \in Verdicts,
                NEW bundle \in Roots, SubmitReport(ch, a, v, bundle)
         PROVE  TypeOK'
    <2>1. tally' \in [Challenges -> Tally]
      <3>1. Count(tally[ch], v) \in Tally
        BY DEF Count, Tally
      <3> QED BY <1>10, <3>1 DEF SubmitReport
    <2>2. reports' \in [Challenges -> Seq(Report)]
      <3>1. [investigator |-> a, verdict |-> v, evidenceBundleHash |-> bundle] \in Report
        BY DEF Report
      <3> QED BY <1>10, <3>1 DEF SubmitReport
    <2> QED BY <1>10, <2>1, <2>2 DEF SubmitReport, claimVars, caseVars, evidenceVars, moneyVars
  <1>11. ASSUME NEW ch \in Challenges, NEW status \in VerdictStatus, NEW refusing,
                Resolve(ch, status, refusing)
         PROVE  TypeOK'
    <2> DEFINE s == SettlementOf(ch, status, refusing)
    <2>1. s.share \in Nat /\ s.refund \in Nat /\ Outflow(ch, s, refusing) \in Int
      BY SettlementAmounts DEF Outflow
    <2> HIDE DEF s
    <2>2. claims' \in [Claims -> ClaimRecord]
      BY <1>11, StatusTypes, StatusTyped DEF Resolve, Resolvable
    <2>3. ChallengesTyped'
      <3>1. challenges[ch].evidenceRoot \in Roots \cup {None}
        BY DEF ChallengeRecord
      <3> QED BY <1>11, <3>1, ProgressTyped DEF Resolve, BondAfter, ChallengeState
    <2>4. verdicts' \in [Challenges -> VerdictRecord]
      BY <1>11 DEF Resolve, VerdictRecord
    <2>5. balance' \in Int
      BY <1>11, <2>1 DEF Resolve, s
    <2>6. ledger' \in [Challenges -> LedgerEntry]
      <3>1. ledger' = [ledger EXCEPT ![ch] =
              [ deposit |-> @.deposit, share |-> s.share,
                paid |-> IF s.share > 0 THEN hasReported[ch] \ refusing ELSE {},
                refund |-> s.refund ]]
        BY <1>11 DEF Resolve, s
      <3> QED BY <2>1, <3>1 DEF LedgerEntry
    <2> QED BY <1>11, <2>2, <2>3, <2>4, <2>5, <2>6 DEF Resolve, ChallengesTyped, evidenceVars, reportVars
  <1>12. ASSUME NEW ch \in Challenges, FileAppeal(ch) PROVE TypeOK'
    <2>1. ChallengesTyped'
      <3>1. challenges[ch].bond \in Nat /\ challenges[ch].evidenceRoot \in Roots \cup {None}
        BY DEF ChallengeRecord
      <3> QED BY <1>12, <3>1, ProgressTyped DEF FileAppeal, ChallengeState
    <2>2. appeals' \in Seq(AppealRecord)
      BY <1>12 DEF FileAppeal, AppealRecord
    <2> QED BY <1>12, <2>1, <2>2 DEF FileAppeal, ChallengesTyped, claimVars, evidenceVars, reportVars, moneyVars
  <1>13. ASSUME NEW i \in 1..Len(appeals), ResolveAppeal(i) PROVE TypeOK'
    <2> DEFINE a == [challengeId |-> appeals[i].challengeId, resolved |-> TRUE]
    <2>1. a \in AppealRecord
      <3>1. appeals[i] \in AppealRecord
        BY ElementOfSeq
      <3> QED BY <3>1 DEF AppealRecord
    <2>2. appeals' = [appeals EXCEPT ![i] = a]
      BY <1>13 DEF ResolveAppeal
    <2> HIDE DEF a
    <2>3. appeals' \in Seq(AppealRecord)
      BY <2>1, <2>2, ExceptSeq
    <2> QED BY <1>13, <2>3 DEF ResolveAppeal, claimVars, evidenceVars, reportVars, moneyVars
  <1>14. CASE UNCHANGED vars
    BY <1>14 DEF vars, claimVars, caseVars, evidenceVars, reportVars, moneyVars
  <1> QED
    BY <1>1, <1>2, <1>3, <1>4, <1>5, <1>7, <1>8, <1>9, <1>10, <1>11, <1>12, <1>13, <1>14 DEF Next

(***************************************************************************)
(* Every reachable state of the contract is well typed; in particular the  *)
(* amounts a settlement pays are never negative.                           *)
(***************************************************************************)
THEOREM TypeCorrect == Spec => []TypeOK
  BY TypeInit, TypeStep, PTL DEF Spec

-----------------------------------------------------------------------------
(***************************************************************************)
(* Claims and cases.  That statuses agree is inductive only together with  *)
(* there being one case per claim (two cases could overwrite each other's  *)
(* status) and with what makes an unopened case look undecided.            *)
(***************************************************************************)
VerdictIffDecided ==
  \A ch \in Challenges :
    /\ verdicts[ch].exists <=> challenges[ch].exists /\ Decided(ch)
    /\ ~challenges[ch].exists => challenges[ch].state = "OPEN"

CaseInv == StatusesAgree /\ OneCasePerClaim /\ VerdictIffDecided

(* No case is open at first. *)
LEMMA CaseInit == Init => CaseInv
  BY DEF Init, CaseInv, StatusesAgree, OneCasePerClaim, VerdictIffDecided, Decided

(***************************************************************************)
(* An existing case moves on and takes its claim along: if the new status  *)
(* is the one that goes with the new state, every case still agrees with   *)
(* its claim, because no other case is about that claim.                   *)
(***************************************************************************)
LEMMA CaseMoves ==
  ASSUME TypeOK, CaseInv, NEW ch \in Challenges, challenges[ch].exists,
         NEW bond \in Nat, NEW root \in Roots \cup {None}, NEW state \in ChallengeState,
         NEW status \in ClaimStatus,
         challenges' = [challenges EXCEPT ![ch] = Progressed(@, bond, root, state)],
         claims' = [claims EXCEPT ![challenges[ch].claimId] = WithStatus(@, status)],
         \A x \in Challenges \ {ch} : verdicts'[x] = verdicts[x],
         status = StatusDuring(ch)'
  PROVE  StatusesAgree' /\ OneCasePerClaim'
  <1> DEFINE cl == challenges[ch].claimId
  <1>1. cl \in Claims
    BY DEF TypeOK
  <1>2. /\ challenges'[ch].claimId = cl
        /\ \A x \in Challenges : /\ challenges'[x].claimId = challenges[x].claimId
                                 /\ challenges'[x].exists = challenges[x].exists
        /\ \A x \in Challenges \ {ch} : challenges'[x] = challenges[x]
    BY DEF TypeOK, Progressed
  <1>3. /\ claims'[cl].exists = claims[cl].exists
        /\ claims'[cl].status = status
        /\ \A y \in Claims \ {cl} : claims'[y] = claims[y]
    BY <1>1 DEF TypeOK, WithStatus
  <1>4. OneCasePerClaim'
    BY <1>2 DEF CaseInv, OneCasePerClaim
  <1>5. Agrees(ch)'
    BY <1>2, <1>3 DEF CaseInv, StatusesAgree, Agrees
  <1>6. ASSUME NEW x \in Challenges, x # ch, challenges[x].exists
        PROVE  Agrees(x)'
    <2>1. challenges[x].claimId \in Claims /\ challenges[x].claimId # cl
      BY <1>6 DEF TypeOK, CaseInv, OneCasePerClaim
    <2>2. /\ challenges'[x] = challenges[x]
          /\ verdicts'[x] = verdicts[x]
          /\ claims'[challenges[x].claimId] = claims[challenges[x].claimId]
      BY <1>2, <1>3, <1>6, <2>1
    <2>3. Agrees(x)
      BY <1>6 DEF CaseInv, StatusesAgree
    <2> QED BY <2>2, <2>3 DEF Agrees, StatusDuring, Decided
  <1> QED
    BY <1>2, <1>4, <1>5, <1>6 DEF StatusesAgree

(* Every operation keeps what relates a case to its claim. *)
LEMMA CaseStep == TypeOK /\ CaseInv /\ [Next]_vars => CaseInv'
  <1> SUFFICES ASSUME TypeOK, CaseInv, [Next]_vars PROVE CaseInv'
    OBVIOUS
  <1>1. ASSUME UNCHANGED <<claims, challenges, verdicts>> PROVE CaseInv'
    BY <1>1 DEF CaseInv, StatusesAgree, Agrees, StatusDuring, OneCasePerClaim, VerdictIffDecided,
                Decided
  <1>2. ASSUME NEW cl \in Claims, CreateClaim(cl) PROVE CaseInv'
    <2>1. /\ challenges' = challenges /\ verdicts' = verdicts
          /\ \A y \in Claims \ {cl} : claims'[y] = claims[y]
      BY <1>2 DEF CreateClaim, caseVars, TypeOK
    <2>2. ASSUME NEW x \in Challenges, challenges[x].exists PROVE Agrees(x)'
      <3>1. Agrees(x)
        BY <2>2 DEF CaseInv, StatusesAgree
      <3>2. challenges[x].claimId \in Claims \ {cl}
        BY <1>2, <2>2, <3>1 DEF CreateClaim, TypeOK, Agrees
      <3> QED BY <2>1, <3>1, <3>2 DEF Agrees, StatusDuring, Decided
    <2> QED
      BY <2>1, <2>2 DEF CaseInv, StatusesAgree, OneCasePerClaim, VerdictIffDecided, Decided
  <1>3. ASSUME NEW clA \in Claims, NEW clB \in Claims, NEW relation \in RelationshipType,
               RecordRelationship(clA, clB, relation)
        PROVE  CaseInv'
    <2>1. CASE relation = "SUPERSEDES" /\ Supersedable(clA)
      <3>1. /\ challenges' = challenges /\ verdicts' = verdicts
            /\ claims'[clA].exists /\ claims'[clA].status = "SUPERSEDED"
            /\ \A y \in Claims \ {clA} : claims'[y] = claims[y]
        BY <1>3, <2>1 DEF RecordRelationship, caseVars, TypeOK
      <3>2. ASSUME NEW x \in Challenges, challenges[x].exists PROVE Agrees(x)'
        <4>1. Agrees(x) /\ challenges[x].claimId \in Claims
          BY <3>2 DEF CaseInv, StatusesAgree, TypeOK
        <4>2. StatusDuring(x)' = StatusDuring(x)
          BY <3>1 DEF StatusDuring, Decided
        <4>3. StatusDuring(x) # "OPEN"
          BY DEF StatusDuring, Decided, ClaimStatusFor
        <4>4. CASE challenges[x].claimId = clA
          <5>1. StatusDuring(x) = "TRUE"
            BY <2>1, <4>1, <4>3, <4>4 DEF Agrees, Supersedable
          <5> QED BY <3>1, <4>2, <4>4, <5>1 DEF Agrees
        <4>5. CASE challenges[x].claimId # clA
          BY <3>1, <4>1, <4>2, <4>5 DEF Agrees
        <4> QED BY <4>4, <4>5
      <3> QED
        BY <3>1, <3>2 DEF CaseInv, StatusesAgree, OneCasePerClaim, VerdictIffDecided, Decided
    <2>2. CASE ~(relation = "SUPERSEDES" /\ Supersedable(clA))
      BY <1>1, <1>3, <2>2 DEF RecordRelationship, caseVars, claimVars
    <2> QED BY <2>1, <2>2
  <1>4. ASSUME NEW s \in Subjects, NEW root \in Roots, LockEvidence(s, root) PROVE CaseInv'
    <2>1. CASE s \in Challenges /\ challenges[s].exists
      <3>1. challenges[s].bond \in Nat /\ verdicts' = verdicts
        BY <1>4, <2>1 DEF LockEvidence, TypeOK, ChallengeRecord
      <3>2. /\ challenges[s].state = "OPEN"
            /\ challenges' = [challenges EXCEPT ![s] =
                 Progressed(@, challenges[s].bond, root, "EVIDENCE_LOCKED")]
            /\ claims' = [claims EXCEPT ![challenges[s].claimId] = WithStatus(@, "EVIDENCE_LOCKED")]
        BY <1>4, <2>1 DEF LockEvidence
      <3>3. /\ challenges'[s].state = "EVIDENCE_LOCKED" /\ challenges'[s].exists
            /\ \A x \in Challenges \ {s} : challenges'[x] = challenges[x]
        BY <2>1, <3>2 DEF Progressed, TypeOK
      <3>4. StatusesAgree' /\ OneCasePerClaim'
        <4>1. StatusDuring(s)' = "EVIDENCE_LOCKED"
          BY <3>3 DEF StatusDuring, Decided
        <4>2. "EVIDENCE_LOCKED" \in ChallengeState /\ "EVIDENCE_LOCKED" \in ClaimStatus
          BY DEF ChallengeState, ClaimStatus
        <4> QED BY <2>1, <3>1, <3>2, <4>1, <4>2, CaseMoves
      <3>5. VerdictIffDecided'
        BY <2>1, <3>1, <3>2, <3>3 DEF CaseInv, VerdictIffDecided, Decided
      <3> QED BY <3>4, <3>5 DEF CaseInv
    <2>2. CASE ~(s \in Challenges /\ challenges[s].exists)
      BY <1>1, <1>4, <2>2 DEF LockEvidence
    <2> QED BY <2>1, <2>2
  <1>5. ASSUME NEW ch \in Challenges, NEW cl \in Claims, NEW a, NEW type, NEW v, NEW closesAt,
               Challengeable(cl), OpenCase(ch, cl, a, type, v, closesAt)
        PROVE  CaseInv'
    <2>1. /\ ~challenges[ch].exists /\ verdicts' = verdicts
          /\ challenges'[ch].exists /\ challenges'[ch].claimId = cl
          /\ challenges'[ch].state = "OPEN"
          /\ \A x \in Challenges \ {ch} : challenges'[x] = challenges[x]
      BY <1>5 DEF OpenCase, TypeOK
    <2>2. /\ claims[cl].exists /\ claims[cl].status = "OPEN"
          /\ claims'[cl].exists /\ claims'[cl].status = "CHALLENGED"
          /\ \A y \in Claims \ {cl} : claims'[y] = claims[y]
      BY <1>5 DEF OpenCase, Challengeable, WithStatus, TypeOK
    <2>3. ASSUME NEW x \in Challenges, x # ch, challenges[x].exists
          PROVE  challenges[x].claimId \in Claims \ {cl} /\ Agrees(x)'
      <3>1. Agrees(x) /\ challenges[x].claimId \in Claims
        BY <2>3 DEF CaseInv, StatusesAgree, TypeOK
      <3>2. StatusDuring(x) # "OPEN"
        BY DEF StatusDuring, Decided, ClaimStatusFor
      <3>3. challenges[x].claimId # cl
        BY <2>2, <3>1, <3>2 DEF Agrees
      <3> QED BY <2>1, <2>2, <2>3, <3>1, <3>3 DEF Agrees, StatusDuring, Decided
    <2>4. Agrees(ch)'
      BY <2>1, <2>2 DEF Agrees, StatusDuring
    <2>5. StatusesAgree'
      BY <2>1, <2>3, <2>4 DEF StatusesAgree
    <2>6. OneCasePerClaim'
      BY <2>1, <2>3 DEF CaseInv, OneCasePerClaim
    <2>7. VerdictIffDecided'
      BY <2>1 DEF CaseInv, VerdictIffDecided, Decided
    <2> QED BY <2>5, <2>6, <2>7 DEF CaseInv
  <1>6. ASSUME NEW ch \in Challenges, BeginInvestigation(ch) PROVE CaseInv'
    <2>1. /\ challenges[ch].exists /\ challenges[ch].state = "EVIDENCE_LOCKED"
          /\ challenges[ch].bond \in Nat /\ challenges[ch].evidenceRoot \in Roots \cup {None}
          /\ verdicts' = verdicts
      BY <1>6 DEF BeginInvestigation, ReadyToInvestigate, TypeOK, ChallengeRecord
    <2>2. /\ challenges' = [challenges EXCEPT ![ch] =
               Progressed(@, challenges[ch].bond, challenges[ch].evidenceRoot, "INVESTIGATING")]
          /\ claims' = [claims EXCEPT ![challenges[ch].claimId] = WithStatus(@, "INVESTIGATING")]
      BY <1>6 DEF BeginInvestigation
    <2>3. /\ challenges'[ch].state = "INVESTIGATING" /\ challenges'[ch].exists
          /\ \A x \in Challenges \ {ch} : challenges'[x] = challenges[x]
      BY <2>1, <2>2 DEF Progressed, TypeOK
    <2>4. StatusesAgree' /\ OneCasePerClaim'
      <3>1. StatusDuring(ch)' = "INVESTIGATING"
        BY <2>3 DEF StatusDuring, Decided
      <3>2. "INVESTIGATING" \in ChallengeState /\ "INVESTIGATING" \in ClaimStatus
        BY DEF ChallengeState, ClaimStatus
      <3> QED BY <2>1, <2>2, <3>1, <3>2, CaseMoves
    <2>5. VerdictIffDecided'
      BY <2>1, <2>3 DEF CaseInv, VerdictIffDecided, Decided
    <2> QED BY <2>4, <2>5 DEF CaseInv
  <1>7. ASSUME NEW ch \in Challenges, NEW status \in VerdictStatus, NEW refusing,
               Resolve(ch, status, refusing)
        PROVE  CaseInv'
    <2>1. /\ challenges[ch].exists /\ challenges[ch].state = "INVESTIGATING"
          /\ challenges[ch].evidenceRoot \in Roots \cup {None}
      BY <1>7 DEF Resolve, Resolvable, TypeOK, ChallengeRecord
    <2>2. /\ challenges' = [challenges EXCEPT ![ch] =
               Progressed(@, 0, challenges[ch].evidenceRoot, "RESOLVED")]
          /\ claims' = [claims EXCEPT ![challenges[ch].claimId] =
               WithStatus(@, ClaimStatusFor(status))]
      BY <1>7 DEF Resolve, BondAfter
    <2>3. /\ challenges'[ch].state = "RESOLVED" /\ challenges'[ch].exists
          /\ \A x \in Challenges \ {ch} : challenges'[x] = challenges[x]
      BY <2>1, <2>2 DEF Progressed, TypeOK
    <2>4. /\ verdicts'[ch].exists /\ verdicts'[ch].status = status
          /\ \A x \in Challenges \ {ch} : verdicts'[x] = verdicts[x]
      BY <1>7 DEF Resolve, TypeOK
    <2>5. StatusesAgree' /\ OneCasePerClaim'
      <3>1. StatusDuring(ch)' = ClaimStatusFor(status)
        BY <2>3, <2>4 DEF StatusDuring, Decided
      <3>2. 0 \in Nat /\ "RESOLVED" \in ChallengeState /\ ClaimStatusFor(status) \in ClaimStatus
        BY StatusTypes DEF ChallengeState
      <3> QED BY <2>1, <2>2, <2>4, <3>1, <3>2, CaseMoves
    <2>6. VerdictIffDecided'
      BY <2>1, <2>3, <2>4 DEF CaseInv, VerdictIffDecided, Decided
    <2> QED BY <2>5, <2>6 DEF CaseInv
  <1>8. ASSUME NEW ch \in Challenges, FileAppeal(ch) PROVE CaseInv'
    <2>1. /\ challenges[ch].exists /\ challenges[ch].state = "RESOLVED"
          /\ claims' = claims /\ verdicts' = verdicts
      BY <1>8 DEF FileAppeal, Appealable, claimVars
    <2>2. /\ challenges'[ch].state = "APPEALED"
          /\ \A x \in Challenges : /\ challenges'[x].exists = challenges[x].exists
                                   /\ challenges'[x].claimId = challenges[x].claimId
          /\ \A x \in Challenges \ {ch} : challenges'[x] = challenges[x]
      BY <1>8 DEF FileAppeal, Progressed, TypeOK
    <2>3. \A x \in Challenges : StatusDuring(x)' = StatusDuring(x)
      BY <2>1, <2>2 DEF StatusDuring, Decided
    <2>4. StatusesAgree' /\ OneCasePerClaim'
      BY <2>1, <2>2, <2>3 DEF CaseInv, StatusesAgree, Agrees, OneCasePerClaim
    <2>5. VerdictIffDecided'
      BY <2>1, <2>2 DEF CaseInv, VerdictIffDecided, Decided
    <2> QED BY <2>4, <2>5 DEF CaseInv
  <1>9. ASSUME \/ Tick
               \/ \E s \in Subjects, e \in EvidenceIds : SubmitEvidence(s, e)
               \/ \E ch \in Challenges, a \in Accounts, v \in Verdicts, bundle \in Roots :
                    SubmitReport(ch, a, v, bundle)
               \/ \E i \in 1..Len(appeals) : ResolveAppeal(i)
               \/ UNCHANGED vars
        PROVE  CaseInv'
    <2>1. UNCHANGED <<claims, challenges, verdicts>>
      BY <1>9 DEF Tick, SubmitEvidence, SubmitReport, ResolveAppeal, vars, claimVars, caseVars
    <2> QED BY <1>1, <2>1
  <1>10. ASSUME NEW ch \in Challenges, NEW cl \in Claims, NEW a \in Accounts,
                NEW type \in ChallengeType, NEW v \in Amounts, OpenChallenge(ch, cl, a, type, v)
         PROVE  CaseInv'
    BY <1>5, <1>10 DEF OpenChallenge
  <1>11. ASSUME NEW ch \in Challenges, NEW cl \in Claims, NEW a \in Accounts, NEW v \in Amounts,
                RequestVerification(ch, cl, a, v)
         PROVE  CaseInv'
    BY <1>5, <1>11 DEF RequestVerification
  <1> QED
    BY <1>2, <1>3, <1>4, <1>6, <1>7, <1>8, <1>9, <1>10, <1>11 DEF Next

(***************************************************************************)
(* In every reachable state the status of a claim mirrors the state of the *)
(* case about it.                                                          *)
(***************************************************************************)
THEOREM CasesAndClaimsAgree == Spec => []StatusesAgree
  <1>1. Init => TypeOK /\ CaseInv
    BY TypeInit, CaseInit
  <1>2. (TypeOK /\ CaseInv) /\ [Next]_vars => (TypeOK /\ CaseInv)'
    BY TypeStep, CaseStep
  <1>3. TypeOK /\ CaseInv => StatusesAgree
    BY DEF CaseInv
  <1> QED BY <1>1, <1>2, <1>3, PTL DEF Spec

(***************************************************************************)
(* No claim is ever the subject of two cases.                              *)
(***************************************************************************)
THEOREM AtMostOneCase == Spec => []OneCasePerClaim
  <1>1. Init => TypeOK /\ CaseInv
    BY TypeInit, CaseInit
  <1>2. (TypeOK /\ CaseInv) /\ [Next]_vars => (TypeOK /\ CaseInv)'
    BY TypeStep, CaseStep
  <1>3. TypeOK /\ CaseInv => OneCasePerClaim
    BY DEF CaseInv
  <1> QED BY <1>1, <1>2, <1>3, PTL DEF Spec

-----------------------------------------------------------------------------
(***************************************************************************)
(* Which calls change what.  Only submitReport touches the reports of a    *)
(* case and what is counted of them.                                       *)
(***************************************************************************)
LEMMA OnlySubmitReportReports ==
  ASSUME [Next]_vars
  PROVE  \/ UNCHANGED reportVars
         \/ \E ch \in Challenges, a \in Accounts, v \in Verdicts, bundle \in Roots :
              SubmitReport(ch, a, v, bundle)
  BY DEF Next, vars, Tick, CreateClaim, RecordRelationship, SubmitEvidence, LockEvidence,
         OpenChallenge, RequestVerification, OpenCase, BeginInvestigation, Resolve, FileAppeal,
         ResolveAppeal

(***************************************************************************)
(* Only resolve writes a verdict.                                          *)
(***************************************************************************)
LEMMA OnlyResolveDecides ==
  ASSUME [Next]_vars
  PROVE  \/ UNCHANGED verdicts
         \/ \E ch \in Challenges, status \in VerdictStatus, refusing \in SUBSET Contracts :
              Resolve(ch, status, refusing)
  BY DEF Next, vars, caseVars, Tick, CreateClaim, RecordRelationship, SubmitEvidence,
         LockEvidence, OpenChallenge, RequestVerification, OpenCase, BeginInvestigation,
         SubmitReport, FileAppeal, ResolveAppeal

(***************************************************************************)
(* Only opening a case and resolving it move money.                        *)
(***************************************************************************)
LEMMA OnlyOpeningAndResolvingPay ==
  ASSUME [Next]_vars
  PROVE  \/ UNCHANGED moneyVars
         \/ \E ch \in Challenges, cl \in Claims, a \in Accounts, type \in ChallengeType,
               v \in Amounts : \E closesAt : OpenCase(ch, cl, a, type, v, closesAt)
         \/ \E ch \in Challenges, status \in VerdictStatus, refusing \in SUBSET Contracts :
              Resolve(ch, status, refusing)
  BY DEF Next, vars, Tick, CreateClaim, RecordRelationship, SubmitEvidence,
         LockEvidence, OpenChallenge, RequestVerification, BeginInvestigation,
         SubmitReport, FileAppeal, ResolveAppeal, ChallengeType

-----------------------------------------------------------------------------
(***************************************************************************)
(* Reports and tallies.                                                    *)
(***************************************************************************)
LEMMA TalliesInit == Init => TalliesMatchReports
  <1> SUFFICES ASSUME Init, NEW ch \in Challenges
               PROVE  /\ tally[ch] = TallyOf(reports[ch])
                      /\ Len(investigatorsOf[ch]) = Len(reports[ch])
                      /\ hasReported[ch] = {}
                      /\ Len(reports[ch]) = 0
    BY DEF Init, TalliesMatchReports
  <1>1. reports[ch] = <<>> /\ investigatorsOf[ch] = <<>> /\ hasReported[ch] = {}
        /\ tally[ch] = EmptyTally
    BY DEF Init
  <1>2. \A v : Voting(reports[ch], v) = {}
    BY <1>1 DEF Voting
  <1> QED BY <1>1, <1>2, FS_EmptySet DEF TallyOf, EmptyTally

(***************************************************************************)
(* The tally of one more report is the tally that submitReport counts.     *)
(***************************************************************************)
LEMMA CountIsTally ==
  ASSUME NEW rs \in Seq(Report), NEW r \in Report
  PROVE  Count(TallyOf(rs), r.verdict) = TallyOf(Append(rs, r))
  <1>1. Len(Append(rs, r)) = Len(rs) + 1
    OBVIOUS
  <1>2. \A v : Cardinality(Voting(Append(rs, r), v)) =
                 Cardinality(Voting(rs, v)) + (IF r.verdict = v THEN 1 ELSE 0)
    BY VotingOfAppend
  <1> QED BY <1>1, <1>2 DEF Count, TallyOf

(* A step adds at most one report, by an account that had not reported. *)
LEMMA TalliesStep ==
  ASSUME TypeOK, TalliesMatchReports, [Next]_vars
  PROVE  TalliesMatchReports'
  <1>1. CASE UNCHANGED reportVars
    BY <1>1 DEF TalliesMatchReports, reportVars
  <1>2. ASSUME NEW ch \in Challenges, NEW a \in Accounts, NEW v \in Verdicts,
               NEW bundle \in Roots, SubmitReport(ch, a, v, bundle)
        PROVE  TalliesMatchReports'
    <2> DEFINE r == [investigator |-> a, verdict |-> v, evidenceBundleHash |-> bundle]
               n == Len(reports[ch])
    <2>1. /\ reports[ch] \in Seq(Report) /\ r \in Report /\ r.verdict = v /\ r.investigator = a
          /\ investigatorsOf[ch] \in Seq(Accounts)
          /\ n \in Nat /\ Len(investigatorsOf[ch]) = n
      <3>1. r \in Report
        BY DEF Report
      <3>2. reports[ch] \in Seq(Report) /\ investigatorsOf[ch] \in Seq(Accounts)
        BY DEF TypeOK
      <3> QED BY <3>1, <3>2 DEF TalliesMatchReports
    <2>2. /\ reports' = [reports EXCEPT ![ch] = Append(@, r)]
          /\ investigatorsOf' = [investigatorsOf EXCEPT ![ch] = Append(@, a)]
          /\ hasReported' = [hasReported EXCEPT ![ch] = @ \cup {a}]
          /\ tally' = [tally EXCEPT ![ch] = Count(@, v)]
          /\ a \notin hasReported[ch]
      BY <1>2 DEF SubmitReport, MayReport
    <2> HIDE DEF r
    <2>3. /\ reports'[ch] = Append(reports[ch], r)
          /\ investigatorsOf'[ch] = Append(investigatorsOf[ch], a)
          /\ hasReported'[ch] = hasReported[ch] \cup {a}
          /\ tally'[ch] = Count(tally[ch], v)
      BY <2>2 DEF TypeOK
    <2>4. \A x \in Challenges \ {ch} :
            /\ reports'[x] = reports[x]
            /\ investigatorsOf'[x] = investigatorsOf[x]
            /\ hasReported'[x] = hasReported[x]
            /\ tally'[x] = tally[x]
      BY <2>2 DEF TypeOK
    <2>5. tally'[ch] = TallyOf(reports'[ch])
      BY <2>1, <2>3, CountIsTally DEF TalliesMatchReports
    <2>6. /\ Len(reports'[ch]) = n + 1 /\ Len(investigatorsOf'[ch]) = n + 1
          /\ reports'[ch][n + 1] = r /\ investigatorsOf'[ch][n + 1] = a
          /\ \A i \in 1..n : /\ reports'[ch][i] = reports[ch][i]
                             /\ investigatorsOf'[ch][i] = investigatorsOf[ch][i]
          /\ 1..(n + 1) = (1..n) \cup {n + 1}
      BY <2>1, <2>3
    <2>7. \A i \in 1..n : investigatorsOf[ch][i] = reports[ch][i].investigator
      BY DEF TalliesMatchReports
    <2>8. \A i \in 1..(n + 1) : investigatorsOf'[ch][i] = reports'[ch][i].investigator
      BY <2>1, <2>6, <2>7
    <2>9. hasReported[ch] = {investigatorsOf[ch][i] : i \in 1..n}
      BY <2>1 DEF TalliesMatchReports
    <2>10. hasReported'[ch] = {investigatorsOf'[ch][i] : i \in 1..(n + 1)}
      BY <2>3, <2>6, <2>9
    <2>11. \A i, j \in 1..n : investigatorsOf[ch][i] = investigatorsOf[ch][j] => i = j
      BY <2>1 DEF TalliesMatchReports
    <2>12. \A i, j \in 1..(n + 1) : investigatorsOf'[ch][i] = investigatorsOf'[ch][j] => i = j
      BY <2>2, <2>6, <2>9, <2>11
    <2> SUFFICES ASSUME NEW x \in Challenges
                 PROVE  /\ tally'[x] = TallyOf(reports'[x])
                        /\ Len(investigatorsOf'[x]) = Len(reports'[x])
                        /\ \A i \in 1..Len(reports'[x]) :
                             investigatorsOf'[x][i] = reports'[x][i].investigator
                        /\ hasReported'[x] =
                             {investigatorsOf'[x][i] : i \in 1..Len(investigatorsOf'[x])}
                        /\ \A i, j \in 1..Len(investigatorsOf'[x]) :
                             investigatorsOf'[x][i] = investigatorsOf'[x][j] => i = j
      BY DEF TalliesMatchReports
    <2>13. CASE x = ch
      BY <2>5, <2>6, <2>8, <2>10, <2>12, <2>13
    <2>14. CASE x # ch
      BY <2>4, <2>14 DEF TalliesMatchReports
    <2> QED BY <2>13, <2>14
  <1> QED BY <1>1, <1>2, OnlySubmitReportReports

(***************************************************************************)
(* However calls interleave, the tallies resolve() decides by, the replay  *)
(* guard and the list of payees of every case stay three views of the      *)
(* reports it received, with nobody in them twice.                         *)
(***************************************************************************)
THEOREM TalliesAreExact == Spec => []TalliesMatchReports
  <1>1. Init => TypeOK /\ TalliesMatchReports
    BY TypeInit, TalliesInit
  <1>2. TypeOK /\ TalliesMatchReports /\ [Next]_vars => (TypeOK /\ TalliesMatchReports)'
    BY TypeStep, TalliesStep
  <1> QED BY <1>1, <1>2, PTL DEF Spec

-----------------------------------------------------------------------------
(***************************************************************************)
(* Verdicts.  A case takes reports and is resolved only while undecided.   *)
(***************************************************************************)
LEMMA UndecidedHasNoVerdict ==
  ASSUME CaseInv, NEW ch \in Challenges,
         ~challenges[ch].exists \/ challenges[ch].state = "INVESTIGATING"
  PROVE  ~verdicts[ch].exists
  BY DEF CaseInv, VerdictIffDecided, Decided

(***************************************************************************)
(* The status of a verdict is the expected one for all reports of its case.*)
(***************************************************************************)
VerdictExact ==
  \A ch \in Challenges : verdicts[ch].exists =>
    verdicts[ch].status = ExpectedStatus(TallyOf(reports[ch]))

(***************************************************************************)
(* A case is resolved once, from the tally that stands, and reports stop   *)
(* there.                                                                  *)
(***************************************************************************)
LEMMA VerdictStep ==
  ASSUME TypeOK, CaseInv, TalliesMatchReports, VerdictExact, [Next]_vars
  PROVE  VerdictExact'
  <1>1. CASE UNCHANGED <<verdicts, reports>>
    BY <1>1 DEF VerdictExact
  <1>2. ASSUME NEW ch \in Challenges, NEW a \in Accounts, NEW v \in Verdicts,
               NEW bundle \in Roots, SubmitReport(ch, a, v, bundle)
        PROVE  VerdictExact'
    <2>1. ~verdicts[ch].exists
      BY <1>2, UndecidedHasNoVerdict DEF SubmitReport, TakesReports
    <2>2. verdicts' = verdicts /\ \A x \in Challenges \ {ch} : reports'[x] = reports[x]
      BY <1>2 DEF SubmitReport, caseVars, TypeOK
    <2> QED BY <2>1, <2>2 DEF VerdictExact
  <1>3. ASSUME NEW ch \in Challenges, NEW status \in VerdictStatus,
               NEW refusing \in SUBSET Contracts, Resolve(ch, status, refusing)
        PROVE  VerdictExact'
    <2>1. /\ reports' = reports
          /\ verdicts'[ch].status = status
          /\ \A x \in Challenges \ {ch} : verdicts'[x] = verdicts[x]
      BY <1>3 DEF Resolve, reportVars, TypeOK
    <2>2. status = ExpectedStatus(TallyOf(reports[ch]))
      BY <1>3 DEF Resolve, TalliesMatchReports
    <2> QED BY <2>1, <2>2 DEF VerdictExact
  <1> QED
    BY <1>1, <1>2, <1>3, OnlySubmitReportReports, OnlyResolveDecides DEF reportVars

(***************************************************************************)
(* Every decided case, and no other, has a verdict, and it is what the     *)
(* disclosed procedure gives for the reports received: all of them, since  *)
(* none can come later.                                                    *)
(***************************************************************************)
THEOREM VerdictsAreAuditable == Spec => []VerdictMatchesReports
  <1> DEFINE IInv == TypeOK /\ CaseInv /\ TalliesMatchReports /\ VerdictExact
  <1>1. Init => IInv
    <2>1. Init => VerdictExact
      BY DEF Init, VerdictExact
    <2> QED BY <2>1, TypeInit, CaseInit, TalliesInit
  <1>2. IInv /\ [Next]_vars => IInv'
    BY TypeStep, CaseStep, TalliesStep, VerdictStep
  <1>3. IInv => VerdictMatchesReports
    BY DEF CaseInv, VerdictIffDecided, VerdictExact, VerdictMatchesReports
  <1> QED BY <1>1, <1>2, <1>3, PTL DEF Spec

(***************************************************************************)
(* No call of any kind, by anybody, changes the verdict of a decided case, *)
(* the reports and tallies it rests on, or what was paid for the case.     *)
(***************************************************************************)
LEMMA DecidedStaysPut ==
  ASSUME TypeOK, CaseInv, [Next]_vars, NEW x \in Challenges, verdicts[x].exists
  PROVE  /\ verdicts'[x] = verdicts[x]
         /\ reports'[x] = reports[x] /\ tally'[x] = tally[x]
         /\ ledger'[x] = ledger[x]
  <1>1. verdicts'[x] = verdicts[x]
    <2>1. ASSUME NEW ch \in Challenges, NEW status, NEW refusing, Resolve(ch, status, refusing)
          PROVE  verdicts'[x] = verdicts[x]
      <3>1. ch # x
        BY <2>1, UndecidedHasNoVerdict DEF Resolve, Resolvable
      <3> QED BY <2>1, <3>1 DEF Resolve, TypeOK
    <2> QED BY <2>1, OnlyResolveDecides
  <1>2. reports'[x] = reports[x] /\ tally'[x] = tally[x]
    <2>1. ASSUME NEW ch \in Challenges, NEW a, NEW v, NEW bundle, SubmitReport(ch, a, v, bundle)
          PROVE  reports'[x] = reports[x] /\ tally'[x] = tally[x]
      <3>1. ch # x
        BY <2>1, UndecidedHasNoVerdict DEF SubmitReport, TakesReports
      <3> QED BY <2>1, <3>1 DEF SubmitReport, TypeOK
    <2> QED BY <2>1, OnlySubmitReportReports DEF reportVars
  <1>3. ledger'[x] = ledger[x]
    <2>1. ASSUME NEW ch \in Challenges, NEW cl, NEW a, NEW type, NEW v, NEW closesAt,
                 OpenCase(ch, cl, a, type, v, closesAt)
          PROVE  ledger'[x] = ledger[x]
      <3>1. ch # x
        BY <2>1, UndecidedHasNoVerdict DEF OpenCase
      <3> QED BY <2>1, <3>1 DEF OpenCase, TypeOK
    <2>2. ASSUME NEW ch \in Challenges, NEW status, NEW refusing, Resolve(ch, status, refusing)
          PROVE  ledger'[x] = ledger[x]
      <3>1. ch # x
        BY <2>2, UndecidedHasNoVerdict DEF Resolve, Resolvable
      <3> QED BY <2>2, <3>1 DEF Resolve, TypeOK
    <2> QED BY <2>1, <2>2, OnlyOpeningAndResolvingPay DEF moneyVars
  <1> QED BY <1>1, <1>2, <1>3

(***************************************************************************)
(* Verdicts are final in every behaviour of the contract.                  *)
(***************************************************************************)
THEOREM VerdictsAreFinal == Spec => VerdictsFinal
  <1>1. Init => TypeOK /\ CaseInv
    BY TypeInit, CaseInit
  <1>2. TypeOK /\ CaseInv /\ [Next]_vars => (TypeOK /\ CaseInv)'
    BY TypeStep, CaseStep
  <1>3. TypeOK /\ CaseInv /\ [Next]_vars =>
          [\A ch \in Challenges : verdicts[ch].exists =>
             /\ verdicts'[ch] = verdicts[ch]
             /\ reports'[ch] = reports[ch] /\ tally'[ch] = tally[ch]
             /\ ledger'[ch] = ledger[ch]]_vars
    BY DecidedStaysPut
  <1> QED BY <1>1, <1>2, <1>3, PTL DEF Spec, VerdictsFinal
-----------------------------------------------------------------------------
(***************************************************************************)
(* How the record of a case changes: it is opened, locked, investigated,   *)
(* resolved or appealed, each from one state only, and the fields it was   *)
(* opened with stay.                                                       *)
(***************************************************************************)
LEMMA HowCasesMove ==
  ASSUME TypeOK, [Next]_vars, NEW x \in Challenges
  PROVE  \/ challenges'[x] = challenges[x]
         \/ \E cl \in Claims, a \in Accounts, type \in ChallengeType, v \in Amounts : \E closesAt :
              Challengeable(cl) /\ OpenCase(x, cl, a, type, v, closesAt)
         \/ \E root \in Roots : challenges[x].exists /\ LockEvidence(x, root)
         \/ BeginInvestigation(x)
         \/ \E status \in VerdictStatus, refusing \in SUBSET Contracts :
              Resolve(x, status, refusing)
         \/ FileAppeal(x)
  <1>1. CASE UNCHANGED challenges
    BY <1>1
  <1>2. ASSUME NEW s \in Subjects, NEW root \in Roots, LockEvidence(s, root)
        PROVE  \/ challenges'[x] = challenges[x]
               \/ challenges[x].exists /\ LockEvidence(x, root)
    BY <1>2 DEF LockEvidence, TypeOK
  <1>3. ASSUME NEW ch \in Challenges, NEW cl \in Claims, NEW a \in Accounts,
               NEW type \in ChallengeType, NEW v \in Amounts, OpenChallenge(ch, cl, a, type, v)
        PROVE  \/ challenges'[x] = challenges[x]
               \/ Challengeable(cl) /\
                    OpenCase(x, cl, a, type, v, now + DEFAULT_CHALLENGE_WINDOW)
    BY <1>3 DEF OpenChallenge, OpenCase, TypeOK
  <1>4. ASSUME NEW ch \in Challenges, NEW cl \in Claims, NEW a \in Accounts, NEW v \in Amounts,
               RequestVerification(ch, cl, a, v)
        PROVE  \/ challenges'[x] = challenges[x]
               \/ Challengeable(cl) /\ OpenCase(x, cl, a, "VERIFICATION_REQUEST", v, now)
    BY <1>4 DEF RequestVerification, OpenCase, TypeOK
  <1>5. "VERIFICATION_REQUEST" \in ChallengeType
    BY DEF ChallengeType
  <1>6. ASSUME NEW ch \in Challenges, BeginInvestigation(ch)
        PROVE  challenges'[x] = challenges[x] \/ BeginInvestigation(x)
    BY <1>6 DEF BeginInvestigation, TypeOK
  <1>7. ASSUME NEW ch \in Challenges, NEW status, NEW refusing, Resolve(ch, status, refusing)
        PROVE  challenges'[x] = challenges[x] \/ Resolve(x, status, refusing)
    BY <1>7 DEF Resolve, TypeOK
  <1>8. ASSUME NEW ch \in Challenges, FileAppeal(ch)
        PROVE  challenges'[x] = challenges[x] \/ FileAppeal(x)
    BY <1>8 DEF FileAppeal, TypeOK
  <1>9. ASSUME \/ Tick
               \/ \E cl \in Claims : CreateClaim(cl)
               \/ \E clA, clB \in Claims, relation \in RelationshipType :
                    RecordRelationship(clA, clB, relation)
               \/ \E s \in Subjects, e \in EvidenceIds : SubmitEvidence(s, e)
               \/ \E ch \in Challenges, a \in Accounts, v \in Verdicts, bundle \in Roots :
                    SubmitReport(ch, a, v, bundle)
               \/ \E i \in 1..Len(appeals) : ResolveAppeal(i)
               \/ UNCHANGED vars
        PROVE  UNCHANGED challenges
    BY <1>9 DEF Tick, CreateClaim, RecordRelationship, SubmitEvidence, SubmitReport,
                ResolveAppeal, vars, caseVars
  <1> QED BY <1>1, <1>2, <1>3, <1>4, <1>5, <1>6, <1>7, <1>8, <1>9 DEF Next

(***************************************************************************)
(* Evidence.  A case that left OPEN has locked evidence.                   *)
(***************************************************************************)
LockInv ==
  \A ch \in Challenges : challenges[ch].exists /\ challenges[ch].state # "OPEN" =>
    evidenceLocked[ch]

(* Nothing unlocks evidence, and locked evidence is not replaced. *)
LEMMA LocksStay ==
  ASSUME TypeOK, [Next]_vars, NEW s \in Subjects, evidenceLocked[s]
  PROVE  evidenceLocked'[s] /\ pendingEvidence'[s] = pendingEvidence[s]
  <1>1. ASSUME NEW x \in Subjects, NEW e, SubmitEvidence(x, e)
        PROVE  evidenceLocked'[s] /\ pendingEvidence'[s] = pendingEvidence[s]
    BY <1>1 DEF SubmitEvidence, AcceptsEvidence, TypeOK
  <1>2. ASSUME NEW x \in Subjects, NEW root, LockEvidence(x, root)
        PROVE  evidenceLocked'[s] /\ pendingEvidence'[s] = pendingEvidence[s]
    BY <1>2 DEF LockEvidence, TypeOK
  <1>3. \/ UNCHANGED evidenceVars
        \/ \E x \in Subjects, e \in EvidenceIds : SubmitEvidence(x, e)
        \/ \E x \in Subjects, root \in Roots : LockEvidence(x, root)
    BY DEF Next, vars, Tick, CreateClaim, RecordRelationship, OpenChallenge,
           RequestVerification, OpenCase, BeginInvestigation, SubmitReport, Resolve, FileAppeal,
           ResolveAppeal
  <1> QED BY <1>1, <1>2, <1>3 DEF evidenceVars

(* A case leaves OPEN only by locking its evidence. *)
LEMMA LockStep ==
  ASSUME TypeOK, LockInv, [Next]_vars
  PROVE  LockInv'
  <1> SUFFICES ASSUME NEW x \in Challenges,
                      challenges'[x].exists, challenges'[x].state # "OPEN"
               PROVE  evidenceLocked'[x]
    BY DEF LockInv
  <1> USE DEF TypeOK, Progressed
  <1>1. x \in Subjects
    BY DEF Subjects
  <1>2. CASE challenges'[x] = challenges[x]
    BY <1>1, <1>2, LocksStay DEF LockInv
  <1>3. CASE \E cl, a, type, v, closesAt : OpenCase(x, cl, a, type, v, closesAt)
    BY <1>3 DEF OpenCase
  <1>4. ASSUME NEW root \in Roots, challenges[x].exists, LockEvidence(x, root)
        PROVE  evidenceLocked'[x]
    BY <1>1, <1>4 DEF LockEvidence
  <1>5. CASE BeginInvestigation(x)
    BY <1>1, <1>5, LocksStay DEF BeginInvestigation, ReadyToInvestigate, LockInv
  <1>6. ASSUME NEW status, NEW refusing, Resolve(x, status, refusing)
        PROVE  evidenceLocked'[x]
    BY <1>1, <1>6, LocksStay DEF Resolve, Resolvable, LockInv
  <1>7. CASE FileAppeal(x)
    BY <1>1, <1>7, LocksStay DEF FileAppeal, Appealable, LockInv
  <1> QED BY <1>2, <1>3, <1>4, <1>5, <1>6, <1>7, HowCasesMove

(***************************************************************************)
(* The root of a case changes only by locking its evidence.                *)
(***************************************************************************)
LEMMA LockedRootStays ==
  ASSUME TypeOK, [Next]_vars, NEW x \in Challenges, challenges[x].exists, evidenceLocked[x]
  PROVE  challenges'[x].evidenceRoot = challenges[x].evidenceRoot
  <1> USE DEF TypeOK, Progressed
  <1>1. CASE \E cl, a, type, v, closesAt : OpenCase(x, cl, a, type, v, closesAt)
    BY <1>1 DEF OpenCase
  <1>2. CASE \E root : LockEvidence(x, root)
    BY <1>2 DEF LockEvidence
  <1>3. CASE BeginInvestigation(x)
    BY <1>3 DEF BeginInvestigation
  <1>4. CASE \E status, refusing : Resolve(x, status, refusing)
    BY <1>4 DEF Resolve
  <1>5. CASE FileAppeal(x)
    BY <1>5 DEF FileAppeal
  <1> QED BY <1>1, <1>2, <1>3, <1>4, <1>5, HowCasesMove

(* What was locked stays what it was, through every step. *)
LEMMA LockedStaysFrozen ==
  ASSUME TypeOK, LockInv, [Next]_vars
  PROVE  /\ \A s \in Subjects : evidenceLocked[s] =>
              /\ evidenceLocked'[s]
              /\ pendingEvidence'[s] = pendingEvidence[s]
              /\ s \in Challenges /\ challenges[s].exists =>
                   challenges'[s].evidenceRoot = challenges[s].evidenceRoot
         /\ \A ch \in Challenges : reports'[ch] # reports[ch] =>
              evidenceLocked[ch]
  <1>1. ASSUME NEW ch \in Challenges, reports'[ch] # reports[ch]
        PROVE  evidenceLocked[ch]
    <2>1. PICK x \in Challenges, a \in Accounts, v \in Verdicts, bundle \in Roots :
            SubmitReport(x, a, v, bundle)
      BY <1>1, OnlySubmitReportReports DEF reportVars
    <2>2. x = ch
      BY <1>1, <2>1 DEF SubmitReport, TypeOK
    <2> QED BY <2>1, <2>2 DEF SubmitReport, TakesReports, LockInv
  <1> QED BY <1>1, LocksStay, LockedRootStays

(***************************************************************************)
(* Investigators judge what was locked: evidence and root of a locked      *)
(* subject never change, and every report is filed on locked evidence.     *)
(***************************************************************************)
THEOREM EvidenceFrozen == Spec => LockedEvidenceFrozen
  <1>1. Init => TypeOK /\ LockInv
    <2>1. Init => LockInv
      BY DEF Init, LockInv
    <2> QED BY <2>1, TypeInit
  <1>2. TypeOK /\ LockInv /\ [Next]_vars => (TypeOK /\ LockInv)'
    BY TypeStep, LockStep
  <1>3. TypeOK /\ LockInv /\ [Next]_vars =>
          [/\ \A s \in Subjects : evidenceLocked[s] =>
                /\ evidenceLocked'[s]
                /\ pendingEvidence'[s] = pendingEvidence[s]
                /\ s \in Challenges /\ challenges[s].exists =>
                     challenges'[s].evidenceRoot = challenges[s].evidenceRoot
           /\ \A ch \in Challenges : reports'[ch] # reports[ch] =>
                evidenceLocked[ch]]_vars
    BY LockedStaysFrozen
  <1> QED BY <1>1, <1>2, <1>3, PTL DEF Spec, LockedEvidenceFrozen
-----------------------------------------------------------------------------
(***************************************************************************)
(* How the record of a claim changes: it is created, superseded while      *)
(* nobody disputes it, or moved along by the one case about it.            *)
(***************************************************************************)
LEMMA HowClaimsMove ==
  ASSUME TypeOK, [Next]_vars, NEW y \in Claims
  PROVE  \/ claims'[y] = claims[y]
         \/ CreateClaim(y)
         \/ \E clB \in Claims : Supersedable(y) /\ RecordRelationship(y, clB, "SUPERSEDES")
         \/ \E ch \in Challenges, a \in Accounts, type \in ChallengeType, v \in Amounts : \E closesAt :
              Challengeable(y) /\ OpenCase(ch, y, a, type, v, closesAt)
         \/ \E ch \in Challenges : /\ challenges[ch].exists /\ challenges[ch].claimId = y
                                   /\ \/ \E root \in Roots : LockEvidence(ch, root)
                                      \/ BeginInvestigation(ch)
                                      \/ \E status \in VerdictStatus, refusing \in SUBSET Contracts :
                                           Resolve(ch, status, refusing)
  <1>1. CASE UNCHANGED claims
    BY <1>1
  <1>2. ASSUME NEW cl \in Claims, CreateClaim(cl)
        PROVE  claims'[y] = claims[y] \/ CreateClaim(y)
    BY <1>2 DEF CreateClaim, TypeOK
  <1>3. ASSUME NEW clA \in Claims, NEW clB \in Claims, NEW relation \in RelationshipType,
               RecordRelationship(clA, clB, relation)
        PROVE  \/ claims'[y] = claims[y]
               \/ Supersedable(y) /\ RecordRelationship(y, clB, "SUPERSEDES")
    BY <1>3 DEF RecordRelationship, claimVars, TypeOK
  <1>4. ASSUME NEW s \in Subjects, NEW root \in Roots, LockEvidence(s, root)
        PROVE  \/ claims'[y] = claims[y]
               \/ /\ s \in Challenges /\ challenges[s].exists /\ challenges[s].claimId = y
                  /\ LockEvidence(s, root)
    BY <1>4 DEF LockEvidence, TypeOK
  <1>5. ASSUME NEW ch \in Challenges, NEW cl \in Claims, NEW a \in Accounts,
               NEW type \in ChallengeType, NEW v \in Amounts, NEW closesAt,
               Challengeable(cl), OpenCase(ch, cl, a, type, v, closesAt)
        PROVE  \/ claims'[y] = claims[y]
               \/ Challengeable(y) /\ OpenCase(ch, y, a, type, v, closesAt)
    BY <1>5 DEF OpenCase, TypeOK
  <1>6. ASSUME NEW ch \in Challenges, NEW cl \in Claims, NEW a \in Accounts,
               NEW type \in ChallengeType, NEW v \in Amounts, OpenChallenge(ch, cl, a, type, v)
        PROVE  \/ claims'[y] = claims[y]
               \/ Challengeable(y) /\
                    OpenCase(ch, y, a, type, v, now + DEFAULT_CHALLENGE_WINDOW)
    BY <1>5, <1>6 DEF OpenChallenge
  <1>7. ASSUME NEW ch \in Challenges, NEW cl \in Claims, NEW a \in Accounts, NEW v \in Amounts,
               RequestVerification(ch, cl, a, v)
        PROVE  \/ claims'[y] = claims[y]
               \/ Challengeable(y) /\ OpenCase(ch, y, a, "VERIFICATION_REQUEST", v, now)
    BY <1>5, <1>7 DEF RequestVerification, ChallengeType
  <1>8. ASSUME NEW ch \in Challenges, BeginInvestigation(ch)
        PROVE  \/ claims'[y] = claims[y]
               \/ challenges[ch].exists /\ challenges[ch].claimId = y
    BY <1>8 DEF BeginInvestigation, ReadyToInvestigate, TypeOK
  <1>9. ASSUME NEW ch \in Challenges, NEW status, NEW refusing, Resolve(ch, status, refusing)
        PROVE  \/ claims'[y] = claims[y]
               \/ challenges[ch].exists /\ challenges[ch].claimId = y
    BY <1>9 DEF Resolve, Resolvable, TypeOK
  <1>10. ASSUME \/ Tick
                \/ \E s \in Subjects, e \in EvidenceIds : SubmitEvidence(s, e)
                \/ \E ch \in Challenges, a \in Accounts, v \in Verdicts, bundle \in Roots :
                     SubmitReport(ch, a, v, bundle)
                \/ \E ch \in Challenges : FileAppeal(ch)
                \/ \E i \in 1..Len(appeals) : ResolveAppeal(i)
                \/ UNCHANGED vars
         PROVE  UNCHANGED claims
    BY <1>10 DEF Tick, SubmitEvidence, SubmitReport, FileAppeal, ResolveAppeal, vars, claimVars
  <1>11. "VERIFICATION_REQUEST" \in ChallengeType
    BY DEF ChallengeType
  <1> QED
    BY <1>1, <1>2, <1>3, <1>4, <1>6, <1>7, <1>8, <1>9, <1>10, <1>11 DEF Next

(***************************************************************************)
(* Valid time.  A claim has an end of its validity exactly if it is        *)
(* superseded; block.timestamp is never zero, so zero does mean "none".    *)
(***************************************************************************)
ValidInv ==
  /\ now >= 1
  /\ \A cl \in Claims : /\ claims[cl].validUntil # 0 <=> claims[cl].status = "SUPERSEDED"
                        /\ ~claims[cl].exists => claims[cl].status = "OPEN"

(***************************************************************************)
(* The claim of an undecided case is not superseded, and the move of the   *)
(* case does not make it so.                                               *)
(***************************************************************************)
LEMMA UndecidedNotSuperseded ==
  ASSUME TypeOK, CaseInv, NEW ch \in Challenges, challenges[ch].exists, ~Decided(ch)
  PROVE  /\ claims[challenges[ch].claimId].exists
         /\ claims[challenges[ch].claimId].status # "SUPERSEDED"
         /\ claims[challenges[ch].claimId].status \in {"CHALLENGED", challenges[ch].state}
  <1>1. Agrees(ch)
    BY DEF CaseInv, StatusesAgree
  <1>2. challenges[ch].state \in ChallengeState
    BY DEF TypeOK, ChallengeRecord
  <1>3. StatusDuring(ch) \in {"CHALLENGED", challenges[ch].state}
    BY DEF StatusDuring
  <1> QED BY <1>1, <1>2, <1>3 DEF Agrees, ChallengeState

(***************************************************************************)
(* A claim that is not superseded has no end of validity; it keeps it so,  *)
(* unless recordRelationship closes its validity now.                      *)
(***************************************************************************)
LEMMA ValidClaimMoves ==
  ASSUME TypeOK, CaseInv, ValidInv, [Next]_vars, NEW y \in Claims, claims'[y] # claims[y]
  PROVE  /\ claims[y].validUntil = 0
         /\ claims'[y].exists
         /\ claims'[y].validUntil # 0 <=> claims'[y].status = "SUPERSEDED"
  <1> USE DEF TypeOK, WithStatus
  <1>1. CASE CreateClaim(y)
    BY <1>1 DEF CreateClaim, ValidInv
  <1>2. ASSUME NEW clB \in Claims, Supersedable(y), RecordRelationship(y, clB, "SUPERSEDES")
        PROVE  /\ claims[y].validUntil = 0
               /\ claims'[y].exists
               /\ claims'[y].validUntil # 0 <=> claims'[y].status = "SUPERSEDED"
    BY <1>2 DEF RecordRelationship, Supersedable, ValidInv
  <1>3. ASSUME NEW ch \in Challenges, NEW a, NEW type, NEW v, NEW closesAt,
               Challengeable(y), OpenCase(ch, y, a, type, v, closesAt)
        PROVE  /\ claims[y].validUntil = 0
               /\ claims'[y].exists
               /\ claims'[y].validUntil # 0 <=> claims'[y].status = "SUPERSEDED"
    BY <1>3 DEF OpenCase, Challengeable, ValidInv
  <1>4. ASSUME NEW ch \in Challenges, challenges[ch].exists, challenges[ch].claimId = y,
               \/ \E root \in Roots : LockEvidence(ch, root)
               \/ BeginInvestigation(ch)
               \/ \E status \in VerdictStatus, refusing \in SUBSET Contracts :
                    Resolve(ch, status, refusing)
        PROVE  /\ claims[y].validUntil = 0
               /\ claims'[y].exists
               /\ claims'[y].validUntil # 0 <=> claims'[y].status = "SUPERSEDED"
    <2>1. ~Decided(ch)
      BY <1>4 DEF LockEvidence, BeginInvestigation, ReadyToInvestigate, Resolve, Resolvable, Decided
    <2>2. claims[y].exists /\ claims[y].validUntil = 0
      BY <1>4, <2>1, UndecidedNotSuperseded DEF ValidInv
    <2>3. PICK status : status # "SUPERSEDED" /\ claims' = [claims EXCEPT ![y] = WithStatus(@, status)]
      <3>1. CASE \E root \in Roots : LockEvidence(ch, root)
        BY <1>4, <3>1 DEF LockEvidence
      <3>2. CASE BeginInvestigation(ch)
        BY <1>4, <3>2 DEF BeginInvestigation
      <3>3. ASSUME NEW st \in VerdictStatus, NEW refusing, Resolve(ch, st, refusing)
            PROVE  /\ ClaimStatusFor(st) # "SUPERSEDED"
                   /\ claims' = [claims EXCEPT ![y] = WithStatus(@, ClaimStatusFor(st))]
        BY <1>4, <3>3, StatusTypes DEF Resolve, ClaimStatusFor
      <3> QED BY <1>4, <3>1, <3>2, <3>3
    <2> QED BY <2>2, <2>3
  <1> QED BY <1>1, <1>2, <1>3, <1>4, HowClaimsMove

(***************************************************************************)
(* A validity interval is closed at the present time, by the claim that    *)
(* supersedes.                                                             *)
(***************************************************************************)
LEMMA ValidStep ==
  ASSUME TypeOK, CaseInv, ValidInv, [Next]_vars
  PROVE  ValidInv'
  <1>1. now' \in {now, now + 1}
    BY DEF Next, vars, Tick, CreateClaim, RecordRelationship, SubmitEvidence, LockEvidence,
           OpenChallenge, RequestVerification, OpenCase, BeginInvestigation, SubmitReport,
           Resolve, FileAppeal, ResolveAppeal
  <1>2. now' >= 1
    BY <1>1 DEF ValidInv, TypeOK
  <1>3. ASSUME NEW y \in Claims
        PROVE  /\ claims'[y].validUntil # 0 <=> claims'[y].status = "SUPERSEDED"
               /\ ~claims'[y].exists => claims'[y].status = "OPEN"
    BY ValidClaimMoves DEF ValidInv
  <1> QED BY <1>2, <1>3 DEF ValidInv

(***************************************************************************)
(* A closed interval and the name of the superseding claim do not change   *)
(* again.                                                                  *)
(***************************************************************************)
LEMMA SupersededStays ==
  ASSUME TypeOK, CaseInv, ValidInv, [Next]_vars, NEW y \in Claims, claims[y].validUntil # 0
  PROVE  claims'[y] = claims[y] /\ supersededBy'[y] = supersededBy[y]
  <1>1. claims'[y] = claims[y]
    BY ValidClaimMoves
  <1>2. ASSUME NEW clA \in Claims, NEW clB, NEW relation, RecordRelationship(clA, clB, relation)
        PROVE  supersededBy'[y] = supersededBy[y]
    <2>1. clA = y => ~Supersedable(clA)
      BY DEF Supersedable, ValidInv
    <2> QED BY <1>2, <2>1 DEF RecordRelationship, claimVars, TypeOK
  <1>3. \/ UNCHANGED supersededBy
        \/ \E clA, clB \in Claims, relation \in RelationshipType :
             RecordRelationship(clA, clB, relation)
    BY DEF Next, vars, claimVars, Tick, CreateClaim, SubmitEvidence, LockEvidence,
           OpenChallenge, RequestVerification, OpenCase, BeginInvestigation, SubmitReport,
           Resolve, FileAppeal, ResolveAppeal
  <1> QED BY <1>1, <1>2, <1>3

(***************************************************************************)
(* Whatever happens to a claim and its case, its validity is closed at     *)
(* most once, by being superseded, and nothing changes it from then on.    *)
(***************************************************************************)
THEOREM ValidityClosedOnce == Spec => ValidTimeClosedOnce
  <1>1. Init => TypeOK /\ CaseInv /\ ValidInv
    <2>1. Init => ValidInv
      BY DEF Init, ValidInv
    <2> QED BY <2>1, TypeInit, CaseInit
  <1>2. TypeOK /\ CaseInv /\ ValidInv /\ [Next]_vars => (TypeOK /\ CaseInv /\ ValidInv)'
    BY TypeStep, CaseStep, ValidStep
  <1>3. TypeOK /\ CaseInv /\ ValidInv /\ [Next]_vars =>
          [\A cl \in Claims :
             /\ claims[cl].validUntil # 0 =>
                  claims'[cl] = claims[cl] /\ supersededBy'[cl] = supersededBy[cl]
             /\ claims'[cl].validUntil # 0 <=> claims'[cl].status = "SUPERSEDED"]_vars
    <2>1. TypeOK /\ CaseInv /\ ValidInv /\ [Next]_vars =>
            \A cl \in Claims : claims'[cl].validUntil # 0 <=> claims'[cl].status = "SUPERSEDED"
      BY ValidStep DEF ValidInv
    <2> QED BY <2>1, SupersededStays
  <1> QED BY <1>1, <1>2, <1>3, PTL DEF Spec, ValidTimeClosedOnce
-----------------------------------------------------------------------------
(***************************************************************************)
(* Settlement.  As nobody is in the list of reporters twice, the reporters *)
(* who accept their share are as many as the list entries that do.         *)
(***************************************************************************)
LEMMA AcceptingReporters ==
  ASSUME TypeOK, TalliesMatchReports, NEW ch \in Challenges, NEW refusing
  PROVE  Cardinality(hasReported[ch] \ refusing) =
           Len(investigatorsOf[ch]) - Cardinality(Refusals(ch, refusing))
  <1> DEFINE n == Len(investigatorsOf[ch])
             refused == Refusals(ch, refusing)
             accepted == (1..n) \ refused
             payee == [i \in accepted |-> investigatorsOf[ch][i]]
  <1>1. n \in Nat /\ IsFiniteSet(1..n) /\ Cardinality(1..n) = n
    BY RefusalBounds, FS_Interval
  <1>2. refused \in SUBSET (1..n) /\ (1..n) \cap refused = refused
    BY DEF Refusals
  <1>3. IsFiniteSet(accepted) /\ Cardinality(accepted) = n - Cardinality(refused)
    <2> HIDE DEF n, refused
    <2> QED BY <1>1, <1>2, FS_Difference
  <1>4. hasReported[ch] = {investigatorsOf[ch][i] : i \in 1..n}
    BY DEF TalliesMatchReports
  <1>5. \A i, j \in 1..n : investigatorsOf[ch][i] = investigatorsOf[ch][j] => i = j
    BY DEF TalliesMatchReports
  <1>6. accepted = {i \in 1..n : investigatorsOf[ch][i] \notin refusing}
    BY DEF Refusals
  <1> HIDE DEF n, accepted
  <1>7. payee \in [accepted -> hasReported[ch] \ refusing]
    BY <1>4, <1>6
  <1>8. \A i, j \in accepted : payee[i] = payee[j] => i = j
    BY <1>5, <1>6
  <1>9. \A a \in hasReported[ch] \ refusing : \E i \in accepted : payee[i] = a
    BY <1>4, <1>6
  <1>10. payee \in Bijection(accepted, hasReported[ch] \ refusing)
    BY <1>7, <1>8, <1>9, Fun_IsBij
  <1> HIDE DEF payee
  <1>11. Cardinality(hasReported[ch] \ refusing) = Cardinality(accepted)
    BY <1>3, <1>10, FS_Bijection DEF ExistsBijection
  <1> QED BY <1>3, <1>11 DEF n

(***************************************************************************)
(* What BondAccounted says of one case.                                    *)
(***************************************************************************)
Accounted(ch) ==
  /\ ~Decided(ch) => /\ challenges[ch].bond = ledger[ch].deposit
                     /\ ledger[ch].paid = {} /\ ledger[ch].refund = 0
  /\ Decided(ch) => challenges[ch].bond = 0
  /\ ledger[ch].paid \subseteq hasReported[ch]
  /\ ledger[ch].share * Cardinality(ledger[ch].paid) + ledger[ch].refund <= ledger[ch].deposit
  /\ ledger[ch].refund > 0 => Refunded(challenges[ch].challengeType, verdicts[ch].status)

(* The bonds are accounted for when each case is. *)
LEMMA BondByCase == BondAccounted <=> \A ch \in Challenges : Accounted(ch)
  BY DEF BondAccounted, Accounted

(***************************************************************************)
(* resolve() takes the whole bond off the books and pays out at most the   *)
(* deposit: the shares of those who accept theirs, and a refund only to a  *)
(* challenger who was not proven wrong.                                    *)
(***************************************************************************)
LEMMA ResolveAccounts ==
  ASSUME TypeOK, TalliesMatchReports, NEW ch \in Challenges, NEW status, NEW refusing,
         Accounted(ch), Resolve(ch, status, refusing)
  PROVE  Accounted(ch)'
  <1> DEFINE s == SettlementOf(ch, status, refusing)
             accepting == Len(investigatorsOf[ch]) - Cardinality(Refusals(ch, refusing))
             paid == IF s.share > 0 THEN hasReported[ch] \ refusing ELSE {}
  <1>1. /\ s.share \in Nat /\ s.refund \in Nat /\ s.retained \in Nat
        /\ s.share * accepting \in Nat
        /\ s.share * accepting + s.refund + s.retained = challenges[ch].bond
    BY SettlementAmounts
  <1>2. s.refund > 0 => Refunded(challenges[ch].challengeType, status)
    BY DEF SettlementOf, SettleBond
  <1>3. accepting = Cardinality(hasReported[ch] \ refusing) /\ accepting \in Int
    BY AcceptingReporters, RefusalBounds
  <1> HIDE DEF s, accepting
  <1>4. s.share * Cardinality(paid) = s.share * accepting
    <2>1. CASE s.share > 0
      BY <1>3, <2>1
    <2>2. CASE ~(s.share > 0)
      <3>1. s.share = 0
        BY <1>1, <2>2
      <3>2. Cardinality(paid) = 0
        BY <2>2, FS_EmptySet
      <3> QED BY <1>3, <3>1, <3>2
    <2> QED BY <2>1, <2>2
  <1>5. /\ challenges[ch].bond = ledger[ch].deposit
        /\ challenges[ch].bond \in Nat
    BY DEF Accounted, Resolve, Resolvable, Decided, TypeOK, ChallengeRecord
  <1>6. /\ challenges'[ch].state = "RESOLVED" /\ challenges'[ch].bond = 0
        /\ challenges'[ch].challengeType = challenges[ch].challengeType
        /\ verdicts'[ch].status = status
        /\ hasReported' = hasReported
    BY DEF Resolve, Progressed, BondAfter, TypeOK, reportVars
  <1>7. /\ ledger'[ch].deposit = ledger[ch].deposit
        /\ ledger'[ch].share = s.share
        /\ ledger'[ch].paid = paid
        /\ ledger'[ch].refund = s.refund
    BY DEF Resolve, TypeOK, s
  <1>8. paid \subseteq hasReported[ch]
    OBVIOUS
  <1> HIDE DEF paid
  <1>9. s.share * Cardinality(paid) + s.refund <= ledger[ch].deposit
    BY <1>1, <1>4, <1>5
  <1> QED BY <1>2, <1>6, <1>7, <1>8, <1>9 DEF Accounted, Decided

(***************************************************************************)
(* A case none of whose amounts, state and verdict change stays accounted  *)
(* for, even if it gets another report.                                    *)
(***************************************************************************)
LEMMA UntouchedAccounts ==
  ASSUME NEW x \in Challenges, Accounted(x),
         Decided(x)' <=> Decided(x),
         challenges'[x].bond = challenges[x].bond,
         challenges'[x].challengeType = challenges[x].challengeType,
         verdicts'[x] = verdicts[x], ledger'[x] = ledger[x],
         hasReported[x] \subseteq hasReported'[x]
  PROVE  Accounted(x)'
  BY DEF Accounted

(***************************************************************************)
(* A step moves the money of one case only, and settles it by the reports  *)
(* it has.                                                                 *)
(***************************************************************************)
LEMMA BondStep ==
  ASSUME TypeOK, TalliesMatchReports, BondAccounted, [Next]_vars
  PROVE  BondAccounted'
  <1> SUFFICES ASSUME NEW x \in Challenges PROVE Accounted(x)'
    BY BondByCase DEF BondAccounted, Accounted
  <1>1. Accounted(x)
    BY BondByCase
  <1>2. hasReported[x] \subseteq hasReported'[x]
    <2>1. ASSUME NEW ch \in Challenges, NEW a, NEW v, NEW bundle, SubmitReport(ch, a, v, bundle)
          PROVE  hasReported[x] \subseteq hasReported'[x]
      BY <2>1 DEF SubmitReport, TypeOK
    <2> QED BY <2>1, OnlySubmitReportReports DEF reportVars
  <1>3. CASE challenges'[x] = challenges[x]
    <2>1. \A status, refusing : ~Resolve(x, status, refusing)
      BY <1>3 DEF Resolve, Resolvable, Progressed, TypeOK
    <2>2. \A cl, a, type, v, closesAt : ~OpenCase(x, cl, a, type, v, closesAt)
      BY <1>3 DEF OpenCase, TypeOK
    <2>3. verdicts'[x] = verdicts[x]
      <3>1. ASSUME NEW ch \in Challenges, NEW status, NEW refusing, Resolve(ch, status, refusing)
            PROVE  verdicts'[x] = verdicts[x]
        BY <2>1, <3>1 DEF Resolve, TypeOK
      <3> QED BY <3>1, OnlyResolveDecides
    <2>4. ledger'[x] = ledger[x]
      <3>1. ASSUME NEW ch \in Challenges, NEW status, NEW refusing, Resolve(ch, status, refusing)
            PROVE  ledger'[x] = ledger[x]
        BY <2>1, <3>1 DEF Resolve, TypeOK
      <3>2. ASSUME NEW ch \in Challenges, NEW cl, NEW a, NEW type, NEW v, NEW closesAt,
                   OpenCase(ch, cl, a, type, v, closesAt)
            PROVE  ledger'[x] = ledger[x]
        BY <2>2, <3>2 DEF OpenCase, TypeOK
      <3> QED BY <3>1, <3>2, OnlyOpeningAndResolvingPay DEF moneyVars
    <2>5. Decided(x)' <=> Decided(x)
      BY <1>3 DEF Decided
    <2> QED BY <1>1, <1>2, <1>3, <2>3, <2>4, <2>5, UntouchedAccounts
  <1>4. ASSUME NEW cl, NEW a, NEW type, NEW v \in Amounts, NEW closesAt,
               OpenCase(x, cl, a, type, v, closesAt)
        PROVE  Accounted(x)'
    <2>1. /\ challenges'[x].state = "OPEN" /\ challenges'[x].bond = v
          /\ ledger'[x].deposit = v /\ ledger'[x].share = 0
          /\ ledger'[x].paid = {} /\ ledger'[x].refund = 0
      BY <1>4 DEF OpenCase, TypeOK
    <2>2. v \in Nat
      BY ConstantsAssumption
    <2>3. 0 * Cardinality({}) + 0 <= v
      BY <2>2, FS_EmptySet
    <2> QED BY <2>1, <2>3 DEF Accounted, Decided
  <1>5. CASE (\E root : challenges[x].exists /\ LockEvidence(x, root)) \/ BeginInvestigation(x)
    <2>1. /\ challenges'[x].bond = challenges[x].bond
          /\ challenges'[x].challengeType = challenges[x].challengeType
          /\ challenges[x].state \in {"OPEN", "EVIDENCE_LOCKED"}
          /\ challenges'[x].state \in {"EVIDENCE_LOCKED", "INVESTIGATING"}
          /\ verdicts' = verdicts /\ ledger' = ledger
      BY <1>5 DEF LockEvidence, BeginInvestigation, ReadyToInvestigate, Progressed, moneyVars, TypeOK
    <2>2. Decided(x)' <=> Decided(x)
      BY <2>1 DEF Decided
    <2> QED BY <1>1, <1>2, <2>1, <2>2, UntouchedAccounts
  <1>6. CASE FileAppeal(x)
    <2>1. /\ challenges'[x].bond = challenges[x].bond
          /\ challenges'[x].challengeType = challenges[x].challengeType
          /\ challenges[x].state = "RESOLVED" /\ challenges'[x].state = "APPEALED"
          /\ verdicts' = verdicts /\ ledger' = ledger
      BY <1>6 DEF FileAppeal, Appealable, Progressed, moneyVars, TypeOK
    <2>2. Decided(x)' <=> Decided(x)
      BY <2>1 DEF Decided
    <2> QED BY <1>1, <1>2, <2>1, <2>2, UntouchedAccounts
  <1> QED BY <1>1, <1>3, <1>4, <1>5, <1>6, ResolveAccounts, HowCasesMove

(* Nothing is escrowed before the first case. *)
LEMMA BondInit == Init => BondAccounted
  <1>1. 0 * Cardinality({}) + 0 <= 0
    BY FS_EmptySet
  <1> SUFFICES ASSUME Init, NEW ch \in Challenges PROVE Accounted(ch)
    BY BondByCase
  <1>2. /\ challenges[ch].state = "OPEN" /\ challenges[ch].bond = 0
        /\ ledger[ch] = [deposit |-> 0, share |-> 0, paid |-> {}, refund |-> 0]
    BY DEF Init
  <1> QED BY <1>1, <1>2 DEF Accounted, Decided

(***************************************************************************)
(* For every case, the bond is escrowed whole until the verdict and off    *)
(* the books from then on, and the verdict pays out at most the deposit,   *)
(* to the reporters and to nobody proven wrong.  The count of payees needs *)
(* that no reporter is listed twice (TalliesMatchReports).                 *)
(***************************************************************************)
THEOREM BondsAreAccounted == Spec => []BondAccounted
  <1>1. Init => TypeOK /\ TalliesMatchReports /\ BondAccounted
    BY TypeInit, TalliesInit, BondInit
  <1>2. TypeOK /\ TalliesMatchReports /\ BondAccounted /\ [Next]_vars =>
          (TypeOK /\ TalliesMatchReports /\ BondAccounted)'
    BY TypeStep, TalliesStep, BondStep
  <1> QED BY <1>1, <1>2, PTL DEF Spec
-----------------------------------------------------------------------------
(***************************************************************************)
(* The lifecycle protocol-core promises: what it sees of the contract.     *)
(***************************************************************************)
ShownClaims ==
  [cl \in Claims |-> IF claims[cl].exists THEN claims[cl].status ELSE "ABSENT"]

ShownCases ==
  [ch \in Challenges |-> IF challenges[ch].exists THEN challenges[ch].state ELSE "ABSENT"]

(***************************************************************************)
(* A claim, or a case, whose record is replaced by one that exists in a    *)
(* status the table allows makes a legal move.                             *)
(***************************************************************************)
LEMMA LegalClaimStep ==
  ASSUME TypeOK, NEW y \in Claims, NEW to \in ClaimStatus,
         claims' \in [Claims -> ClaimRecord],
         \A x \in Claims \ {y} : claims'[x] = claims[x],
         claims'[y].exists, claims'[y].status = to,
         Promised!LegalClaimMove(ShownClaims[y], to)
  PROVE  Promised!ClaimMoves(y)
  <1>1. to \in DOMAIN Promised!ClaimTransitions
    BY DEF ClaimStatus, Promised!ClaimTransitions
  <1>2. ShownClaims' = [ShownClaims EXCEPT ![y] = to]
    <2>1. \A x \in Claims : ShownClaims'[x] = IF x = y THEN to ELSE ShownClaims[x]
      BY DEF ShownClaims
    <2> QED BY <2>1 DEF ShownClaims
  <1> QED BY <1>1, <1>2 DEF Promised!ClaimMoves, ShownClaims

(***************************************************************************)
(* One case that moved along the table is a move the abstract lifecycle    *)
(* allows.                                                                 *)
(***************************************************************************)
LEMMA LegalCaseStep ==
  ASSUME TypeOK, NEW x \in Challenges, NEW to \in ChallengeState,
         \A z \in Challenges \ {x} : challenges'[z] = challenges[z],
         challenges'[x].exists, challenges'[x].state = to,
         Promised!LegalChallengeMove(ShownCases[x], to)
  PROVE  Promised!ChallengeMoves(x)
  <1>1. to \in DOMAIN Promised!ChallengeTransitions
    BY DEF ChallengeState, Promised!ChallengeTransitions
  <1>2. ShownCases' = [ShownCases EXCEPT ![x] = to]
    <2>1. \A z \in Challenges : ShownCases'[z] = IF z = x THEN to ELSE ShownCases[z]
      BY DEF ShownCases
    <2> QED BY <2>1 DEF ShownCases
  <1> QED BY <1>1, <1>2 DEF Promised!ChallengeMoves, ShownCases

(***************************************************************************)
(* An existing, undecided case and its claim move on together.             *)
(***************************************************************************)
LEMMA CaseAndClaimMove ==
  ASSUME TypeOK, CaseInv, NEW x \in Challenges, challenges[x].exists, ~Decided(x),
         NEW bond, NEW root, NEW state \in ChallengeState, NEW status \in ClaimStatus,
         challenges' = [challenges EXCEPT ![x] = Progressed(@, bond, root, state)],
         claims' = [claims EXCEPT ![challenges[x].claimId] = WithStatus(@, status)],
         Promised!LegalChallengeMove(challenges[x].state, state),
         Promised!LegalClaimMove(StatusDuring(x), status)
  PROVE  Promised!Next
  <1>1. PICK y \in Claims : y = challenges[x].claimId /\ Agrees(x)
    BY DEF TypeOK, CaseInv, StatusesAgree
  <1>2. StatusDuring(x) # "TRUE"
    BY DEF StatusDuring, Decided, TypeOK, ChallengeRecord, ChallengeState
  <1>3. ShownClaims[y] = StatusDuring(x) /\ ShownCases[x] = challenges[x].state
    BY <1>1, <1>2 DEF ShownClaims, ShownCases, Agrees
  <1>4. /\ claims' \in [Claims -> ClaimRecord]
        /\ \A z \in Claims \ {y} : claims'[z] = claims[z]
        /\ claims'[y].exists /\ claims'[y].status = status
    <2>1. claims' \in [Claims -> ClaimRecord]
      BY <1>1, StatusTyped
    <2> QED BY <1>1, <2>1 DEF Agrees, WithStatus, TypeOK
  <1>5. /\ \A z \in Challenges \ {x} : challenges'[z] = challenges[z]
        /\ challenges'[x].exists /\ challenges'[x].state = state
    BY DEF Progressed, TypeOK
  <1>6. Promised!ClaimMoves(y)
    BY <1>1, <1>3, <1>4, LegalClaimStep
  <1>7. Promised!ChallengeMoves(x)
    BY <1>3, <1>5, LegalCaseStep
  <1> QED BY <1>1, <1>6, <1>7 DEF Promised!Next

(***************************************************************************)
(* Every operation of the contract is a move of the abstract lifecycle or a*)
(* stutter.                                                                *)
(***************************************************************************)
LEMMA LifecycleStep ==
  ASSUME TypeOK, CaseInv, [Next]_vars
  PROVE  [Promised!Next]_(Promised!vars)
  <1> USE DEF TypeOK
  <1>1. ASSUME NEW cl \in Claims, CreateClaim(cl) PROVE Promised!Next
    <2>1. /\ claims' \in [Claims -> ClaimRecord]
          /\ \A x \in Claims \ {cl} : claims'[x] = claims[x]
          /\ claims'[cl].exists /\ claims'[cl].status = "OPEN"
          /\ challenges' = challenges
      BY <1>1 DEF CreateClaim, caseVars, ClaimRecord, ClaimStatus
    <2>2. Promised!LegalClaimMove(ShownClaims[cl], "OPEN")
      BY <1>1 DEF CreateClaim, ShownClaims, Promised!LegalClaimMove, Promised!ClaimTransitions
    <2>3. Promised!ClaimMoves(cl)
      BY <2>1, <2>2, LegalClaimStep DEF ClaimStatus
    <2> QED BY <2>1, <2>3 DEF Promised!Next
  <1>2. ASSUME NEW clA \in Claims, NEW clB \in Claims, NEW relation \in RelationshipType,
               RecordRelationship(clA, clB, relation)
        PROVE  Promised!Next \/ UNCHANGED Promised!vars
    <2>1. CASE relation = "SUPERSEDES" /\ Supersedable(clA)
      <3>1. /\ claims' \in [Claims -> ClaimRecord]
            /\ \A x \in Claims \ {clA} : claims'[x] = claims[x]
            /\ claims'[clA].exists /\ claims'[clA].status = "SUPERSEDED"
            /\ challenges' = challenges
        BY <1>2, <2>1, TypeStep DEF RecordRelationship, caseVars
      <3>2. Promised!LegalClaimMove(ShownClaims[clA], "SUPERSEDED")
        BY <1>2, <2>1 DEF RecordRelationship, Supersedable, ShownClaims,
           Promised!LegalClaimMove, Promised!ClaimTransitions
      <3>3. Promised!ClaimMoves(clA)
        BY <3>1, <3>2, LegalClaimStep DEF ClaimStatus
      <3> QED BY <3>1, <3>3 DEF Promised!Next
    <2>2. CASE ~(relation = "SUPERSEDES" /\ Supersedable(clA))
      BY <1>2, <2>2 DEF RecordRelationship, claimVars, caseVars, Promised!vars
    <2> QED BY <2>1, <2>2
  <1>3. ASSUME NEW s \in Subjects, NEW root \in Roots, LockEvidence(s, root)
        PROVE  Promised!Next \/ UNCHANGED Promised!vars
    <2>1. CASE s \in Challenges /\ challenges[s].exists
      <3>1. /\ challenges[s].state = "OPEN"
            /\ challenges' = [challenges EXCEPT ![s] =
                 Progressed(@, challenges[s].bond, root, "EVIDENCE_LOCKED")]
            /\ claims' = [claims EXCEPT ![challenges[s].claimId] = WithStatus(@, "EVIDENCE_LOCKED")]
        BY <1>3, <2>1 DEF LockEvidence
      <3>2. ~Decided(s) /\ StatusDuring(s) = "CHALLENGED"
        BY <3>1 DEF Decided, StatusDuring
      <3>3. /\ Promised!LegalChallengeMove("OPEN", "EVIDENCE_LOCKED")
            /\ Promised!LegalClaimMove("CHALLENGED", "EVIDENCE_LOCKED")
        BY DEF Promised!LegalClaimMove, Promised!ClaimTransitions,
           Promised!LegalChallengeMove, Promised!ChallengeTransitions
      <3>4. "EVIDENCE_LOCKED" \in ChallengeState /\ "EVIDENCE_LOCKED" \in ClaimStatus
        BY DEF ChallengeState, ClaimStatus
      <3> QED BY <2>1, <3>1, <3>2, <3>3, <3>4, CaseAndClaimMove
    <2>2. CASE ~(s \in Challenges /\ challenges[s].exists)
      BY <1>3, <2>2 DEF LockEvidence, Promised!vars
    <2> QED BY <2>1, <2>2
  <1>4. ASSUME NEW ch \in Challenges, NEW cl \in Claims, NEW a, NEW type, NEW v, NEW closesAt,
               Challengeable(cl), OpenCase(ch, cl, a, type, v, closesAt)
        PROVE  Promised!Next
    <2>1. /\ claims' \in [Claims -> ClaimRecord]
          /\ \A x \in Claims \ {cl} : claims'[x] = claims[x]
          /\ claims'[cl].exists /\ claims'[cl].status = "CHALLENGED"
      BY <1>4, StatusTyped DEF OpenCase, Challengeable, WithStatus, ClaimStatus
    <2>2. /\ \A x \in Challenges \ {ch} : challenges'[x] = challenges[x]
          /\ challenges'[ch].exists /\ challenges'[ch].state = "OPEN"
      BY <1>4 DEF OpenCase
    <2>3. ShownClaims[cl] = "OPEN" /\ ShownCases[ch] = "ABSENT"
      BY <1>4 DEF OpenCase, Challengeable, ShownClaims, ShownCases
    <2>4. /\ Promised!LegalClaimMove("OPEN", "CHALLENGED")
          /\ Promised!LegalChallengeMove("ABSENT", "OPEN")
      BY DEF Promised!LegalClaimMove, Promised!ClaimTransitions,
         Promised!LegalChallengeMove, Promised!ChallengeTransitions
    <2>5. Promised!ClaimMoves(cl)
      BY <2>1, <2>3, <2>4, LegalClaimStep DEF ClaimStatus
    <2>6. Promised!ChallengeMoves(ch)
      BY <2>2, <2>3, <2>4, LegalCaseStep DEF ChallengeState
    <2> QED BY <2>5, <2>6 DEF Promised!Next
  <1>5. ASSUME NEW ch \in Challenges, BeginInvestigation(ch) PROVE Promised!Next
    <2>1. /\ challenges[ch].exists /\ challenges[ch].state = "EVIDENCE_LOCKED"
          /\ challenges' = [challenges EXCEPT ![ch] =
               Progressed(@, challenges[ch].bond, challenges[ch].evidenceRoot, "INVESTIGATING")]
          /\ claims' = [claims EXCEPT ![challenges[ch].claimId] = WithStatus(@, "INVESTIGATING")]
      BY <1>5 DEF BeginInvestigation, ReadyToInvestigate
    <2>2. ~Decided(ch) /\ StatusDuring(ch) = "EVIDENCE_LOCKED"
      BY <2>1 DEF Decided, StatusDuring
    <2>3. /\ Promised!LegalChallengeMove("EVIDENCE_LOCKED", "INVESTIGATING")
          /\ Promised!LegalClaimMove("EVIDENCE_LOCKED", "INVESTIGATING")
      BY DEF Promised!LegalClaimMove, Promised!ClaimTransitions,
         Promised!LegalChallengeMove, Promised!ChallengeTransitions
    <2>4. "INVESTIGATING" \in ChallengeState /\ "INVESTIGATING" \in ClaimStatus
      BY DEF ChallengeState, ClaimStatus
    <2> QED BY <2>1, <2>2, <2>3, <2>4, CaseAndClaimMove
  <1>6. ASSUME NEW ch \in Challenges, NEW status \in VerdictStatus, NEW refusing,
               Resolve(ch, status, refusing)
        PROVE  Promised!Next
    <2>1. /\ challenges[ch].exists /\ challenges[ch].state = "INVESTIGATING"
          /\ challenges' = [challenges EXCEPT ![ch] =
               Progressed(@, 0, challenges[ch].evidenceRoot, "RESOLVED")]
          /\ claims' = [claims EXCEPT ![challenges[ch].claimId] =
               WithStatus(@, ClaimStatusFor(status))]
      BY <1>6 DEF Resolve, Resolvable, BondAfter
    <2>2. ~Decided(ch) /\ StatusDuring(ch) = "INVESTIGATING"
      BY <2>1 DEF Decided, StatusDuring
    <2>3. ClaimStatusFor(status) \in {"TRUE", "FALSE", "CONTESTED", "INCONCLUSIVE"}
      BY <1>6, StatusTypes DEF Resolve, ClaimStatusFor
    <2>4. /\ Promised!LegalChallengeMove("INVESTIGATING", "RESOLVED")
          /\ Promised!LegalClaimMove("INVESTIGATING", ClaimStatusFor(status))
      BY <2>3 DEF Promised!LegalClaimMove, Promised!ClaimTransitions,
         Promised!LegalChallengeMove, Promised!ChallengeTransitions
    <2>5. "RESOLVED" \in ChallengeState /\ ClaimStatusFor(status) \in ClaimStatus
      BY StatusTypes DEF ChallengeState
    <2> QED BY <2>1, <2>2, <2>4, <2>5, CaseAndClaimMove
  <1>7. ASSUME NEW ch \in Challenges, FileAppeal(ch) PROVE Promised!Next
    <2>1. /\ \A x \in Challenges \ {ch} : challenges'[x] = challenges[x]
          /\ challenges'[ch].exists /\ challenges'[ch].state = "APPEALED"
          /\ ShownCases[ch] = "RESOLVED"
          /\ claims' = claims
      BY <1>7 DEF FileAppeal, Appealable, Progressed, ShownCases, claimVars
    <2>2. Promised!LegalChallengeMove("RESOLVED", "APPEALED")
      BY DEF Promised!LegalChallengeMove, Promised!ChallengeTransitions
    <2>3. Promised!ChallengeMoves(ch)
      BY <2>1, <2>2, LegalCaseStep DEF ChallengeState
    <2> QED BY <2>1, <2>3 DEF Promised!Next
  <1>8. ASSUME \/ Tick
               \/ \E s \in Subjects, e \in EvidenceIds : SubmitEvidence(s, e)
               \/ \E ch \in Challenges, a \in Accounts, v \in Verdicts, bundle \in Roots :
                    SubmitReport(ch, a, v, bundle)
               \/ \E i \in 1..Len(appeals) : ResolveAppeal(i)
               \/ UNCHANGED vars
        PROVE  UNCHANGED Promised!vars
    <2>1. UNCHANGED <<claims, challenges>>
      BY <1>8 DEF Tick, SubmitEvidence, SubmitReport, ResolveAppeal, vars, claimVars, caseVars
    <2> QED BY <2>1 DEF Promised!vars
  <1>9. ASSUME NEW ch \in Challenges, NEW cl \in Claims, NEW a \in Accounts,
               NEW type \in ChallengeType, NEW v \in Amounts, OpenChallenge(ch, cl, a, type, v)
        PROVE  Promised!Next
    BY <1>4, <1>9 DEF OpenChallenge
  <1>10. ASSUME NEW ch \in Challenges, NEW cl \in Claims, NEW a \in Accounts, NEW v \in Amounts,
                RequestVerification(ch, cl, a, v)
         PROVE  Promised!Next
    BY <1>4, <1>10 DEF RequestVerification
  <1> QED
    BY <1>1, <1>2, <1>3, <1>5, <1>6, <1>7, <1>8, <1>9, <1>10 DEF Next

(***************************************************************************)
(* The contract implements the lifecycle of protocol-core: every call      *)
(* makes a move of its two tables, on one claim, one challenge or one of   *)
(* each, or shows nothing.  That a claim is in the status its table entry  *)
(* needs is what StatusesAgree supplies.                                   *)
(***************************************************************************)
THEOREM ContractKeepsLifecycle == Spec => LifecycleKept
  <1>1. Init => Promised!Init
    BY DEF Init, Promised!Init
  <1>2. Init => TypeOK /\ CaseInv
    BY TypeInit, CaseInit
  <1>3. TypeOK /\ CaseInv /\ [Next]_vars => (TypeOK /\ CaseInv)'
    BY TypeStep, CaseStep
  <1>4. TypeOK /\ CaseInv /\ [Next]_vars => [Promised!Next]_(Promised!vars)
    BY LifecycleStep
  <1> QED BY <1>1, <1>2, <1>3, <1>4, PTL DEF Spec, LifecycleKept, Promised!Spec
-----------------------------------------------------------------------------
(***************************************************************************)
(* A case opened under an id whose evidence somebody had locked already.   *)
(* lockEvidence, the only way out of OPEN, refuses it from the start.      *)
(***************************************************************************)
Stranded(ch) ==
  challenges[ch].exists /\ challenges[ch].state = "OPEN" /\ evidenceLocked[ch]

(***************************************************************************)
(* No operation of the contract moves a case whose evidence was locked too *)
(* early.                                                                  *)
(***************************************************************************)
LEMMA StrandedStays ==
  ASSUME TypeOK, CaseInv, [Next]_vars, NEW x \in Challenges, Stranded(x)
  PROVE  /\ Stranded(x)'
         /\ challenges'[x] = challenges[x]
         /\ claims'[challenges[x].claimId] = claims[challenges[x].claimId]
  <1>1. /\ \A root : ~LockEvidence(x, root)
        /\ ~BeginInvestigation(x)
        /\ \A status, refusing : ~Resolve(x, status, refusing)
        /\ ~FileAppeal(x)
        /\ \A cl, a, type, v, closesAt : ~OpenCase(x, cl, a, type, v, closesAt)
    BY DEF Stranded, LockEvidence, BeginInvestigation, ReadyToInvestigate, Resolve, Resolvable,
           FileAppeal, Appealable, OpenCase
  <1>2. challenges'[x] = challenges[x]
    BY <1>1, HowCasesMove
  <1>3. evidenceLocked'[x]
    BY LocksStay DEF Stranded, Subjects
  <1>4. PICK y \in Claims : y = challenges[x].claimId
    BY DEF Stranded, TypeOK
  <1>5. claims[y].exists /\ claims[y].status = "CHALLENGED"
    BY <1>4 DEF Stranded, CaseInv, StatusesAgree, Agrees, StatusDuring
  <1>6. \A ch \in Challenges : challenges[ch].exists /\ challenges[ch].claimId = y => ch = x
    BY <1>4 DEF Stranded, CaseInv, OneCasePerClaim
  <1>7. /\ ~CreateClaim(y) /\ ~Supersedable(y) /\ ~Challengeable(y)
    BY <1>5 DEF CreateClaim, Supersedable, Challengeable
  <1>8. claims'[y] = claims[y]
    BY <1>1, <1>6, <1>7, HowClaimsMove
  <1> QED BY <1>2, <1>3, <1>4, <1>8 DEF Stranded

(***************************************************************************)
(* Such a case is lost for good: it stays OPEN with its bond in escrow,    *)
(* and its claim stays CHALLENGED, whatever anybody calls.                 *)
(***************************************************************************)
THEOREM PrematureLockStrands ==
  Spec => [][\A ch \in Challenges : Stranded(ch) =>
               /\ Stranded(ch)'
               /\ challenges'[ch] = challenges[ch]
               /\ claims'[challenges[ch].claimId] = claims[challenges[ch].claimId]]_vars
  <1>1. Init => TypeOK /\ CaseInv
    BY TypeInit, CaseInit
  <1>2. TypeOK /\ CaseInv /\ [Next]_vars => (TypeOK /\ CaseInv)'
    BY TypeStep, CaseStep
  <1>3. TypeOK /\ CaseInv /\ [Next]_vars =>
          [\A ch \in Challenges : Stranded(ch) =>
             /\ Stranded(ch)'
             /\ challenges'[ch] = challenges[ch]
             /\ claims'[challenges[ch].claimId] = claims[challenges[ch].claimId]]_vars
    BY StrandedStays
  <1> QED BY <1>1, <1>2, <1>3, PTL DEF Spec
-----------------------------------------------------------------------------
(***************************************************************************)
(* Solvency.  What an entry of the ledger leaves in the contract, and that *)
(* it leaves the deposit when nobody was paid.                             *)
(***************************************************************************)
LEMMA EntryAmounts ==
  ASSUME NEW e \in LedgerEntry
  PROVE  /\ e.deposit \in Nat /\ e.share \in Nat /\ e.refund \in Nat
         /\ e.share * Cardinality(e.paid) \in Nat
         /\ e.deposit - e.share * Cardinality(e.paid) - e.refund \in Int
         /\ e.paid = {} /\ e.refund = 0 =>
              e.deposit - e.share * Cardinality(e.paid) - e.refund = e.deposit
  <1>1. /\ e.deposit \in Nat /\ e.share \in Nat /\ e.refund \in Nat
        /\ e.paid \in SUBSET Accounts
    BY DEF LedgerEntry
  <1>2. Cardinality(e.paid) \in Nat
    BY <1>1, ConstantsAssumption, FS_Subset, FS_CardinalityType
  <1>3. e.share * Cardinality(e.paid) \in Nat
    BY <1>1, <1>2
  <1>4. e.paid = {} => e.share * Cardinality(e.paid) = 0
    <2>1. Cardinality({}) = 0 /\ e.share * 0 = 0
      BY <1>1, FS_EmptySet
    <2> QED BY <2>1
  <1> QED BY <1>1, <1>3, <1>4

(* The amounts summed up over the cases are integers. *)
LEMMA HeldTyped ==
  ASSUME TypeOK
  PROVE  Held \in [Challenges -> Int] /\ Escrowed \in [Challenges -> Int]
  <1>1. Held \in [Challenges -> Int]
    BY EntryAmounts DEF Held, TypeOK
  <1>2. Escrowed \in [Challenges -> Int]
    BY DEF Escrowed, TypeOK, ChallengeRecord
  <1> QED BY <1>1, <1>2

(***************************************************************************)
(* Nothing was received or paid for a case before it is opened, and the    *)
(* balance is what is held for all cases.                                  *)
(***************************************************************************)
MoneyInv ==
  /\ \A ch \in Challenges : ~challenges[ch].exists =>
       ledger[ch].deposit = 0 /\ ledger[ch].paid = {} /\ ledger[ch].refund = 0
  /\ balance = SumFunction(Held)

(* Nothing is held at first. *)
LEMMA MoneyInit == Init => MoneyInv
  <1> SUFFICES ASSUME Init PROVE MoneyInv
    OBVIOUS
  <1>1. \A x \in Challenges : ledger[x].deposit = 0 /\ ledger[x].share = 0 /\ ledger[x].paid = {} /\ ledger[x].refund = 0
    BY DEF Init
  <1>2. \A x \in Challenges : 0 - 0 * Cardinality({}) - 0 = 0
    BY FS_EmptySet
  <1>3. Held = [x \in Challenges |-> 0]
    BY <1>1, <1>2 DEF Held
  <1> QED BY <1>1, <1>3, CasesAssumption, SumOfZeros DEF MoneyInv, Init

(***************************************************************************)
(* Opening a case adds to what is held for it what the contract receives.  *)
(***************************************************************************)
LEMMA OpeningHolds ==
  ASSUME TypeOK, MoneyInv, NEW ch \in Challenges, NEW cl, NEW a, NEW type, NEW v \in Amounts,
         NEW closesAt, OpenCase(ch, cl, a, type, v, closesAt), Held' \in [Challenges -> Int]
  PROVE  balance' = SumFunction(Held')
  <1>1. v \in Nat
    BY ConstantsAssumption
  <1>2. /\ balance' = balance + v /\ ~challenges[ch].exists
        /\ ledger' = [ledger EXCEPT ![ch] = [deposit |-> v, share |-> 0, paid |-> {}, refund |-> 0]]
    BY DEF OpenCase
  <1>3. \A x \in Challenges \ {ch} : Held'[x] = Held[x]
    BY <1>2 DEF Held, TypeOK
  <1>4. ledger'[ch] = [deposit |-> v, share |-> 0, paid |-> {}, refund |-> 0]
    BY <1>2 DEF TypeOK
  <1>5. Held'[ch] = v
    <2>1. ledger'[ch] \in LedgerEntry
      BY <1>1, <1>4 DEF LedgerEntry
    <2> QED BY <1>4, <2>1, EntryAmounts DEF Held
  <1>6. Held[ch] = 0
    <2>1. ledger[ch].deposit = 0 /\ ledger[ch].paid = {} /\ ledger[ch].refund = 0
      BY <1>2 DEF MoneyInv
    <2> QED BY <2>1, EntryAmounts DEF Held, TypeOK
  <1>7. SumFunction(Held') = SumFunction(Held) + (Held'[ch] - Held[ch])
    BY <1>3, HeldTyped, CasesAssumption, SumChanges
  <1>8. balance \in Int
    BY DEF TypeOK
  <1> QED BY <1>1, <1>2, <1>5, <1>6, <1>7, <1>8 DEF MoneyInv

(***************************************************************************)
(* Resolving a case takes from what is held for it what leaves the         *)
(* contract: as many shares as there are reporters paid, and the refund.   *)
(***************************************************************************)
LEMMA ResolvingHolds ==
  ASSUME TypeOK, TalliesMatchReports, BondAccounted, MoneyInv, NEW ch \in Challenges,
         NEW status, NEW refusing, Resolve(ch, status, refusing), Held' \in [Challenges -> Int]
  PROVE  balance' = SumFunction(Held')
  <1> DEFINE s == SettlementOf(ch, status, refusing)
             accepting == Len(investigatorsOf[ch]) - Cardinality(Refusals(ch, refusing))
             paid == IF s.share > 0 THEN hasReported[ch] \ refusing ELSE {}
  <1>1. s.share \in Nat /\ s.refund \in Nat /\ s.share * accepting \in Nat
    BY SettlementAmounts
  <1>2. accepting = Cardinality(hasReported[ch] \ refusing) /\ accepting \in Int
    BY AcceptingReporters, RefusalBounds
  <1>3. /\ balance' = balance - (s.share * accepting + s.refund)
        /\ ledger' = [ledger EXCEPT ![ch] =
             [deposit |-> @.deposit, share |-> s.share, paid |-> paid, refund |-> s.refund]]
    BY DEF Resolve, Outflow
  <1> HIDE DEF s, accepting
  <1>4. s.share * Cardinality(paid) = s.share * accepting
    <2>1. CASE s.share > 0
      BY <1>2, <2>1
    <2>2. CASE ~(s.share > 0)
      <3>1. s.share = 0
        BY <1>1, <2>2
      <3>2. Cardinality(paid) = 0
        BY <2>2, FS_EmptySet
      <3> QED BY <1>2, <3>1, <3>2
    <2> QED BY <2>1, <2>2
  <1> HIDE DEF paid
  <1>5. \A x \in Challenges \ {ch} : Held'[x] = Held[x]
    BY <1>3 DEF Held, TypeOK
  <1>6. /\ ledger'[ch].deposit = ledger[ch].deposit /\ ledger'[ch].share = s.share
        /\ ledger'[ch].paid = paid /\ ledger'[ch].refund = s.refund
    BY <1>3 DEF TypeOK
  <1>7. Held'[ch] = ledger[ch].deposit - s.share * accepting - s.refund
    BY <1>4, <1>6 DEF Held
  <1>8. Held[ch] = ledger[ch].deposit
    <2>1. ledger[ch].paid = {} /\ ledger[ch].refund = 0
      BY DEF BondAccounted, Resolve, Resolvable, Decided
    <2> QED BY <2>1, EntryAmounts DEF Held, TypeOK
  <1>9. SumFunction(Held') = SumFunction(Held) + (Held'[ch] - Held[ch])
    BY <1>5, HeldTyped, CasesAssumption, SumChanges
  <1>10. ledger[ch].deposit \in Nat /\ balance \in Int
    BY EntryAmounts DEF TypeOK
  <1> QED BY <1>1, <1>3, <1>7, <1>8, <1>9, <1>10 DEF MoneyInv

(* The balance stays what is held, whatever call is made. *)
LEMMA MoneyStep ==
  ASSUME TypeOK, TalliesMatchReports, BondAccounted, MoneyInv, [Next]_vars
  PROVE  MoneyInv'
  <1>1. Held' \in [Challenges -> Int]
    <2>1. TypeOK'
      BY TypeStep
    <2> QED BY <2>1, EntryAmounts DEF Held, TypeOK
  <1>2. balance' = SumFunction(Held')
    <2>1. CASE UNCHANGED moneyVars
      BY <2>1 DEF moneyVars, MoneyInv, Held
    <2> QED BY <1>1, <2>1, OpeningHolds, ResolvingHolds, OnlyOpeningAndResolvingPay
  <1>3. ASSUME NEW x \in Challenges, ~challenges'[x].exists
        PROVE  ledger'[x].deposit = 0 /\ ledger'[x].paid = {} /\ ledger'[x].refund = 0
    <2>1. ~challenges[x].exists
      <3> SUFFICES ASSUME challenges[x].exists PROVE FALSE
        OBVIOUS
      <3>1. \A root : ~LockEvidence(x, root)
        BY <1>3 DEF LockEvidence, Progressed, TypeOK
      <3>2. ~BeginInvestigation(x)
        BY <1>3 DEF BeginInvestigation, Progressed, TypeOK
      <3>3. \A status, refusing : ~Resolve(x, status, refusing)
        BY <1>3 DEF Resolve, Progressed, TypeOK
      <3>4. ~FileAppeal(x)
        BY <1>3 DEF FileAppeal, Progressed, TypeOK
      <3>5. \A cl, a, type, v, closesAt : ~OpenCase(x, cl, a, type, v, closesAt)
        BY DEF OpenCase
      <3> QED BY <1>3, <3>1, <3>2, <3>3, <3>4, <3>5, HowCasesMove
    <2>2. ASSUME NEW ch \in Challenges, NEW cl, NEW a, NEW type, NEW v, NEW closesAt,
                 OpenCase(ch, cl, a, type, v, closesAt)
          PROVE  ledger'[x] = ledger[x]
      BY <1>3, <2>2 DEF OpenCase, TypeOK
    <2>3. ASSUME NEW ch \in Challenges, NEW status, NEW refusing, Resolve(ch, status, refusing)
          PROVE  ledger'[x] = ledger[x]
      BY <2>1, <2>3 DEF Resolve, Resolvable, TypeOK
    <2>4. ledger'[x] = ledger[x]
      BY <2>2, <2>3, OnlyOpeningAndResolvingPay DEF moneyVars
    <2> QED BY <2>1, <2>4 DEF MoneyInv
  <1> QED BY <1>2, <1>3 DEF MoneyInv

(***************************************************************************)
(* The contract can always pay: however many cases there are, whatever     *)
(* their bonds, and whoever refused its transfer before, the balance is    *)
(* what was sent less what was transferred, over all cases, and covers all *)
(* bonds still escrowed.                                                   *)
(***************************************************************************)
THEOREM AlwaysSolvent == Spec => []Solvent
  <1> DEFINE IInv == TypeOK /\ TalliesMatchReports /\ BondAccounted /\ MoneyInv
  <1>1. Init => IInv
    BY TypeInit, TalliesInit, BondInit, MoneyInit
  <1>2. IInv /\ [Next]_vars => IInv'
    BY TypeStep, TalliesStep, BondStep, MoneyStep
  <1>3. IInv => Solvent
    <2> SUFFICES ASSUME IInv PROVE Solvent
      OBVIOUS
    <2>1. ASSUME NEW x \in Challenges PROVE Escrowed[x] <= Held[x]
      <3>1. /\ ledger[x].share * Cardinality(ledger[x].paid) + ledger[x].refund <= ledger[x].deposit
            /\ ~Decided(x) => /\ challenges[x].bond = ledger[x].deposit
                              /\ ledger[x].paid = {} /\ ledger[x].refund = 0
            /\ Decided(x) => challenges[x].bond = 0
        BY DEF BondAccounted
      <3> DEFINE e == ledger[x]
                 paidOut == e.share * Cardinality(e.paid)
      <3>2. /\ e.deposit \in Nat /\ e.refund \in Nat /\ paidOut \in Nat
            /\ e.paid = {} /\ e.refund = 0 => e.deposit - paidOut - e.refund = e.deposit
        BY EntryAmounts DEF TypeOK
      <3>3. Held[x] = e.deposit - paidOut - e.refund /\ Escrowed[x] = challenges[x].bond
        BY DEF Held, Escrowed
      <3> HIDE DEF e, paidOut
      <3>4. CASE Decided(x)
        BY <3>1, <3>2, <3>3, <3>4 DEF e, paidOut
      <3>5. CASE ~Decided(x)
        BY <3>1, <3>2, <3>3, <3>5 DEF e
      <3> QED BY <3>4, <3>5
    <2>2. SumFunction(Escrowed) <= SumFunction(Held)
      BY <2>1, HeldTyped, CasesAssumption, SumsGrow
    <2>3. balance = SumFunction(Held) /\ balance \in Int
      BY DEF MoneyInv, TypeOK
    <2>4. \A m, n : m <= n => n >= m
      OBVIOUS
    <2> QED BY <2>2, <2>3, <2>4 DEF Solvent
  <1> QED BY <1>1, <1>2, <1>3, PTL DEF Spec
=============================================================================
