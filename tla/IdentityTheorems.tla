--------------------------- MODULE IdentityTheorems ---------------------------
(***************************************************************************)
(* The two contracts together, for any sets of identities and accounts:    *)
(* the registry's theorems carry over, lineages are endorsed, and links    *)
(* between reports and identities are exact.                               *)
(***************************************************************************)
EXTENDS IdentifiedReports, RegistryTheorems

(***************************************************************************)
(* What a step of the two contracts is for each of them.                   *)
(***************************************************************************)
LEMMA StepOfRegistry ==
  ASSUME [IdentifiedNext]_allVars
  PROVE  [Next]_vars
  BY DEF IdentifiedNext, allVars, SubmitReportAsIdentity, Next

(* A step of the whole is a step of the identity registry, or none. *)
LEMMA StepOfIdentities ==
  ASSUME [IdentifiedNext]_allVars
  PROVE  [Identities!Next]_identityVars
  BY DEF IdentifiedNext, allVars, SubmitReportAsIdentity, identityVars

(* Only a report filed under an identity adds a link. *)
LEMMA OnlyIdentifiedReportsLink ==
  ASSUME [IdentifiedNext]_allVars
  PROVE  \/ UNCHANGED links
         \/ \E ch \in Challenges, a \in Accounts, id \in Investigators, v \in Verdicts,
               bundle \in Roots : SubmitReportAsIdentity(ch, a, id, v, bundle)
  BY DEF IdentifiedNext, allVars

(***************************************************************************)
(* Filing reports for identities adds no behaviour to either contract:     *)
(* what is proved of the registry alone (cases, verdicts, bonds, the       *)
(* lifecycle) holds of the two contracts together.                         *)
(***************************************************************************)
THEOREM TogetherRefinesEach == IdentifiedSpec => Spec /\ Identities!Spec
  <1>1. IdentifiedInit => Init /\ Identities!Init
    BY DEF IdentifiedInit
  <1>2. [IdentifiedNext]_allVars => [Next]_vars /\ [Identities!Next]_(Identities!identityVars)
    BY StepOfRegistry, StepOfIdentities DEF identityVars, Identities!identityVars
  <1> QED BY <1>1, <1>2, PTL DEF IdentifiedSpec, Spec, Identities!Spec

-----------------------------------------------------------------------------
(***************************************************************************)
(* Identities.  That a predecessor shared a key with its successor is kept *)
(* by every step because the last of an identity's keys is the present one,*)
(* and an id nobody registered has no predecessor and no key.              *)
(***************************************************************************)
LastKeyControls(id) ==
  LET n == Len(controllers[id])
  IN IF investigators[id].exists
     THEN n \in 1..MaxKeys /\ controllers[id][n] = investigators[id].controller
     ELSE /\ investigators[id].controller = None /\ investigators[id].parentId = None
          /\ controllers[id] = <<>>

LineageInv ==
  /\ Identities!TypeOK
  /\ \A id \in Investigators : LastKeyControls(id)
  /\ LineageEndorsed

(* No identity is registered at first. *)
LEMMA LineageInit == Identities!Init => LineageInv
  BY InvestigatorsAssumption
  DEF Identities!Init, LineageInv, Identities!TypeOK, Identities!Investigator, LineageEndorsed,
      Identities!LineageEndorsed, LastKeyControls

(***************************************************************************)
(* What an operation does to the keys: a registered id has one, a rotated  *)
(* one is followed by another, and no other identity's keys change.        *)
(***************************************************************************)
LEMMA RegisterKeys ==
  ASSUME LineageInv, NEW id \in Investigators, NEW a \in Accounts,
         NEW parentId \in Investigators \cup {None}, Identities!Register(id, a, parentId)
  PROVE  /\ Identities!TypeOK'
         /\ ~investigators[id].exists /\ controllers[id] = <<>>
         /\ investigators'[id] = [controller |-> a, parentId |-> parentId, exists |-> TRUE]
         /\ controllers'[id] = <<a>>
         /\ \A x \in Investigators \ {id} : /\ investigators'[x] = investigators[x]
                                            /\ controllers'[x] = controllers[x]
  <1>1. ~investigators[id].exists
    BY DEF Identities!Register
  <1>2. controllers[id] = <<>>
    BY <1>1 DEF LineageInv, LastKeyControls
  <1>3. <<a>> \in Seq(Accounts) /\ [controller |-> a, parentId |-> parentId, exists |-> TRUE]
                                      \in Identities!Investigator
    BY DEF Identities!Investigator
  <1>4. Identities!TypeOK'
    BY <1>3 DEF LineageInv, Identities!Register, Identities!TypeOK
  <1> QED BY <1>1, <1>2, <1>4 DEF LineageInv, Identities!Register, Identities!TypeOK

(* A rotation appends a key. *)
LEMMA RotateKeys ==
  ASSUME LineageInv, NEW id \in Investigators, NEW a \in Accounts, NEW b \in Accounts,
         Identities!RotateController(id, a, b)
  PROVE  LET n == Len(controllers[id])
         IN /\ Identities!TypeOK'
            /\ investigators[id].exists /\ n \in Nat /\ n + 1 \in 1..MaxKeys
            /\ investigators'[id] =
                 [controller |-> b, parentId |-> investigators[id].parentId, exists |-> TRUE]
            /\ Len(controllers'[id]) = n + 1 /\ controllers'[id][n + 1] = b
            /\ \A k \in 1..n : controllers'[id][k] = controllers[id][k]
            /\ \A x \in Investigators \ {id} : /\ investigators'[x] = investigators[x]
                                               /\ controllers'[x] = controllers[x]
  <1> DEFINE n == Len(controllers[id])
             e == [controller |-> b, parentId |-> investigators[id].parentId, exists |-> TRUE]
  <1>1. /\ investigators[id].exists /\ n < MaxKeys
        /\ investigators' = [investigators EXCEPT ![id] = e]
        /\ controllers' = [controllers EXCEPT ![id] = Append(controllers[id], b)]
    BY DEF Identities!RotateController
  <1>2. controllers[id] \in Seq(Accounts) /\ e \in Identities!Investigator
    BY DEF LineageInv, Identities!TypeOK, Identities!Investigator
  <1>3. Identities!TypeOK'
    BY <1>1, <1>2 DEF LineageInv, Identities!TypeOK
  <1>4. n \in Nat /\ n + 1 \in 1..MaxKeys
    BY <1>1, <1>2, KeysAssumption
  <1>5. controllers'[id] = Append(controllers[id], b)
    BY <1>1 DEF LineageInv, Identities!TypeOK
  <1>6. /\ Len(controllers'[id]) = n + 1 /\ controllers'[id][n + 1] = b
        /\ \A k \in 1..n : controllers'[id][k] = controllers[id][k]
    BY <1>2, <1>5
  <1>7. investigators'[id] = e
    BY <1>1 DEF LineageInv, Identities!TypeOK
  <1>8. \A x \in Investigators \ {id} : /\ investigators'[x] = investigators[x]
                                        /\ controllers'[x] = controllers[x]
    BY <1>1 DEF LineageInv, Identities!TypeOK
  <1> QED BY <1>1, <1>3, <1>4, <1>6, <1>7, <1>8

(***************************************************************************)
(* Every operation of the identity registry extends the lineage by what it *)
(* endorses.                                                               *)
(***************************************************************************)
LEMMA LineageStep ==
  ASSUME LineageInv, [Identities!Next]_identityVars
  PROVE  LineageInv'
  <1>1. ASSUME NEW id \in Investigators, NEW a \in Accounts,
               NEW parentId \in Investigators \cup {None}, Identities!Register(id, a, parentId)
        PROVE  LineageInv'
    <2>1. /\ Identities!TypeOK' /\ ~investigators[id].exists
          /\ investigators'[id] = [controller |-> a, parentId |-> parentId, exists |-> TRUE]
          /\ controllers'[id] = <<a>>
          /\ \A x \in Investigators \ {id} : /\ investigators'[x] = investigators[x]
                                             /\ controllers'[x] = controllers[x]
      BY <1>1, RegisterKeys
    <2>2. parentId # None => /\ parentId \in Investigators /\ parentId # id
                             /\ investigators[parentId].exists
                             /\ investigators[parentId].controller = a
      BY <1>1, <2>1 DEF Identities!Register, Identities!MaySucceed, Identities!Controls
    <2>3. \A x \in Investigators : LastKeyControls(x)'
      <3>1. LastKeyControls(id)'
        BY <2>1, KeysAssumption DEF LastKeyControls
      <3>2. \A x \in Investigators \ {id} : LastKeyControls(x)'
        BY <2>1 DEF LastKeyControls, LineageInv
      <3> QED BY <3>1, <3>2
    <2>4. Identities!Holders(id)' = {a}
      BY <2>1 DEF Identities!Holders
    <2>5. \A x \in Investigators \ {id} : Identities!Holders(x)' = Identities!Holders(x)
      BY <2>1 DEF Identities!Holders
    <2>6. parentId # None => a \in Identities!Holders(parentId)
      BY <2>2 DEF LineageInv, LastKeyControls, Identities!Holders
    <2>7. ASSUME NEW x \in Investigators, investigators'[x].parentId # None
          PROVE  /\ investigators'[x].exists
                 /\ investigators'[investigators'[x].parentId].exists
                 /\ Identities!Holders(x)' \cap Identities!Holders(investigators[x].parentId)' # {}
      <3>1. CASE x = id
        BY <2>1, <2>2, <2>4, <2>5, <2>6, <2>7, <3>1
      <3>2. CASE x # id
        <4> DEFINE p == investigators[x].parentId
        <4>1. p # None /\ investigators'[x] = investigators[x]
          BY <2>1, <2>7, <3>2
        <4>2. p \in Investigators
          BY <4>1 DEF LineageInv, Identities!TypeOK, Identities!Investigator
        <4>3. /\ investigators[x].exists /\ investigators[p].exists
              /\ Identities!Holders(x) \cap Identities!Holders(p) # {}
          BY <4>1 DEF LineageInv, LineageEndorsed, Identities!LineageEndorsed
        <4>4. p # id /\ investigators'[p] = investigators[p]
          BY <2>1, <4>2, <4>3
        <4>5. Identities!Holders(x)' \cap Identities!Holders(p)' # {}
          <5>1. Identities!Holders(x)' = Identities!Holders(x)
            BY <2>5, <3>2
          <5>2. Identities!Holders(p)' = Identities!Holders(p)
            BY <2>1, <4>1, <4>2, <4>4 DEF Identities!Holders
          <5> QED BY <4>3, <5>1, <5>2
        <4> QED BY <4>1, <4>3, <4>4, <4>5
      <3> QED BY <3>1, <3>2
    <2>8. LineageEndorsed'
      BY <2>7 DEF LineageEndorsed, Identities!LineageEndorsed
    <2> QED BY <2>1, <2>3, <2>8 DEF LineageInv
  <1>2. ASSUME NEW id \in Investigators, NEW a \in Accounts, NEW b \in Accounts,
               Identities!RotateController(id, a, b)
        PROVE  LineageInv'
    <2> DEFINE n == Len(controllers[id])
    <2>1. /\ Identities!TypeOK' /\ investigators[id].exists
          /\ n \in Nat /\ n + 1 \in 1..MaxKeys
          /\ investigators'[id] =
               [controller |-> b, parentId |-> investigators[id].parentId, exists |-> TRUE]
          /\ Len(controllers'[id]) = n + 1 /\ controllers'[id][n + 1] = b
          /\ \A k \in 1..n : controllers'[id][k] = controllers[id][k]
          /\ \A x \in Investigators \ {id} : /\ investigators'[x] = investigators[x]
                                             /\ controllers'[x] = controllers[x]
      BY <1>2, RotateKeys
    <2> HIDE DEF n
    <2>2. \A x \in Investigators : LastKeyControls(x)'
      <3>1. LastKeyControls(id)'
        BY <2>1 DEF LastKeyControls
      <3>2. \A x \in Investigators \ {id} : LastKeyControls(x)'
        BY <2>1 DEF LastKeyControls, LineageInv
      <3> QED BY <3>1, <3>2
    <2>3. \A x \in Investigators : /\ investigators'[x].exists <=> investigators[x].exists
                                   /\ investigators'[x].parentId = investigators[x].parentId
      BY <2>1
    <2>4. \A x \in Investigators : Identities!Holders(x) \subseteq Identities!Holders(x)'
      <3>1. Identities!Holders(id) \subseteq Identities!Holders(id)'
        BY <2>1 DEF Identities!Holders, n
      <3>2. \A x \in Investigators \ {id} : Identities!Holders(x)' = Identities!Holders(x)
        BY <2>1 DEF Identities!Holders
      <3> QED BY <3>1, <3>2
    <2>5. \A x \in Investigators :
            investigators[x].parentId # None => investigators[x].parentId \in Investigators
      BY DEF LineageInv, Identities!TypeOK, Identities!Investigator
    <2>6. LineageEndorsed'
      BY <2>3, <2>4, <2>5 DEF LineageInv, LineageEndorsed, Identities!LineageEndorsed
    <2> QED BY <2>1, <2>2, <2>6 DEF LineageInv
  <1>3. CASE UNCHANGED identityVars
    <2>1. /\ Identities!TypeOK'
          /\ \A id \in Investigators : LastKeyControls(id)'
      BY <1>3 DEF identityVars, LineageInv, Identities!TypeOK, LastKeyControls
    <2>2. LineageEndorsed'
      <3>1. \A x : Identities!Holders(x)' = Identities!Holders(x)
        BY <1>3 DEF identityVars, Identities!Holders
      <3> QED BY <1>3, <3>1 DEF identityVars, LineageInv, LineageEndorsed, Identities!LineageEndorsed
    <2> QED BY <2>1, <2>2 DEF LineageInv
  <1> QED BY <1>1, <1>2, <1>3 DEF Identities!Next

(***************************************************************************)
(* However keys are rotated and identities succeeded, nobody grafts an     *)
(* identity onto a track record they never held a key of.                  *)
(***************************************************************************)
THEOREM LineagesAreEndorsed == IdentifiedSpec => []LineageEndorsed
  <1>1. IdentifiedInit => LineageInv
    BY LineageInit DEF IdentifiedInit
  <1>2. LineageInv /\ [IdentifiedNext]_allVars => LineageInv'
    BY StepOfIdentities, LineageStep
  <1>3. LineageInv => LineageEndorsed
    BY DEF LineageInv
  <1> QED BY <1>1, <1>2, <1>3, PTL DEF IdentifiedSpec
-----------------------------------------------------------------------------
(***************************************************************************)
(* Links.  Each is about a report its case received, and no two are about  *)
(* one reporter of a case: submitReport refuses a second report.           *)
(***************************************************************************)
Link == [challengeId : Challenges, investigator : Accounts, investigatorId : Investigators]

LinkInv ==
  /\ links \in Seq(Link)
  /\ \A k \in 1..Len(links) : links[k].investigator \in hasReported[links[k].challengeId]
  /\ \A k, l \in 1..Len(links) :
       /\ links[k].challengeId = links[l].challengeId
       /\ links[k].investigator = links[l].investigator
       => k = l

(* Who has reported on a case has reported for good. *)
LEMMA ReportersStay ==
  ASSUME TypeOK, [Next]_vars, NEW x \in Challenges
  PROVE  hasReported[x] \subseteq hasReported'[x]
  <1>1. ASSUME NEW ch \in Challenges, NEW a, NEW v, NEW bundle, SubmitReport(ch, a, v, bundle)
        PROVE  hasReported[x] \subseteq hasReported'[x]
    BY <1>1 DEF SubmitReport, TypeOK
  <1> QED BY <1>1, OnlySubmitReportReports DEF reportVars

(* A link is added with the report it names. *)
LEMMA LinkStep ==
  ASSUME TypeOK, LinkInv, [IdentifiedNext]_allVars
  PROVE  LinkInv'
  <1>1. \A k \in 1..Len(links) : links[k] \in Link
    BY DEF LinkInv
  <1>2. \A k \in 1..Len(links) : links[k].investigator \in hasReported'[links[k].challengeId]
    BY <1>1, ReportersStay, StepOfRegistry DEF LinkInv, Link
  <1>3. CASE UNCHANGED links
    BY <1>2, <1>3 DEF LinkInv
  <1>4. ASSUME NEW ch \in Challenges, NEW a \in Accounts, NEW id \in Investigators,
               NEW v \in Verdicts, NEW bundle \in Roots,
               SubmitReportAsIdentity(ch, a, id, v, bundle)
        PROVE  LinkInv'
    <2> DEFINE e == [challengeId |-> ch, investigator |-> a, investigatorId |-> id]
               n == Len(links)
    <2>1. /\ a \notin hasReported[ch] /\ a \in hasReported'[ch]
          /\ links' = Append(links, e)
      BY <1>4 DEF SubmitReportAsIdentity, SubmitReport, MayReport, TypeOK
    <2>2. e \in Link /\ links \in Seq(Link) /\ n \in Nat
      BY DEF Link, LinkInv
    <2>3. e.challengeId = ch /\ e.investigator = a
      OBVIOUS
    <2> HIDE DEF e
    <2>4. /\ links' \in Seq(Link) /\ Len(links') = n + 1 /\ links'[n + 1] = e
          /\ \A k \in 1..n : links'[k] = links[k]
          /\ 1..(n + 1) = (1..n) \cup {n + 1}
      BY <2>1, <2>2
    <2>5. \A k \in 1..n : links[k].challengeId # ch \/ links[k].investigator # a
      BY <2>1 DEF LinkInv
    <2>6. \A k \in 1..(n + 1) : links'[k].investigator \in hasReported'[links'[k].challengeId]
      BY <1>2, <2>1, <2>3, <2>4
    <2>7. \A k, l \in 1..n :
            /\ links[k].challengeId = links[l].challengeId
            /\ links[k].investigator = links[l].investigator
            => k = l
      BY DEF LinkInv
    <2>8. \A k, l \in 1..(n + 1) :
            /\ links'[k].challengeId = links'[l].challengeId
            /\ links'[k].investigator = links'[l].investigator
            => k = l
      BY <2>3, <2>4, <2>5, <2>7
    <2> HIDE DEF n
    <2> QED BY <2>4, <2>6, <2>8 DEF LinkInv
  <1> QED BY <1>3, <1>4, OnlyIdentifiedReportsLink

(***************************************************************************)
(* A reporter of a case wrote exactly one of its reports.                  *)
(***************************************************************************)
LEMMA OneReportEach ==
  ASSUME TypeOK, TalliesMatchReports, NEW ch \in Challenges, NEW a \in hasReported[ch]
  PROVE  Cardinality({i \in 1..Len(reports[ch]) : reports[ch][i].investigator = a}) = 1
  <1>1. PICK i \in 1..Len(reports[ch]) : investigatorsOf[ch][i] = a
    BY DEF TalliesMatchReports
  <1>2. {j \in 1..Len(reports[ch]) : reports[ch][j].investigator = a} = {i}
    BY <1>1 DEF TalliesMatchReports
  <1> QED BY <1>2, FS_Singleton

(***************************************************************************)
(* However reports are filed, with an identity or without, and whoever     *)
(* controls it by then, every link names exactly one report and no report  *)
(* is linked twice.                                                        *)
(***************************************************************************)
THEOREM LinksAreExact == IdentifiedSpec => []LinksNameOneReport
  <1> DEFINE IInv == TypeOK /\ TalliesMatchReports /\ LinkInv
  <1>1. IdentifiedInit => IInv
    <2>1. IdentifiedInit => LinkInv
      BY DEF IdentifiedInit, LinkInv
    <2> QED BY <2>1, TypeInit, TalliesInit DEF IdentifiedInit
  <1>2. IInv /\ [IdentifiedNext]_allVars => IInv'
    BY StepOfRegistry, TypeStep, TalliesStep, LinkStep
  <1>3. IInv => LinksNameOneReport
    <2> SUFFICES ASSUME IInv, NEW k \in 1..Len(links)
                 PROVE  Cardinality(LinkedReports(links[k])) = 1
      BY DEF LinksNameOneReport, LinkInv
    <2>1. links[k] \in Link
      BY DEF LinkInv
    <2> QED BY <2>1, OneReportEach DEF LinkInv, Link, LinkedReports
  <1> QED BY <1>1, <1>2, <1>3, PTL DEF IdentifiedSpec

-----------------------------------------------------------------------------
(***************************************************************************)
(* Keys.  Which key each link was signed with: some assignment of links to *)
(* turns stays right as keys are added, and extends to a new link by the   *)
(* identity's last key.                                                    *)
(***************************************************************************)
SignedInTurn(turn) ==
  /\ turn \in [1..Len(links) -> 1..MaxKeys]
  /\ \A k \in 1..Len(links) :
       LET keys == controllers[links[k].investigatorId]
       IN turn[k] <= Len(keys) /\ keys[turn[k]] = links[k].investigator
  /\ \A k, l \in 1..Len(links) :
       k < l /\ links[k].investigatorId = links[l].investigatorId => turn[k] <= turn[l]

(* A record follows its keys when its reports can be given turns. *)
LEMMA RecordIsTurns == RecordFollowsKeys <=> \E turn : SignedInTurn(turn)
  BY DEF RecordFollowsKeys, SignedInTurn

(***************************************************************************)
(* New keys leave the turns of the links as they are.                      *)
(***************************************************************************)
LEMMA KeysKeepTurns ==
  ASSUME LineageInv, LinkInv, [Identities!Next]_identityVars, UNCHANGED links,
         NEW turn, SignedInTurn(turn)
  PROVE  SignedInTurn(turn)'
  <1>1. /\ \A id \in Investigators : Len(controllers[id]) \in Nat
        /\ \A k \in 1..Len(links) : links[k].investigatorId \in Investigators /\ turn[k] \in Nat \ {0}
    <2>1. \A id \in Investigators : Len(controllers[id]) \in Nat
      BY DEF LineageInv, Identities!TypeOK
    <2>2. \A k \in 1..Len(links) : links[k] \in Link
      BY DEF LinkInv
    <2>3. \A k \in 1..Len(links) : turn[k] \in 1..MaxKeys
      BY DEF SignedInTurn
    <2> QED BY <2>1, <2>2, <2>3, KeysAssumption DEF Link
  <1>2. SUFFICES
          \A id \in Investigators : \A t \in 1..Len(controllers[id]) :
            t <= Len(controllers'[id]) /\ controllers'[id][t] = controllers[id][t]
    <2>1. ASSUME NEW k \in 1..Len(links)
          PROVE  LET keys == controllers'[links[k].investigatorId]
                 IN turn[k] <= Len(keys) /\ keys[turn[k]] = links[k].investigator
      <3> DEFINE id == links[k].investigatorId
      <3>1. id \in Investigators /\ turn[k] \in 1..Len(controllers[id])
        BY <1>1 DEF SignedInTurn
      <3>2. controllers[id][turn[k]] = links[k].investigator
        BY DEF SignedInTurn
      <3> QED BY <1>2, <3>1, <3>2
    <2> QED BY <2>1 DEF SignedInTurn
  <1>3. ASSUME NEW id \in Investigators, NEW a \in Accounts,
               NEW parentId \in Investigators \cup {None}, Identities!Register(id, a, parentId),
               NEW x \in Investigators, NEW t \in 1..Len(controllers[x])
        PROVE  t <= Len(controllers'[x]) /\ controllers'[x][t] = controllers[x][t]
    <2>1. controllers[id] = <<>> /\ \A y \in Investigators \ {id} : controllers'[y] = controllers[y]
      BY <1>3, RegisterKeys
    <2> QED BY <1>1, <2>1
  <1>4. ASSUME NEW id \in Investigators, NEW a \in Accounts, NEW b \in Accounts,
               Identities!RotateController(id, a, b),
               NEW x \in Investigators, NEW t \in 1..Len(controllers[x])
        PROVE  t <= Len(controllers'[x]) /\ controllers'[x][t] = controllers[x][t]
    <2> DEFINE n == Len(controllers[id])
    <2>1. /\ n \in Nat /\ Len(controllers'[id]) = n + 1
          /\ \A k \in 1..n : controllers'[id][k] = controllers[id][k]
          /\ \A y \in Investigators \ {id} : controllers'[y] = controllers[y]
      BY <1>4, RotateKeys
    <2>2. CASE x = id
      BY <2>1, <2>2
    <2>3. CASE x # id
      BY <1>1, <2>1, <2>3
    <2> QED BY <2>2, <2>3
  <1>5. CASE UNCHANGED identityVars
    BY <1>1, <1>5 DEF identityVars
  <1> QED BY <1>3, <1>4, <1>5 DEF Identities!Next

(***************************************************************************)
(* A new link is signed with the last key, so it comes in turn.            *)
(***************************************************************************)
LEMMA LinkKeepsTurns ==
  ASSUME LineageInv, LinkInv, NEW turn, SignedInTurn(turn),
         NEW ch \in Challenges, NEW a \in Accounts, NEW id \in Investigators, NEW v \in Verdicts,
         NEW bundle \in Roots, SubmitReportAsIdentity(ch, a, id, v, bundle)
  PROVE  \E next : SignedInTurn(next)'
  <1> DEFINE e == [challengeId |-> ch, investigator |-> a, investigatorId |-> id]
             n == Len(links)
             last == Len(controllers[id])
             next == [k \in 1..(n + 1) |-> IF k = n + 1 THEN last ELSE turn[k]]
  <1>1. /\ investigators[id].controller = a /\ UNCHANGED identityVars
        /\ links' = Append(links, e)
    BY DEF SubmitReportAsIdentity, SignsFor, Identities!Controls
  <1>2. last \in 1..MaxKeys /\ controllers[id][last] = a
    BY <1>1, ConstantsAssumption DEF LineageInv, LastKeyControls
  <1>3. e \in Link /\ links \in Seq(Link) /\ n \in Nat /\ e.investigator = a /\ e.investigatorId = id
    BY DEF Link, LinkInv
  <1> HIDE DEF e
  <1>4. /\ Len(links') = n + 1 /\ links'[n + 1] = e /\ controllers' = controllers
        /\ \A k \in 1..n : links'[k] = links[k]
        /\ 1..(n + 1) = (1..n) \cup {n + 1}
    BY <1>1, <1>3 DEF identityVars
  <1>5. \A k \in 1..n : turn[k] \in 1..MaxKeys
    BY DEF SignedInTurn
  <1>6. next \in [1..(n + 1) -> 1..MaxKeys]
    BY <1>2, <1>4, <1>5
  <1>7. next[n + 1] = last /\ \A k \in 1..n : next[k] = turn[k]
    BY <1>3
  <1> HIDE DEF next
  <1>8. ASSUME NEW k \in 1..(n + 1)
        PROVE  LET keys == controllers'[links'[k].investigatorId]
               IN next[k] <= Len(keys) /\ keys[next[k]] = links'[k].investigator
    <2>1. CASE k \in 1..n
      BY <1>4, <1>7, <2>1 DEF SignedInTurn
    <2>2. CASE k = n + 1
      BY <1>2, <1>3, <1>4, <1>7, <2>2
    <2> QED BY <1>4, <2>1, <2>2
  <1>9. ASSUME NEW k \in 1..(n + 1), NEW l \in 1..(n + 1), k < l,
               links'[k].investigatorId = links'[l].investigatorId
        PROVE  next[k] <= next[l]
    <2>1. k \in 1..n
      BY <1>3, <1>9
    <2>2. CASE l \in 1..n
      BY <1>4, <1>7, <1>9, <2>1, <2>2 DEF SignedInTurn
    <2>3. CASE l = n + 1
      <3>1. links[k].investigatorId = id
        BY <1>3, <1>4, <1>9, <2>1, <2>3
      <3>2. turn[k] <= last
        BY <2>1, <3>1 DEF SignedInTurn
      <3> QED BY <1>7, <2>1, <2>3, <3>2
    <2> QED BY <1>4, <2>2, <2>3
  <1>10. ASSUME NEW t, t = next PROVE SignedInTurn(t)'
    <2>1. t \in [1..Len(links') -> 1..MaxKeys]
      BY <1>4, <1>6, <1>10
    <2>2. \A k \in 1..Len(links') :
            LET keys == controllers'[links'[k].investigatorId]
            IN t[k] <= Len(keys) /\ keys[t[k]] = links'[k].investigator
      BY <1>4, <1>8, <1>10
    <2>3. \A k, l \in 1..Len(links') :
            k < l /\ links'[k].investigatorId = links'[l].investigatorId => t[k] <= t[l]
      BY <1>4, <1>9, <1>10
    <2> QED BY <2>1, <2>2, <2>3 DEF SignedInTurn
  <1> QED BY <1>10

(***************************************************************************)
(* Whatever was rotated, forked or handed back, the signers of an          *)
(* identity's reports follow one another as its keys did.                  *)
(***************************************************************************)
THEOREM RecordsFollowKeys == IdentifiedSpec => []RecordFollowsKeys
  <1> DEFINE IInv == TypeOK /\ LineageInv /\ LinkInv /\ RecordFollowsKeys
  <1>1. IdentifiedInit => IInv
    <2>1. IdentifiedInit => LinkInv
      BY DEF IdentifiedInit, LinkInv
    <2>2. ASSUME IdentifiedInit PROVE RecordFollowsKeys
      <3>1. Len(links) = 0
        BY <2>2 DEF IdentifiedInit
      <3> DEFINE turn == [k \in 1..Len(links) |-> 1]
      <3>2. turn \in [1..Len(links) -> 1..MaxKeys]
        BY KeysAssumption
      <3>3. 1..Len(links) = {}
        BY <3>1
      <3> QED BY <3>2, <3>3 DEF RecordFollowsKeys
    <2> QED BY <2>1, <2>2, TypeInit, LineageInit DEF IdentifiedInit
  <1>2. IInv /\ [IdentifiedNext]_allVars => IInv'
    <2> SUFFICES ASSUME IInv, [IdentifiedNext]_allVars PROVE RecordFollowsKeys'
      BY StepOfRegistry, StepOfIdentities, TypeStep, LineageStep, LinkStep
    <2>1. PICK turn : SignedInTurn(turn)
      BY RecordIsTurns
    <2>2. \E next : SignedInTurn(next)'
      <3>1. CASE UNCHANGED links
        BY <2>1, <3>1, StepOfIdentities, KeysKeepTurns
      <3>2. CASE \E ch \in Challenges, a \in Accounts, id \in Investigators, v \in Verdicts,
                    bundle \in Roots : SubmitReportAsIdentity(ch, a, id, v, bundle)
        BY <2>1, <3>2, LinkKeepsTurns
      <3> QED BY <3>1, <3>2, OnlyIdentifiedReportsLink
    <2> QED BY <2>2 DEF RecordFollowsKeys, SignedInTurn
  <1> QED BY <1>1, <1>2, PTL DEF IdentifiedSpec
=============================================================================
