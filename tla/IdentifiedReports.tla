--------------------------- MODULE IdentifiedReports ---------------------------
(***************************************************************************)
(* The two contracts together: submitReportAsIdentity of                   *)
(* MemoryWarRegistry.sol asks the investigator registry who controls an    *)
(* identity, files the caller's report, and links it to the identity.      *)
(***************************************************************************)
EXTENDS MemoryWarRegistry

CONSTANTS
  Investigators,  \* investigator ids
  MaxKeys         \* bound on the controllers an identity has had

ASSUME InvestigatorsAssumption == None \notin Investigators

ASSUME KeysAssumption == MaxKeys \in Nat \ {0}

VARIABLES
  investigators, controllers,  \* the investigator registry
  links                        \* history: the ReportIdentityLinked events

identityVars == <<investigators, controllers>>
allVars == <<vars, identityVars, links>>

Identities == INSTANCE InvestigatorRegistry

IdentifiedInit ==
  /\ Init
  /\ Identities!Init
  /\ links = <<>>

\* A slip: whoever held the key once may still sign for the identity.
EverController(caller, id) == caller \in Identities!Holders(id)

SignsFor(caller, id) == Identities!Controls(caller, id)

SubmitReportAsIdentity(ch, caller, id, verdict, bundle) ==
  /\ SignsFor(caller, id)
  /\ SubmitReport(ch, caller, verdict, bundle)
  /\ links' = Append(links, [challengeId |-> ch, investigator |-> caller, investigatorId |-> id])
  /\ UNCHANGED identityVars

IdentifiedNext ==
  \/ Next /\ UNCHANGED <<identityVars, links>>
  \/ Identities!Next /\ UNCHANGED <<vars, links>>
  \/ \E ch \in Challenges, a \in Accounts, id \in Investigators, v \in Verdicts, bundle \in Roots :
       SubmitReportAsIdentity(ch, a, id, v, bundle)

IdentifiedSpec == IdentifiedInit /\ [][IdentifiedNext]_allVars

-----------------------------------------------------------------------------
\* The reports of a case that link l can be about.
LinkedReports(l) ==
  {i \in 1..Len(reports[l.challengeId]) : reports[l.challengeId][i].investigator = l.investigator}

(***************************************************************************)
(* A link names one report and a report has at most one link, so a reader  *)
(* of the events, who sees no other key than case and account, can tell    *)
(* which report is on which identity's record.                             *)
(***************************************************************************)
LinksNameOneReport ==
  /\ \A k \in 1..Len(links) : Cardinality(LinkedReports(links[k])) = 1
  /\ \A k, l \in 1..Len(links) :
       /\ links[k].challengeId = links[l].challengeId
       /\ links[k].investigator = links[l].investigator
       => k = l

(***************************************************************************)
(* The record of an identity follows its keys: the accounts that signed    *)
(* its reports, in the order of the links, held its key in that order.  So *)
(* a key that was rotated away adds nothing after its successor did, unless*)
(* it was handed back, and an account that never held the key adds nothing.*)
(***************************************************************************)
RecordFollowsKeys ==
  \E turn \in [1..Len(links) -> 1..MaxKeys] :
    /\ \A k \in 1..Len(links) :
         LET keys == controllers[links[k].investigatorId]
         IN turn[k] <= Len(keys) /\ keys[turn[k]] = links[k].investigator
    /\ \A k, l \in 1..Len(links) :
         k < l /\ links[k].investigatorId = links[l].investigatorId => turn[k] <= turn[l]

LineageEndorsed == Identities!LineageEndorsed
=============================================================================
