-------------------------------- MODULE MCRules --------------------------------
(***************************************************************************)
(* How a case is decided and its bond settled, apart from the contract's   *)
(* storage: for each bond and type, every sequence of at most MaxReports   *)
(* reports, grown one at a time, with any number of the reporters refusing *)
(* their share, and what the contract and protocol-core make of it.        *)
(***************************************************************************)
EXTENDS Resolution, Settlement

CONSTANTS ModelProviders,   \* disclosed model families
          MaxReports,       \* bound on the number of reports
          Bonds             \* the bonds tried

ASSUME BondsAssumption == Bonds \subseteq Nat   \* amounts of wei

VARIABLES reports, bond, challengeType, refusals

vars == <<reports, bond, challengeType, refusals>>

Report == [verdict : Verdicts, modelProvider : ModelProviders]

Init == /\ reports = <<>>
        /\ bond \in Bonds
        /\ challengeType \in ChallengeType
        /\ refusals = 0

Submit(report) ==
  /\ Len(reports) < MaxReports
  /\ reports' = Append(reports, report)
  /\ UNCHANGED <<bond, challengeType, refusals>>

Refuse == /\ refusals < Len(reports)
          /\ refusals' = refusals + 1
          /\ UNCHANGED <<reports, bond, challengeType>>

Next == Refuse \/ \E report \in Report : Submit(report)

-----------------------------------------------------------------------------
CurrentTally == TallyOf(reports)

Status == ExpectedStatus(CurrentTally)

(***************************************************************************)
(* The contract agrees with the disclosed procedure: whenever the reports  *)
(* come from enough providers, or are too few anyway, resolve() accepts    *)
(* exactly the status apply() computes.  With a single provider the two    *)
(* may differ, and then only because apply() answers INCONCLUSIVE.  And no *)
(* report is lost on the way: majority and dissent partition the reports,  *)
(* abstentions included, and what is contested has a dissent.              *)
(***************************************************************************)
ContractMatchesProcedure ==
  LET outcome == Apply(reports)
  IN /\ \/ Status = outcome.status
        \/ /\ Cardinality(Providers(reports)) < MIN_DISTINCT_PROVIDERS
           /\ outcome.status = "INCONCLUSIVE"
     /\ outcome.majorityReports \cup outcome.dissent = 1..Len(reports)
     /\ outcome.majorityReports \cap outcome.dissent = {}
     /\ outcome.status = "CONTESTED" => outcome.dissent # {}

-----------------------------------------------------------------------------
Settled == SettleBond(bond, challengeType, Status, Len(reports), refusals)

(***************************************************************************)
(* computeFeeSplit predicts the settlement: when every transfer succeeds,  *)
(* the pure function, told what apply() decided, and the contract, which   *)
(* knows tallies only, agree on all three amounts; from too few providers  *)
(* apply() decides less, and then it is told the contract's verdict.       *)
(***************************************************************************)
PredictionExact ==
  refusals = 0 =>
    LET decided == IF Cardinality(Providers(reports)) < MIN_DISTINCT_PROVIDERS
                   THEN Status ELSE Apply(reports).status
        predicted == ComputeFeeSplit(bond, Len(reports), challengeType, decided # "TRUE")
    IN /\ predicted.perInvestigator = Settled.share
       /\ predicted.remainderToChallenger = Settled.refund
       /\ predicted.remainderForfeit = Settled.retained
=============================================================================
