------------------------------ MODULE Settlement ------------------------------
(***************************************************************************)
(* Where the money of a case goes: _settleBond of MemoryWarRegistry.sol,   *)
(* which moves it, and computeFeeSplit of protocol-core's payment.ts,      *)
(* which predicts it.  Amounts are in wei.  The widths do not matter here: *)
(* bond * feeBps fits a uint256 for every amount of native currency there  *)
(* can be, and payment.ts computes with bigint.                            *)
(*                                                                         *)
(* An operator introduced as "A slip" is a mutated form of the definition  *)
(* that follows it; no specification uses it.                              *)
(***************************************************************************)
EXTENDS Integers

ChallengeType == {"CONTRADICTION", "SOURCE_QUALITY", "VERIFICATION_REQUEST"}

BPS_DENOMINATOR == 10000

INVESTIGATOR_FEE_BPS_VERIFICATION == 10000

INVESTIGATOR_FEE_BPS_CHALLENGE == 2000

FeeBps(challengeType) ==
  IF challengeType = "VERIFICATION_REQUEST"
  THEN INVESTIGATOR_FEE_BPS_VERIFICATION ELSE INVESTIGATOR_FEE_BPS_CHALLENGE

\* A slip: basis points taken for thousandths.
PoolInThousandths(pool, challengeType) == (pool * FeeBps(challengeType)) \div 1000

\* What the investigators of a case share.
InvestigatorPool(pool, challengeType) == (pool * FeeBps(challengeType)) \div BPS_DENOMINATOR

\* What each reporter is sent; nothing when nobody reported or the pool is empty.
Share(investigatorPool, reporters) ==
  IF reporters > 0 /\ investigatorPool > 0 THEN investigatorPool \div reporters ELSE 0

Unpaid(pool, challengeType, reporters, refusals) ==
  LET share == Share(InvestigatorPool(pool, challengeType), reporters)
  IN pool - share * reporters + share * refusals

\* A slip: a requester is refunded like a challenger.
RefundedAnyType(challengeType, status) == status # "TRUE"

\* The remainder goes back to a challenger the verdict did not prove wrong;
\* a verification request has no adversary to refund.
Refunded(challengeType, status) ==
  challengeType # "VERIFICATION_REQUEST" /\ status # "TRUE"

(***************************************************************************)
(* _settleBond for a case with a bond of pool, of whose reporters that     *)
(* many refuse their share: the share of each, the refund, and what the    *)
(* contract keeps.                                                         *)
(***************************************************************************)
SettleBond(pool, challengeType, status, reporters, refusals) ==
  LET unpaid == Unpaid(pool, challengeType, reporters, refusals)
  IN [ share    |-> Share(InvestigatorPool(pool, challengeType), reporters),
       refund   |-> IF Refunded(challengeType, status) THEN unpaid ELSE 0,
       retained |-> IF Refunded(challengeType, status) THEN 0 ELSE unpaid ]

(***************************************************************************)
(* computeFeeSplit.  challengerWasRight is null for a verification         *)
(* request in the source; its value is not read then.                      *)
(***************************************************************************)
ComputeFeeSplit(totalPool, investigatorCount, kind, challengerWasRight) ==
  LET investigatorPool == InvestigatorPool(totalPool, kind)
      paying           == investigatorCount > 0 /\ investigatorPool > 0
      perInvestigator  == IF paying THEN investigatorPool \div investigatorCount ELSE 0
      dust             == investigatorPool - perInvestigator * investigatorCount
      remainder        == (totalPool - investigatorPool) + dust
      toChallenger     == kind # "VERIFICATION_REQUEST" /\ challengerWasRight
  IN IF totalPool = 0
     THEN [perInvestigator |-> 0, remainderToChallenger |-> 0, remainderForfeit |-> 0]
     ELSE [ perInvestigator       |-> perInvestigator,
            remainderToChallenger |-> IF toChallenger THEN remainder ELSE 0,
            remainderForfeit      |-> IF toChallenger THEN 0 ELSE remainder ]
=============================================================================
