------------------------------ MODULE Lifecycle ------------------------------
(***************************************************************************)
(* The life of claims and challenges as protocol-core promises it          *)
(* (src/packages/protocol-core/src/stateMachine.ts): two tables of legal   *)
(* moves, one for claims and one for challenges.  This is the abstract     *)
(* specification of the registry contract: it says which moves anybody may *)
(* ever observe and nothing of bonds, reports, evidence or callers.        *)
(*                                                                         *)
(* An id that nobody created yet is in the state "ABSENT".                 *)
(***************************************************************************)
CONSTANTS Claims,       \* claim ids
          Challenges    \* challenge ids (verification requests included)

VARIABLES claimStatus,     \* claim id     -> its status
          challengeState   \* challenge id -> its state

vars == <<claimStatus, challengeState>>

(***************************************************************************)
(* CLAIM_TRANSITIONS and CHALLENGE_TRANSITIONS.                            *)
(***************************************************************************)
ClaimTransitions ==
  [ OPEN            |-> {"CHALLENGED", "SUPERSEDED"},
    CHALLENGED      |-> {"EVIDENCE_LOCKED"},
    EVIDENCE_LOCKED |-> {"INVESTIGATING"},
    INVESTIGATING   |-> {"TRUE", "FALSE", "CONTESTED", "INCONCLUSIVE"},
    TRUE            |-> {"SUPERSEDED"},
    FALSE           |-> {},
    SUPERSEDED      |-> {},
    CONTESTED       |-> {"CHALLENGED"},
    INCONCLUSIVE    |-> {"CHALLENGED"},
    ABSENT          |-> {"OPEN"} ]

ChallengeTransitions ==
  [ OPEN            |-> {"EVIDENCE_LOCKED"},
    EVIDENCE_LOCKED |-> {"INVESTIGATING"},
    INVESTIGATING   |-> {"RESOLVED"},
    RESOLVED        |-> {"APPEALED"},
    APPEALED        |-> {},
    ABSENT          |-> {"OPEN"} ]

(***************************************************************************)
(* assertClaimTransition and assertChallengeTransition: the move is in the *)
(* table, or it throws.                                                    *)
(***************************************************************************)
LegalClaimMove(from, to) == to \in ClaimTransitions[from]

LegalChallengeMove(from, to) == to \in ChallengeTransitions[from]

-----------------------------------------------------------------------------
Init == /\ claimStatus = [cl \in Claims |-> "ABSENT"]
        /\ challengeState = [ch \in Challenges |-> "ABSENT"]

\* One claim makes a legal move.
ClaimMoves(cl) ==
  \E to \in DOMAIN ClaimTransitions :
    /\ LegalClaimMove(claimStatus[cl], to)
    /\ claimStatus' = [claimStatus EXCEPT ![cl] = to]

\* One challenge makes a legal move.
ChallengeMoves(ch) ==
  \E to \in DOMAIN ChallengeTransitions :
    /\ LegalChallengeMove(challengeState[ch], to)
    /\ challengeState' = [challengeState EXCEPT ![ch] = to]

\* A call moves a claim, or a challenge, or one of each together.
Next ==
  \/ \E cl \in Claims : ClaimMoves(cl) /\ UNCHANGED challengeState
  \/ \E ch \in Challenges : ChallengeMoves(ch) /\ UNCHANGED claimStatus
  \/ \E cl \in Claims, ch \in Challenges : ClaimMoves(cl) /\ ChallengeMoves(ch)

Spec == Init /\ [][Next]_vars
=============================================================================
