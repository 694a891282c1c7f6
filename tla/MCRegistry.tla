------------------------------ MODULE MCRegistry ------------------------------
(***************************************************************************)
(* The registry on small instances: what sums over all cases, and a        *)
(* statement of the tests the contract does not keep.                      *)
(***************************************************************************)
EXTENDS MemoryWarRegistry, Functions, TLC

\* The ids are interchangeable, and so are the accounts with code.
Symmetric == Permutations(Challenges) \cup Permutations(Claims) \cup Permutations(Contracts)

\* There are finitely many cases at any time.
ASSUME CasesAssumption == IsFiniteSet(Challenges)

\* What the contract was sent for each case less what it transferred for it,
\* and what is still escrowed for it.
Held == [ch \in Challenges |->
  ledger[ch].deposit - ledger[ch].share * Cardinality(ledger[ch].paid) - ledger[ch].refund]
Escrowed == [ch \in Challenges |-> challenges[ch].bond]

(***************************************************************************)
(* The contract can always pay: its balance is what it was sent less what  *)
(* it transferred, over all cases, and covers every bond still escrowed    *)
(* whatever was settled, refused or forfeited before.                      *)
(***************************************************************************)
Solvent ==
  /\ balance = SumFunction(Held)
  /\ balance >= SumFunction(Escrowed)

-----------------------------------------------------------------------------
(***************************************************************************)
(* stateMachine.test.ts: "CONTESTED and INCONCLUSIVE can be re-challenged  *)
(* (a fresh Challenge, not a mutation)".  As long as an id is free,        *)
(* somebody can challenge such a claim.                                    *)
(***************************************************************************)
UndecidedCanBeRechallenged ==
  \A cl \in Claims :
    claims[cl].exists /\ claims[cl].status \in {"CONTESTED", "INCONCLUSIVE"} =>
      \A ch \in Challenges : ~challenges[ch].exists =>
        ENABLED (\E a \in Accounts, v \in Amounts : OpenChallenge(ch, cl, a, "CONTRADICTION", v))
=============================================================================
