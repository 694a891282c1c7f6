------------------------------ MODULE RuleTheorems ------------------------------
(***************************************************************************)
(* The rules the contract and protocol-core share, for any inputs.  A      *)
(* settlement conserves the bond and is what protocol-core predicts, and   *)
(* the contract decides as protocol-core's procedure does.  MCRules checks *)
(* the same formulas on bounded amounts and reports.                       *)
(*                                                                         *)
(* Behind them, what the folds of the community modules and recursive      *)
(* functions compute for every input.  The library's induction theorems    *)
(* take an operator as a parameter, which the provers cannot instantiate,  *)
(* so induction is over sets of numbers here: what holds for 0 and for     *)
(* n + 1 with n is everything.                                             *)
(***************************************************************************)
EXTENDS Settlement, Resolution, Functions, FiniteSetTheorems, WellFoundedInduction, TLAPS

-----------------------------------------------------------------------------
(* Settlement. *)

(***************************************************************************)
(* The division of a natural number by a positive one: the quotient times  *)
(* the divisor is at most the dividend, by less than the divisor.          *)
(***************************************************************************)
LEMMA DivBounds ==
  ASSUME NEW a \in Nat, NEW n \in Nat \ {0}
  PROVE  /\ a \div n \in Nat
         /\ (a \div n) * n <= a
         /\ a - (a \div n) * n < n
  OBVIOUS

(***************************************************************************)
(* The investigators' pool is a part of the bond (feeBps is at most 100%). *)
(***************************************************************************)
LEMMA InvestigatorPoolBounds ==
  ASSUME NEW pool \in Nat, NEW type
  PROVE  /\ InvestigatorPool(pool, type) \in Nat
         /\ InvestigatorPool(pool, type) <= pool
  BY DEF InvestigatorPool, FeeBps, BPS_DENOMINATOR,
         INVESTIGATOR_FEE_BPS_VERIFICATION, INVESTIGATOR_FEE_BPS_CHALLENGE

(***************************************************************************)
(* The shares of all reporters together fit into the investigators' pool.  *)
(***************************************************************************)
LEMMA SharesFitPool ==
  ASSUME NEW p \in Nat, NEW n \in Nat
  PROVE  /\ Share(p, n) \in Nat
         /\ Share(p, n) * n <= p
  <1>1. CASE n > 0 /\ p > 0
    BY <1>1, DivBounds DEF Share
  <1>2. CASE ~(n > 0 /\ p > 0)
    BY <1>2 DEF Share
  <1> QED BY <1>1, <1>2

(***************************************************************************)
(* A part of the reporters is sent no more than all of them.               *)
(***************************************************************************)
LEMMA PartOfShares ==
  ASSUME NEW share \in Nat, NEW n \in Nat, NEW k \in 0..n
  PROVE  /\ share * k \in Nat
         /\ share * n \in Nat
         /\ share * (n - k) \in Nat
         /\ share * (n - k) = share * n - share * k
  OBVIOUS

(***************************************************************************)
(* _settleBond never creates or loses a wei: whatever the bond, the type   *)
(* of the case, the verdict, the number of reporters and how many of them  *)
(* refuse, the three amounts are natural numbers and what the accepting    *)
(* reporters get, the refund and what is retained add up to the bond.      *)
(***************************************************************************)
THEOREM SettlementConservesBond ==
  ASSUME NEW pool \in Nat, NEW type, NEW status, NEW n \in Nat, NEW k \in 0..n
  PROVE  LET s == SettleBond(pool, type, status, n, k)
         IN /\ s.share \in Nat
            /\ s.refund \in Nat
            /\ s.retained \in Nat
            /\ s.share * (n - k) \in Nat
            /\ s.share * (n - k) + s.refund + s.retained = pool
  <1> DEFINE p == InvestigatorPool(pool, type)
             share == Share(p, n)
             unpaid == Unpaid(pool, type, n, k)
  <1>1. p \in Nat /\ p <= pool
    BY InvestigatorPoolBounds
  <1>2. share \in Nat /\ share * n <= p
    BY <1>1, SharesFitPool
  <1> HIDE DEF p, share
  <1>3. /\ share * k \in Nat
        /\ share * n \in Nat
        /\ share * (n - k) \in Nat
        /\ share * (n - k) = share * n - share * k
    BY <1>2, PartOfShares
  <1>4. unpaid = pool - share * n + share * k
    BY DEF Unpaid, share, p
  <1> HIDE DEF unpaid
  <1>5. unpaid \in Nat /\ share * (n - k) + unpaid = pool
    BY <1>1, <1>2, <1>3, <1>4
  <1>6. SettleBond(pool, type, status, n, k) =
          [ share    |-> share,
            refund   |-> IF Refunded(type, status) THEN unpaid ELSE 0,
            retained |-> IF Refunded(type, status) THEN 0 ELSE unpaid ]
    BY DEF SettleBond, share, unpaid, p
  <1> QED
    BY <1>2, <1>3, <1>5, <1>6

(***************************************************************************)
(* payment.ts predicts the contract exactly: when every transfer succeeds, *)
(* computeFeeSplit and _settleBond agree on all three amounts for every    *)
(* bond and every number of reporters.                                     *)
(***************************************************************************)
THEOREM PredictionIsExact ==
  ASSUME NEW pool \in Nat, NEW type, NEW status, NEW n \in Nat
  PROVE  LET s == SettleBond(pool, type, status, n, 0)
             f == ComputeFeeSplit(pool, n, type, status # "TRUE")
         IN /\ f.perInvestigator = s.share
            /\ f.remainderToChallenger = s.refund
            /\ f.remainderForfeit = s.retained
  <1> DEFINE p == InvestigatorPool(pool, type)
             share == Share(p, n)
             unpaid == Unpaid(pool, type, n, 0)
  <1>1. p \in Nat /\ p <= pool
    BY InvestigatorPoolBounds
  <1>2. share = IF n > 0 /\ p > 0 THEN p \div n ELSE 0
    BY DEF Share
  <1>3. share \in Nat /\ share * n <= p
    BY <1>1, SharesFitPool
  <1>4. share * n \in Nat /\ share * 0 = 0
    BY <1>3, PartOfShares
  <1>5. unpaid = pool - share * n + share * 0
    BY DEF Unpaid
  <1> HIDE DEF p, share, unpaid
  <1>6. (pool - p) + (p - share * n) = unpaid
    BY <1>1, <1>4, <1>5
  <1>7. SettleBond(pool, type, status, n, 0) =
          [ share    |-> share,
            refund   |-> IF Refunded(type, status) THEN unpaid ELSE 0,
            retained |-> IF Refunded(type, status) THEN 0 ELSE unpaid ]
    BY DEF SettleBond, share, unpaid, p
  <1>8. CASE pool = 0
    <2>1. share = 0 /\ unpaid = 0
      BY <1>1, <1>2, <1>4, <1>5, <1>8
    <2>2. ComputeFeeSplit(pool, n, type, status # "TRUE") =
            [perInvestigator |-> 0, remainderToChallenger |-> 0, remainderForfeit |-> 0]
      BY <1>8 DEF ComputeFeeSplit
    <2> QED BY <1>7, <2>1, <2>2
  <1>9. CASE pool # 0
    <2>1. ComputeFeeSplit(pool, n, type, status # "TRUE") =
            [ perInvestigator       |-> share,
              remainderToChallenger |-> IF Refunded(type, status) THEN unpaid ELSE 0,
              remainderForfeit      |-> IF Refunded(type, status) THEN 0 ELSE unpaid ]
      BY <1>2, <1>6, <1>9 DEF ComputeFeeSplit, Refunded, p
    <2> QED BY <1>7, <2>1
  <1> QED BY <1>8, <1>9

-----------------------------------------------------------------------------
(* Resolution. *)

(***************************************************************************)
(* The reports with one verdict are a finite set of indices, no larger     *)
(* than all of them, and all of them only if it is that large.             *)
(***************************************************************************)
LEMMA VotingBounds ==
  ASSUME NEW R, NEW reports \in Seq(R), NEW v
  PROVE  /\ IsFiniteSet(Voting(reports, v))
         /\ Cardinality(Voting(reports, v)) \in Nat
         /\ Cardinality(Voting(reports, v)) <= Len(reports)
         /\ Cardinality(Voting(reports, v)) = Len(reports) <=> AllVote(reports, v)
  <1>1. Len(reports) \in Nat
    OBVIOUS
  <1>2. IsFiniteSet(1..Len(reports)) /\ Cardinality(1..Len(reports)) = Len(reports)
    BY <1>1, FS_Interval
  <1>3. Voting(reports, v) \in SUBSET (1..Len(reports))
    BY DEF Voting
  <1>4. /\ IsFiniteSet(Voting(reports, v))
        /\ Cardinality(Voting(reports, v)) <= Cardinality(1..Len(reports))
        /\ Cardinality(1..Len(reports)) = Cardinality(Voting(reports, v)) =>
             1..Len(reports) = Voting(reports, v)
    BY <1>2, <1>3, FS_Subset
  <1>5. Cardinality(Voting(reports, v)) \in Nat
    BY <1>4, FS_CardinalityType
  <1> QED BY <1>2, <1>4, <1>5 DEF AllVote

(***************************************************************************)
(* The contract decides as protocol-core does: whenever the reports come   *)
(* from enough model providers, or are too few to decide anything, the one *)
(* status resolve() accepts for their tallies is the outcome of apply().   *)
(***************************************************************************)
THEOREM ContractDecidesAsProcedure ==
  ASSUME NEW R, NEW reports \in Seq(R),
         Len(reports) >= MIN_REPORTS_REQUIRED =>
           ~(Cardinality(Providers(reports)) < MIN_DISTINCT_PROVIDERS)
  PROVE  ExpectedStatus(TallyOf(reports)) = Apply(reports).status
  <1> DEFINE t == TallyOf(reports)
  <1>1. /\ t.total = Len(reports)
        /\ t.supports = Cardinality(Voting(reports, "SUPPORTS"))
        /\ t.rejects = Cardinality(Voting(reports, "REJECTS"))
        /\ t.insufficient = Cardinality(Voting(reports, "INSUFFICIENT_EVIDENCE"))
    BY DEF TallyOf
  <1>2. /\ Unanimous(t.supports, t) <=> AllVote(reports, "SUPPORTS")
        /\ Unanimous(t.rejects, t) <=> AllVote(reports, "REJECTS")
        /\ Unanimous(t.insufficient, t) <=> AllVote(reports, "INSUFFICIENT_EVIDENCE")
    BY <1>1, VotingBounds DEF Unanimous
  <1>3. CASE Len(reports) < MIN_REPORTS_REQUIRED
    BY <1>1, <1>3 DEF ExpectedStatus, Apply, TooFewToResolve, Outcome
  <1>4. CASE ~(Len(reports) < MIN_REPORTS_REQUIRED)
    <2>1. ~(t.total < MIN_REPORTS_REQUIRED) /\ ~TooFewToResolve(reports)
      BY <1>1, <1>4 DEF TooFewToResolve, MIN_REPORTS_REQUIRED
    <2> QED BY <1>2, <2>1 DEF ExpectedStatus, Apply, Outcome
  <1> QED BY <1>3, <1>4

(***************************************************************************)
(* submitReport keeps the tallies of a case in step with its reports:      *)
(* counting a verdict is what appending the report does to the tally.      *)
(***************************************************************************)
LEMMA VotingOfAppend ==
  ASSUME NEW R, NEW reports \in Seq(R), NEW r \in R, NEW v
  PROVE  Cardinality(Voting(Append(reports, r), v)) =
           Cardinality(Voting(reports, v)) + (IF r.verdict = v THEN 1 ELSE 0)
  <1> DEFINE n == Len(reports) + 1
             longer == Append(reports, r)
  <1>1. /\ Len(longer) = n
        /\ longer[n] = r
        /\ \A i \in 1..Len(reports) : longer[i] = reports[i]
        /\ 1..n = (1..Len(reports)) \cup {n}
        /\ n \notin 1..Len(reports)
    OBVIOUS
  <1>2. IsFiniteSet(Voting(reports, v)) /\ Cardinality(Voting(reports, v)) \in Nat
    BY VotingBounds
  <1>3. n \notin Voting(reports, v)
    BY <1>1 DEF Voting
  <1>4. CASE r.verdict = v
    <2>1. Voting(longer, v) = Voting(reports, v) \cup {n}
      BY <1>1, <1>4 DEF Voting
    <2> QED BY <1>2, <1>3, <1>4, <2>1, FS_AddElement
  <1>5. CASE r.verdict # v
    <2>1. Voting(longer, v) = Voting(reports, v)
      BY <1>1, <1>5 DEF Voting
    <2> QED BY <1>2, <1>5, <2>1
  <1> QED BY <1>4, <1>5

(***************************************************************************)
(* Once two reports are in, one more can only unsettle what the contract   *)
(* would decide: it leaves the status alone or makes the case CONTESTED,   *)
(* so TRUE and FALSE never turn into each other however long reports come. *)
(***************************************************************************)
THEOREM LateReportUnsettles ==
  ASSUME NEW R, NEW reports \in Seq(R), NEW r \in R, r.verdict \in Verdicts,
         Len(reports) >= MIN_REPORTS_REQUIRED
  PROVE  LET after == ExpectedStatus(TallyOf(Append(reports, r)))
         IN after = ExpectedStatus(TallyOf(reports)) \/ after = "CONTESTED"
  <1> DEFINE t == TallyOf(reports)
             u == TallyOf(Append(reports, r))
             one(v) == IF r.verdict = v THEN 1 ELSE 0
  <1>1. /\ t.total = Len(reports) /\ t.total \in Nat /\ t.total >= 2
        /\ u.total = t.total + 1
    BY DEF TallyOf, MIN_REPORTS_REQUIRED
  <1>2. /\ u.supports = t.supports + one("SUPPORTS")
        /\ u.rejects = t.rejects + one("REJECTS")
        /\ u.insufficient = t.insufficient + one("INSUFFICIENT_EVIDENCE")
    BY VotingOfAppend DEF TallyOf
  <1>3. /\ t.supports \in Nat /\ t.supports <= t.total
        /\ t.rejects \in Nat /\ t.rejects <= t.total
        /\ t.insufficient \in Nat /\ t.insufficient <= t.total
    BY <1>1, VotingBounds DEF TallyOf
  <1>4. ASSUME NEW v, NEW w, v # w, AllVote(reports, v)
        PROVE  Cardinality(Voting(reports, w)) = 0
    <2>1. Voting(reports, w) = {}
      BY <1>4 DEF AllVote, Voting
    <2> QED BY <2>1, FS_EmptySet
  <1>5. /\ t.supports = t.total => t.rejects = 0 /\ t.insufficient = 0
        /\ t.rejects = t.total => t.supports = 0 /\ t.insufficient = 0
        /\ t.insufficient = t.total => t.supports = 0 /\ t.rejects = 0
    BY <1>1, <1>4, VotingBounds DEF TallyOf
  <1> HIDE DEF t, u
  <1> QED
    BY <1>1, <1>2, <1>3, <1>5 DEF ExpectedStatus, Unanimous, MIN_REPORTS_REQUIRED, Verdicts, t, u

-----------------------------------------------------------------------------
(* Numbers, sums and recursive functions. *)

(* A set of numbers that is not empty has a least one. *)
LEMMA LeastNumber ==
  ASSUME NEW N \in SUBSET Nat, N # {}
  PROVE  \E n \in N : \A m \in N : n <= m
  <1>1. PICK n \in N : \A m \in N : ~(<<m, n>> \in OpToRel(<, Nat))
    BY NatLessThanWellFounded, WFMin
  <1>2. ASSUME NEW m \in N PROVE n <= m
    <2>1. ~(<<m, n>> \in OpToRel(<, Nat))
      BY <1>1
    <2>2. ~(m < n)
      BY <2>1 DEF OpToRel
    <2> QED BY <2>2
  <1> QED BY <1>2

(* Induction: a set with 0 and the successors of its numbers is Nat. *)
LEMMA AllNumbers ==
  ASSUME NEW N \in SUBSET Nat, 0 \in N, \A n \in N : n + 1 \in N
  PROVE  N = Nat
  <1> SUFFICES ASSUME Nat \ N # {} PROVE FALSE
    OBVIOUS
  <1>1. PICK n \in Nat \ N : \A m \in Nat \ N : n <= m
    BY LeastNumber
  <1>2. n - 1 \in N
    BY <1>1
  <1> QED BY <1>2

-----------------------------------------------------------------------------
(* The element a fold over a set takes next. *)
Taken(s) == CHOOSE x \in s : TRUE

(* How a fold goes through a finite set: one element less each time. *)
LEMMA TakingOne ==
  ASSUME NEW S, IsFiniteSet(S), NEW s \in SUBSET S
  PROVE  /\ Cardinality(s) = 0 => s = {}
         /\ \A n \in Nat : Cardinality(s) = n + 1 =>
              /\ s # {} /\ Taken(s) \in s
              /\ s \ {Taken(s)} \in SUBSET S /\ Cardinality(s \ {Taken(s)}) = n
  <1>1. IsFiniteSet(s) /\ Cardinality(s) \in Nat
    BY FS_Subset, FS_CardinalityType
  <1>2. Cardinality({}) = 0 /\ (Cardinality(s) = 0 => s = {})
    BY <1>1, FS_EmptySet
  <1>3. ASSUME NEW n \in Nat, Cardinality(s) = n + 1
        PROVE  /\ s # {} /\ Taken(s) \in s
               /\ s \ {Taken(s)} \in SUBSET S /\ Cardinality(s \ {Taken(s)}) = n
    <2>1. s # {}
      BY <1>2, <1>3
    <2>2. Taken(s) \in s
      BY <2>1 DEF Taken
    <2>3. Cardinality(s \ {Taken(s)}) = Cardinality(s) - 1
      BY <1>1, <2>2, FS_RemoveElement
    <2> QED BY <1>3, <2>1, <2>2, <2>3
  <1> QED BY <1>2, <1>3

(* The table of the sums of f over the subsets of S, by the fold's recursion. *)
Sums(f, S) ==
  CHOOSE h : h = [s \in SUBSET S |-> IF s = {} THEN 0 ELSE f[Taken(s)] + h[s \ {Taken(s)}]]

(* There is such a table when S is finite. *)
LEMMA SumsExist ==
  ASSUME NEW S, IsFiniteSet(S), NEW f
  PROVE  Sums(f, S) =
           [s \in SUBSET S |-> IF s = {} THEN 0 ELSE f[Taken(s)] + Sums(f, S)[s \ {Taken(s)}]]
  <1> DEFINE UpTo(n) == {s \in SUBSET S : Cardinality(s) <= n}
             Table(n, h) ==
               h = [s \in UpTo(n) |-> IF s = {} THEN 0 ELSE f[Taken(s)] + h[s \ {Taken(s)}]]
             N == {n \in Nat : \E h : Table(n, h)}
  <1>1. \A s \in SUBSET S : IsFiniteSet(s) /\ Cardinality(s) \in Nat
    BY FS_Subset, FS_CardinalityType
  <1>2. 0 \in N
    <2>1. \A s \in UpTo(0) : s = {}
      BY <1>1, FS_EmptySet
    <2> DEFINE h == [s \in UpTo(0) |-> 0]
    <2>2. Table(0, h)
      BY <2>1
    <2> QED BY <2>2
  <1>3. ASSUME NEW n \in N PROVE n + 1 \in N
    <2>1. PICK h : Table(n, h)
      OBVIOUS
    <2> DEFINE g == [s \in UpTo(n + 1) |-> IF s = {} THEN 0 ELSE f[Taken(s)] + h[s \ {Taken(s)}]]
    <2>2. UpTo(n) \subseteq UpTo(n + 1)
      BY <1>1
    <2>3. ASSUME NEW s \in UpTo(n + 1), s # {} PROVE s \ {Taken(s)} \in UpTo(n)
      <3>1. Taken(s) \in s
        BY <2>3 DEF Taken
      <3>2. Cardinality(s \ {Taken(s)}) = Cardinality(s) - 1
        BY <1>1, <3>1, FS_RemoveElement
      <3> QED BY <1>1, <3>2
    <2>4. \A s \in UpTo(n) : g[s] = h[s]
      <3> HIDE DEF UpTo
      <3> QED BY <2>1, <2>2
    <2>5. g = [s \in UpTo(n + 1) |-> IF s = {} THEN 0 ELSE f[Taken(s)] + g[s \ {Taken(s)}]]
      <3>1. \A s \in UpTo(n + 1) :
              g[s] = IF s = {} THEN 0 ELSE f[Taken(s)] + g[s \ {Taken(s)}]
        <4> HIDE DEF UpTo
        <4> QED BY <2>3, <2>4
      <3> HIDE DEF UpTo
      <3> QED BY <3>1
    <2>6. Table(n + 1, g)
      BY <2>5
    <2> HIDE DEF g, Table
    <2> QED BY <2>6
  <1>4. Cardinality(S) \in N
    <2> HIDE DEF N
    <2>1. N \in SUBSET Nat
      BY DEF N
    <2> QED BY <1>1, <1>2, <1>3, <2>1, AllNumbers
  <1>5. PICK h : Table(Cardinality(S), h)
    BY <1>4
  <1>6. UpTo(Cardinality(S)) = SUBSET S
    BY FS_Subset
  <1>7. h = [s \in SUBSET S |-> IF s = {} THEN 0 ELSE f[Taken(s)] + h[s \ {Taken(s)}]]
    <2> HIDE DEF UpTo
    <2> QED BY <1>5, <1>6
  <1> QED BY <1>7 DEF Sums
(* What the table says of the empty set and of a set with an element. *)
LEMMA SumsEquation ==
  ASSUME NEW S, IsFiniteSet(S), NEW f
  PROVE  /\ Sums(f, S)[{}] = 0
         /\ \A s \in SUBSET S : s # {} =>
              /\ Taken(s) \in s
              /\ Sums(f, S)[s] = f[Taken(s)] + Sums(f, S)[s \ {Taken(s)}]
  <1>1. \A s \in SUBSET S : s # {} => Taken(s) \in s
    BY DEF Taken
  <1> DEFINE h == Sums(f, S)
  <1>2. h = [s \in SUBSET S |-> IF s = {} THEN 0 ELSE f[Taken(s)] + h[s \ {Taken(s)}]]
    BY SumsExist
  <1> HIDE DEF h
  <1>3. h[{}] = 0 /\ \A s \in SUBSET S : s # {} => h[s] = f[Taken(s)] + h[s \ {Taken(s)}]
    BY <1>2
  <1> QED BY <1>1, <1>3 DEF h

(* The sum of a function is the entry of its whole domain. *)
LEMMA SumIsInTable ==
  ASSUME NEW S, NEW f \in [S -> Int]
  PROVE  SumFunction(f) = Sums(f, S)[S]
  <1>1. DOMAIN f = S
    OBVIOUS
  <1> QED BY <1>1 DEF SumFunction, SumFunctionOnSet, FoldFunctionOnSet, MapThenFoldSet, Sums, Taken

(* A sum of integers is an integer. *)
LEMMA SumsType ==
  ASSUME NEW S, IsFiniteSet(S), NEW f \in [S -> Int]
  PROVE  \A s \in SUBSET S : Sums(f, S)[s] \in Int
  <1> DEFINE N == {n \in Nat : \A s \in SUBSET S : Cardinality(s) = n => Sums(f, S)[s] \in Int}
  <1>1. \A s \in SUBSET S : IsFiniteSet(s) /\ Cardinality(s) \in Nat
    BY FS_Subset, FS_CardinalityType
  <1>2. 0 \in N
    <2>1. ASSUME NEW s \in SUBSET S, Cardinality(s) = 0 PROVE Sums(f, S)[s] \in Int
      <3>1. s = {}
        BY <2>1, TakingOne
      <3> QED BY <3>1, SumsEquation
    <2> QED BY <2>1
  <1>3. ASSUME NEW n \in N PROVE n + 1 \in N
    <2> SUFFICES ASSUME NEW s \in SUBSET S, Cardinality(s) = n + 1
                 PROVE  Sums(f, S)[s] \in Int
      OBVIOUS
    <2>1. s # {}
      BY TakingOne
    <2>2. Taken(s) \in s /\ Sums(f, S)[s] = f[Taken(s)] + Sums(f, S)[s \ {Taken(s)}]
      BY <2>1, SumsEquation
    <2>3. Cardinality(s \ {Taken(s)}) = n
      BY TakingOne
    <2> QED BY <2>2, <2>3
  <1>4. N = Nat
    <2> HIDE DEF N
    <2>1. N \in SUBSET Nat
      BY DEF N
    <2> QED BY <1>2, <1>3, <2>1, AllNumbers
  <1> QED BY <1>1, <1>4

(***************************************************************************)
(* Of two functions on a finite set of which one is nowhere above the      *)
(* other, its sum is not above the other's either.                         *)
(***************************************************************************)
LEMMA SumsGrow ==
  ASSUME NEW S, IsFiniteSet(S), NEW f \in [S -> Int], NEW g \in [S -> Int],
         \A x \in S : f[x] <= g[x]
  PROVE  SumFunction(f) <= SumFunction(g)
  <1> DEFINE N == {n \in Nat : \A s \in SUBSET S :
                     Cardinality(s) = n => Sums(f, S)[s] <= Sums(g, S)[s]}
  <1>1. \A s \in SUBSET S : IsFiniteSet(s) /\ Cardinality(s) \in Nat
    BY FS_Subset, FS_CardinalityType
  <1>2. 0 \in N
    <2>1. ASSUME NEW s \in SUBSET S, Cardinality(s) = 0 PROVE Sums(f, S)[s] <= Sums(g, S)[s]
      <3>1. s = {}
        BY <2>1, TakingOne
      <3> QED BY <3>1, SumsEquation
    <2> QED BY <2>1
  <1>3. ASSUME NEW n \in N PROVE n + 1 \in N
    <2> SUFFICES ASSUME NEW s \in SUBSET S, Cardinality(s) = n + 1
                 PROVE  Sums(f, S)[s] <= Sums(g, S)[s]
      OBVIOUS
    <2>1. s # {}
      BY TakingOne
    <2>2. /\ Taken(s) \in s
          /\ Sums(f, S)[s] = f[Taken(s)] + Sums(f, S)[s \ {Taken(s)}]
          /\ Sums(g, S)[s] = g[Taken(s)] + Sums(g, S)[s \ {Taken(s)}]
      BY <2>1, SumsEquation
    <2>3. Cardinality(s \ {Taken(s)}) = n
      BY TakingOne
    <2>4. Sums(f, S)[s \ {Taken(s)}] \in Int /\ Sums(g, S)[s \ {Taken(s)}] \in Int
      BY SumsType
    <2>5. f[Taken(s)] \in Int /\ g[Taken(s)] \in Int /\ f[Taken(s)] <= g[Taken(s)]
      BY <2>2
    <2>6. Sums(f, S)[s \ {Taken(s)}] <= Sums(g, S)[s \ {Taken(s)}]
      BY <2>3
    <2> QED BY <2>2, <2>4, <2>5, <2>6
  <1>4. N = Nat
    <2> HIDE DEF N
    <2>1. N \in SUBSET Nat
      BY DEF N
    <2> QED BY <1>2, <1>3, <2>1, AllNumbers
  <1>5. Sums(f, S)[S] <= Sums(g, S)[S]
    BY <1>1, <1>4
  <1> QED BY <1>5, SumIsInTable

(***************************************************************************)
(* When one value changes, the sum changes by as much.                     *)
(***************************************************************************)
LEMMA SumChanges ==
  ASSUME NEW S, IsFiniteSet(S), NEW f \in [S -> Int], NEW g \in [S -> Int], NEW y \in S,
         \A x \in S \ {y} : g[x] = f[x]
  PROVE  SumFunction(g) = SumFunction(f) + (g[y] - f[y])
  <1> DEFINE Changed(s) == IF y \in s THEN g[y] - f[y] ELSE 0
             N == {n \in Nat : \A s \in SUBSET S :
                     Cardinality(s) = n => Sums(g, S)[s] = Sums(f, S)[s] + Changed(s)}
  <1>1. \A s \in SUBSET S : IsFiniteSet(s) /\ Cardinality(s) \in Nat
    BY FS_Subset, FS_CardinalityType
  <1>2. 0 \in N
    <2>1. ASSUME NEW s \in SUBSET S, Cardinality(s) = 0
          PROVE  Sums(g, S)[s] = Sums(f, S)[s] + Changed(s)
      <3>1. s = {}
        BY <2>1, TakingOne
      <3> QED BY <3>1, SumsEquation
    <2> QED BY <2>1
  <1>3. ASSUME NEW n \in N PROVE n + 1 \in N
    <2> SUFFICES ASSUME NEW s \in SUBSET S, Cardinality(s) = n + 1
                 PROVE  Sums(g, S)[s] = Sums(f, S)[s] + Changed(s)
      OBVIOUS
    <2>1. s # {}
      BY TakingOne
    <2>2. /\ Taken(s) \in s
          /\ Sums(f, S)[s] = f[Taken(s)] + Sums(f, S)[s \ {Taken(s)}]
          /\ Sums(g, S)[s] = g[Taken(s)] + Sums(g, S)[s \ {Taken(s)}]
      BY <2>1, SumsEquation
    <2>3. Cardinality(s \ {Taken(s)}) = n
      BY TakingOne
    <2>4. Sums(f, S)[s \ {Taken(s)}] \in Int /\ Sums(g, S)[s \ {Taken(s)}] \in Int
      BY SumsType
    <2>5. /\ f[Taken(s)] \in Int /\ g[Taken(s)] \in Int /\ f[y] \in Int /\ g[y] \in Int
          /\ Taken(s) # y => g[Taken(s)] = f[Taken(s)]
      BY <2>2
    <2>6. Sums(g, S)[s \ {Taken(s)}] = Sums(f, S)[s \ {Taken(s)}] + Changed(s \ {Taken(s)})
      BY <2>3
    <2>7. CASE Taken(s) = y
      BY <2>2, <2>4, <2>5, <2>6, <2>7
    <2>8. CASE Taken(s) # y
      BY <2>2, <2>4, <2>5, <2>6, <2>8
    <2> QED BY <2>7, <2>8
  <1>4. N = Nat
    <2> HIDE DEF N
    <2>1. N \in SUBSET Nat
      BY DEF N
    <2> QED BY <1>2, <1>3, <2>1, AllNumbers
  <1>5. Sums(g, S)[S] = Sums(f, S)[S] + (g[y] - f[y])
    BY <1>1, <1>4
  <1> QED BY <1>5, SumIsInTable

(* The sum of nothing but zeros is zero. *)
LEMMA SumOfZeros ==
  ASSUME NEW S, IsFiniteSet(S)
  PROVE  SumFunction([x \in S |-> 0]) = 0
  <1> DEFINE f == [x \in S |-> 0]
             N == {n \in Nat : \A s \in SUBSET S : Cardinality(s) = n => Sums(f, S)[s] = 0}
  <1>1. \A s \in SUBSET S : IsFiniteSet(s) /\ Cardinality(s) \in Nat
    BY FS_Subset, FS_CardinalityType
  <1>2. f \in [S -> Int] /\ \A x \in S : f[x] = 0
    OBVIOUS
  <1> HIDE DEF f
  <1>3. 0 \in N
    BY TakingOne, SumsEquation
  <1>4. ASSUME NEW n \in N PROVE n + 1 \in N
    <2> SUFFICES ASSUME NEW s \in SUBSET S, Cardinality(s) = n + 1 PROVE Sums(f, S)[s] = 0
      OBVIOUS
    <2>1. s # {}
      BY TakingOne
    <2>2. Taken(s) \in s /\ Sums(f, S)[s] = f[Taken(s)] + Sums(f, S)[s \ {Taken(s)}]
      BY <2>1, SumsEquation
    <2>3. Cardinality(s \ {Taken(s)}) = n
      BY TakingOne
    <2> QED BY <1>2, <2>2, <2>3
  <1>5. N = Nat
    <2> HIDE DEF N
    <2>1. N \in SUBSET Nat
      BY DEF N
    <2> QED BY <1>3, <1>4, <2>1, AllNumbers
  <1>6. Sums(f, S)[S] = 0
    BY <1>1, <1>5
  <1> QED BY <1>2, <1>6, SumIsInTable DEF f
-----------------------------------------------------------------------------
(***************************************************************************)
(* A recursive function on the natural numbers, each of whose values is a  *)
(* step from the one before, exists and takes its values where the steps   *)
(* lead.                                                                   *)
(***************************************************************************)
LEMMA IterationExists ==
  ASSUME NEW D, NEW base \in D, NEW step \in [D -> D]
  PROVE  \E h \in [Nat -> D] : h[0] = base /\ \A n \in Nat : h[n + 1] = step[h[n]]
  <1> DEFINE Table(n, g) == /\ g \in [0..n -> D] /\ g[0] = base
                            /\ \A i \in 0..n : i # 0 => g[i] = step[g[i - 1]]
             N == {n \in Nat : \E g : Table(n, g)}
  <1>1. 0 \in N
    <2> DEFINE g == [i \in 0..0 |-> base]
    <2>1. Table(0, g)
      OBVIOUS
    <2> QED BY <2>1
  <1>2. ASSUME NEW n \in N PROVE n + 1 \in N
    <2>1. PICK g : Table(n, g)
      OBVIOUS
    <2> DEFINE f == [i \in 0..(n + 1) |-> IF i = n + 1 THEN step[g[n]] ELSE g[i]]
    <2>2. n \in Nat /\ g[n] \in D
      BY <2>1
    <2>3. f \in [0..(n + 1) -> D] /\ f[0] = base
      BY <2>1, <2>2
    <2>4. ASSUME NEW i \in 0..(n + 1), i # 0 PROVE f[i] = step[f[i - 1]]
      BY <2>1, <2>2, <2>4
    <2>5. Table(n + 1, f)
      BY <2>3, <2>4
    <2> HIDE DEF f, Table
    <2> QED BY <2>2, <2>5
  <1>3. N = Nat
    <2> HIDE DEF N
    <2>1. N \in SUBSET Nat
      BY DEF N
    <2> QED BY <1>1, <1>2, <2>1, AllNumbers
  <1> DEFINE T(n) == CHOOSE g : Table(n, g)
             h == [n \in Nat |-> T(n)[n]]
  <1>4. \A n \in Nat : Table(n, T(n))
    <2> HIDE DEF Table
    <2> QED BY <1>3
  <1> HIDE DEF T
  <1>5. \A n \in Nat : \A i \in 0..n : T(n + 1)[i] = T(n)[i]
    <2> SUFFICES ASSUME NEW n \in Nat PROVE \A i \in 0..n : T(n + 1)[i] = T(n)[i]
      OBVIOUS
    <2> DEFINE A == {i \in Nat : i \in 0..n => T(n + 1)[i] = T(n)[i]}
    <2>1. Table(n, T(n)) /\ Table(n + 1, T(n + 1))
      BY <1>4
    <2>2. 0 \in A
      BY <2>1
    <2>3. ASSUME NEW i \in A PROVE i + 1 \in A
      <3> SUFFICES ASSUME i + 1 \in 0..n PROVE T(n + 1)[i + 1] = T(n)[i + 1]
        OBVIOUS
      <3>1. i \in 0..n /\ i + 1 \in 0..(n + 1) /\ i + 1 # 0 /\ (i + 1) - 1 = i
        OBVIOUS
      <3>2. T(n + 1)[i + 1] = step[T(n + 1)[i]] /\ T(n)[i + 1] = step[T(n)[i]]
        BY <2>1, <3>1
      <3> QED BY <3>1, <3>2
    <2>4. A = Nat
      <3> HIDE DEF A
      <3>1. A \in SUBSET Nat
        BY DEF A
      <3> QED BY <2>2, <2>3, <3>1, AllNumbers
    <2> QED BY <2>4
  <1>6. h \in [Nat -> D] /\ h[0] = base
    BY <1>4
  <1>7. ASSUME NEW n \in Nat PROVE h[n + 1] = step[h[n]]
    <2>1. n + 1 \in 0..(n + 1) /\ n + 1 # 0 /\ (n + 1) - 1 = n /\ n + 1 \in Nat /\ n \in 0..n
      OBVIOUS
    <2>2. T(n + 1)[n + 1] = step[T(n + 1)[n]]
      BY <1>4, <2>1
    <2>3. T(n + 1)[n] = T(n)[n]
      BY <1>5, <2>1
    <2> QED BY <2>1, <2>2, <2>3
  <1> HIDE DEF h
  <1> QED BY <1>6, <1>7
=============================================================================
