------------------------------ MODULE Resolution ------------------------------
(***************************************************************************)
(* The mechanical resolution procedure, twice: as the contract re-derives  *)
(* it from its tallies (_expectedStatus in MemoryWarRegistry.sol) and as   *)
(* protocol-core computes it from the reports themselves                   *)
(* (DefaultResolutionProcedure in resolution.ts).  Rationale texts and     *)
(* hashes are left out.  The statuses TRUE_ and FALSE_ of the contract are *)
(* the TRUE and FALSE of protocol-core.                                    *)
(*                                                                         *)
(* An operator introduced as "A slip" is a mutated form of the definition  *)
(* that follows it; no specification uses it.                              *)
(***************************************************************************)
EXTENDS Integers, Sequences, FiniteSets

Verdicts == {"SUPPORTS", "REJECTS", "INSUFFICIENT_EVIDENCE"}

VerdictStatus == {"NONE", "TRUE", "FALSE", "SUPERSEDED", "CONTESTED", "INCONCLUSIVE"}

MIN_REPORTS_REQUIRED == 2

MIN_DISTINCT_PROVIDERS == 2

(***************************************************************************)
(* What the contract keeps of the reports of a challenge: reportCount,     *)
(* supportsCount, rejectsCount and insufficientCount.                      *)
(***************************************************************************)
Tally == [total : Nat, supports : Nat, rejects : Nat, insufficient : Nat]

EmptyTally == [total |-> 0, supports |-> 0, rejects |-> 0, insufficient |-> 0]

\* A slip: half of the reports is enough.
AtLeastHalf(count, t) == 2 * count >= t.total

\* All the reports of the tally are among these.
Unanimous(count, t) == count = t.total

\* _expectedStatus: the one status resolve() accepts for these tallies.
ExpectedStatus(t) ==
  IF t.total < MIN_REPORTS_REQUIRED \/ Unanimous(t.insufficient, t) THEN "INCONCLUSIVE"
  ELSE IF Unanimous(t.supports, t) THEN "TRUE"
  ELSE IF Unanimous(t.rejects, t) THEN "FALSE"
  ELSE "CONTESTED"

\* _claimStatusFor: the status a verdict gives its claim.
ClaimStatusFor(status) ==
  IF status \in {"TRUE", "FALSE", "CONTESTED", "SUPERSEDED"} THEN status ELSE "INCONCLUSIVE"

-----------------------------------------------------------------------------
(***************************************************************************)
(* Reports are a sequence, each with at least a verdict; the off-chain     *)
(* procedure also looks at the disclosed model provider.                   *)
(***************************************************************************)
Voting(reports, verdict) == {i \in 1..Len(reports) : reports[i].verdict = verdict}

TallyOf(reports) ==
  [ total        |-> Len(reports),
    supports     |-> Cardinality(Voting(reports, "SUPPORTS")),
    rejects      |-> Cardinality(Voting(reports, "REJECTS")),
    insufficient |-> Cardinality(Voting(reports, "INSUFFICIENT_EVIDENCE")) ]

Providers(reports) == {reports[i].modelProvider : i \in 1..Len(reports)}

\* The two early returns of apply.
TooFewToResolve(reports) ==
  \/ Len(reports) < MIN_REPORTS_REQUIRED
  \/ Cardinality(Providers(reports)) < MIN_DISTINCT_PROVIDERS

\* The side a contested case records as its majority; ties go to SUPPORTS.
LargerSide(reports) ==
  IF Cardinality(Voting(reports, "SUPPORTS")) >= Cardinality(Voting(reports, "REJECTS"))
  THEN Voting(reports, "SUPPORTS") ELSE Voting(reports, "REJECTS")

\* A slip: only those who took the other side dissent.
LosingSide(reports) ==
  (Voting(reports, "SUPPORTS") \cup Voting(reports, "REJECTS")) \ LargerSide(reports)

\* Everybody outside the larger side dissents, abstentions included.
Dissent(reports) == (1..Len(reports)) \ LargerSide(reports)

\* A slip: more than half decide.
MostVote(reports, verdict) == 2 * Cardinality(Voting(reports, verdict)) > Len(reports)

AllVote(reports, verdict) == Voting(reports, verdict) = 1..Len(reports)

Outcome(status, majority, dissent) ==
  [status |-> status, majorityReports |-> majority, dissent |-> dissent]

(***************************************************************************)
(* DefaultResolutionProcedure.apply: a status, and the reports (by index)  *)
(* in the majority and in dissent.                                         *)
(***************************************************************************)
Apply(reports) ==
  LET everyone == 1..Len(reports)
  IN IF TooFewToResolve(reports) THEN Outcome("INCONCLUSIVE", everyone, {})
     ELSE IF AllVote(reports, "INSUFFICIENT_EVIDENCE") THEN Outcome("INCONCLUSIVE", {}, everyone)
     ELSE IF AllVote(reports, "SUPPORTS") THEN Outcome("TRUE", everyone, {})
     ELSE IF AllVote(reports, "REJECTS") THEN Outcome("FALSE", everyone, {})
     ELSE Outcome("CONTESTED", LargerSide(reports), Dissent(reports))
=============================================================================
