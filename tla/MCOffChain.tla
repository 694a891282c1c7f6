------------------------------- MODULE MCOffChain -------------------------------
(***************************************************************************)
(* What happens off the chain, on small instances: the decision of a case  *)
(* and the settlement of its bond (MCRules), the justification graph, the  *)
(* record of the past, the storage adapter with its readers, and the pure  *)
(* functions, which are applied to whatever is put on the desk.            *)
(*                                                                         *)
(* The parts share no state, so each behaviour explores one of them, its   *)
(* focus, while the others rest in an initial state.                       *)
(***************************************************************************)
EXTENDS MCRules, JustificationGraph, History, Storage, Evidence, Predicates, Investigator

CONSTANTS Parts,        \* the parts explored
          Amount, NoAmount,  \* numbers in texts: amounts stated, and others
          AsOfFigure,   \* the first figures of as-of qualifiers
          MaxParts,     \* bound on the parts of a text
          MaxHashes     \* bound on the leaves of a tree

\* No figure in a text is read as negative.
ASSUME AmountAssumption == Amount \cup NoAmount \cup AsOfFigure \subseteq Nat

ASSUME BoundsAssumption == MaxHashes \in Nat /\ MaxParts \in Nat

VARIABLES focus, desk

offChainVars == <<vars, graphVars, historyVars, storageVars, focus, desk>>

EmptyDesk == [about |-> "nothing"]

\* What a text is made of; one number-like place is a lone period.
Word == [kind : {"word"}, metric : {"RAISE_AMOUNT", "VALUATION"}]

Number ==
  [kind : {"number"}, value : Amount, isAmount : {TRUE}]
    \cup [kind : {"number"}, value : NoAmount \cup {NoValue}, isAmount : {FALSE}]

Qualification ==
  [kind : {"series"}, metric : {"RAISE_AMOUNT"}, qualifier : {"series-a"}]
    \cup [kind : {"as-of"}, value : AsOfFigure, isAmount : {FALSE}, qualifier : {"as-of"}]

Text(Subjects, n) == [subject : Subjects, parts : SeqOf(Word \cup Number \cup Qualification, n)]

\* Two texts: the second may be about another subject than the first, and is shorter by a part.
Texts ==
  [about : {"texts"}, one : Text({"x"}, MaxParts), other : Text({"x", "y"}, MaxParts - 1)]

Worlds ==
  [ about : {"world"}, mode : {"auto", "live", "local"},
    live : {"none", "fails"} \cup Answer,
    attestation : {"noChatId", "true", "false", "null", "throws"},
    anthropic : {"noKey", "fails", "SUPPORTS", "garbled"}, openai : {"noKey", "fails", "REJECTS"},
    evidence : {"empty", "noFigures", "matching", "conflicting"} ]

\* The hashes of plain contents, of the text "EMPTY_BUNDLE", and of two hashes in a row.
ContentHash == LeafHash \cup {EMPTY_BUNDLE, HashPair(1, Leaves)}

Hashes == [about : {"hashes"}, hashes : SeqOf(ContentHash, MaxHashes)]

\* What a sequence of hashes holds, and what is committed to for it.
Commitment(ids) ==
  [ contents |-> Range(ids),
    occurs |-> [h \in ContentHash |-> Cardinality({i \in DOMAIN ids : ids[i] = h})],
    bundle |-> BuildBundle(ids, 1).root,
    batch |-> IF ids = <<>> THEN <<>>
              ELSE ComputeBatchCommitment([i \in DOMAIN ids |-> [hash |-> ids[i], seq |-> i]]).batchId ]

Commitments == {Commitment(ids) : ids \in SeqOf(ContentHash, MaxHashes)}

Consider == desk = EmptyDesk /\ \E thing \in Texts \cup Worlds \cup Hashes : desk' = thing

-----------------------------------------------------------------------------
OffChainInit ==
  /\ focus \in Parts
  /\ Init /\ (focus # "reports" => bond = 0 /\ challengeType = "CONTRADICTION")
  /\ GraphInit
  /\ HistoryInit /\ (focus # "history" => source.type = "OTHER")
  /\ StorageInit /\ (focus # "storage" => requestedMode = "auto" /\ ~configured)
  /\ desk = EmptyDesk

OffChainNext ==
  /\ \/ focus = "reports" /\ Next /\ UNCHANGED <<graphVars, historyVars, storageVars, desk>>
     \/ focus = "graph" /\ GraphNext /\ UNCHANGED <<vars, historyVars, storageVars, desk>>
     \/ focus = "history" /\ HistoryNext /\ UNCHANGED <<vars, graphVars, storageVars, desk>>
     \/ focus = "storage" /\ StorageNext /\ UNCHANGED <<vars, graphVars, historyVars, desk>>
     \/ focus = "desk" /\ Consider /\ UNCHANGED <<vars, graphVars, historyVars, storageVars>>
  /\ UNCHANGED focus

OffChainSpec == OffChainInit /\ [][OffChainNext]_offChainVars

-----------------------------------------------------------------------------
(***************************************************************************)
(* Siding with the majority of a disputed case is never rewarded: as long  *)
(* as the reports differ, reputationDelta with the status apply() computed *)
(* credits nobody with more than the hundredth an undisputed case is worth *)
(* (agent.ts: reputation is not to be farmed).                             *)
(***************************************************************************)
NobodyGainsByMajority ==
  LET differ == Cardinality({reports[i].verdict : i \in DOMAIN reports}) > 1
  IN \A i \in DOMAIN reports : ReputationDelta(reports[i].verdict, Apply(reports).status, differ) <= 1

(***************************************************************************)
(* A root says which evidence is in a bundle, and a batch id which events  *)
(* are in a batch: bundles of the same contents, whatever the order and    *)
(* the repetitions, have one root, and all others another if the contents  *)
(* are plain; batches have one id exactly if they differ in order only.  A *)
(* locked bundle is not extended: what is added makes another version.     *)
(***************************************************************************)
RootsIdentifyContents ==
  desk.about = "hashes" =>
    LET s == desk.hashes
        this == Commitment(s)
        plain(c) == c.contents \subseteq LeafHash
    IN /\ \A that \in Commitments :
            /\ this.contents = that.contents => this.bundle = that.bundle
            /\ plain(this) /\ plain(that) /\ this.bundle = that.bundle =>
                 this.contents = that.contents
            /\ this.batch = that.batch <=> this.occurs = that.occurs
       /\ \A k \in DOMAIN s :
            LET first == LockBundle(BuildBundle(SubSeq(s, 1, k), 1), 5)
                more == AddEvidence(first, s)
            IN first = LockBundle(first, 6) /\ more.version > first.version

(***************************************************************************)
(* Whether two claims fight does not depend on which comes first, and what *)
(* one narrows the other extends.  They fight only if they are about the   *)
(* same subject, have a word for the same metric, and the first number-    *)
(* like place of each is a number.  And no claim fights itself with        *)
(* qualifications put after it, though these have figures and words of     *)
(* their own.                                                              *)
(***************************************************************************)
FightsAreEarned ==
  desk.about = "texts" =>
    LET a == ExtractRuleBased(desk.one)
        b == ExtractRuleBased(desk.other)
        mirrored(relation) == CASE relation = "NARROWS" -> "EXTENDS"
                                [] relation = "EXTENDS" -> "NARROWS"
                                [] OTHER -> relation
        isNumber(text) == \E i \in First(text, NumberLike) : text.parts[i].value # NoValue
        qualified(q) == [desk.one EXCEPT !.parts = @ \o q]
    IN /\ ClassifyRelationship(b, a) = mirrored(ClassifyRelationship(a, b))
       /\ RequiresChallenge(a, b) =>
            /\ desk.one.subject = desk.other.subject
            /\ Words(desk.one) \cap Words(desk.other) # {}
            /\ isNumber(desk.one) /\ isNumber(desk.other)
       /\ \A q \in SeqOf(Qualification, 2) : ~RequiresChallenge(a, ExtractRuleBased(qualified(q)))

(***************************************************************************)
(* A label names the source of a report: under 0G_COMPUTE_TEE the verdict  *)
(* is that of the answer of 0G Compute, and verified is set only if        *)
(* processResponse confirmed that answer; LOCAL_LLM is the answer of a     *)
(* model; and a stub speaks only if no model could be asked.  Where only   *)
(* 0G Compute was asked for, its errors surface, one of the attestation    *)
(* included; and the numbers sent to the contract tell labels and verdicts *)
(* apart.                                                                  *)
(***************************************************************************)
LabelsNameTheAnswer ==
  desk.about = "world" =>
    LET report == Investigate(desk)
        answers(text) == text \in Answer
    IN report.kind = "report" =>
         /\ report.verified =>
              report.mode = "0G_COMPUTE_TEE" /\ desk.attestation = "true" /\ answers(desk.live)
         /\ CASE report.mode = "0G_COMPUTE_TEE" ->
                   desk.mode # "local" /\ answers(desk.live)
                     /\ report.verdict = ParseVerdictJson(desk.live)
              [] report.mode = "LOCAL_LLM" ->
                   \E text \in {desk.anthropic, desk.openai} :
                     answers(text) /\ report.verdict = ParseVerdictJson(text)
              [] report.mode = "SIMULATED" -> {desk.anthropic, desk.openai} = {"noKey"}
         /\ desk.mode = "live" =>
              desk.live # "fails" /\ ~(answers(desk.live) /\ desk.attestation = "throws")
         /\ AnyLiveTee({report}) = report.verified
         /\ \A v \in ReportVerdict : VerdictIndex(v) = VerdictIndex(report.verdict) => v = report.verdict
         /\ \A m \in AttestationMode :
              AttestationModeIndex(m) = AttestationModeIndex(report.mode) => m = report.mode

(***************************************************************************)
(* compute.ts promises that a report is labelled 0G_COMPUTE_TEE only if    *)
(* processResponse returned true for its answer.  It fails: every answer   *)
(* of 0G Compute gets the label, and only the field verified and a detail  *)
(* say that it was not attested.                                           *)
(***************************************************************************)
TeeLabelMeansAttested ==
  desk.about = "world" =>
    LET report == Investigate(desk)
    IN report.kind = "report" /\ report.mode = "0G_COMPUTE_TEE" => desk.attestation = "true"

(***************************************************************************)
(* The past stays as it was: entries of the log and scores of a source are *)
(* only added, what a superseded claim was at any time is told alike for   *)
(* ever, and an appeal keeps the verdict it is about; nor does a score     *)
(* ever come to certainty, so that further verdicts can always move it.    *)
(***************************************************************************)
HistoryKept ==
  [][ /\ IsPrefix(log, log') /\ IsPrefix(source.scoreHistory, source'.scoreHistory)
      /\ \A t \in 0..MaxUpdates :
           validTime.until # Open =>
             DescribeTemporalStatus("SUPERSEDED", validTime, t)
               = DescribeTemporalStatus("SUPERSEDED", validTime', t)
      /\ appeal.originalVerdict # NoVerdict => appeal'.originalVerdict = appeal.originalVerdict
      /\ 0 < source'.score.num /\ source'.score.num < source'.score.den ]_offChainVars

(***************************************************************************)
(* predicate.ts promises that a text that cannot be confidently parsed     *)
(* never forces a fight.  It fails: ParseMoney takes the first place that  *)
(* looks like a number for the amount.                                     *)
(***************************************************************************)
MisreadNeverFights ==
  desk.about = "texts" /\ RequiresChallenge(ExtractRuleBased(desk.one), ExtractRuleBased(desk.other)) =>
    \A text \in {desk.one, desk.other} :
      \A i \in First(text, NumberLike) : text.parts[i].isAmount
=============================================================================
