------------------------------- MODULE Predicates -------------------------------
(***************************************************************************)
(* Whether two claims are allowed to fight (src/packages/protocol-core/    *)
(* src/predicate.ts): a text is read into a predicate by rules, and two    *)
(* predicates are classified.                                              *)
(*                                                                         *)
(* A text is the subject it names and the parts the patterns of the code   *)
(* find in it, in order.  A part is a record of some kind:                 *)
(*   "word"    a word for the metric                                       *)
(*   "number"  a place that looks like a number, with the value Number()   *)
(*             makes of it.  Not every such place is the amount the text   *)
(*             states: the 3 of "v3" looks the same, a comma on its own is *)
(*             turned into 0, and a lone period into no value (NaN)        *)
(*   "series"  "series x", a qualifier and a word for a raise at once      *)
(*   "as-of"   "as of ..." up to a year, a qualifier whose first figure,   *)
(*             the year or one before it, looks like a number as well      *)
(***************************************************************************)
EXTENDS Integers, Sequences, FiniteSets

PredicateMetric == {"RAISE_AMOUNT", "VALUATION", "TVL", "EXPLOIT_LOSS", "GENERIC"}

\* value is missing.
NoValue == -1

StructuredPredicate(Subjects, Values, Qualifiers) ==
  [subject : Subjects, metric : PredicateMetric, value : Values \cup {NoValue},
   qualifiers : SUBSET Qualifiers]

-----------------------------------------------------------------------------
NumberLike == {"number", "as-of"}

\* What a match of a pattern finds: the first part of one of the kinds, if there is one.
First(text, kinds) ==
  {i \in DOMAIN text.parts :
     text.parts[i].kind \in kinds /\ \A j \in 1..(i - 1) : text.parts[j].kind \notin kinds}

\* The first number-like place, whatever it stands for; nothing if it is no number.
ParseMoney(text) ==
  IF First(text, NumberLike) = {} THEN NoValue
  ELSE text.parts[CHOOSE i \in First(text, NumberLike) : TRUE].value

\* The metrics whose words occur.
Words(text) ==
  {text.parts[i].metric : i \in {j \in DOMAIN text.parts : text.parts[j].kind \in {"word", "series"}}}

\* The first of the list wins.
DetectMetric(text) ==
  IF "RAISE_AMOUNT" \in Words(text) THEN "RAISE_AMOUNT"
  ELSE IF "VALUATION" \in Words(text) THEN "VALUATION"
  ELSE IF "TVL" \in Words(text) THEN "TVL"
  ELSE IF "EXPLOIT_LOSS" \in Words(text) THEN "EXPLOIT_LOSS"
  ELSE "GENERIC"

\* At most one of each kind.
DetectQualifiers(text) ==
  {text.parts[i].qualifier : i \in First(text, {"series"}) \cup First(text, {"as-of"})}

ExtractRuleBased(text) ==
  [subject |-> text.subject, metric |-> DetectMetric(text), value |-> ParseMoney(text),
   qualifiers |-> DetectQualifiers(text)]

-----------------------------------------------------------------------------
(***************************************************************************)
(* classifyRelationship.                                                   *)
(***************************************************************************)
TOLERANCE_PERCENT == 2

Apart(v, w) == IF v >= w THEN v - w ELSE w - v

\* A slip: the difference is set against the first value, not the larger one.
AgainstFirst(v, w) == IF v >= 1 THEN v ELSE 1

LargerOf(v, w) == IF v >= w THEN (IF v >= 1 THEN v ELSE 1) ELSE w

SameValue(v, w) == 100 * Apart(v, w) <= TOLERANCE_PERCENT * LargerOf(v, w)

\* Of one subject, under one metric, and confidently read.
Comparable(a, b) == a.subject = b.subject /\ a.metric = b.metric /\ a.metric # "GENERIC"

BothNumeric(a, b) == a.value # NoValue /\ b.value # NoValue

Adds(a, b) == a.qualifiers \subseteq b.qualifiers /\ a.qualifiers # b.qualifiers

ClassifyRelationship(a, b) ==
  IF ~Comparable(a, b) THEN "RELATES_TO"
  ELSE IF BothNumeric(a, b)
       THEN IF ~SameValue(a.value, b.value) THEN "CONTRADICTS"
            ELSE IF Cardinality(a.qualifiers) # Cardinality(b.qualifiers) THEN "REFINES"
            ELSE "RELATES_TO"
  ELSE IF Adds(a, b) THEN "NARROWS"
  ELSE IF Adds(b, a) THEN "EXTENDS"
  ELSE "RELATES_TO"

RequiresChallenge(a, b) == ClassifyRelationship(a, b) = "CONTRADICTS"
=============================================================================
