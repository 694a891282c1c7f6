--------------------------------- MODULE History ---------------------------------
(***************************************************************************)
(* What protocol-core keeps of the past: the event log (stateMachine.ts),  *)
(* the validity of a claim (temporal.ts), an appeal (appeal.ts) and the    *)
(* reliability of a source (agent.ts).  Each is only ever added to or      *)
(* closed, by functions that return new objects.                           *)
(***************************************************************************)
EXTENDS Integers, Sequences

CONSTANTS MaxUpdates     \* bound on the time, and so on the number of steps

ASSUME MaxUpdatesAssumption == MaxUpdates \in Nat

VARIABLES time, log, validTime, appeal, source

historyVars == <<time, log, validTime, appeal, source>>

-----------------------------------------------------------------------------
(***************************************************************************)
(* Valid time.  until is Open while it is undefined.                       *)
(***************************************************************************)
Open == -1

OpenValidTime(from) == [from |-> from, until |-> Open]

\* A slip: a later close overrides an earlier one.
LastCloseWins(vt, until) == [vt EXCEPT !.until = until]

CloseValidTime(vt, until) == IF vt.until # Open THEN vt ELSE [vt EXCEPT !.until = until]

\* RangeError otherwise.
MayClose(vt, until) == vt.until # Open \/ until >= vt.from

IsCurrentAsOf(vt, t) == t >= vt.from /\ (vt.until = Open \/ t < vt.until)

\* describeTemporalStatus, its texts named.
DescribeTemporalStatus(status, vt, asOf) ==
  IF status = "FALSE" THEN "never held"
  ELSE IF status = "SUPERSEDED"
       THEN IF IsCurrentAsOf(vt, asOf) THEN "true as of, with a successor" ELSE "true until superseded"
  ELSE status

-----------------------------------------------------------------------------
(***************************************************************************)
(* Sources.  A score is the fraction num / den; the learning rate is 2/25. *)
(***************************************************************************)
\* PRIOR_BY_SOURCE_TYPE, in hundredths.
Prior ==
  {<<"OFFICIAL_FILING", 90>>, <<"ONCHAIN_STATE", 90>>, <<"OFFICIAL_ANNOUNCEMENT", 75>>,
   <<"NEWS_ARTICLE", 55>>, <<"SOCIAL_POST", 30>>, <<"LLM_OUTPUT", 25>>, <<"OTHER", 40>>}

SeedSource(prior) ==
  LET score == [num |-> prior[2], den |-> 100]
  IN [type |-> prior[1], score |-> score, scoreHistory |-> <<score>>]

\* score + 2/25 (target - score)
Moved(score, target) == [num |-> 23 * score.num + 2 * target * score.den, den |-> 25 * score.den]

UpdateSourceReliability(src, status) ==
  IF status \notin {"TRUE", "FALSE"} THEN src
  ELSE LET next == Moved(src.score, IF status = "TRUE" THEN 1 ELSE 0)
       IN [src EXCEPT !.score = next, !.scoreHistory = Append(@, next)]

\* reputationDelta, in hundredths.
ReputationDelta(ownVerdict, finalStatus, wasContested) ==
  IF ~wasContested THEN 1
  ELSE IF <<finalStatus, ownVerdict>> \in {<<"TRUE", "SUPPORTS">>, <<"FALSE", "REJECTS">>} THEN 10
  ELSE -5

-----------------------------------------------------------------------------
NoVerdict == "none"

HistoryInit ==
  /\ time = 0
  /\ log = <<>>
  /\ validTime = OpenValidTime(0)
  /\ appeal = [originalVerdict |-> NoVerdict, newVerdict |-> NoVerdict]
  /\ source \in {SeedSource(prior) : prior \in Prior}

\* EventLog.append; every other step of the record is logged too, with what it was about.
Logged(type) ==
  /\ time < MaxUpdates
  /\ time' = time + 1
  /\ log' = Append(log, [seq |-> Len(log), at |-> time, type |-> type])

Close(until) ==
  /\ MayClose(validTime, until)
  /\ validTime' = CloseValidTime(validTime, until)
  /\ Logged("Superseded")
  /\ UNCHANGED <<appeal, source>>

FileAppeal(verdict) ==
  /\ appeal.originalVerdict = NoVerdict
  /\ appeal' = [originalVerdict |-> verdict, newVerdict |-> NoVerdict]
  /\ Logged("AppealFiled")
  /\ UNCHANGED <<validTime, source>>

ResolveAppeal(verdict) ==
  /\ appeal.originalVerdict # NoVerdict /\ appeal.newVerdict = NoVerdict
  /\ appeal' = [appeal EXCEPT !.newVerdict = verdict]
  /\ Logged("AppealResolved")
  /\ UNCHANGED <<validTime, source>>

Judge(status) ==
  /\ source' = UpdateSourceReliability(source, status)
  /\ Logged("Resolved")
  /\ UNCHANGED <<validTime, appeal>>

HistoryNext ==
  \/ \E until \in 0..MaxUpdates : Close(until)
  \/ \E status \in {"TRUE", "FALSE", "CONTESTED"} :
       FileAppeal(status) \/ ResolveAppeal(status) \/ Judge(status)
=============================================================================
