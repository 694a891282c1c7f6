------------------------------- MODULE Playground -------------------------------
(***************************************************************************)
(* The browser's side of the demo server: the scenario cards of the        *)
(* playground (src/apps/client/components/ScenarioCard.tsx), which show    *)
(* each step of a run as it is read, and the page that asks for a          *)
(* verification (app/verify/page.tsx).  Requests go through the proxy of   *)
(* the web client (app/api/demo/), so to the limiter of the server all     *)
(* browsers are one caller; agents send theirs without any page.           *)
(*                                                                         *)
(* A connection may break at any time, and the run goes on.                *)
(***************************************************************************)
EXTENDS DemoServer

CONSTANTS
  Cards, Pages    \* scenario cards, verification pages

ASSUME PlaygroundAssumption ==
  /\ Cards \cap Pages = {} /\ None \notin Cards \cup Pages
  /\ Requests \subseteq Nat   \* they are numbered as they are first heard of

VARIABLES
  origin,     \* request -> the card or page it comes from
  reader,     \* request -> whether somebody reads the answer
  readTo,     \* request -> how many of the steps were read
  view        \* card or page -> what it shows

clientVars == <<origin, reader, readTo, view>>
allVars == <<vars, clientVars>>

RunState == {"idle", "running", "done", "error", "cancelled"}

PlaygroundInit ==
  /\ Init
  /\ origin = [r \in Requests |-> None]
  /\ reader = [r \in Requests |-> "none"]
  /\ readTo = [r \in Requests |-> 0]
  /\ view = [c \in Cards \cup Pages |-> [state |-> "idle", run |-> None, liveSteps |-> <<>>, trace |-> None]]

Unheard(r) == status[r] = "unseen" /\ origin[r] = None

Fresh(r) == Unheard(r) /\ \A q \in Requests : q < r => ~Unheard(q)

-----------------------------------------------------------------------------
(***************************************************************************)
(* What the user does.  A button is disabled while its run is under way,   *)
(* so at most one request of each card or page has an open reader.         *)
(***************************************************************************)
Fetch(c, r) ==
  /\ view[c].state # "running"
  /\ Fresh(r)
  /\ origin' = [origin EXCEPT ![r] = c]
  /\ reader' = [reader EXCEPT ![r] = "open"]
  /\ UNCHANGED <<vars, readTo>>

HandleRun(c, r) ==
  /\ Fetch(c, r)
  /\ view' = [view EXCEPT ![c] = [state |-> "running", run |-> r, liveSteps |-> <<>>, trace |-> None]]

\* The result of an earlier request stays, unseen.
HandleSubmit(p, r) ==
  /\ Fetch(p, r)
  /\ view' = [view EXCEPT ![p] = [@ EXCEPT !.state = "running", !.run = r]]

\* A slip: the card turns to "cancelled" without aborting its request.
ReadsOn(r) == reader[r]

Aborted(r) == "over"

\* abort() rejects the pending read, and the card tells that it stopped watching.
HandleCancel(c) ==
  /\ view[c].state = "running"
  /\ reader' = [reader EXCEPT ![view[c].run] = Aborted(view[c].run)]
  /\ view' = [view EXCEPT ![c].state = "cancelled"]
  /\ UNCHANGED <<vars, origin, readTo>>

-----------------------------------------------------------------------------
(***************************************************************************)
(* The stream.  streamScenario of server.ts writes each step, here one for *)
(* each transaction, and then how the run ended; streamScenario of api.ts  *)
(* reads them in that order, and what it reads goes to the card that       *)
(* started the run.                                                        *)
(***************************************************************************)
Streamed(r) == IF origin[r] \in Cards THEN sent[r] ELSE 0

ReadStep(r) ==
  /\ reader[r] = "open" /\ readTo[r] < Streamed(r)
  /\ readTo' = [readTo EXCEPT ![r] = @ + 1]
  /\ view' = [view EXCEPT ![origin[r]].liveSteps = Append(@, <<r, readTo'[r]>>)]
  /\ UNCHANGED <<vars, origin, reader>>

\* The reader is done, and what came of it is shown.
Ends(r, state, trace) ==
  /\ reader[r] = "open"
  /\ reader' = [reader EXCEPT ![r] = "over"]
  /\ view' = [view EXCEPT ![origin[r]].state = state, ![origin[r]].trace = trace]
  /\ UNCHANGED <<vars, origin, readTo>>

ReadResult(r) ==
  /\ status[r] = "done" /\ readTo[r] = Streamed(r)
  /\ Ends(r, "done", [run |-> r, steps |-> Streamed(r)])

\* An "error" line, a status that is not ok, or the end of the stream without a result.
ReadError(r) ==
  /\ \/ status[r] = "failed" /\ readTo[r] = Streamed(r)
     \/ status[r] \in {"unauthorized", "limited", "malformed", "lost"}
  /\ Ends(r, "error", view[origin[r]].trace)

\* The proxy gave up, or the connection is gone, even while a result is on its way.
Breaks(r) == Ends(r, "error", view[origin[r]].trace)

-----------------------------------------------------------------------------
(***************************************************************************)
(* The server, as it meets requests of cards (scenarios, the tamper demo   *)
(* among them), pages and agents (claims to verify).                       *)
(***************************************************************************)
Arrive(r, c) ==
  /\ origin[r] # None \/ Fresh(r)
  /\ \/ Unauthorized(r) \/ RateLimited(r, c)
     \/ origin[r] \notin Cards /\ (Malformed(r, c) \/ Enqueue(r, c, TRUE))
     \/ origin[r] \in Cards /\ \E onChain \in BOOLEAN : Enqueue(r, c, onChain)

ServerNext ==
  /\ \/ Tick \/ Restart
     \/ \E r \in Requests : RunStep(r) \/ \E c \in Callers : Arrive(r, c)
  /\ UNCHANGED clientVars

ClientNext ==
  \/ \E c \in Cards, r \in Requests : HandleRun(c, r)
  \/ \E p \in Pages, r \in Requests : HandleSubmit(p, r)
  \/ \E c \in Cards : HandleCancel(c)
  \/ \E r \in Requests : ReadStep(r) \/ ReadResult(r) \/ ReadError(r) \/ Breaks(r)

PlaygroundNext == ServerNext \/ ClientNext

\* What was sent arrives, and what was written is read.
Served(r) ==
  \/ \E c \in Callers : origin[r] # None /\ Arrive(r, c) /\ UNCHANGED clientVars
  \/ ReadStep(r) \/ ReadResult(r) \/ ReadError(r)

PlaygroundSpec ==
  /\ PlaygroundInit /\ [][PlaygroundNext]_allVars
  /\ \A r \in Requests : WF_allVars(RunStep(r) /\ UNCHANGED clientVars) /\ WF_allVars(Served(r))

-----------------------------------------------------------------------------
(***************************************************************************)
(* A card shows the steps of the run it was last asked for and of no       *)
(* other, all in order up to some step, and a trace or a result is shown   *)
(* as that of a request only if its run ended well: whatever was cancelled *)
(* or broke off before, and goes on at the server.                         *)
(***************************************************************************)
ViewsShowTheirRun ==
  \A c \in Cards \cup Pages :
    LET v == view[c]
    IN /\ \A i \in DOMAIN v.liveSteps : v.liveSteps[i] = <<v.run, i>>
       /\ v.state = "done" =>
            /\ status[v.run] = "done"
            /\ v.trace = [run |-> v.run, steps |-> Len(v.liveSteps)]

(***************************************************************************)
(* Nobody waits for ever.  Whatever earlier runs did, a request that was   *)
(* queued runs and ends, unless the process dies first; and a card or page *)
(* that says "running" stops saying so, even if it dies.                   *)
(***************************************************************************)
NobodyWaitsForEver ==
  /\ \A r \in Requests : status[r] = "queued" ~> status[r] \in Settled \cup {"lost"}
  /\ \A c \in Cards \cup Pages : view[c].state = "running" ~> view[c].state # "running"
=============================================================================
