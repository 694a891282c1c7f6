------------------------------ MODULE DemoServer ------------------------------
(***************************************************************************)
(* The demo driver's HTTP service (src/demo/server.ts): every request is   *)
(* rate-limited per caller, and those that are let in run one after the    *)
(* other through one chain of promises, since all of them sign with the    *)
(* same few keys and lib.ts tracks the open providers of all of them in    *)
(* one module-wide list.                                                   *)
(*                                                                         *)
(* What a run does on the chain is in DemoDriver; here it is a number of   *)
(* transactions of one key, each signed with the count of transactions the *)
(* node names and rejected when that is no longer the next one.  Those who *)
(* wait for the answers are in Playground.                                 *)
(***************************************************************************)
EXTENDS Naturals, SequencesExt, FiniteSets

CONSTANTS
  Requests,            \* HTTP requests to the write routes
  Callers,             \* their IP addresses
  RATE_LIMIT_MAX, RATE_LIMIT_WINDOW,
  TxPerRun,            \* transactions of a run
  MaxTime, MaxRestarts,\* bounds
  None                 \* no nonce

ASSUME ServerAssumption ==
  /\ {RATE_LIMIT_MAX, RATE_LIMIT_WINDOW, TxPerRun, MaxTime, MaxRestarts} \subseteq Nat
  /\ RATE_LIMIT_MAX > 0
  /\ None \notin Nat

VARIABLES
  now, restarts,
  requestLog,        \* caller -> times, what the limiter remembers
  admitted,          \* history: caller -> times of all admissions since the start
  status,            \* request -> what became of it
  usesChain,         \* request -> whether its run makes providers; /run/tamper does not
  writeQueue,        \* the requests in the order they were chained
  sent, nonce,       \* request -> transactions sent, and the nonce of the next if signed
  trackedChains,     \* the requests with providers in lib.ts' list
  transactionCount   \* of the shared key, on the chain

limiterVars == <<requestLog, admitted>>
runVars == <<sent, nonce, trackedChains, transactionCount>>
vars == <<now, restarts, limiterVars, status, usesChain, writeQueue, runVars>>

Settled == {"done", "failed"}

Init ==
  /\ now = 0 /\ restarts = 0
  /\ requestLog = [c \in Callers |-> <<>>]
  /\ admitted = [c \in Callers |-> <<>>]
  /\ status = [r \in Requests |-> "unseen"]
  /\ usesChain = [r \in Requests |-> FALSE]
  /\ writeQueue = <<>>
  /\ sent = [r \in Requests |-> 0]
  /\ nonce = [r \in Requests |-> None]
  /\ trackedChains = {}
  /\ transactionCount = 0

Tick ==
  /\ now < MaxTime
  /\ now' = now + 1
  /\ UNCHANGED <<restarts, limiterVars, status, usesChain, writeQueue, runVars>>

-----------------------------------------------------------------------------
(***************************************************************************)
(* requireAuthAndRateLimit, and what the routes check before they queue.   *)
(***************************************************************************)
\* What filter keeps of the log, which it goes through from the front.
Recent(caller) ==
  LET times == requestLog[caller]
      kept[n \in 0..Len(times)] ==
        IF n = 0 THEN <<>>
        ELSE IF now - times[n] < RATE_LIMIT_WINDOW THEN Append(kept[n - 1], times[n])
        ELSE kept[n - 1]
  IN kept[Len(times)]

AtLimit(caller) == Len(Recent(caller)) >= RATE_LIMIT_MAX

\* A slip: a refused request counts like the others.
RefusalLogged(caller) == Append(Recent(caller), now)

LogOnRefusal(caller) == requestLog[caller]

Unauthorized(r) ==
  /\ status[r] = "unseen"
  /\ status' = [status EXCEPT ![r] = "unauthorized"]
  /\ UNCHANGED <<now, restarts, limiterVars, usesChain, writeQueue, runVars>>

RateLimited(r, caller) ==
  /\ status[r] = "unseen"
  /\ AtLimit(caller)
  /\ status' = [status EXCEPT ![r] = "limited"]
  /\ requestLog' = [requestLog EXCEPT ![caller] = LogOnRefusal(caller)]
  /\ UNCHANGED <<now, restarts, admitted, usesChain, writeQueue, runVars>>

Admit(r, caller) ==
  /\ status[r] = "unseen"
  /\ ~AtLimit(caller)
  /\ requestLog' = [requestLog EXCEPT ![caller] = Append(Recent(caller), now)]
  /\ admitted' = [admitted EXCEPT ![caller] = Append(@, now)]
  /\ UNCHANGED <<now, restarts, runVars>>

\* A body without a claim, or with malformed evidence: counted, and not queued.
Malformed(r, caller) ==
  /\ Admit(r, caller)
  /\ status' = [status EXCEPT ![r] = "malformed"]
  /\ UNCHANGED <<usesChain, writeQueue>>

Enqueue(r, caller, onChain) ==
  /\ Admit(r, caller)
  /\ status' = [status EXCEPT ![r] = "queued"]
  /\ usesChain' = [usesChain EXCEPT ![r] = onChain]
  /\ writeQueue' = Append(writeQueue, r)

-----------------------------------------------------------------------------
(***************************************************************************)
(* serialized.                                                             *)
(***************************************************************************)
Before(r) ==
  LET i == CHOOSE k \in DOMAIN writeQueue : writeQueue[k] = r
  IN {writeQueue[k] : k \in 1..(i - 1)}

\* A slip: runs are not chained.
RunsAtOnce(r) == status[r] = "queued"

\* A slip: writeQueue.then(fn) without the second fn.
RunsAfterSuccess(r) == status[r] = "queued" /\ \A q \in Before(r) : status[q] = "done"

MayRun(r) == status[r] = "queued" /\ \A q \in Before(r) : status[q] \in Settled

Run(r) ==
  /\ MayRun(r)
  /\ status' = [status EXCEPT ![r] = "running"]
  /\ trackedChains' = IF usesChain[r] THEN trackedChains \cup {r} ELSE trackedChains
  /\ UNCHANGED <<now, restarts, limiterVars, usesChain, writeQueue, sent, nonce, transactionCount>>

\* destroyTrackedChains empties the whole list, whoever filled it.
ChainsAfter(r, outcome) == IF usesChain[r] THEN {} ELSE trackedChains

End(r, outcome) ==
  /\ status' = [status EXCEPT ![r] = outcome]
  /\ nonce' = [nonce EXCEPT ![r] = None]
  /\ trackedChains' = ChainsAfter(r, outcome)
  /\ UNCHANGED <<now, restarts, limiterVars, usesChain, writeQueue, sent, transactionCount>>

Working(r) == status[r] = "running" /\ usesChain[r] /\ sent[r] < TxPerRun

\* eth_getTransactionCount, "pending"; chain.ts disables the provider's cache of it.
Sign(r) ==
  /\ Working(r) /\ nonce[r] = None /\ r \in trackedChains
  /\ nonce' = [nonce EXCEPT ![r] = transactionCount]
  /\ UNCHANGED <<now, restarts, limiterVars, status, usesChain, writeQueue, sent, trackedChains,
                 transactionCount>>

Send(r) ==
  /\ Working(r) /\ nonce[r] = transactionCount /\ r \in trackedChains
  /\ sent' = [sent EXCEPT ![r] = @ + 1]
  /\ nonce' = [nonce EXCEPT ![r] = None]
  /\ transactionCount' = transactionCount + 1
  /\ UNCHANGED <<now, restarts, limiterVars, status, usesChain, writeQueue, trackedChains>>

\* Any step of a run may throw; one with a stale nonce or a dead provider does.
Throw(r) == status[r] = "running" /\ End(r, "failed")

Return(r) == status[r] = "running" /\ ~Working(r) /\ End(r, "done")

\* The process dies: what it kept is gone, what it sent stays.
Restart ==
  /\ restarts < MaxRestarts
  /\ restarts' = restarts + 1
  /\ requestLog' = [c \in Callers |-> <<>>]
  /\ admitted' = [c \in Callers |-> <<>>]
  /\ status' = [r \in Requests |-> IF status[r] \in {"queued", "running"} THEN "lost" ELSE status[r]]
  /\ writeQueue' = <<>>
  /\ nonce' = [r \in Requests |-> None]
  /\ trackedChains' = {}
  /\ UNCHANGED <<now, usesChain, sent, transactionCount>>

Next ==
  \/ Tick
  \/ Restart
  \/ \E r \in Requests : Unauthorized(r) \/ Run(r) \/ Sign(r) \/ Send(r) \/ Throw(r) \/ Return(r)
  \/ \E r \in Requests, c \in Callers : RateLimited(r, c) \/ Malformed(r, c)
  \/ \E r \in Requests, c \in Callers, onChain \in BOOLEAN : Enqueue(r, c, onChain)

Spec == Init /\ [][Next]_vars

\* The promise a run returns settles: its calls are answered or time out.
RunStep(r) == Run(r) \/ Sign(r) \/ Send(r) \/ Throw(r) \/ Return(r)

-----------------------------------------------------------------------------
(***************************************************************************)
(* No caller gets more than RATE_LIMIT_MAX requests in within any window,  *)
(* wherever the window starts, until a restart forgets them; and one is    *)
(* turned away only for requests that were let in: insisting while the     *)
(* limiter refuses does not prolong the refusal.                           *)
(***************************************************************************)
AdmissionExact ==
  \A c \in Callers :
    LET times == admitted[c]
    IN /\ \A i \in 1..(Len(times) - RATE_LIMIT_MAX) :
            times[i + RATE_LIMIT_MAX] - times[i] >= RATE_LIMIT_WINDOW
       /\ AtLimit(c) =>
            Cardinality({i \in DOMAIN times : now - times[i] < RATE_LIMIT_WINDOW}) >= RATE_LIMIT_MAX

(***************************************************************************)
(* The shared key never signs twice with one count, and no run loses its   *)
(* providers to the end of another: nothing a run signed is stale.         *)
(***************************************************************************)
NothingSignedIsStale ==
  \A r \in Requests : nonce[r] # None =>
    nonce[r] = transactionCount /\ r \in trackedChains
=============================================================================
