--------------------------------- MODULE Indexer ---------------------------------
(***************************************************************************)
(* The indexer service (src/apps/indexer/src/server.ts): every few seconds *)
(* and on POST /rebuild it reads the logs of the two contracts, one after  *)
(* the other, and then replaces what it serves.  Rebuilds overlap; any     *)
(* read can fail; the process can be restarted, before the contracts are   *)
(* deployed and after.                                                     *)
(*                                                                         *)
(* What a rebuild makes of the logs is in EventStore; here a log is known  *)
(* by the length of the chain when it was read.                            *)
(***************************************************************************)
EXTENDS Naturals, Sequences

CONSTANTS
  Rebuilds,        \* the rebuilds that can be under way at once: a bound
  Investigators,   \* investigator ids
  MaxChain,        \* bound on the events on the chain
  MaxRestarts      \* bound on the restarts of the process

ASSUME IndexerAssumption == MaxChain \in Nat /\ MaxRestarts \in Nat

VARIABLES
  chain,             \* the events of both contracts, in order
  configured,        \* whether the process was started with a CONTRACT_ADDRESS
  phase,             \* rebuild -> 0 if idle, k while it reads log k, 3 when both are read
  fetched,           \* rebuild -> contract -> how much of the chain its log reflects
  state,             \* contract -> how much of the chain the served state reflects
  lastRebuildError,  \* whether the rebuild that ended last failed
  restarts,          \* restarts so far
  startedAt          \* history: rebuild -> length of the chain when it started

serverVars == <<phase, fetched, state, lastRebuildError, startedAt>>
vars == <<chain, configured, serverVars, restarts>>

Contract == {"registry", "identities"}

Event == [name : {"Registered", "Linked"}, id : Investigators]

Nothing == [c \in Contract |-> 0]

TypeOK ==
  /\ chain \in Seq(Event)
  /\ configured \in BOOLEAN
  /\ phase \in [Rebuilds -> 0..3]
  /\ fetched \in [Rebuilds -> [Contract -> Nat]]
  /\ state \in [Contract -> Nat]
  /\ lastRebuildError \in BOOLEAN
  /\ restarts \in Nat
  /\ startedAt \in [Rebuilds -> Nat]

Init ==
  /\ chain = <<>>
  /\ configured \in BOOLEAN
  /\ phase = [r \in Rebuilds |-> 0]
  /\ fetched = [r \in Rebuilds |-> Nothing]
  /\ state = Nothing
  /\ lastRebuildError = FALSE
  /\ restarts = 0
  /\ startedAt = [r \in Rebuilds |-> 0]

-----------------------------------------------------------------------------
(***************************************************************************)
(* The chain: an identity is registered before a report links to it.       *)
(***************************************************************************)
\* The ids the first n events of the chain with that name are about.
Named(name, n) == {chain[i].id : i \in {j \in 1..n : chain[j].name = name}}

Emit(name, id) ==
  /\ Len(chain) < MaxChain
  /\ name = "Linked" <=> id \in Named("Registered", Len(chain))
  /\ chain' = Append(chain, [name |-> name, id |-> id])
  /\ UNCHANGED <<configured, serverVars, restarts>>

(***************************************************************************)
(* The service.                                                            *)
(***************************************************************************)
\* A slip: after an error nothing is started again.
StartsUnlessFailed(r) == phase[r] = 0 /\ ~lastRebuildError

MayStart(r) == phase[r] = 0

StartRebuild(r) ==
  /\ MayStart(r)
  /\ configured
  /\ phase' = [phase EXCEPT ![r] = 1]
  /\ startedAt' = [startedAt EXCEPT ![r] = Len(chain)]
  /\ UNCHANGED <<chain, configured, fetched, state, lastRebuildError, restarts>>

\* Without an address rebuild() returns at once.
RefuseRebuild(r) ==
  /\ phase[r] = 0
  /\ ~configured
  /\ lastRebuildError' = TRUE
  /\ UNCHANGED <<chain, configured, phase, fetched, state, restarts, startedAt>>

\* A slip: the identities are read first.
LogReadLast(k) == IF k = 1 THEN "identities" ELSE "registry"

LogRead(k) == IF k = 1 THEN "registry" ELSE "identities"

\* A slip: a read under way or done for another rebuild is shared.
SharedRead(c) ==
  LET others == {fetched[r][c] : r \in {s \in Rebuilds : phase[s] = 3}}
  IN IF others = {} THEN Len(chain) ELSE CHOOSE n \in others : TRUE

\* getLogs up to "latest".
UpToLatest(c) == Len(chain)

\* The node answers; the answer is on its way until the next step of r.
ReadLog(r, k) ==
  /\ phase[r] = k
  /\ fetched' = [fetched EXCEPT ![r][LogRead(k)] = UpToLatest(LogRead(k))]
  /\ phase' = [phase EXCEPT ![r] = k + 1]
  /\ UNCHANGED <<chain, configured, state, lastRebuildError, restarts, startedAt>>

Rebuilt(r) == fetched[r]

FinishRebuild(r) ==
  /\ phase[r] = 3
  /\ state' = Rebuilt(r)
  /\ lastRebuildError' = FALSE
  /\ phase' = [phase EXCEPT ![r] = 0]
  /\ UNCHANGED <<chain, configured, fetched, restarts, startedAt>>

\* A request fails or times out; what was served stays.
FailRebuild(r) ==
  /\ phase[r] # 0
  /\ lastRebuildError' = TRUE
  /\ phase' = [phase EXCEPT ![r] = 0]
  /\ UNCHANGED <<chain, configured, fetched, state, restarts, startedAt>>

\* Nothing is kept on disk; the address is read anew.
Restart ==
  /\ restarts < MaxRestarts
  /\ restarts' = restarts + 1
  /\ configured' \in BOOLEAN
  /\ phase' = [r \in Rebuilds |-> 0]
  /\ state' = Nothing
  /\ lastRebuildError' = FALSE
  /\ UNCHANGED <<chain, fetched, startedAt>>

RebuildStep(r) ==
  \/ StartRebuild(r)
  \/ RefuseRebuild(r)
  \/ \E k \in 1..2 : ReadLog(r, k)
  \/ FinishRebuild(r)
  \/ FailRebuild(r)

Next ==
  \/ \E name \in {"Registered", "Linked"}, id \in Investigators : Emit(name, id)
  \/ \E r \in Rebuilds : RebuildStep(r)
  \/ Restart

Spec == Init /\ [][Next]_vars

\* The timer never stops, no request stays without answer or error for good,
\* and errors do not go on for ever.
Fairness ==
  /\ WF_vars(\E r \in Rebuilds : StartRebuild(r))
  /\ \A r \in Rebuilds :
       /\ \A k \in 1..2 : SF_vars(ReadLog(r, k))
       /\ SF_vars(FinishRebuild(r))

FairSpec == Spec /\ Fairness

-----------------------------------------------------------------------------
(***************************************************************************)
(* Whatever overlaps, fails or restarts, an identity that a served report  *)
(* links to is registered in the served state: what comes with one log     *)
(* never refers to what is missing from the other.                         *)
(***************************************************************************)
ServedLinksResolve ==
  Named("Linked", state["registry"]) \subseteq Named("Registered", state["identities"])

(***************************************************************************)
(* When a rebuild ends well, all that was on the chain when it started is  *)
(* served, so POST /rebuild after a transaction answers with it.  What is  *)
(* served is lost again only in a restart, or to a rebuild that overlaps:  *)
(* one that started before it was on the chain and ended later.            *)
(***************************************************************************)
RebuildSeesItsStart ==
  [][ /\ \A r \in Rebuilds : FinishRebuild(r) =>
           \A c \in Contract : state'[c] >= startedAt[r]
      /\ \A c \in Contract : state'[c] < state[c] =>
           \/ restarts' # restarts
           \/ \E r \in Rebuilds : FinishRebuild(r) /\ startedAt[r] < state[c] ]_vars

(***************************************************************************)
(* Once the chain is quiet, a service with a contract address ends up      *)
(* serving all of it for good: an older rebuild that ends late is followed *)
(* by a newer one.                                                         *)
(***************************************************************************)
Converges == <>[](configured => \A c \in Contract : state[c] = Len(chain))
=============================================================================
