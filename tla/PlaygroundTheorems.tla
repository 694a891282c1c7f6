-------------------------- MODULE PlaygroundTheorems --------------------------
(***************************************************************************)
(* The demo server and the cards and pages that wait for it, for any       *)
(* number of requests, callers, cards, pages, restarts and transactions of *)
(* a run.                                                                  *)
(***************************************************************************)
EXTENDS Playground, RuleTheorems

-----------------------------------------------------------------------------
(***************************************************************************)
(* What the chain of promises keeps is well typed.                         *)
(***************************************************************************)
Status ==
  {"unseen", "unauthorized", "limited", "malformed", "queued", "running", "done", "failed", "lost"}

RunsTypeOK ==
  /\ status \in [Requests -> Status]
  /\ usesChain \in [Requests -> BOOLEAN]
  /\ writeQueue \in Seq(Requests)
  /\ sent \in [Requests -> Nat]
  /\ nonce \in [Requests -> Nat \cup {None}]
  /\ trackedChains \in SUBSET Requests
  /\ transactionCount \in Nat

(***************************************************************************)
(* A request is chained once; what is queued or running is in the chain;   *)
(* what runs comes after nothing but what has settled; and a transaction   *)
(* that is signed belongs to what runs, with the count of the chain.       *)
(***************************************************************************)
ChainedOnce ==
  \A i, j \in DOMAIN writeQueue : writeQueue[i] = writeQueue[j] => i = j

Chained ==
  /\ \A i \in DOMAIN writeQueue : status[writeQueue[i]] \in {"queued", "running"} \cup Settled
  /\ \A r \in Requests : status[r] \in {"queued", "running"} =>
       \E i \in DOMAIN writeQueue : writeQueue[i] = r

InTurn ==
  \A i, k \in DOMAIN writeQueue :
    status[writeQueue[i]] = "running" /\ k < i => status[writeQueue[k]] \in Settled

SignedByRunning ==
  \A r \in Requests : nonce[r] # None =>
    /\ status[r] = "running" /\ r \in trackedChains
    /\ nonce[r] = transactionCount

SerialInv == RunsTypeOK /\ ChainedOnce /\ Chained /\ InTurn /\ SignedByRunning

(***************************************************************************)
(* It holds when the process starts.                                       *)
(***************************************************************************)
LEMMA SerialInit == Init => SerialInv
  <1> SUFFICES ASSUME Init PROVE SerialInv
    OBVIOUS
  <1>1. RunsTypeOK
    <2>1. status \in [Requests -> Status] /\ usesChain \in [Requests -> BOOLEAN]
      BY DEF Init, Status
    <2>2. sent \in [Requests -> Nat] /\ nonce \in [Requests -> Nat \cup {None}]
      BY DEF Init
    <2>3. writeQueue \in Seq(Requests)
      BY DEF Init
    <2> QED BY <2>1, <2>2, <2>3 DEF RunsTypeOK, Init
  <1>2. DOMAIN writeQueue = {}
    BY DEF Init
  <1>3. \A r \in Requests : status[r] = "unseen" /\ nonce[r] = None
    BY DEF Init
  <1> QED BY <1>1, <1>2, <1>3 DEF SerialInv, ChainedOnce, Chained, InTurn, SignedByRunning, Settled

(***************************************************************************)
(* At most one of the requests is running.                                 *)
(***************************************************************************)
LEMMA OneRuns ==
  ASSUME SerialInv, NEW q \in Requests, NEW r \in Requests,
         status[q] = "running", status[r] = "running"
  PROVE  q = r
  <1>1. PICK i \in DOMAIN writeQueue : writeQueue[i] = q
    BY DEF SerialInv, Chained
  <1>2. PICK j \in DOMAIN writeQueue : writeQueue[j] = r
    BY DEF SerialInv, Chained
  <1>3. ~(i < j) /\ ~(j < i)
    BY <1>1, <1>2 DEF SerialInv, InTurn, Settled
  <1>4. i \in Nat /\ j \in Nat
    BY DEF SerialInv, RunsTypeOK
  <1> QED BY <1>1, <1>2, <1>3, <1>4

(***************************************************************************)
(* What is in the chain is a request that was heard of.                    *)
(***************************************************************************)
LEMMA ChainedIsHeard ==
  ASSUME SerialInv, NEW i \in DOMAIN writeQueue
  PROVE  writeQueue[i] \in Requests /\ status[writeQueue[i]] # "unseen"
  <1>1. writeQueue[i] \in Requests
    BY DEF SerialInv, RunsTypeOK
  <1>2. status[writeQueue[i]] \in {"queued", "running", "done", "failed"}
    BY DEF SerialInv, Chained, Settled
  <1> QED BY <1>1, <1>2

(***************************************************************************)
(* What changes nothing but the status of an unseen request, and that to   *)
(* one out of the chain, keeps the invariant.                              *)
(***************************************************************************)
LEMMA TurnedAway ==
  ASSUME SerialInv, NEW r \in Requests, status[r] = "unseen",
         NEW s \in {"unauthorized", "limited", "malformed"},
         status' = [status EXCEPT ![r] = s],
         UNCHANGED <<usesChain, writeQueue, runVars>>
  PROVE  SerialInv'
  <1>1. RunsTypeOK'
    BY DEF SerialInv, RunsTypeOK, runVars, Status
  <1>2. \A q \in Requests : q # r => status'[q] = status[q]
    BY DEF SerialInv, RunsTypeOK
  <1>3. status'[r] = s
    BY DEF SerialInv, RunsTypeOK
  <1>4. \A i \in DOMAIN writeQueue : writeQueue[i] \in Requests /\ writeQueue[i] # r
    BY ChainedIsHeard
  <1>5. ChainedOnce'
    BY DEF SerialInv, ChainedOnce
  <1>6. Chained'
    <2>1. \A i \in DOMAIN writeQueue : status'[writeQueue[i]] = status[writeQueue[i]]
      BY <1>2, <1>4
    <2>2. \A q \in Requests : status'[q] \in {"queued", "running"} =>
            q # r /\ status[q] \in {"queued", "running"}
      BY <1>2, <1>3
    <2> QED BY <2>1, <2>2 DEF SerialInv, Chained
  <1>7. InTurn'
    BY <1>2, <1>4 DEF SerialInv, InTurn
  <1>8. SignedByRunning'
    BY <1>2, <1>3 DEF SerialInv, SignedByRunning, runVars
  <1> QED BY <1>1, <1>5, <1>6, <1>7, <1>8 DEF SerialInv

(***************************************************************************)
(* Chaining one more request keeps it.                                     *)
(***************************************************************************)
LEMMA EnqueueKeepsSerial ==
  ASSUME SerialInv, NEW r \in Requests, NEW c \in Callers, NEW onChain \in BOOLEAN,
         Enqueue(r, c, onChain)
  PROVE  SerialInv'
  <1>0. /\ status[r] = "unseen"
        /\ status' = [status EXCEPT ![r] = "queued"]
        /\ usesChain' = [usesChain EXCEPT ![r] = onChain]
        /\ writeQueue' = Append(writeQueue, r)
        /\ UNCHANGED runVars
    BY DEF Enqueue, Admit
  <1>1. RunsTypeOK'
    <2>1. status' \in [Requests -> Status]
      BY <1>0 DEF SerialInv, RunsTypeOK, Status
    <2>2. usesChain' \in [Requests -> BOOLEAN]
      BY <1>0 DEF SerialInv, RunsTypeOK
    <2>3. writeQueue' \in Seq(Requests)
      BY <1>0 DEF SerialInv, RunsTypeOK
    <2> QED BY <1>0, <2>1, <2>2, <2>3 DEF SerialInv, RunsTypeOK, runVars
  <1>2. \A q \in Requests : q # r => status'[q] = status[q]
    BY <1>0 DEF SerialInv, RunsTypeOK
  <1>3. status'[r] = "queued"
    BY <1>0 DEF SerialInv, RunsTypeOK
  <1>4. \A i \in DOMAIN writeQueue : writeQueue[i] \in Requests /\ writeQueue[i] # r
    BY <1>0, ChainedIsHeard
  <1> DEFINE n == Len(writeQueue) + 1
  <1>5. /\ DOMAIN writeQueue' = DOMAIN writeQueue \cup {n}
        /\ writeQueue'[n] = r
        /\ \A i \in DOMAIN writeQueue : writeQueue'[i] = writeQueue[i] /\ i \in Nat /\ i < n
        /\ n \in Nat
    BY <1>0 DEF SerialInv, RunsTypeOK
  <1> HIDE DEF n
  <1>6. ChainedOnce'
    BY <1>4, <1>5 DEF SerialInv, ChainedOnce
  <1>7. Chained'
    <2>1. ASSUME NEW i \in DOMAIN writeQueue'
          PROVE  status'[writeQueue'[i]] \in {"queued", "running"} \cup Settled
      <3>1. CASE i = n
        BY <1>3, <1>5, <3>1
      <3>2. CASE i \in DOMAIN writeQueue
        BY <1>2, <1>4, <1>5, <3>2 DEF SerialInv, Chained
      <3> QED BY <1>5, <3>1, <3>2
    <2>2. ASSUME NEW q \in Requests, status'[q] \in {"queued", "running"}
          PROVE  \E i \in DOMAIN writeQueue' : writeQueue'[i] = q
      <3>1. CASE q = r
        BY <1>5, <3>1
      <3>2. CASE q # r
        <4>1. PICK i \in DOMAIN writeQueue : writeQueue[i] = q
          BY <1>2, <2>2, <3>2 DEF SerialInv, Chained
        <4> QED BY <1>5, <4>1
      <3> QED BY <3>1, <3>2
    <2> QED BY <2>1, <2>2 DEF Chained
  <1>8. InTurn'
    BY <1>2, <1>3, <1>4, <1>5 DEF SerialInv, InTurn
  <1>9. SignedByRunning'
    BY <1>0, <1>2 DEF SerialInv, SignedByRunning, runVars
  <1> QED BY <1>1, <1>6, <1>7, <1>8, <1>9 DEF SerialInv

(***************************************************************************)
(* A request that starts comes after nothing but what has settled.         *)
(***************************************************************************)
LEMMA RunKeepsSerial ==
  ASSUME SerialInv, NEW r \in Requests, Run(r)
  PROVE  SerialInv'
  <1>0. /\ status[r] = "queued" /\ \A q \in Before(r) : status[q] \in Settled
        /\ status' = [status EXCEPT ![r] = "running"]
        /\ UNCHANGED <<usesChain, writeQueue, sent, nonce, transactionCount>>
        /\ trackedChains' \in {trackedChains, trackedChains \cup {r}}
    BY DEF Run, MayRun
  <1>1. RunsTypeOK'
    BY <1>0 DEF SerialInv, RunsTypeOK, Status
  <1>2. \A q \in Requests : q # r => status'[q] = status[q]
    BY <1>0 DEF SerialInv, RunsTypeOK
  <1>3. status'[r] = "running"
    BY <1>0 DEF SerialInv, RunsTypeOK
  <1>4. PICK p \in DOMAIN writeQueue : writeQueue[p] = r
    BY <1>0 DEF SerialInv, Chained
  <1>5. \A i \in DOMAIN writeQueue : writeQueue[i] \in Requests /\ i \in Nat
    BY DEF SerialInv, RunsTypeOK
  <1>6. \A i \in DOMAIN writeQueue : writeQueue[i] = r => i = p
    BY <1>4 DEF SerialInv, ChainedOnce
  <1>7. Before(r) = {writeQueue[k] : k \in 1..(p - 1)}
    <2>1. p = CHOOSE k \in DOMAIN writeQueue : writeQueue[k] = r
      BY <1>4, <1>6
    <2> QED BY <2>1 DEF Before
  <1>8. \A k \in DOMAIN writeQueue : k < p => status[writeQueue[k]] \in Settled
    <2> SUFFICES ASSUME NEW k \in DOMAIN writeQueue, k < p PROVE status[writeQueue[k]] \in Settled
      OBVIOUS
    <2>1. k \in 1..(p - 1)
      BY DEF SerialInv, RunsTypeOK
    <2> QED BY <1>0, <1>7, <2>1
  <1>9. ChainedOnce'
    BY <1>0 DEF SerialInv, ChainedOnce
  <1>10. Chained'
    BY <1>0, <1>2, <1>3, <1>5 DEF SerialInv, Chained
  <1>11. InTurn'
    <2> SUFFICES ASSUME NEW i \in DOMAIN writeQueue, NEW k \in DOMAIN writeQueue,
                        status'[writeQueue[i]] = "running", k < i
                 PROVE  status'[writeQueue[k]] \in Settled
      BY <1>0 DEF InTurn
    <2>1. CASE i = p
      <3>1. status[writeQueue[k]] \in Settled
        BY <1>8, <2>1
      <3>2. writeQueue[k] # r
        BY <1>5, <1>6, <2>1
      <3> QED BY <1>2, <1>5, <3>1, <3>2
    <2>2. CASE i # p
      <3>1. status[writeQueue[i]] = "running"
        BY <1>2, <1>5, <1>6, <2>2
      <3>2. status[writeQueue[k]] \in Settled
        BY <3>1 DEF SerialInv, InTurn
      <3>3. writeQueue[k] # r
        BY <1>0, <3>2 DEF Settled
      <3> QED BY <1>2, <1>5, <3>2, <3>3
    <2> QED BY <2>1, <2>2
  <1>12. SignedByRunning'
    BY <1>0, <1>2, <1>3 DEF SerialInv, SignedByRunning
  <1> QED BY <1>1, <1>9, <1>10, <1>11, <1>12 DEF SerialInv

(***************************************************************************)
(* A request that ends takes nothing from another: none has anything.      *)
(***************************************************************************)
LEMMA EndKeepsSerial ==
  ASSUME SerialInv, NEW r \in Requests, NEW outcome \in Settled,
         status[r] = "running", End(r, outcome)
  PROVE  SerialInv'
  <1>0. /\ status' = [status EXCEPT ![r] = outcome]
        /\ nonce' = [nonce EXCEPT ![r] = None]
        /\ trackedChains' \in {{}, trackedChains}
        /\ UNCHANGED <<usesChain, writeQueue, sent, transactionCount>>
    BY DEF End, ChainsAfter
  <1>1. RunsTypeOK'
    BY <1>0 DEF SerialInv, RunsTypeOK, Status, Settled
  <1>2. \A q \in Requests : q # r => status'[q] = status[q] /\ nonce'[q] = nonce[q]
    BY <1>0 DEF SerialInv, RunsTypeOK
  <1>3. status'[r] = outcome /\ nonce'[r] = None
    BY <1>0 DEF SerialInv, RunsTypeOK
  <1>4. \A q \in Requests : q # r => nonce[q] = None
    BY OneRuns DEF SerialInv, SignedByRunning
  <1>5. \A i \in DOMAIN writeQueue : writeQueue[i] \in Requests
    BY DEF SerialInv, RunsTypeOK
  <1>6. ChainedOnce'
    BY <1>0 DEF SerialInv, ChainedOnce
  <1>7. Chained'
    BY <1>0, <1>2, <1>3, <1>5 DEF SerialInv, Chained, Settled
  <1>8. InTurn'
    BY <1>0, <1>2, <1>3, <1>5 DEF SerialInv, InTurn, Settled
  <1>9. SignedByRunning'
    BY <1>2, <1>3, <1>4 DEF SignedByRunning
  <1> QED BY <1>1, <1>6, <1>7, <1>8, <1>9 DEF SerialInv

(***************************************************************************)
(* Signing takes the count of the chain, and only what runs moves it.      *)
(***************************************************************************)
LEMMA SigningKeepsSerial ==
  ASSUME SerialInv, NEW r \in Requests, Sign(r) \/ Send(r)
  PROVE  SerialInv'
  <1>0. /\ status[r] = "running" /\ r \in trackedChains
        /\ UNCHANGED <<status, usesChain, writeQueue, trackedChains>>
    BY DEF Sign, Send, Working
  <1>1. \A q \in Requests : q # r => nonce[q] = None
    BY <1>0, OneRuns DEF SerialInv, SignedByRunning
  <1>2. ChainedOnce' /\ Chained' /\ InTurn'
    BY <1>0 DEF SerialInv, ChainedOnce, Chained, InTurn
  <1>3. CASE Sign(r)
    <2>1. nonce' = [nonce EXCEPT ![r] = transactionCount] /\ UNCHANGED <<sent, transactionCount>>
      BY <1>3 DEF Sign
    <2>2. RunsTypeOK'
      BY <1>0, <2>1 DEF SerialInv, RunsTypeOK
    <2>3. SignedByRunning'
      BY <1>0, <1>1, <2>1 DEF SerialInv, RunsTypeOK, SignedByRunning
    <2> QED BY <1>2, <2>2, <2>3 DEF SerialInv
  <1>4. CASE Send(r)
    <2>1. /\ nonce' = [nonce EXCEPT ![r] = None]
          /\ sent' = [sent EXCEPT ![r] = @ + 1]
          /\ transactionCount' = transactionCount + 1
      BY <1>4 DEF Send
    <2>2. RunsTypeOK'
      BY <1>0, <2>1 DEF SerialInv, RunsTypeOK
    <2>3. SignedByRunning'
      BY <1>0, <1>1, <2>1 DEF SerialInv, RunsTypeOK, SignedByRunning
    <2> QED BY <1>2, <2>2, <2>3 DEF SerialInv
  <1> QED BY <1>3, <1>4

(***************************************************************************)
(* After a restart nothing is chained and nothing signed.                  *)
(***************************************************************************)
LEMMA RestartKeepsSerial ==
  ASSUME SerialInv, Restart
  PROVE  SerialInv'
  <1>1. /\ status' = [r \in Requests |->
                        IF status[r] \in {"queued", "running"} THEN "lost" ELSE status[r]]
        /\ writeQueue' = <<>>
        /\ nonce' = [r \in Requests |-> None]
        /\ trackedChains' = {}
        /\ UNCHANGED <<usesChain, sent, transactionCount>>
    BY DEF Restart
  <1>2. status' \in [Requests -> Status]
    BY <1>1 DEF SerialInv, RunsTypeOK, Status
  <1>3. nonce' \in [Requests -> Nat \cup {None}] /\ writeQueue' \in Seq(Requests)
    BY <1>1
  <1>4. RunsTypeOK'
    BY <1>1, <1>2, <1>3 DEF SerialInv, RunsTypeOK
  <1>5. DOMAIN writeQueue' = {}
    BY <1>1
  <1>6. \A r \in Requests : status'[r] \notin {"queued", "running"} /\ nonce'[r] = None
    BY <1>1
  <1> QED BY <1>4, <1>5, <1>6 DEF SerialInv, ChainedOnce, Chained, InTurn, SignedByRunning

(***************************************************************************)
(* Every step of the server keeps the invariant.                           *)
(***************************************************************************)
LEMMA SerialStep == SerialInv /\ [Next]_vars => SerialInv'
  <1> SUFFICES ASSUME SerialInv, [Next]_vars PROVE SerialInv'
    OBVIOUS
  <1>1. CASE Tick \/ UNCHANGED vars
    <2>1. UNCHANGED <<status, usesChain, writeQueue, sent, nonce, trackedChains, transactionCount>>
      BY <1>1 DEF Tick, vars, runVars
    <2> QED
      BY <2>1 DEF SerialInv, RunsTypeOK, ChainedOnce, Chained, InTurn, SignedByRunning
  <1>2. CASE Restart
    BY <1>2, RestartKeepsSerial
  <1>3. ASSUME NEW r \in Requests, Unauthorized(r) PROVE SerialInv'
    BY <1>3, TurnedAway DEF Unauthorized
  <1>4. ASSUME NEW r \in Requests, NEW c \in Callers, RateLimited(r, c) PROVE SerialInv'
    BY <1>4, TurnedAway DEF RateLimited
  <1>5. ASSUME NEW r \in Requests, NEW c \in Callers, Malformed(r, c) PROVE SerialInv'
    BY <1>5, TurnedAway DEF Malformed, Admit
  <1>6. ASSUME NEW r \in Requests, NEW c \in Callers, NEW onChain \in BOOLEAN,
               Enqueue(r, c, onChain)
        PROVE  SerialInv'
    BY <1>6, EnqueueKeepsSerial
  <1>7. ASSUME NEW r \in Requests, Run(r) PROVE SerialInv'
    BY <1>7, RunKeepsSerial
  <1>8. ASSUME NEW r \in Requests, Sign(r) \/ Send(r) PROVE SerialInv'
    BY <1>8, SigningKeepsSerial
  <1>9. ASSUME NEW r \in Requests, Throw(r) \/ Return(r) PROVE SerialInv'
    BY <1>9, EndKeepsSerial DEF Throw, Return, Settled
  <1> QED BY <1>1, <1>2, <1>3, <1>4, <1>5, <1>6, <1>7, <1>8, <1>9 DEF Next

(***************************************************************************)
(* Requests run one at a time, in whatever order they come, fail and die:  *)
(* the queue of server.ts keeps the runs apart that share keys and the     *)
(* list of open providers.                                                 *)
(***************************************************************************)
THEOREM RunsOneAtATime ==
  Spec => [](\A q, r \in Requests : status[q] = "running" /\ status[r] = "running" => q = r)
  <1>1. SerialInv => \A q, r \in Requests : status[q] = "running" /\ status[r] = "running" => q = r
    BY OneRuns
  <1> QED BY <1>1, SerialInit, SerialStep, PTL DEF Spec
-----------------------------------------------------------------------------
(***************************************************************************)
(* The server behind the playground takes steps of the server alone,       *)
(* whoever asks and whoever stops reading.                                 *)
(***************************************************************************)
LEMMA ServerSteps == [PlaygroundNext]_allVars => [Next]_vars
  <1> SUFFICES ASSUME PlaygroundNext, ~UNCHANGED vars PROVE Next
    BY DEF allVars
  <1>1. CASE ServerNext
    <2>1. ASSUME NEW r \in Requests, NEW c \in Callers, Arrive(r, c) PROVE Next
      <3>1. CASE Unauthorized(r)
        BY <3>1 DEF Next
      <3>2. CASE RateLimited(r, c) \/ Malformed(r, c)
        BY <3>2 DEF Next
      <3>3. ASSUME NEW onChain \in BOOLEAN, Enqueue(r, c, onChain) PROVE Next
        BY <3>3 DEF Next
      <3> QED BY <2>1, <3>1, <3>2, <3>3 DEF Arrive
    <2>2. ASSUME NEW r \in Requests, RunStep(r) PROVE Next
      BY <2>2 DEF RunStep, Next
    <2> QED BY <1>1, <2>1, <2>2 DEF ServerNext, Next
  <1>2. CASE ClientNext
    BY <1>2 DEF ClientNext, HandleRun, HandleSubmit, Fetch, HandleCancel, ReadStep, ReadResult,
         ReadError, Breaks, Ends
  <1> QED BY <1>1, <1>2 DEF PlaygroundNext

(***************************************************************************)
(* The playground implements the server on its own: all that holds of      *)
(* DemoServer's Spec holds with cards, pages and agents around it.         *)
(***************************************************************************)
THEOREM PlaygroundKeepsServer == PlaygroundSpec => Spec
  <1>1. PlaygroundInit => Init
    BY DEF PlaygroundInit
  <1> QED BY <1>1, ServerSteps, PTL DEF PlaygroundSpec, Spec

(***************************************************************************)
(* The shared key never signs twice with one count, and no run loses its   *)
(* providers to the end of another, whatever cards, pages and agents ask   *)
(* for and whenever they stop waiting.                                     *)
(***************************************************************************)
THEOREM NothingGoesStale == PlaygroundSpec => []NothingSignedIsStale
  <1>1. SerialInv => NothingSignedIsStale
    BY DEF SerialInv, SignedByRunning, NothingSignedIsStale
  <1> QED BY <1>1, SerialInit, SerialStep, PlaygroundKeepsServer, PTL DEF Spec

-----------------------------------------------------------------------------
(***************************************************************************)
(* The types of what the browsers keep.                                    *)
(***************************************************************************)
Views == Cards \cup Pages

View ==
  [ state : RunState, run : Requests \cup {None}, liveSteps : Seq(Requests \X Nat),
    trace : [run : Requests, steps : Nat] \cup {None} ]

ClientTypeOK ==
  /\ origin \in [Requests -> Views \cup {None}]
  /\ reader \in [Requests -> {"none", "open", "over"}]
  /\ readTo \in [Requests -> Nat]
  /\ view \in [Views -> View]

(***************************************************************************)
(* A card or page that is running has the open reader of its run and of no *)
(* other, and a card has shown as many steps as were read; nothing is read *)
(* for whom nobody asked, and pages are shown no steps.                    *)
(***************************************************************************)
OneReader ==
  /\ \A r \in Requests : reader[r] = "open" =>
       origin[r] \in Views /\ view[origin[r]].state = "running" /\ view[origin[r]].run = r
  /\ \A c \in Views : view[c].state = "running" =>
       view[c].run \in Requests /\ reader[view[c].run] = "open" /\ origin[view[c].run] = c

StepsInStep ==
  /\ \A c \in Views : \A i \in DOMAIN view[c].liveSteps : view[c].liveSteps[i] = <<view[c].run, i>>
  /\ \A r \in Requests : reader[r] = "open" => Len(view[origin[r]].liveSteps) = readTo[r]
  /\ \A p \in Pages : view[p].liveSteps = <<>>
  /\ \A r \in Requests : origin[r] \notin Cards => readTo[r] = 0

DoneIsDone ==
  \A c \in Views : view[c].state = "done" =>
    /\ view[c].run \in Requests /\ status[view[c].run] = "done"
    /\ view[c].trace = [run |-> view[c].run, steps |-> Len(view[c].liveSteps)]

ViewInv == ClientTypeOK /\ OneReader /\ StepsInStep /\ DoneIsDone
(***************************************************************************)
(* All views are idle at first, and nothing was asked for.                 *)
(***************************************************************************)
LEMMA ViewInit == PlaygroundInit => ViewInv
  <1> SUFFICES ASSUME PlaygroundInit PROVE ViewInv
    OBVIOUS
  <1> DEFINE idle == [state |-> "idle", run |-> None, liveSteps |-> <<>>, trace |-> None]
  <1>1. idle \in View
    BY DEF View, RunState
  <1>2. \A c \in Views : view[c] = idle
    BY DEF PlaygroundInit, Views
  <1>3. \A c \in Views : view[c].state = "idle" /\ view[c].liveSteps = <<>>
    BY <1>2
  <1>4. view \in [Views -> View]
    BY <1>1 DEF PlaygroundInit, Views
  <1>5. \A r \in Requests : reader[r] = "none" /\ readTo[r] = 0
    BY DEF PlaygroundInit
  <1>6. ClientTypeOK
    BY <1>4 DEF PlaygroundInit, ClientTypeOK
  <1>7. \A c \in Views : DOMAIN view[c].liveSteps = {}
    BY <1>3
  <1>8. Pages \subseteq Views
    BY DEF Views
  <1>9. StepsInStep
    BY <1>3, <1>5, <1>7, <1>8 DEF StepsInStep
  <1> QED BY <1>3, <1>5, <1>6, <1>9 DEF ViewInv, OneReader, DoneIsDone

(***************************************************************************)
(* What ended well stays so, whatever the server does later.               *)
(***************************************************************************)
LEMMA DoneStays ==
  ASSUME RunsTypeOK, [Next]_vars, NEW r \in Requests, status[r] = "done"
  PROVE  status'[r] = "done"
  <1> USE DEF RunsTypeOK
  <1>1. CASE Tick \/ UNCHANGED vars
    BY <1>1 DEF Tick, vars
  <1>2. CASE Restart
    BY <1>2 DEF Restart
  <1>3. ASSUME NEW q \in Requests, Unauthorized(q) PROVE status'[r] = "done"
    BY <1>3 DEF Unauthorized
  <1>4. ASSUME NEW q \in Requests, NEW c \in Callers, RateLimited(q, c) PROVE status'[r] = "done"
    BY <1>4 DEF RateLimited
  <1>5. ASSUME NEW q \in Requests, NEW c \in Callers, Malformed(q, c) PROVE status'[r] = "done"
    BY <1>5 DEF Malformed, Admit
  <1>6. ASSUME NEW q \in Requests, NEW c \in Callers, NEW onChain \in BOOLEAN,
               Enqueue(q, c, onChain)
        PROVE  status'[r] = "done"
    BY <1>6 DEF Enqueue, Admit
  <1>7. ASSUME NEW q \in Requests, Run(q) PROVE status'[r] = "done"
    BY <1>7 DEF Run, MayRun
  <1>8. ASSUME NEW q \in Requests, Sign(q) \/ Send(q) PROVE status'[r] = "done"
    BY <1>8 DEF Sign, Send
  <1>9. ASSUME NEW q \in Requests, Throw(q) \/ Return(q) PROVE status'[r] = "done"
    BY <1>9 DEF Throw, Return, End
  <1> QED BY <1>1, <1>2, <1>3, <1>4, <1>5, <1>6, <1>7, <1>8, <1>9 DEF Next

(***************************************************************************)
(* The server's steps leave what is shown as it is.                        *)
(***************************************************************************)
LEMMA ServerKeepsViews ==
  ASSUME RunsTypeOK, ViewInv, [Next]_vars, UNCHANGED clientVars
  PROVE  ViewInv'
  <1>1. ClientTypeOK' /\ OneReader' /\ StepsInStep'
    BY DEF ViewInv, clientVars, ClientTypeOK, OneReader, StepsInStep
  <1>2. DoneIsDone'
    BY DoneStays DEF ViewInv, clientVars, DoneIsDone
  <1> QED BY <1>1, <1>2 DEF ViewInv

(***************************************************************************)
(* The view of one card or page changes, and no other.                     *)
(***************************************************************************)
LEMMA ViewChanged ==
  ASSUME ClientTypeOK, NEW c \in Views, NEW v \in View, view' = [view EXCEPT ![c] = v]
  PROVE  /\ view' \in [Views -> View]
         /\ view'[c] = v
         /\ \A d \in Views : d # c => view'[d] = view[d]
  BY DEF ClientTypeOK

(***************************************************************************)
(* A new request of a card or page gets its only open reader.              *)
(***************************************************************************)
LEMMA FetchKeepsViews ==
  ASSUME ViewInv, NEW c \in Views, NEW r \in Requests, Fetch(c, r),
         NEW v \in View, view' = [view EXCEPT ![c] = v],
         v.state = "running", v.run = r, v.liveSteps = <<>>
  PROVE  ViewInv'
  <1>0. /\ view[c].state # "running" /\ origin[r] = None
        /\ origin' = [origin EXCEPT ![r] = c]
        /\ reader' = [reader EXCEPT ![r] = "open"]
        /\ UNCHANGED <<vars, readTo>>
    BY DEF Fetch, Fresh, Unheard
  <1>1. /\ view' \in [Views -> View]
        /\ view'[c] = v
        /\ \A d \in Views : d # c => view'[d] = view[d]
    BY ViewChanged DEF ViewInv
  <1>2. ClientTypeOK'
    BY <1>0, <1>1 DEF ViewInv, ClientTypeOK
  <1>3. /\ origin'[r] = c /\ reader'[r] = "open"
        /\ \A q \in Requests : q # r => origin'[q] = origin[q] /\ reader'[q] = reader[q]
    BY <1>0 DEF ViewInv, ClientTypeOK
  <1>4. None \notin Views /\ Pages \subseteq Views
    BY PlaygroundAssumption DEF Views
  <1>5. reader[r] # "open"
    BY <1>0, <1>4 DEF ViewInv, OneReader
  <1>6. \A q \in Requests : reader[q] = "open" => origin[q] \in Views /\ origin[q] # c
    BY <1>0 DEF ViewInv, OneReader
  <1>7. OneReader'
    <2>1. ASSUME NEW q \in Requests, reader'[q] = "open"
          PROVE  origin'[q] \in Views /\ view'[origin'[q]].state = "running"
                   /\ view'[origin'[q]].run = q
      <3>1. CASE q = r
        BY <1>1, <1>3, <3>1
      <3>2. CASE q # r
        BY <1>1, <1>3, <1>6, <2>1, <3>2 DEF ViewInv, OneReader
      <3> QED BY <3>1, <3>2
    <2>2. ASSUME NEW d \in Views, view'[d].state = "running"
          PROVE  view'[d].run \in Requests /\ reader'[view'[d].run] = "open"
                   /\ origin'[view'[d].run] = d
      <3>1. CASE d = c
        BY <1>1, <1>3, <3>1
      <3>2. CASE d # c
        <4>1. view[d].run \in Requests /\ reader[view[d].run] = "open" /\ origin[view[d].run] = d
          BY <1>1, <2>2, <3>2 DEF ViewInv, OneReader
        <4> QED BY <1>1, <1>3, <1>5, <3>2, <4>1
      <3> QED BY <3>1, <3>2
    <2> QED BY <2>1, <2>2 DEF OneReader
  <1>8. StepsInStep'
    <2>1. ASSUME NEW d \in Views, NEW i \in DOMAIN view'[d].liveSteps
          PROVE  view'[d].liveSteps[i] = <<view'[d].run, i>>
      BY <1>1 DEF ViewInv, StepsInStep
    <2>2. ASSUME NEW q \in Requests, reader'[q] = "open"
          PROVE  Len(view'[origin'[q]].liveSteps) = readTo'[q]
      <3>1. CASE q = r
        <4>1. readTo[r] = 0
          BY <1>0, <1>4 DEF ViewInv, StepsInStep, Views
        <4> QED BY <1>0, <1>1, <1>3, <3>1, <4>1
      <3>2. CASE q # r
        BY <1>0, <1>1, <1>3, <1>6, <2>2, <3>2 DEF ViewInv, StepsInStep
      <3> QED BY <3>1, <3>2
    <2>3. \A p \in Pages : view'[p].liveSteps = <<>>
      BY <1>1, <1>4 DEF ViewInv, StepsInStep
    <2>4. ASSUME NEW q \in Requests, origin'[q] \notin Cards
          PROVE  readTo'[q] = 0
      <3>1. origin[q] \notin Cards
        BY <1>0, <1>3, <1>4, <2>4 DEF Views
      <3> QED BY <1>0, <3>1 DEF ViewInv, StepsInStep
    <2> QED BY <2>1, <2>2, <2>3, <2>4 DEF StepsInStep
  <1>9. DoneIsDone'
    <2>1. UNCHANGED status
      BY <1>0 DEF vars
    <2> QED BY <1>1, <2>1 DEF ViewInv, DoneIsDone
  <1> QED BY <1>2, <1>7, <1>8, <1>9 DEF ViewInv

(***************************************************************************)
(* When a reader is over, its card or page is no longer running, and what  *)
(* was shown of the run stays.                                             *)
(***************************************************************************)
LEMMA OverKeepsViews ==
  ASSUME ViewInv, NEW r \in Requests, reader[r] = "open",
         reader' = [reader EXCEPT ![r] = "over"],
         NEW v \in View, view' = [view EXCEPT ![origin[r]] = v],
         v.state # "running", v.run = r, v.liveSteps = view[origin[r]].liveSteps,
         v.state = "done" =>
           status[r] = "done" /\ v.trace = [run |-> r, steps |-> readTo[r]],
         UNCHANGED <<vars, origin, readTo>>
  PROVE  ViewInv'
  <1> DEFINE c == origin[r]
  <1>0. /\ c \in Views /\ view[c].state = "running" /\ view[c].run = r
        /\ Len(view[c].liveSteps) = readTo[r]
    BY DEF ViewInv, OneReader, StepsInStep
  <1>1. /\ view' \in [Views -> View]
        /\ view'[c] = v
        /\ \A d \in Views : d # c => view'[d] = view[d]
    BY <1>0, ViewChanged DEF ViewInv
  <1>2. ClientTypeOK'
    BY <1>1 DEF ViewInv, ClientTypeOK
  <1>3. /\ reader'[r] = "over"
        /\ \A q \in Requests : q # r => reader'[q] = reader[q]
    BY DEF ViewInv, ClientTypeOK
  <1>4. \A q \in Requests : reader'[q] = "open" =>
          q # r /\ reader[q] = "open" /\ origin[q] \in Views /\ origin[q] # c
    BY <1>0, <1>3 DEF ViewInv, OneReader
  <1> HIDE DEF c
  <1>5. OneReader'
    <2>1. ASSUME NEW q \in Requests, reader'[q] = "open"
          PROVE  origin'[q] \in Views /\ view'[origin'[q]].state = "running"
                   /\ view'[origin'[q]].run = q
      BY <1>1, <1>4, <2>1 DEF ViewInv, OneReader
    <2>2. ASSUME NEW d \in Views, view'[d].state = "running"
          PROVE  view'[d].run \in Requests /\ reader'[view'[d].run] = "open"
                   /\ origin'[view'[d].run] = d
      <3>1. d # c /\ view'[d] = view[d]
        BY <1>1, <2>2
      <3>2. view[d].run \in Requests /\ reader[view[d].run] = "open" /\ origin[view[d].run] = d
        BY <2>2, <3>1 DEF ViewInv, OneReader
      <3> QED BY <1>3, <3>1, <3>2 DEF c
    <2> QED BY <2>1, <2>2 DEF OneReader
  <1>6. \A d \in Views : view'[d].liveSteps = view[d].liveSteps /\ view'[d].run = view[d].run
    BY <1>0, <1>1 DEF c
  <1>7. StepsInStep'
    <2>1. ASSUME NEW d \in Views, NEW i \in DOMAIN view'[d].liveSteps
          PROVE  view'[d].liveSteps[i] = <<view'[d].run, i>>
      BY <1>6 DEF ViewInv, StepsInStep
    <2>2. ASSUME NEW q \in Requests, reader'[q] = "open"
          PROVE  Len(view'[origin'[q]].liveSteps) = readTo'[q]
      BY <1>4, <1>6, <2>2 DEF ViewInv, StepsInStep
    <2>3. \A p \in Pages : view'[p].liveSteps = <<>>
      BY <1>6 DEF ViewInv, StepsInStep, Views
    <2> QED BY <2>1, <2>2, <2>3 DEF StepsInStep, ViewInv
  <1>8. DoneIsDone'
    <2>1. UNCHANGED status
      BY DEF vars
    <2> QED BY <1>0, <1>1, <2>1 DEF ViewInv, DoneIsDone, c
  <1> QED BY <1>2, <1>5, <1>7, <1>8 DEF ViewInv
(***************************************************************************)
(* Appending to a sequence adds the new element and nothing else.          *)
(***************************************************************************)
LEMMA Appended ==
  ASSUME NEW S, NEW s \in Seq(S), NEW e \in S
  PROVE  /\ Append(s, e) \in Seq(S)
         /\ Len(Append(s, e)) = Len(s) + 1
         /\ Append(s, e)[Len(s) + 1] = e
         /\ \A i \in DOMAIN Append(s, e) :
              i = Len(s) + 1 \/ (i \in DOMAIN s /\ Append(s, e)[i] = s[i])
  OBVIOUS

(***************************************************************************)
(* A step that is read is shown next, by the card that runs.               *)
(***************************************************************************)
LEMMA ReadStepKeepsViews ==
  ASSUME ViewInv, NEW r \in Requests, ReadStep(r), Streamed(r) \in Nat
  PROVE  ViewInv'
  <1> DEFINE c == origin[r]
             n == readTo[r] + 1
             shown == Append(view[c].liveSteps, <<r, n>>)
  <1>0. /\ c \in Views /\ view[c].state = "running" /\ view[c].run = r
        /\ Len(view[c].liveSteps) = readTo[r] /\ readTo[r] \in Nat
        /\ view[c] \in View /\ view[c].liveSteps \in Seq(Requests \X Nat)
    BY DEF ReadStep, ViewInv, OneReader, StepsInStep, ClientTypeOK, View
  <1>1. /\ reader[r] = "open" /\ readTo[r] < Streamed(r)
        /\ readTo' = [readTo EXCEPT ![r] = @ + 1]
        /\ view' = [view EXCEPT ![origin[r]].liveSteps = Append(@, <<r, readTo'[r]>>)]
        /\ UNCHANGED <<vars, origin, reader>>
    BY DEF ReadStep
  <1>2. c \in Cards
    BY <1>0, <1>1 DEF Streamed
  <1>3. /\ readTo' \in [Requests -> Nat]
        /\ readTo'[r] = n
        /\ \A q \in Requests : q # r => readTo'[q] = readTo[q]
    BY <1>0, <1>1 DEF ViewInv, ClientTypeOK
  <1>4. view' = [view EXCEPT ![c] = [view[c] EXCEPT !.liveSteps = shown]]
    BY <1>0, <1>1, <1>3 DEF ViewInv, ClientTypeOK
  <1>5. shown \in Seq(Requests \X Nat) /\ n \in Nat
    BY <1>0
  <1>6. [view[c] EXCEPT !.liveSteps = shown] \in View
    BY <1>0, <1>5 DEF View
  <1>7. /\ view' \in [Views -> View]
        /\ view'[c] = [view[c] EXCEPT !.liveSteps = shown]
        /\ \A d \in Views : d # c => view'[d] = view[d]
    BY <1>0, <1>4, <1>6, ViewChanged DEF ViewInv
  <1>8. /\ view'[c].liveSteps = shown
        /\ view'[c].state = "running" /\ view'[c].run = r
    BY <1>0, <1>7 DEF View
  <1>9. /\ Len(shown) = n /\ shown[n] = <<r, n>>
        /\ \A i \in DOMAIN shown : i = n \/ (i \in DOMAIN view[c].liveSteps
                                              /\ shown[i] = view[c].liveSteps[i])
    <2>1. <<r, n>> \in Requests \X Nat /\ n = Len(view[c].liveSteps) + 1
      BY <1>0
    <2> QED BY <1>0, <2>1, Appended
  <1> HIDE DEF shown
  <1>10. ClientTypeOK'
    BY <1>1, <1>3, <1>7 DEF ViewInv, ClientTypeOK
  <1>11. \A d \in Views : view'[d].state = view[d].state /\ view'[d].run = view[d].run
    BY <1>0, <1>7, <1>8
  <1>12. OneReader'
    BY <1>1, <1>11 DEF ViewInv, OneReader
  <1>13. \A q \in Requests : q # r /\ reader[q] = "open" => origin[q] \in Views /\ origin[q] # c
    BY <1>0 DEF ViewInv, OneReader
  <1>14. StepsInStep'
    <2>1. ASSUME NEW d \in Views, NEW i \in DOMAIN view'[d].liveSteps
          PROVE  view'[d].liveSteps[i] = <<view'[d].run, i>>
      <3>1. CASE d = c
        <4>1. i \in DOMAIN shown /\ view'[d].liveSteps[i] = shown[i] /\ view'[d].run = r
          BY <1>8, <3>1
        <4>2. CASE i = n
          BY <1>9, <4>1, <4>2
        <4>3. CASE i # n
          <5>1. i \in DOMAIN view[c].liveSteps /\ shown[i] = view[c].liveSteps[i]
            BY <1>9, <4>1, <4>3
          <5>2. view[c].liveSteps[i] = <<r, i>>
            BY <1>0, <5>1 DEF ViewInv, StepsInStep
          <5> QED BY <4>1, <5>1, <5>2
        <4> QED BY <4>2, <4>3
      <3>2. CASE d # c
        BY <1>7, <3>2 DEF ViewInv, StepsInStep
      <3> QED BY <3>1, <3>2
    <2>2. ASSUME NEW q \in Requests, reader'[q] = "open"
          PROVE  Len(view'[origin'[q]].liveSteps) = readTo'[q]
      <3>1. CASE q = r
        BY <1>1, <1>3, <1>8, <1>9, <3>1
      <3>2. CASE q # r
        BY <1>1, <1>3, <1>7, <1>13, <2>2, <3>2 DEF ViewInv, StepsInStep
      <3> QED BY <3>1, <3>2
    <2>3. ASSUME NEW p \in Pages PROVE view'[p].liveSteps = <<>>
      <3>1. p # c /\ p \in Views
        BY <1>2, PlaygroundAssumption DEF Views
      <3> QED BY <1>7, <3>1 DEF ViewInv, StepsInStep
    <2>4. \A q \in Requests : origin'[q] \notin Cards => readTo'[q] = 0
      BY <1>1, <1>2, <1>3 DEF ViewInv, StepsInStep
    <2> QED BY <2>1, <2>2, <2>3, <2>4 DEF StepsInStep
  <1>15. DoneIsDone'
    <2>1. UNCHANGED status
      BY <1>1 DEF vars
    <2> QED BY <1>0, <1>7, <1>8, <2>1 DEF ViewInv, DoneIsDone
  <1> QED BY <1>10, <1>12, <1>14, <1>15 DEF ViewInv

(***************************************************************************)
(* So does a request's end, whatever is shown of it.                       *)
(***************************************************************************)
LEMMA EndsKeepsViews ==
  ASSUME ViewInv, NEW r \in Requests,
         NEW state \in RunState \ {"running"},
         NEW trace \in [run : Requests, steps : Nat] \cup {None},
         state = "done" => status[r] = "done" /\ trace = [run |-> r, steps |-> readTo[r]],
         Ends(r, state, trace)
  PROVE  ViewInv'
  <1> DEFINE c == origin[r]
             v == [view[c] EXCEPT !.state = state, !.trace = trace]
  <1>1. c \in Views /\ view[c].state = "running" /\ view[c].run = r
    BY DEF Ends, ViewInv, OneReader
  <1>2. /\ v \in View
        /\ v.state = state /\ v.trace = trace
        /\ v.run = view[c].run /\ v.liveSteps = view[c].liveSteps
    BY <1>1 DEF ViewInv, ClientTypeOK, View
  <1>3. view' = [view EXCEPT ![c] = v]
    BY <1>1 DEF Ends, ViewInv, ClientTypeOK
  <1>4. /\ reader[r] = "open" /\ reader' = [reader EXCEPT ![r] = "over"]
        /\ UNCHANGED <<vars, origin, readTo>>
    BY DEF Ends
  <1> HIDE DEF v
  <1> QED BY <1>1, <1>2, <1>3, <1>4, OverKeepsViews

(***************************************************************************)
(* Cancelling ends the reader of the run that the card shows.              *)
(***************************************************************************)
LEMMA CancelKeepsViews ==
  ASSUME ViewInv, NEW c \in Cards, HandleCancel(c)
  PROVE  ViewInv'
  <1> DEFINE r == view[c].run
             v == [view[c] EXCEPT !.state = "cancelled"]
  <1>1. c \in Views /\ view[c].state = "running"
    BY DEF HandleCancel, Views
  <1>2. r \in Requests /\ reader[r] = "open" /\ origin[r] = c
    BY <1>1 DEF ViewInv, OneReader
  <1>3. v \in View /\ v.state = "cancelled" /\ v.run = r /\ v.liveSteps = view[c].liveSteps
    BY <1>1 DEF ViewInv, ClientTypeOK, View, RunState
  <1>4. /\ reader' = [reader EXCEPT ![r] = "over"]
        /\ view' = [view EXCEPT ![c] = v]
        /\ UNCHANGED <<vars, origin, readTo>>
    BY <1>1 DEF HandleCancel, Aborted, ViewInv, ClientTypeOK
  <1> HIDE DEF r, v
  <1> QED BY <1>2, <1>3, <1>4, OverKeepsViews

(***************************************************************************)
(* Every step of the playground keeps the invariant.                       *)
(***************************************************************************)
LEMMA ViewStep == SerialInv /\ ViewInv /\ [PlaygroundNext]_allVars => ViewInv'
  <1> SUFFICES ASSUME SerialInv, ViewInv, [PlaygroundNext]_allVars PROVE ViewInv'
    OBVIOUS
  <1>0. RunsTypeOK /\ [Next]_vars
    BY ServerSteps DEF SerialInv
  <1>1. CASE ServerNext \/ UNCHANGED allVars
    <2>1. UNCHANGED clientVars
      BY <1>1 DEF ServerNext, allVars
    <2> QED BY <1>0, <2>1, ServerKeepsViews
  <1>2. ASSUME NEW c \in Cards, NEW r \in Requests, HandleRun(c, r) PROVE ViewInv'
    <2> DEFINE v == [state |-> "running", run |-> r, liveSteps |-> <<>>, trace |-> None]
    <2>1. v \in View
      BY DEF View, RunState
    <2>2. v.state = "running" /\ v.run = r /\ v.liveSteps = <<>>
      OBVIOUS
    <2>3. Fetch(c, r) /\ view' = [view EXCEPT ![c] = v] /\ c \in Views
      BY <1>2 DEF HandleRun, Views
    <2> HIDE DEF v
    <2> QED BY <2>1, <2>2, <2>3, FetchKeepsViews
  <1>3. ASSUME NEW p \in Pages, NEW r \in Requests, HandleSubmit(p, r) PROVE ViewInv'
    <2> DEFINE v == [view[p] EXCEPT !.state = "running", !.run = r]
    <2>1. p \in Views /\ view[p] \in View /\ view[p].liveSteps = <<>>
      BY DEF Views, ViewInv, ClientTypeOK, StepsInStep
    <2>2. v \in View /\ v.state = "running" /\ v.run = r /\ v.liveSteps = <<>>
      BY <2>1 DEF View, RunState
    <2>3. Fetch(p, r) /\ view' = [view EXCEPT ![p] = v]
      BY <1>3, <2>1 DEF HandleSubmit, ViewInv, ClientTypeOK
    <2> HIDE DEF v
    <2> QED BY <2>1, <2>2, <2>3, FetchKeepsViews
  <1>4. ASSUME NEW c \in Cards, HandleCancel(c) PROVE ViewInv'
    BY <1>4, CancelKeepsViews
  <1>5. ASSUME NEW r \in Requests, ReadStep(r) PROVE ViewInv'
    <2>1. Streamed(r) \in Nat
      BY <1>0 DEF RunsTypeOK, Streamed
    <2> QED BY <1>5, <2>1, ReadStepKeepsViews
  <1>6. ASSUME NEW r \in Requests, ReadResult(r) PROVE ViewInv'
    <2> DEFINE trace == [run |-> r, steps |-> Streamed(r)]
    <2>1. Streamed(r) \in Nat /\ Streamed(r) = readTo[r] /\ status[r] = "done"
      BY <1>0, <1>6 DEF RunsTypeOK, Streamed, ReadResult
    <2>2. trace \in [run : Requests, steps : Nat] /\ trace = [run |-> r, steps |-> readTo[r]]
      BY <2>1
    <2>3. Ends(r, "done", trace)
      BY <1>6 DEF ReadResult
    <2> HIDE DEF trace
    <2> QED BY <2>1, <2>2, <2>3, EndsKeepsViews DEF RunState
  <1>7. ASSUME NEW r \in Requests, ReadError(r) \/ Breaks(r) PROVE ViewInv'
    <2>1. Ends(r, "error", view[origin[r]].trace)
      BY <1>7 DEF ReadError, Breaks
    <2>2. origin[r] \in Views
      BY <2>1 DEF Ends, ViewInv, OneReader
    <2>3. view[origin[r]].trace \in [run : Requests, steps : Nat] \cup {None}
      BY <2>2 DEF ViewInv, ClientTypeOK, View
    <2> QED BY <2>1, <2>3, EndsKeepsViews DEF RunState
  <1> QED
    BY <1>1, <1>2, <1>3, <1>4, <1>5, <1>6, <1>7 DEF PlaygroundNext, ClientNext

(***************************************************************************)
(* A card shows the steps of the run it was last asked for and of no       *)
(* other, in order and without a gap, and a result only of a run that      *)
(* ended well, however many runs were cancelled or broke off before.       *)
(***************************************************************************)
THEOREM ViewsAreOfTheirRun == PlaygroundSpec => []ViewsShowTheirRun
  <1>1. ViewInv => ViewsShowTheirRun
    BY DEF ViewInv, StepsInStep, DoneIsDone, ViewsShowTheirRun, Views
  <1>2. PlaygroundInit => SerialInv
    BY SerialInit DEF PlaygroundInit
  <1>3. SerialInv /\ [PlaygroundNext]_allVars => SerialInv'
    BY SerialStep, ServerSteps
  <1> QED BY <1>1, <1>2, <1>3, ViewInit, ViewStep, PTL DEF PlaygroundSpec
-----------------------------------------------------------------------------
(***************************************************************************)
(* The limiter.  filter goes through a log from the front; Kept(s, t, w)   *)
(* is what it has kept of s after each element: those later than t - w.    *)
(***************************************************************************)
Keeps(h, s, t, w) ==
  h = [n \in 0..Len(s) |-> IF n = 0 THEN <<>>
                           ELSE IF t - s[n] < w THEN Append(h[n - 1], s[n])
                           ELSE h[n - 1]]

Kept(s, t, w) == CHOOSE h : Keeps(h, s, t, w)

(* The limiter remembers the last entry. *)
LEMMA RecentIsKept ==
  ASSUME NEW c
  PROVE  Recent(c) = Kept(requestLog[c], now, RATE_LIMIT_WINDOW)[Len(requestLog[c])]
  BY DEF Recent, Kept, Keeps

(* The recent times of a log in order are those behind some place in it. *)
LEMMA RecentAreLast ==
  ASSUME NEW s \in Seq(Nat), NEW t \in Nat, NEW w \in Nat,
         \A i, j \in 1..Len(s) : i <= j => s[i] <= s[j]
  PROVE  \E m \in 0..Len(s) : \A i \in 1..Len(s) : t - s[i] < w <=> i > m
  <1> DEFINE N == {i \in 1..Len(s) : t - s[i] < w}
  <1>1. CASE N = {}
    <2> WITNESS Len(s) \in 0..Len(s)
    <2> QED BY <1>1
  <1>2. CASE N # {}
    <2>1. PICK n \in N : \A i \in N : n <= i
      <3>1. N \in SUBSET Nat
        OBVIOUS
      <3> HIDE DEF N
      <3> QED BY <1>2, <3>1, LeastNumber
    <2>2. \A i \in 1..Len(s) : s[i] \in Nat
      OBVIOUS
    <2>3. \A i \in 1..Len(s) : i >= n => t - s[i] < w
      BY <2>1, <2>2
    <2> WITNESS n - 1 \in 0..Len(s)
    <2> QED BY <2>1, <2>3
  <1> QED BY <1>1, <1>2

(***************************************************************************)
(* What filter keeps of a log in order is its end: the recent times.       *)
(***************************************************************************)
LEMMA KeptIsEnd ==
  ASSUME NEW s \in Seq(Nat), NEW t \in Nat, NEW w \in Nat, NEW m \in 0..Len(s),
         \A i \in 1..Len(s) : t - s[i] < w <=> i > m
  PROVE  LET r == Kept(s, t, w)[Len(s)]
         IN r \in Seq(Nat) /\ Len(r) = Len(s) - m /\ \A j \in 1..Len(r) : r[j] = s[m + j]
  <1> DEFINE Behind(n) == [j \in 1..(IF n <= m THEN 0 ELSE n - m) |-> s[m + j]]
             g == [n \in 0..Len(s) |-> Behind(n)]
  <1>1. \A n \in 0..Len(s) : n <= m => Behind(n) = <<>>
    OBVIOUS
  <1>2. ASSUME NEW n \in 1..Len(s), n > m
        PROVE  Behind(n) = Append(Behind(n - 1), s[n])
    <2>1. PICK k \in Nat : k = n - 1 - m
      BY <1>2
    <2>2. (IF n <= m THEN 0 ELSE n - m) = k + 1 /\ (IF n - 1 <= m THEN 0 ELSE n - 1 - m) = k
      BY <1>2, <2>1
    <2>3. Behind(n - 1) = [j \in 1..k |-> s[m + j]] /\ Behind(n) = [j \in 1..(k + 1) |-> s[m + j]]
      BY <2>2
    <2>4. m + (k + 1) = n /\ \A j \in 1..(k + 1) : m + j \in 1..Len(s)
      BY <2>1
    <2>5. Append([j \in 1..k |-> s[m + j]], s[n]) = [j \in 1..(k + 1) |-> s[m + j]]
      BY <2>4
    <2> QED BY <2>3, <2>5
  <1>3. Keeps(g, s, t, w)
    <2>1. ASSUME NEW n \in 0..Len(s)
          PROVE  g[n] = IF n = 0 THEN <<>>
                        ELSE IF t - s[n] < w THEN Append(g[n - 1], s[n])
                        ELSE g[n - 1]
      <3>1. CASE n = 0
        BY <1>1, <3>1
      <3>2. CASE n # 0 /\ n > m
        <4>1. n \in 1..Len(s) /\ t - s[n] < w /\ n - 1 \in 0..Len(s)
          BY <3>2
        <4>2. g[n] = Behind(n) /\ g[n - 1] = Behind(n - 1)
          BY <4>1
        <4> HIDE DEF g, Behind
        <4> QED BY <1>2, <3>2, <4>1, <4>2
      <3>3. CASE n # 0 /\ n <= m
        <4>1. n \in 1..Len(s) /\ ~(t - s[n] < w) /\ n - 1 \in 0..Len(s)
          BY <3>3
        <4>2. g[n] = Behind(n) /\ g[n - 1] = Behind(n - 1)
          BY <4>1
        <4>3. n - 1 <= m
          BY <3>3
        <4> HIDE DEF g, Behind
        <4> QED BY <1>1, <3>3, <4>1, <4>2, <4>3
      <3> QED BY <3>1, <3>2, <3>3
    <2> DEFINE f == [n \in 0..Len(s) |-> IF n = 0 THEN <<>>
                                         ELSE IF t - s[n] < w THEN Append(g[n - 1], s[n])
                                         ELSE g[n - 1]]
    <2>2. g = f
      <3> HIDE DEF Behind
      <3> QED BY <2>1
    <2> HIDE DEF g
    <2> QED BY <2>2 DEF Keeps
  <1> HIDE DEF g
  <1>4. PICK h : h = Kept(s, t, w) /\ Keeps(h, s, t, w)
    BY <1>3 DEF Kept
  <1> DEFINE A == {n \in Nat : n \in 0..Len(s) => h[n] = g[n]}
  <1>5. 0 \in A
    BY <1>3, <1>4 DEF Keeps
  <1>6. ASSUME NEW n \in A PROVE n + 1 \in A
    <2> SUFFICES ASSUME n + 1 \in 0..Len(s) PROVE h[n + 1] = g[n + 1]
      OBVIOUS
    <2>1. n \in 0..Len(s) /\ h[n] = g[n] /\ n + 1 # 0 /\ (n + 1) - 1 = n
      OBVIOUS
    <2>2. h[n + 1] = IF t - s[n + 1] < w THEN Append(h[n], s[n + 1]) ELSE h[n]
      BY <1>4, <2>1 DEF Keeps
    <2>3. g[n + 1] = IF t - s[n + 1] < w THEN Append(g[n], s[n + 1]) ELSE g[n]
      BY <1>3, <2>1 DEF Keeps
    <2> QED BY <2>1, <2>2, <2>3
  <1>7. A = Nat
    <2> HIDE DEF A
    <2>1. A \in SUBSET Nat
      BY DEF A
    <2> QED BY <1>5, <1>6, <2>1, AllNumbers
  <1>8. Kept(s, t, w)[Len(s)] = g[Len(s)]
    BY <1>4, <1>7
  <1>9. g[Len(s)] = Behind(Len(s))
    BY DEF g
  <1>10. PICK k \in Nat : k = Len(s) - m
    <2> HIDE DEF Behind, A
    <2>1. Len(s) - m \in Nat
      OBVIOUS
    <2> QED BY <2>1
  <1>11. Behind(Len(s)) = [j \in 1..k |-> s[m + j]]
    BY <1>10
  <1>12. \A j \in 1..k : s[m + j] \in Nat
    BY <1>10
  <1> HIDE DEF Behind
  <1> QED BY <1>8, <1>9, <1>10, <1>11, <1>12
(***************************************************************************)
(* What the limiter remembers of a caller is the end of its admissions;    *)
(* what it forgot is older than a window, and will be.                     *)
(***************************************************************************)
LimiterTypeOK ==
  /\ now \in Nat
  /\ requestLog \in [Callers -> Seq(Nat)]
  /\ admitted \in [Callers -> Seq(Nat)]

InOrder(times) ==
  /\ \A i, j \in 1..Len(times) : i <= j => times[i] <= times[j]
  /\ \A i \in 1..Len(times) : times[i] <= now

IsEndFrom(k, log, times) ==
  /\ Len(log) = Len(times) - k
  /\ \A j \in 1..Len(log) : log[j] = times[k + j]

Spaced(times) ==
  \A i \in 1..(Len(times) - RATE_LIMIT_MAX) : times[i + RATE_LIMIT_MAX] - times[i] >= RATE_LIMIT_WINDOW

Remembered(c) ==
  /\ InOrder(admitted[c])
  /\ \E k \in 0..Len(admitted[c]) :
       /\ IsEndFrom(k, requestLog[c], admitted[c])
       /\ \A i \in 1..k : now - admitted[c][i] >= RATE_LIMIT_WINDOW
  /\ Spaced(admitted[c])

LimiterInv == LimiterTypeOK /\ \A c \in Callers : Remembered(c)

(* What it goes by is exactly the caller's admissions of the last window. *)
LEMMA RecentAreAdmissions ==
  ASSUME LimiterInv, NEW c \in Callers
  PROVE  /\ Recent(c) \in Seq(Nat)
         /\ \E m \in 0..Len(admitted[c]) :
              /\ IsEndFrom(m, Recent(c), admitted[c])
              /\ \A i \in 1..Len(admitted[c]) : now - admitted[c][i] < RATE_LIMIT_WINDOW <=> i > m
  <1>1. PICK a, l : a = admitted[c] /\ l = requestLog[c]
    OBVIOUS
  <1>2. a \in Seq(Nat) /\ l \in Seq(Nat) /\ now \in Nat /\ RATE_LIMIT_WINDOW \in Nat
    BY <1>1, ServerAssumption DEF LimiterInv, LimiterTypeOK
  <1>3. PICK k \in 0..Len(a) : /\ Len(l) = Len(a) - k /\ \A j \in 1..Len(l) : l[j] = a[k + j]
                               /\ \A i \in 1..k : now - a[i] >= RATE_LIMIT_WINDOW
    BY <1>1 DEF LimiterInv, Remembered, IsEndFrom
  <1>4. \A i, j \in 1..Len(a) : i <= j => a[i] <= a[j]
    BY <1>1 DEF LimiterInv, Remembered, InOrder
  <1>5. \A i, j \in 1..Len(l) : i <= j => l[i] <= l[j]
    BY <1>2, <1>3, <1>4
  <1>6. PICK n \in 0..Len(l) : \A i \in 1..Len(l) : now - l[i] < RATE_LIMIT_WINDOW <=> i > n
    BY <1>2, <1>5, RecentAreLast
  <1>7. Recent(c) = Kept(l, now, RATE_LIMIT_WINDOW)[Len(l)]
    BY <1>1, RecentIsKept
  <1>8. /\ Recent(c) \in Seq(Nat) /\ Len(Recent(c)) = Len(l) - n
        /\ \A j \in 1..Len(Recent(c)) : Recent(c)[j] = l[n + j]
    BY <1>2, <1>6, <1>7, KeptIsEnd
  <1>9. k + n \in 0..Len(a) /\ Len(Recent(c)) = Len(a) - (k + n)
    BY <1>2, <1>3, <1>8
  <1>10. \A j \in 1..Len(Recent(c)) : Recent(c)[j] = a[(k + n) + j]
    <2> SUFFICES ASSUME NEW j \in 1..Len(Recent(c)) PROVE Recent(c)[j] = a[(k + n) + j]
      OBVIOUS
    <2>1. n + j \in 1..Len(l) /\ k + (n + j) = (k + n) + j
      BY <1>2, <1>8
    <2> QED BY <1>3, <1>8, <2>1
  <1>11. \A i \in 1..Len(a) : now - a[i] < RATE_LIMIT_WINDOW <=> i > k + n
    <2> SUFFICES ASSUME NEW i \in 1..Len(a)
                 PROVE  now - a[i] < RATE_LIMIT_WINDOW <=> i > k + n
      OBVIOUS
    <2>1. CASE i <= k
      <3>1. now - a[i] >= RATE_LIMIT_WINDOW /\ a[i] \in Nat
        BY <1>2, <1>3, <2>1
      <3> QED BY <1>2, <2>1, <3>1
    <2>2. CASE i > k
      <3>1. i - k \in 1..Len(l) /\ k + (i - k) = i
        BY <1>2, <1>3, <2>2
      <3>2. l[i - k] = a[i]
        BY <1>3, <3>1
      <3>3. now - a[i] < RATE_LIMIT_WINDOW <=> i - k > n
        BY <1>6, <3>1, <3>2
      <3> QED BY <3>3
    <2> QED BY <2>1, <2>2
  <1> QED BY <1>1, <1>8, <1>9, <1>10, <1>11 DEF IsEndFrom

(* At first nobody was let in. *)
LEMMA LimiterInit == Init => LimiterInv
  <1> SUFFICES ASSUME Init PROVE LimiterInv
    OBVIOUS
  <1>1. LimiterTypeOK
    BY DEF Init, LimiterTypeOK
  <1>2. ASSUME NEW c \in Callers PROVE Remembered(c)
    <2>1. admitted[c] = <<>> /\ requestLog[c] = <<>>
      BY DEF Init
    <2>2. Spaced(<<>>)
      BY ServerAssumption DEF Spaced
    <2> QED BY <2>1, <2>2 DEF Remembered, InOrder, IsEndFrom
  <1> QED BY <1>1, <1>2 DEF LimiterInv

(***************************************************************************)
(* One more is let in: fewer than the limit are recent, so the one the     *)
(* limit before is not.                                                    *)
(***************************************************************************)
LEMMA AdmitKeepsLimiter ==
  ASSUME LimiterInv, NEW r, NEW c \in Callers, Admit(r, c)
  PROVE  LimiterInv'
  <1>1. /\ now' = now
        /\ requestLog' = [requestLog EXCEPT ![c] = Append(Recent(c), now)]
        /\ admitted' = [admitted EXCEPT ![c] = Append(@, now)]
        /\ ~(Len(Recent(c)) >= RATE_LIMIT_MAX)
    BY DEF Admit, AtLimit
  <1>2. PICK a, l, limit, window : /\ a = admitted[c] /\ l = Recent(c)
                                   /\ limit = RATE_LIMIT_MAX /\ window = RATE_LIMIT_WINDOW
    OBVIOUS
  <1>3. /\ a \in Seq(Nat) /\ l \in Seq(Nat) /\ now \in Nat
        /\ limit \in Nat /\ limit > 0 /\ window \in Nat
    BY <1>2, RecentAreAdmissions, ServerAssumption DEF LimiterInv, LimiterTypeOK
  <1>4. PICK m \in 0..Len(a) : /\ Len(l) = Len(a) - m /\ \A j \in 1..Len(l) : l[j] = a[m + j]
                               /\ \A i \in 1..Len(a) : now - a[i] < window <=> i > m
    BY <1>2, RecentAreAdmissions DEF IsEndFrom
  <1>5. PICK b, k : b = Append(a, now) /\ k = Append(l, now)
    OBVIOUS
  <1>6. /\ b \in Seq(Nat) /\ Len(b) = Len(a) + 1 /\ b[Len(a) + 1] = now
        /\ \A i \in 1..Len(a) : b[i] = a[i]
    BY <1>3, <1>5
  <1>7. /\ k \in Seq(Nat) /\ Len(k) = Len(l) + 1 /\ k[Len(l) + 1] = now
        /\ \A i \in 1..Len(l) : k[i] = l[i]
    BY <1>3, <1>5
  <1> PICK n, kept : n = Len(a) /\ kept = Len(l)
    OBVIOUS
  <1>0. /\ n \in Nat /\ kept \in Nat /\ m \in 0..n /\ kept = n - m
        /\ Len(a) = n /\ Len(l) = kept /\ Len(b) = n + 1 /\ Len(k) = kept + 1
    BY <1>3, <1>4, <1>6, <1>7
  <1>8. admitted'[c] = b /\ requestLog'[c] = k /\ LimiterTypeOK'
    BY <1>1, <1>2, <1>3, <1>5, <1>6, <1>7 DEF LimiterInv, LimiterTypeOK
  <1>9. /\ \A i, j \in 1..Len(b) : i <= j => b[i] <= b[j]
        /\ \A i \in 1..Len(b) : b[i] <= now
    <2>1. /\ \A i, j \in 1..Len(a) : i <= j => a[i] <= a[j]
          /\ \A i \in 1..Len(a) : a[i] <= now
      BY <1>2 DEF LimiterInv, Remembered, InOrder
    <2>2. \A i \in 1..Len(b) : i \in 1..Len(a) \/ i = Len(a) + 1
      BY <1>3, <1>6
    <2>3. ASSUME NEW i \in 1..Len(b) PROVE b[i] <= now
      <3>1. CASE i \in 1..Len(a)
        <4>1. b[i] = a[i] /\ a[i] <= now
          BY <1>6, <2>1, <3>1
        <4> QED BY <4>1
      <3>2. CASE i = Len(a) + 1
        <4>1. b[i] = now
          BY <1>6, <3>2
        <4> QED BY <1>3, <4>1
      <3> QED BY <2>2, <3>1, <3>2
    <2>4. ASSUME NEW i \in 1..Len(b), NEW j \in 1..Len(b), i <= j PROVE b[i] <= b[j]
      <3>1. CASE j = Len(a) + 1
        BY <1>6, <2>3, <3>1
      <3>2. CASE j \in 1..Len(a)
        <4>1. i \in 1..Len(a)
          BY <1>3, <2>4, <3>2
        <4> QED BY <1>6, <2>1, <2>4, <3>2, <4>1
      <3> QED BY <2>2, <3>1, <3>2
    <2> QED BY <2>3, <2>4
  <1>10. /\ m \in 0..Len(b) /\ Len(k) = Len(b) - m
         /\ \A j \in 1..Len(k) : k[j] = b[m + j]
         /\ \A i \in 1..m : now - b[i] >= window
    <2>1. m \in 0..Len(b) /\ Len(k) = Len(b) - m
      BY <1>3, <1>4, <1>6, <1>7
    <2>2. ASSUME NEW j \in 1..Len(k) PROVE k[j] = b[m + j]
      <3>1. CASE j = Len(l) + 1
        <4>1. m + j = Len(a) + 1
          BY <1>3, <1>4, <3>1
        <4> QED BY <1>6, <1>7, <3>1, <4>1
      <3>2. CASE j # Len(l) + 1
        <4>1. j \in 1..Len(l) /\ m + j \in 1..Len(a)
          BY <1>0, <3>2
        <4> QED BY <1>4, <1>6, <1>7, <4>1
      <3> QED BY <3>1, <3>2
    <2>3. ASSUME NEW i \in 1..m PROVE now - b[i] >= window
      <3>1. i \in 1..Len(a) /\ ~(i > m)
        BY <1>0
      <3>2. ~(now - a[i] < window) /\ b[i] = a[i]
        BY <1>4, <1>6, <3>1
      <3>3. a[i] \in Nat
        BY <1>3, <3>1
      <3> QED BY <1>3, <3>2, <3>3
    <2> QED BY <2>1, <2>2, <2>3
  <1>11. \A i \in 1..(Len(b) - limit) : b[i + limit] - b[i] >= window
    <2> SUFFICES ASSUME NEW i \in 1..(Len(b) - limit) PROVE b[i + limit] - b[i] >= window
      OBVIOUS
    <2>1. Len(l) < limit
      BY <1>1, <1>2, <1>3
    <2>2. CASE i + limit = Len(b)
      <3>1. i \in 1..m
        BY <1>3, <1>4, <1>6, <2>1, <2>2
      <3>2. b[i + limit] = now
        BY <1>6, <2>2
      <3> QED BY <1>10, <3>1, <3>2
    <2>3. CASE i + limit # Len(b)
      <3>1. i \in 1..(Len(a) - limit) /\ i + limit \in 1..Len(a) /\ i \in 1..Len(a)
        <4>1. i \in 1..(n + 1 - limit) /\ i + limit # n + 1 /\ limit \in Nat /\ n \in Nat
          BY <1>0, <1>3, <2>3
        <4>2. i \in 1..(n - limit) /\ i + limit \in 1..n /\ i \in 1..n
          BY <4>1
        <4> QED BY <1>0, <4>2
      <3>2. a[i + limit] - a[i] >= window
        BY <1>2, <3>1 DEF LimiterInv, Remembered, Spaced
      <3> QED BY <1>6, <3>1, <3>2
    <2> QED BY <2>2, <2>3
  <1>12. Remembered(c)'
    <2>1. InOrder(b)'
      BY <1>1, <1>9 DEF InOrder
    <2>2. IsEndFrom(m, k, b) /\ \A i \in 1..m : now' - b[i] >= RATE_LIMIT_WINDOW
      BY <1>1, <1>2, <1>10 DEF IsEndFrom
    <2>3. Spaced(b)
      BY <1>2, <1>11 DEF Spaced
    <2> QED BY <1>8, <1>10, <2>1, <2>2, <2>3 DEF Remembered, InOrder
  <1>13. ASSUME NEW x \in Callers, x # c PROVE Remembered(x)'
    <2>1. admitted'[x] = admitted[x] /\ requestLog'[x] = requestLog[x]
      BY <1>1, <1>13 DEF LimiterInv, LimiterTypeOK
    <2>2. Remembered(x) /\ now' = now
      BY <1>1 DEF LimiterInv
    <2> QED BY <2>1, <2>2 DEF Remembered, InOrder
  <1> QED BY <1>8, <1>12, <1>13 DEF LimiterInv

(* Every step of the server keeps what the limiter remembers. *)
LEMMA LimiterStep == LimiterInv /\ [Next]_vars => LimiterInv'
  <1> SUFFICES ASSUME LimiterInv, [Next]_vars PROVE LimiterInv'
    OBVIOUS
  <1>1. ASSUME now' \in Nat, now' >= now, UNCHANGED limiterVars PROVE LimiterInv'
    <2>1. now \in Nat /\ RATE_LIMIT_WINDOW \in Nat
      BY ServerAssumption DEF LimiterInv, LimiterTypeOK
    <2>2. LimiterTypeOK'
      BY <1>1 DEF LimiterInv, LimiterTypeOK, limiterVars
    <2>3. ASSUME NEW c \in Callers PROVE Remembered(c)'
      <3>1. PICK a, l : a = admitted[c] /\ l = requestLog[c] /\ a \in Seq(Nat)
        BY DEF LimiterInv, LimiterTypeOK
      <3>2. admitted'[c] = a /\ requestLog'[c] = l
        BY <1>1, <3>1 DEF limiterVars
      <3>3. \A i \in 1..Len(a) : a[i] \in Nat
        BY <3>1
      <3>4. InOrder(a)'
        BY <1>1, <2>1, <3>1, <3>3 DEF LimiterInv, Remembered, InOrder
      <3>5. PICK k \in 0..Len(a) : /\ IsEndFrom(k, l, a)
                                   /\ \A i \in 1..k : now - a[i] >= RATE_LIMIT_WINDOW
        BY <3>1 DEF LimiterInv, Remembered
      <3>6. \A i \in 1..k : now' - a[i] >= RATE_LIMIT_WINDOW
        BY <1>1, <2>1, <3>1, <3>3, <3>5
      <3>7. Spaced(a)
        BY <3>1 DEF LimiterInv, Remembered
      <3> QED BY <3>2, <3>4, <3>5, <3>6, <3>7 DEF Remembered, InOrder
    <2> QED BY <2>2, <2>3 DEF LimiterInv
  <1>2. now \in Nat /\ now + 1 \in Nat /\ now + 1 >= now
    BY DEF LimiterInv, LimiterTypeOK
  <1>3. CASE Tick
    BY <1>1, <1>2, <1>3 DEF Tick
  <1>4. CASE UNCHANGED <<now, limiterVars>>
    BY <1>1, <1>2, <1>4
  <1>5. CASE UNCHANGED vars
    BY <1>4, <1>5 DEF vars
  <1>6. ASSUME NEW r, NEW c \in Callers, RateLimited(r, c) PROVE LimiterInv'
    <2>1. requestLog' = requestLog
      BY <1>6 DEF RateLimited, LogOnRefusal, LimiterInv, LimiterTypeOK
    <2> QED BY <1>4, <1>6, <2>1 DEF RateLimited, limiterVars
  <1>7. ASSUME NEW r, NEW c \in Callers, Malformed(r, c) \/ \E onChain : Enqueue(r, c, onChain)
        PROVE  LimiterInv'
    BY <1>7, AdmitKeepsLimiter DEF Malformed, Enqueue
  <1>8. CASE Restart
    <2>1. /\ now' = now /\ requestLog' = [c \in Callers |-> <<>>]
          /\ admitted' = [c \in Callers |-> <<>>]
      BY <1>8 DEF Restart
    <2>2. LimiterTypeOK'
      BY <1>2, <2>1 DEF LimiterTypeOK
    <2>3. ASSUME NEW c \in Callers PROVE Remembered(c)'
      <3>1. admitted'[c] = <<>> /\ requestLog'[c] = <<>>
        BY <2>1
      <3>2. Spaced(<<>>)
        BY ServerAssumption DEF Spaced
      <3> QED BY <3>1, <3>2 DEF Remembered, InOrder, IsEndFrom
    <2> QED BY <2>2, <2>3 DEF LimiterInv
  <1>9. ASSUME NEW r \in Requests, Unauthorized(r) \/ Run(r) \/ Sign(r) \/ Send(r) \/ Throw(r) \/ Return(r)
        PROVE  LimiterInv'
    BY <1>4, <1>9 DEF Unauthorized, Run, Sign, Send, Throw, Return, End
  <1> QED BY <1>3, <1>5, <1>6, <1>7, <1>8, <1>9 DEF Next

(***************************************************************************)
(* What it remembers is all it takes: whoever is at the limit was let in   *)
(* that often within the window.                                           *)
(***************************************************************************)
LEMMA LimiterExact == LimiterInv => AdmissionExact
  <1> SUFFICES ASSUME LimiterInv, NEW c \in Callers
               PROVE  /\ Spaced(admitted[c])
                      /\ AtLimit(c) =>
                           Cardinality({i \in DOMAIN admitted[c] :
                             now - admitted[c][i] < RATE_LIMIT_WINDOW}) >= RATE_LIMIT_MAX
    BY DEF AdmissionExact, Spaced
  <1>1. Spaced(admitted[c]) /\ admitted[c] \in Seq(Nat) /\ RATE_LIMIT_MAX \in Nat
    BY ServerAssumption DEF LimiterInv, LimiterTypeOK, Remembered
  <1>2. PICK m \in 0..Len(admitted[c]) :
             /\ Len(Recent(c)) = Len(admitted[c]) - m
             /\ \A i \in 1..Len(admitted[c]) : now - admitted[c][i] < RATE_LIMIT_WINDOW <=> i > m
    BY RecentAreAdmissions DEF IsEndFrom
  <1> DEFINE S == {i \in DOMAIN admitted[c] : now - admitted[c][i] < RATE_LIMIT_WINDOW}
  <1>3. PICK n \in Nat : n = Len(admitted[c])
    BY <1>1
  <1>4. S = (m + 1)..n
    BY <1>1, <1>2, <1>3
  <1>5. Cardinality((m + 1)..n) = n - m
    <2>1. m + 1 \in Int /\ n \in Int /\ m \in 0..n
      BY <1>2, <1>3
    <2>2. Cardinality((m + 1)..n) = IF m + 1 > n THEN 0 ELSE n - (m + 1) + 1
      BY <2>1, FS_Interval
    <2> QED BY <2>1, <2>2
  <1> HIDE DEF S
  <1>6. AtLimit(c) => Cardinality(S) >= RATE_LIMIT_MAX
    BY <1>2, <1>3, <1>4, <1>5 DEF AtLimit
  <1> QED BY <1>1, <1>6 DEF S

(***************************************************************************)
(* No caller gets more requests in within any window than the limit, and   *)
(* none is turned away but for requests that were let in, for every limit, *)
(* window, and number of callers.                                          *)
(***************************************************************************)
THEOREM LimiterIsExact == PlaygroundSpec => []AdmissionExact
  BY LimiterInit, LimiterStep, LimiterExact, PlaygroundKeepsServer, PTL DEF Spec
=============================================================================
