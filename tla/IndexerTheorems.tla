--------------------------- MODULE IndexerTheorems ---------------------------
(***************************************************************************)
(* The indexer service, for any number of rebuilds under way at once, any  *)
(* length of the chain and any number of restarts.                         *)
(***************************************************************************)
EXTENDS Indexer, TLAPS

-----------------------------------------------------------------------------
(***************************************************************************)
(* The state at the start is well typed.                                   *)
(***************************************************************************)
LEMMA TypeInit == Init => TypeOK
  <1> SUFFICES ASSUME Init PROVE TypeOK
    OBVIOUS
  <1>1. Nothing \in [Contract -> Nat]
    BY DEF Nothing
  <1>2. chain \in Seq(Event)
    BY DEF Init
  <1>3. phase \in [Rebuilds -> 0..3] /\ startedAt \in [Rebuilds -> Nat]
    BY DEF Init
  <1>4. fetched \in [Rebuilds -> [Contract -> Nat]] /\ state \in [Contract -> Nat]
    BY <1>1 DEF Init
  <1>5. lastRebuildError \in BOOLEAN /\ restarts \in Nat /\ configured \in BOOLEAN
    BY DEF Init
  <1> QED BY <1>2, <1>3, <1>4, <1>5 DEF TypeOK

(***************************************************************************)
(* Every step keeps the types.                                             *)
(***************************************************************************)
LEMMA TypeStep == TypeOK /\ [Next]_vars => TypeOK'
  <1> SUFFICES ASSUME TypeOK, [Next]_vars PROVE TypeOK'
    OBVIOUS
  <1> USE DEF TypeOK
  <1>1. ASSUME NEW name \in {"Registered", "Linked"}, NEW id \in Investigators, Emit(name, id)
        PROVE  TypeOK'
    <2>1. [name |-> name, id |-> id] \in Event
      BY DEF Event
    <2> QED BY <1>1, <2>1 DEF Emit, serverVars
  <1>2. ASSUME NEW r \in Rebuilds, StartRebuild(r) PROVE TypeOK'
    BY <1>2 DEF StartRebuild
  <1>8. ASSUME NEW r \in Rebuilds, RefuseRebuild(r) PROVE TypeOK'
    BY <1>8 DEF RefuseRebuild
  <1>3. ASSUME NEW r \in Rebuilds, NEW k \in 1..2, ReadLog(r, k) PROVE TypeOK'
    <2>1. LogRead(k) \in Contract
      BY DEF LogRead, Contract
    <2>2. fetched' \in [Rebuilds -> [Contract -> Nat]]
      BY <1>3, <2>1 DEF ReadLog, UpToLatest
    <2>3. phase' \in [Rebuilds -> 0..3]
      BY <1>3 DEF ReadLog
    <2> QED BY <1>3, <2>2, <2>3 DEF ReadLog
  <1>4. ASSUME NEW r \in Rebuilds, FinishRebuild(r) PROVE TypeOK'
    <2>1. phase' \in [Rebuilds -> 0..3] /\ state' \in [Contract -> Nat]
      BY <1>4 DEF FinishRebuild, Rebuilt
    <2> QED BY <1>4, <2>1 DEF FinishRebuild
  <1>5. ASSUME NEW r \in Rebuilds, FailRebuild(r) PROVE TypeOK'
    <2>1. phase' \in [Rebuilds -> 0..3]
      BY <1>5 DEF FailRebuild
    <2> QED BY <1>5, <2>1 DEF FailRebuild
  <1>6. CASE Restart
    <2>1. Nothing \in [Contract -> Nat]
      BY DEF Nothing
    <2>2. phase' \in [Rebuilds -> 0..3]
      BY <1>6 DEF Restart
    <2>3. state' \in [Contract -> Nat]
      BY <1>6, <2>1 DEF Restart
    <2>4. restarts' \in Nat
      BY <1>6 DEF Restart
    <2>5. lastRebuildError' \in BOOLEAN /\ configured' \in BOOLEAN
      BY <1>6 DEF Restart
    <2> QED BY <1>6, <2>2, <2>3, <2>4, <2>5 DEF Restart
  <1>7. CASE UNCHANGED vars
    BY <1>7 DEF vars, serverVars
  <1> QED BY <1>1, <1>2, <1>3, <1>4, <1>5, <1>6, <1>7, <1>8 DEF Next, RebuildStep

(***************************************************************************)
(* The service's variables keep their types.                               *)
(***************************************************************************)
THEOREM TypeCorrect == Spec => []TypeOK
  BY TypeInit, TypeStep, PTL DEF Spec

-----------------------------------------------------------------------------
(***************************************************************************)
(* On the chain, a report links to an identity only after its registration.*)
(***************************************************************************)
RegisteredFirst ==
  \A i \in 1..Len(chain) : chain[i].name = "Linked" =>
    \E j \in 1..i : chain[j].name = "Registered" /\ chain[j].id = chain[i].id

(***************************************************************************)
(* The log of the registry is read before that of the identities, so what  *)
(* a rebuild, and then the service, has of the first is no later than what *)
(* it has of the second, and neither is older than the rebuild's start.    *)
(***************************************************************************)
ReadsInOrder ==
  /\ \A r \in Rebuilds :
       /\ phase[r] # 0 => startedAt[r] <= Len(chain)
       /\ phase[r] \in {2, 3} =>
            startedAt[r] <= fetched[r]["registry"] /\ fetched[r]["registry"] <= Len(chain)
       /\ phase[r] = 3 =>
            /\ fetched[r]["registry"] <= fetched[r]["identities"]
            /\ fetched[r]["identities"] <= Len(chain)
  /\ state["registry"] <= state["identities"]
  /\ state["identities"] <= Len(chain)

(***************************************************************************)
(* Appending an event keeps the order of the events before it.             *)
(***************************************************************************)
LEMMA RegisteredStep ==
  ASSUME TypeOK, RegisteredFirst, [Next]_vars
  PROVE  RegisteredFirst'
  <1>1. CASE UNCHANGED chain
    BY <1>1 DEF RegisteredFirst
  <1>2. ASSUME NEW name \in {"Registered", "Linked"}, NEW id \in Investigators, Emit(name, id)
        PROVE  RegisteredFirst'
    <2> DEFINE e == [name |-> name, id |-> id]
               n == Len(chain)
    <2>1. /\ n \in Nat /\ chain' = Append(chain, e) /\ chain \in Seq(Event)
          /\ name = "Linked" => id \in Named("Registered", n)
      BY <1>2 DEF Emit, TypeOK
    <2>2. /\ Len(chain') = n + 1 /\ chain'[n + 1] = e
          /\ \A i \in 1..n : chain'[i] = chain[i]
      BY <2>1
    <2>3. SUFFICES ASSUME NEW i \in 1..(n + 1), chain'[i].name = "Linked"
                   PROVE  \E j \in 1..i : chain'[j].name = "Registered" /\ chain'[j].id = chain'[i].id
      BY <2>2 DEF RegisteredFirst
    <2>4. CASE i \in 1..n
      <3>1. PICK j \in 1..i : chain[j].name = "Registered" /\ chain[j].id = chain[i].id
        BY <2>2, <2>3, <2>4 DEF RegisteredFirst
      <3>2. j \in 1..n
        BY <2>1, <2>4
      <3> QED BY <2>2, <2>4, <3>1, <3>2
    <2>5. CASE i = n + 1
      <3>1. PICK j \in 1..n : chain[j].name = "Registered" /\ chain[j].id = id
        BY <2>1, <2>2, <2>3, <2>5 DEF Named
      <3>2. j \in 1..i
        BY <2>1, <2>5
      <3> QED BY <2>2, <2>5, <3>1, <3>2
    <2> QED BY <2>1, <2>4, <2>5
  <1>3. UNCHANGED chain \/ \E name \in {"Registered", "Linked"}, id \in Investigators : Emit(name, id)
    BY DEF Next, RebuildStep, StartRebuild, RefuseRebuild, ReadLog, FinishRebuild, FailRebuild, Restart, vars
  <1> QED BY <1>1, <1>2, <1>3

(***************************************************************************)
(* Reads keep their order whatever overlaps, fails or restarts.            *)
(***************************************************************************)
LEMMA ReadsStep ==
  ASSUME TypeOK, ReadsInOrder, [Next]_vars
  PROVE  ReadsInOrder'
  <1> USE DEF TypeOK
  <1>1. Len(chain) \in Nat /\ "registry" \in Contract /\ "identities" \in Contract
    BY DEF Contract
  <1>2. \A r \in Rebuilds : /\ fetched[r]["registry"] \in Nat /\ fetched[r]["identities"] \in Nat
                            /\ startedAt[r] \in Nat /\ phase[r] \in 0..3
    BY <1>1
  <1>3. state["registry"] \in Nat /\ state["identities"] \in Nat
    BY <1>1
  <1>4. ASSUME NEW name, NEW id \in Investigators, Emit(name, id) PROVE ReadsInOrder'
    <2>1. Len(chain') = Len(chain) + 1
      BY <1>4 DEF Emit
    <2>2. UNCHANGED <<phase, fetched, state, startedAt>>
      BY <1>4 DEF Emit, serverVars
    <2> QED BY <1>1, <1>2, <1>3, <2>1, <2>2 DEF ReadsInOrder
  <1>5. ASSUME NEW r \in Rebuilds, StartRebuild(r) PROVE ReadsInOrder'
    <2>1. /\ phase'[r] = 1 /\ startedAt'[r] = Len(chain)
          /\ \A q \in Rebuilds \ {r} : phase'[q] = phase[q] /\ startedAt'[q] = startedAt[q]
          /\ UNCHANGED <<chain, fetched, state>>
      BY <1>5 DEF StartRebuild
    <2> QED BY <1>1, <2>1 DEF ReadsInOrder
  <1>12. ASSUME NEW r \in Rebuilds, RefuseRebuild(r) PROVE ReadsInOrder'
    BY <1>12 DEF RefuseRebuild, ReadsInOrder
  <1>6. ASSUME NEW r \in Rebuilds, ReadLog(r, 1) PROVE ReadsInOrder'
    <2>1. /\ phase[r] = 1 /\ phase'[r] = 2
          /\ fetched'[r]["registry"] = Len(chain)
          /\ \A q \in Rebuilds \ {r} : phase'[q] = phase[q] /\ fetched'[q] = fetched[q]
          /\ UNCHANGED <<chain, startedAt, state>>
      BY <1>1, <1>6 DEF ReadLog, LogRead, UpToLatest
    <2> QED BY <1>1, <1>2, <2>1 DEF ReadsInOrder
  <1>7. ASSUME NEW r \in Rebuilds, ReadLog(r, 2) PROVE ReadsInOrder'
    <2>1. /\ phase[r] = 2 /\ phase'[r] = 3
          /\ fetched'[r]["registry"] = fetched[r]["registry"]
          /\ fetched'[r]["identities"] = Len(chain)
          /\ \A q \in Rebuilds \ {r} : phase'[q] = phase[q] /\ fetched'[q] = fetched[q]
          /\ UNCHANGED <<chain, startedAt, state>>
      BY <1>1, <1>7 DEF ReadLog, LogRead, UpToLatest
    <2> QED BY <1>1, <1>2, <2>1 DEF ReadsInOrder
  <1>8. ASSUME NEW r \in Rebuilds, FinishRebuild(r) PROVE ReadsInOrder'
    <2>1. /\ phase[r] = 3 /\ phase'[r] = 0 /\ state' = fetched[r]
          /\ \A q \in Rebuilds \ {r} : phase'[q] = phase[q]
          /\ UNCHANGED <<chain, fetched, startedAt>>
      BY <1>8 DEF FinishRebuild, Rebuilt
    <2> QED BY <1>1, <1>2, <2>1 DEF ReadsInOrder
  <1>9. ASSUME NEW r \in Rebuilds, FailRebuild(r) PROVE ReadsInOrder'
    <2>1. /\ phase'[r] = 0
          /\ \A q \in Rebuilds \ {r} : phase'[q] = phase[q]
          /\ UNCHANGED <<chain, fetched, startedAt, state>>
      BY <1>9 DEF FailRebuild
    <2> QED BY <1>1, <1>2, <2>1 DEF ReadsInOrder
  <1>10. CASE Restart
    <2>1. /\ \A q \in Rebuilds : phase'[q] = 0
          /\ state'["registry"] = 0 /\ state'["identities"] = 0
          /\ UNCHANGED <<chain, fetched, startedAt>>
      BY <1>1, <1>10 DEF Restart, Nothing
    <2> QED BY <1>1, <2>1 DEF ReadsInOrder
  <1>11. CASE UNCHANGED vars
    BY <1>11 DEF vars, serverVars, ReadsInOrder
  <1> QED
    BY <1>4, <1>5, <1>6, <1>7, <1>8, <1>9, <1>10, <1>11, <1>12 DEF Next, RebuildStep

(***************************************************************************)
(* The inductive invariant of the service.                                 *)
(***************************************************************************)
ServiceInv == TypeOK /\ RegisteredFirst /\ ReadsInOrder

(* A service that starts serves nothing yet. *)
LEMMA ServiceInit == Init => ServiceInv
  BY TypeInit DEF Init, ServiceInv, RegisteredFirst, ReadsInOrder, Nothing, Contract

(* A change, a crash, a rebuild and a request keep reads in order. *)
LEMMA ServiceStep == ServiceInv /\ [Next]_vars => ServiceInv'
  BY TypeStep, RegisteredStep, ReadsStep DEF ServiceInv

(***************************************************************************)
(* Whatever rebuilds overlap, fail or are lost in a restart, and however   *)
(* the chain grows between two reads, no served report links to an         *)
(* identity that is missing from the served state.                         *)
(***************************************************************************)
THEOREM LinksResolve == Spec => []ServedLinksResolve
  <1>1. ServiceInv => ServedLinksResolve
    <2> SUFFICES ASSUME ServiceInv, NEW i \in 1..state["registry"], chain[i].name = "Linked"
                 PROVE  chain[i].id \in Named("Registered", state["identities"])
      BY DEF ServedLinksResolve, Named
    <2>1. /\ Len(chain) \in Nat /\ state["registry"] \in Nat /\ state["identities"] \in Nat
          /\ state["registry"] <= state["identities"] /\ state["identities"] <= Len(chain)
      BY DEF ServiceInv, TypeOK, ReadsInOrder, Contract
    <2>2. i \in 1..Len(chain)
      BY <2>1
    <2>3. PICK j \in 1..i : chain[j].name = "Registered" /\ chain[j].id = chain[i].id
      BY <2>2 DEF ServiceInv, RegisteredFirst
    <2>4. j \in 1..state["identities"]
      BY <2>1, <2>3
    <2> QED BY <2>3, <2>4 DEF Named
  <1> QED BY <1>1, ServiceInit, ServiceStep, PTL DEF Spec

(***************************************************************************)
(* A rebuild that ends well has, of both logs, what was on the chain when  *)
(* it started.                                                             *)
(***************************************************************************)
LEMMA EndsWithItsStart ==
  ASSUME ServiceInv, NEW r \in Rebuilds, FinishRebuild(r), NEW c \in Contract
  PROVE  state'[c] >= startedAt[r] /\ state'[c] \in Nat /\ startedAt[r] \in Nat
  <1>1. /\ startedAt[r] \in Nat
        /\ fetched[r]["registry"] \in Nat /\ fetched[r]["identities"] \in Nat
        /\ c \in {"registry", "identities"}
    BY DEF ServiceInv, TypeOK, Contract
  <1>2. /\ startedAt[r] <= fetched[r]["registry"]
        /\ fetched[r]["registry"] <= fetched[r]["identities"]
        /\ state' = fetched[r]
    BY DEF ServiceInv, ReadsInOrder, FinishRebuild, Rebuilt
  <1> QED BY <1>1, <1>2

(* What is served is replaced by the end of a rebuild or a restart only. *)
LEMMA OnlyRebuildsServe ==
  ASSUME restarts \in Nat, [Next]_vars, state' # state
  PROVE  \/ restarts' # restarts
         \/ \E r \in Rebuilds : FinishRebuild(r)
  <1>1. CASE Restart
    <2>1. restarts' = restarts + 1
      BY <1>1 DEF Restart
    <2> QED BY <2>1
  <1>2. ASSUME ~Restart, \A r \in Rebuilds : ~FinishRebuild(r)
        PROVE  UNCHANGED state
    <2>1. ASSUME NEW name, NEW id, Emit(name, id) PROVE UNCHANGED state
      BY <2>1 DEF Emit, serverVars
    <2>2. ASSUME NEW r \in Rebuilds, RebuildStep(r) PROVE UNCHANGED state
      BY <1>2, <2>2 DEF RebuildStep, StartRebuild, RefuseRebuild, ReadLog, FailRebuild
    <2>3. CASE UNCHANGED vars
      BY <2>3 DEF vars, serverVars
    <2> QED BY <1>2, <2>1, <2>2, <2>3 DEF Next
  <1> QED BY <1>1, <1>2

(***************************************************************************)
(* A rebuild that ends well serves at least what was on the chain when it  *)
(* started, and what is served is lost only in a restart or to a rebuild   *)
(* that started before it was on the chain.                                *)
(***************************************************************************)
THEOREM RebuildsSeeTheirStart == Spec => RebuildSeesItsStart
  <1>1. ASSUME ServiceInv, [Next]_vars, NEW c \in Contract, state'[c] < state[c]
        PROVE  \/ restarts' # restarts
               \/ \E r \in Rebuilds : FinishRebuild(r) /\ startedAt[r] < state[c]
    <2>1. state[c] \in Nat
      BY <1>1 DEF ServiceInv, TypeOK
    <2>2. CASE restarts' # restarts
      BY <2>2
    <2>3. CASE restarts' = restarts
      <3>1. state' # state
        BY <1>1, <2>1
      <3>2. PICK r \in Rebuilds : FinishRebuild(r)
        BY <1>1, <2>3, <3>1, OnlyRebuildsServe DEF ServiceInv, TypeOK
      <3>3. state'[c] >= startedAt[r] /\ state'[c] \in Nat /\ startedAt[r] \in Nat
        BY <1>1, <3>2, EndsWithItsStart
      <3> QED BY <1>1, <2>1, <3>2, <3>3
    <2> QED BY <2>2, <2>3
  <1>2. ServiceInv /\ [Next]_vars =>
          [ /\ \A r \in Rebuilds : FinishRebuild(r) =>
                 \A c \in Contract : state'[c] >= startedAt[r]
            /\ \A c \in Contract : state'[c] < state[c] =>
                 \/ restarts' # restarts
                 \/ \E r \in Rebuilds : FinishRebuild(r) /\ startedAt[r] < state[c] ]_vars
    BY <1>1, EndsWithItsStart
  <1> QED BY <1>2, ServiceInit, ServiceStep, PTL DEF Spec, RebuildSeesItsStart
=============================================================================
