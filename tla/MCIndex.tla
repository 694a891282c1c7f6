--------------------------------- MODULE MCIndex ---------------------------------
(***************************************************************************)
(* The indexer's read model on small instances, and a statement of the     *)
(* documentation it does not keep.                                         *)
(***************************************************************************)
EXTENDS IndexedRegistry, TLC

Symmetric == Permutations(Investigators)

(***************************************************************************)
(* Bounds.  Evidence is submitted and locked for cases only, since the     *)
(* read model ignores that on claims.  A second identity and a third entry *)
(* in the log of the investigator registry, for a key that is handed back  *)
(* or a successor of a rotated one, are explored as far as the reports.    *)
(***************************************************************************)
EvidenceOnCases == \A cl \in Claims : pendingEvidence[cl] = <<>> /\ ~evidenceLocked[cl]

Registered == {id \in Investigators : investigators[id].exists}

UpToReports ==
  /\ \A s \in Subjects : pendingEvidence[s] = <<>>
  /\ \A ch \in Challenges : ~verdicts[ch].exists
  /\ \A cl \in Claims : claims[cl].status # "SUPERSEDED"

Bounded ==
  /\ EvidenceOnCases
  /\ Len(registryLog) > 2 \/ Cardinality(Registered) > 1 => UpToReports

(***************************************************************************)
(* MemoryWarRegistry.sol: "Anyone can independently rebuild the full       *)
(* protocol history by replaying this contract's events".  Replayed in the *)
(* order they were emitted, they give each case its present state.         *)
(***************************************************************************)
CaseStatesRebuild ==
  Settled => \A ch \in Existing(challenges) : State.challenges[ch].state = challenges[ch].state
=============================================================================
