------------------------------ MODULE MCProgress ------------------------------
(***************************************************************************)
(* The progress of a case under the fairness its callers provide.          *)
(***************************************************************************)
EXTENDS MemoryWarRegistry

CONSTANT MaxTransfers   \* bound on the transfers a caller of resolve() has gas for

ASSUME TransfersAssumption == MaxTransfers \in Nat

\* Who resolve() may send something to.
Payees(ch) == hasReported[ch] \cup {challenges[ch].challenger}

(***************************************************************************)
(* Whether gas can be had for resolve().  A case without a bond transfers  *)
(* nothing.  Otherwise the call loops over everybody who reported, which   *)
(* anybody may and nothing limits, and leaves 63/64 of its gas to each     *)
(* payee with code; it is sure to go through only while the payees have no *)
(* code and the list is short.                                             *)
(***************************************************************************)
Affordable(ch) ==
  challenges[ch].bond > 0 =>
    Payees(ch) \cap Contracts = {} /\ Len(investigatorsOf[ch]) <= MaxTransfers

(***************************************************************************)
(* Every function is permissionless, so a case needs somebody who wants it *)
(* decided to keep making the next call; the demo driver is one.  Nobody   *)
(* is obliged to report, and no resolve() is assumed to succeed that its   *)
(* payees can run out of gas.                                              *)
(***************************************************************************)
Pursued(ch) ==
  /\ WF_vars(\E root \in Roots : LockEvidence(ch, root))
  /\ WF_vars(BeginInvestigation(ch))
  /\ WF_vars(/\ Affordable(ch)
             /\ \E status \in VerdictStatus, refusing \in SUBSET Contracts :
                  Resolve(ch, status, refusing))

FairSpec == Spec /\ WF_vars(Tick) /\ \A ch \in Challenges : Pursued(ch)

(***************************************************************************)
(* A case on whose id nothing was locked before it was opened is decided   *)
(* once its window closes (if it does within the bound on time), even if   *)
(* nobody ever reports, unless its reporters or its challenger came to be  *)
(* such that they can hold resolve() up for good.                          *)
(***************************************************************************)
CasesGetDecided ==
  \A ch \in Challenges :
    ( /\ challenges[ch].exists /\ ~evidenceLocked[ch]
      /\ challenges[ch].windowCloseAt <= MaxTime )
    ~> (Decided(ch) \/ ~Affordable(ch))
=============================================================================
