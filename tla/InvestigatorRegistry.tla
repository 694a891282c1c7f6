-------------------------- MODULE InvestigatorRegistry --------------------------
(***************************************************************************)
(* The registry of investigator identities                                 *)
(* (src/contracts/contracts/InvestigatorRegistry.sol): an identity outlives *)
(* the key that signs for it and may name the identity it succeeds.  One   *)
(* action per external function; a call that reverts is no step.           *)
(*                                                                         *)
(* The model provider and the registration time are left out.  A bound:    *)
(* MaxKeys on how often an identity names a controller.                    *)
(***************************************************************************)
EXTENDS FiniteSets, Naturals, Sequences

CONSTANTS
  Investigators,  \* investigator ids
  Accounts,       \* addresses that call the contract
  None,           \* the zero id and address
  MaxKeys         \* bound on the controllers an identity has had

VARIABLES
  investigators,  \* investigator id -> Investigator
  controllers     \* history: investigator id -> the controllers its events name, in order

identityVars == <<investigators, controllers>>

Investigator ==
  [controller : Accounts \cup {None}, parentId : Investigators \cup {None}, exists : BOOLEAN]

TypeOK ==
  /\ investigators \in [Investigators -> Investigator]
  /\ controllers \in [Investigators -> Seq(Accounts)]

Init ==
  /\ investigators =
       [id \in Investigators |-> [controller |-> None, parentId |-> None, exists |-> FALSE]]
  /\ controllers = [id \in Investigators |-> <<>>]

\* What submitReportAsIdentity asks: nobody controls an identity that is not registered.
Controls(caller, id) == investigators[id].controller = caller

\* A slip: anybody may name an existing identity as the predecessor of theirs.
NamesExisting(caller, parentId) == parentId # None => investigators[parentId].exists

MaySucceed(caller, parentId) ==
  parentId # None => investigators[parentId].exists /\ Controls(caller, parentId)

Register(id, caller, parentId) ==
  /\ MaySucceed(caller, parentId)
  /\ ~investigators[id].exists
  /\ investigators' = [investigators EXCEPT ![id] =
       [controller |-> caller, parentId |-> parentId, exists |-> TRUE]]
  /\ controllers' = [controllers EXCEPT ![id] = <<caller>>]

RotateController(id, caller, newController) ==
  /\ investigators[id].exists
  /\ Controls(caller, id)
  /\ Len(controllers[id]) < MaxKeys
  /\ investigators' = [investigators EXCEPT ![id] =
       [controller |-> newController, parentId |-> @.parentId, exists |-> TRUE]]
  /\ controllers' = [controllers EXCEPT ![id] = Append(@, newController)]

Next ==
  \E id \in Investigators, a \in Accounts :
    \/ \E parentId \in Investigators \cup {None} : Register(id, a, parentId)
    \/ \E newController \in Accounts : RotateController(id, a, newController)

Spec == Init /\ [][Next]_identityVars

-----------------------------------------------------------------------------
\* The accounts that have held the key of an identity.
Holders(id) == {controllers[id][k] : k \in 1..Len(controllers[id])}

(***************************************************************************)
(* Nobody grafts an identity onto a track record that was never theirs: an *)
(* identity and the one it succeeds are both registered, and some account  *)
(* held the keys of both, however often either was rotated since.          *)
(***************************************************************************)
LineageEndorsed ==
  \A id \in Investigators :
    LET parentId == investigators[id].parentId
    IN parentId # None =>
         /\ investigators[id].exists /\ investigators[parentId].exists
         /\ Holders(id) \cap Holders(parentId) # {}
=============================================================================
