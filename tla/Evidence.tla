-------------------------------- MODULE Evidence --------------------------------
(***************************************************************************)
(* Hashes, Merkle roots, evidence bundles and batches of events, as        *)
(* protocol-core computes them (ids.ts, evidence.ts, daBatch.ts).          *)
(*                                                                         *)
(* A hash is a number, and hashing is injective, as keccak256 is taken to  *)
(* be: 0 is the hash of "EMPTY_BUNDLE", 1 to Leaves are the hashes of      *)
(* plain contents, and the hash of a pair lies above all of these.  What   *)
(* the code orders by hex string is ordered by number.                     *)
(*                                                                         *)
(* ids.ts does not tell the hash of a content from that of a pair: a       *)
(* content is plain if it is neither the text "EMPTY_BUNDLE", whose hash   *)
(* is EMPTY_BUNDLE, nor the 64 bytes of two hashes, whose hash is          *)
(* HashPair of the two.                                                    *)
(***************************************************************************)
EXTENDS Integers, SequencesExt

CONSTANTS Leaves    \* how many different plain contents there are

ASSUME LeavesAssumption == Leaves \in Nat \ {0}

EMPTY_BUNDLE == 0

\* The hashes of plain contents.
LeafHash == 1..Leaves

Larger(a, b) == IF a <= b THEN b ELSE a

\* The same hash for (a, b) and (b, a), another for every other pair.
HashPair(a, b) == Leaves + 1 + ((a + b) * (a + b + 1)) \div 2 + Larger(a, b)

\* One level of the tree from the one below; the last is paired with itself if left over.
NextLevel(level) ==
  [i \in 1..((Len(level) + 1) \div 2) |->
     HashPair(level[2 * i - 1], IF 2 * i <= Len(level) THEN level[2 * i] ELSE level[2 * i - 1])]

\* A slip: the leaves stay in the order of submission.
LeavesAsGiven(hashes) == hashes

\* hashes.sort(): at place i is the least hash with at least i up to it.
CountUpTo(hashes, h) == Cardinality({j \in DOMAIN hashes : hashes[j] <= h})

Sorted(hashes) ==
  LET reaching(i) == {h \in Range(hashes) : i <= CountUpTo(hashes, h)}
  IN [i \in 1..Len(hashes) |-> CHOOSE h \in reaching(i) : \A g \in reaching(i) : h <= g]

MerkleRoot(hashes) ==
  LET level[n \in Nat] ==
        IF n = 0 THEN Sorted(hashes)
        ELSE LET below == level[n - 1] IN IF Len(below) = 1 THEN below ELSE NextLevel(below)
  IN IF hashes = <<>> THEN EMPTY_BUNDLE ELSE level[Len(hashes)][1]

-----------------------------------------------------------------------------
(***************************************************************************)
(* Evidence and bundles.  A bundle that was never locked has lockedAt -1.  *)
(***************************************************************************)
NotLocked == -1

\* The id of evidence is the hash of its bytes, here the content itself.
MakeEvidence(content, submitter, at) ==
  [id |-> content, contentHash |-> content, submittedBy |-> submitter, submittedAt |-> at]

\* Each id once, sorted.
Canonical(ids) == Sorted(SetToSeq(Range(ids)))

BuildBundle(ids, version) ==
  [evidenceIds |-> Canonical(ids), root |-> MerkleRoot(Canonical(ids)),
   version |-> version, lockedAt |-> NotLocked]

Locked(bundle) == bundle.lockedAt # NotLocked

LockBundle(bundle, at) == IF Locked(bundle) THEN bundle ELSE [bundle EXCEPT !.lockedAt = at]

\* EvidenceLockError, unless the caller asks for a new version.
MayAddEvidence(bundle, allowNewVersion) == ~Locked(bundle) \/ allowNewVersion

VersionOfAddition(bundle) == IF Locked(bundle) THEN bundle.version + 1 ELSE bundle.version

AddEvidence(bundle, ids) == BuildBundle(bundle.evidenceIds \o ids, VersionOfAddition(bundle))

-----------------------------------------------------------------------------
(***************************************************************************)
(* Batches of events for 0G DA; an event is known by its hash here.  The   *)
(* id of a batch is the hash of its root and its size together.            *)
(***************************************************************************)
BatchId(hashes) == <<MerkleRoot(hashes), Len(hashes)>>

ComputeBatchCommitment(events) ==
  LET hashes == [i \in DOMAIN events |-> events[i].hash]
      seqs == {events[i].seq : i \in DOMAIN events}
  IN [batchId |-> BatchId(hashes), eventCount |-> Len(events), root |-> MerkleRoot(hashes),
      firstSeq |-> CHOOSE s \in seqs : \A t \in seqs : s <= t,
      lastSeq |-> CHOOSE s \in seqs : \A t \in seqs : s >= t]

MIN_BATCH_SIZE == 25

ShouldBatchForDA(pendingEventCount, minBatchSize) == pendingEventCount >= minBatchSize
=============================================================================
