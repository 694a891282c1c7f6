--------------------------------- MODULE Storage ---------------------------------
(***************************************************************************)
(* 0G Storage with its local mirror (src/packages/zg-adapters/src/         *)
(* storage.ts), between the demo driver, which uploads and runs the tamper *)
(* demo, and the indexer, which serves /content/:hash.  Each process has   *)
(* an adapter of its own; they share the directory with the mirror and the *)
(* mapping from content hashes to the network's own root hashes.           *)
(*                                                                         *)
(* A content stands for its hash; the network's root of a content is known *)
(* by the content too, and what the network has it never changes.          *)
(***************************************************************************)
EXTENDS Naturals, Sequences

CONSTANTS
  Content,              \* what is uploaded
  Original, Altered,    \* what the tamper demo uploads, and what it puts in its place
  Absent, Torn,         \* a file that is not there, or whose writing was cut short
  MaxJobs, MaxCrashes   \* bounds

ASSUME StorageAssumption ==
  /\ Original \in Content /\ Original # Altered
  /\ {Absent, Torn} \cap (Content \cup {Altered}) = {} /\ Absent # Torn
  /\ MaxJobs \in Nat /\ MaxCrashes \in Nat

VARIABLES
  requestedMode, configured,  \* what both processes are configured with
  sdk,                        \* process -> live and liveInitError of its adapter
  network,                    \* the contents on the 0G network
  mirror,                     \* content -> what its file in the mirror holds
  mapping,                    \* content -> whether the file with the network's root is there
  job,                        \* what the driver is doing
  route,                      \* the request the indexer is answering, or answered last
  uploads,                    \* history: content -> labels of the uploads that returned
  hurt,                       \* history: what was spoilt since an upload of it last returned
  jobs, crashes

configVars == <<requestedMode, configured>>
boundVars == <<jobs, crashes>>
storageVars == <<configVars, sdk, network, mirror, mapping, job, route, uploads, hurt, boundVars>>

Process == {"driver", "indexer"}

LIVE == "0G_STORAGE_LIVE"
LOCAL_DEMO == "LOCAL_DEMO"

Idle == [at |-> "idle"]

StorageInit ==
  /\ requestedMode \in {"auto", "live", "local"} /\ configured \in BOOLEAN
  /\ sdk = [p \in Process |-> "untried"]
  /\ network = {}
  /\ mirror = [c \in Content |-> Absent] /\ mapping = [c \in Content |-> FALSE]
  /\ job = Idle /\ route = Idle
  /\ uploads = [c \in Content |-> {}] /\ hurt = {}
  /\ jobs = 0 /\ crashes = 0

-----------------------------------------------------------------------------
(***************************************************************************)
(* getLive: a result and what the adapter remembers of it.  In live mode   *)
(* only the first failure is an error; the adapter then knows there is no  *)
(* live storage and says so.                                               *)
(***************************************************************************)
GetLive(p, result) ==
  IF requestedMode = "local" THEN result = "none" /\ UNCHANGED sdk
  ELSE IF sdk[p] # "untried"
       THEN result = (IF sdk[p] = "live" THEN "live" ELSE "none") /\ UNCHANGED sdk
  ELSE \/ /\ configured /\ result = "live"
          /\ sdk' = [sdk EXCEPT ![p] = "live"]
       \/ /\ result = (IF requestedMode = "live" THEN "throws" ELSE "none")
          /\ sdk' = [sdk EXCEPT ![p] = "failed"]

\* A slip: what comes out of the mirror keeps the label of a live adapter.
LabelOfAdapter(p) == IF sdk'[p] = "live" THEN LIVE ELSE LOCAL_DEMO

LabelOfMirror(p) == LOCAL_DEMO

\* download: from the network if it is mapped and answers, else from the mirror if it can be read.
Download(p, h, result) ==
  \E live \in {"live", "none", "throws"} :
    /\ GetLive(p, live)
    /\ \/ /\ live = "live" /\ mapping[h]
          /\ result = [bytes |-> h, mode |-> LIVE]
       \/ /\ live # "throws" /\ mirror[h] # Absent
          /\ result = [bytes |-> mirror[h], mode |-> LabelOfMirror(p)]
       \/ result = [bytes |-> Absent, mode |-> "error"]

\* verifyIntegrity: the bytes hash to what was asked for.
VerifyIntegrity(h, bytes) == bytes = h

Results(p, h) ==
  {[bytes |-> h, mode |-> LIVE], [bytes |-> Absent, mode |-> "error"]}
    \cup {[bytes |-> mirror[h], mode |-> label] : label \in {LIVE, LOCAL_DEMO}}

-----------------------------------------------------------------------------
(***************************************************************************)
(* A write that does not succeed.  writeFileSync empties the file before   *)
(* it fills it, so an error of the disk or a crash leaves the file as it   *)
(* was or torn; and what ends the demo between its two writes leaves its   *)
(* file overwritten.                                                       *)
(***************************************************************************)
Overwritten == \/ job.at = "verifying" /\ Len(job.verdicts) = 1
               \/ job.at = "writing" /\ Len(job.verdicts) = 2

LeavesFiles ==
  /\ hurt' = hurt \cup (IF Overwritten THEN {Original} ELSE {})
  /\ UNCHANGED mirror

CutShort ==
  \/ LeavesFiles
  \/ /\ mirror' = [mirror EXCEPT ![job.content] = Torn]
     /\ hurt' = hurt \cup {job.content}

-----------------------------------------------------------------------------
(***************************************************************************)
(* The driver.  Every run makes an adapter, uploads what it needs and is   *)
(* over when an upload throws; the tamper demo uploads the original,       *)
(* verifies it, overwrites its file, verifies again, puts the file back    *)
(* and verifies a third time.                                              *)
(***************************************************************************)
Begin(demo) ==
  /\ job = Idle /\ jobs < MaxJobs
  /\ jobs' = jobs + 1
  /\ sdk' = [sdk EXCEPT !["driver"] = "untried"]
  /\ job' = [at |-> "ready", content |-> Original, demo |-> demo, verdicts |-> <<>>]
  /\ UNCHANGED <<configVars, network, mirror, mapping, route, uploads, hurt, crashes>>

StartUpload(content) ==
  /\ job.at = "ready" /\ (job.demo => content = Original /\ job.verdicts = <<>>)
  /\ \E live \in {"live", "none", "throws"} :
       /\ GetLive("driver", live)
       /\ job' = IF live = "throws" THEN Idle
                 ELSE [job EXCEPT !.at = IF live = "live" THEN "sending" ELSE "writingLocal",
                                  !.content = content]
  /\ UNCHANGED <<configVars, network, mirror, mapping, route, uploads, hurt, boundVars>>

\* An error of the network or the disk: in live mode it surfaces, else the local store is tried.
\* A mapping that was cut short is no JSON and counts as none.
UploadFails ==
  /\ \/ job.at = "sending" /\ UNCHANGED <<mirror, mapping, hurt>>
     \/ job.at \in {"writingMirror", "writingLocal"} /\ CutShort /\ UNCHANGED mapping
     \/ /\ job.at = "writingMapping"
        /\ mapping' \in {mapping, [mapping EXCEPT ![job.content] = FALSE]}
        /\ UNCHANGED <<mirror, hurt>>
  /\ job' = IF requestedMode = "live" \/ job.at = "writingLocal" THEN Idle
            ELSE [job EXCEPT !.at = "writingLocal"]
  /\ UNCHANGED <<configVars, sdk, network, route, uploads, boundVars>>

Send ==
  /\ job.at = "sending"
  /\ network' = network \cup {job.content}
  /\ job' = [job EXCEPT !.at = "writingMirror"]
  /\ UNCHANGED <<configVars, sdk, mirror, mapping, route, uploads, hurt, boundVars>>

WriteLocalMirror ==
  /\ job.at = "writingMirror"
  /\ mirror' = [mirror EXCEPT ![job.content] = job.content]
  /\ job' = [job EXCEPT !.at = "writingMapping"]
  /\ UNCHANGED <<configVars, sdk, network, mapping, route, uploads, hurt, boundVars>>

Returns(label) ==
  /\ uploads' = [uploads EXCEPT ![job.content] = @ \cup {label}]
  /\ hurt' = hurt \ {job.content}
  /\ job' = [job EXCEPT !.at = IF job.demo THEN "verifying" ELSE "ready"]

WriteLiveMapping ==
  /\ job.at = "writingMapping"
  /\ mapping' = [mapping EXCEPT ![job.content] = TRUE]
  /\ Returns(LIVE)
  /\ UNCHANGED <<configVars, sdk, network, mirror, route, boundVars>>

\* A slip: an upload that found the file in the mirror leaves it as it is.
MirrorIfAbsent == IF mirror[job.content] = Absent THEN job.content ELSE mirror[job.content]

MirroredBytes == job.content

UploadLocal ==
  /\ job.at = "writingLocal"
  /\ mirror' = [mirror EXCEPT ![job.content] = MirroredBytes]
  /\ Returns(LOCAL_DEMO)
  /\ UNCHANGED <<configVars, sdk, network, mapping, route, boundVars>>

\* verify, three times, and what the demo does to the file in between.
DemoVerifies ==
  /\ job.at = "verifying"
  /\ \E result \in Results("driver", Original) :
       /\ Download("driver", Original, result)
       /\ \/ result.mode = "error" /\ job' = Idle /\ LeavesFiles
          \/ /\ result.mode # "error"
             /\ job' = [job EXCEPT
                          !.at = IF Len(job.verdicts) = 2 THEN "ready" ELSE "writing",
                          !.verdicts = Append(@, [ok |-> VerifyIntegrity(Original, result.bytes),
                                                  mode |-> result.mode])]
             /\ UNCHANGED <<mirror, hurt>>
  /\ UNCHANGED <<configVars, network, mapping, route, uploads, boundVars>>

\* A slip: the file is not put back.
StaysAltered == Altered

PutBack == IF Len(job.verdicts) = 1 THEN Altered ELSE Original

DemoWrites ==
  /\ job.at = "writing"
  /\ mirror' = [mirror EXCEPT ![Original] = PutBack]
  /\ job' = [job EXCEPT !.at = "verifying"]
  /\ UNCHANGED <<configVars, sdk, network, mapping, route, uploads, hurt, boundVars>>

DemoWriteFails ==
  /\ job.at = "writing"
  /\ CutShort
  /\ job' = Idle
  /\ UNCHANGED <<configVars, sdk, network, mapping, route, uploads, boundVars>>

End ==
  /\ job.at = "ready" /\ (job.demo => Len(job.verdicts) = 3)
  /\ job' = Idle
  /\ UNCHANGED <<configVars, sdk, network, mirror, mapping, route, uploads, hurt, boundVars>>

\* The process dies, perhaps with a file half written.
Crash ==
  /\ job # Idle /\ crashes < MaxCrashes
  /\ crashes' = crashes + 1
  /\ job' = Idle
  /\ \/ LeavesFiles
     \/ job.at \in {"writingMirror", "writingLocal", "writing"} /\ CutShort
  /\ mapping' \in {mapping} \cup
       (IF job.at = "writingMapping" THEN {[mapping EXCEPT ![job.content] = FALSE]} ELSE {})
  /\ UNCHANGED <<configVars, sdk, network, route, uploads, jobs>>

-----------------------------------------------------------------------------
(***************************************************************************)
(* The indexer's route /content/:hash: the bytes come from one download,   *)
(* whether they are verified from a second one.                            *)
(***************************************************************************)
GetContent(h) ==
  /\ route.at # "downloaded"
  /\ \E result \in Results("indexer", h) :
       /\ Download("indexer", h, result)
       /\ route' = IF result.mode = "error" THEN [at |-> "notFound", hash |-> h]
                   ELSE [at |-> "downloaded", hash |-> h, text |-> result.bytes, mode |-> result.mode]
  /\ UNCHANGED <<configVars, network, mirror, mapping, job, uploads, hurt, boundVars>>

VerifyContent ==
  /\ route.at = "downloaded"
  /\ \E result \in Results("indexer", route.hash) :
       /\ Download("indexer", route.hash, result)
       /\ route' = IF result.mode = "error" THEN [at |-> "notFound", hash |-> route.hash]
                   ELSE [at |-> "answered", hash |-> route.hash, text |-> route.text,
                         mode |-> route.mode,
                         verified |-> VerifyIntegrity(route.hash, result.bytes)]
  /\ UNCHANGED <<configVars, network, mirror, mapping, job, uploads, hurt, boundVars>>

StorageNext ==
  \/ \E demo \in BOOLEAN : Begin(demo)
  \/ \E c \in Content : StartUpload(c) \/ GetContent(c)
  \/ UploadFails \/ Send \/ WriteLocalMirror \/ WriteLiveMapping \/ UploadLocal
  \/ DemoVerifies \/ DemoWrites \/ DemoWriteFails \/ End \/ Crash
  \/ VerifyContent

-----------------------------------------------------------------------------
(***************************************************************************)
(* storage.ts: nothing is labelled 0G_STORAGE_LIVE unless the bytes went   *)
(* through the network.  What an upload of that label sent is there for    *)
(* good, and what a reader is served under it hashes to what was asked     *)
(* for, whatever happened to the mirror.                                   *)
(***************************************************************************)
LiveMeansLive ==
  /\ \A c \in Content : LIVE \in uploads[c] \/ mapping[c] => c \in network
  /\ route.at \in {"downloaded", "answered"} /\ route.mode = LIVE => route.text = route.hash
  /\ route.at \in {"downloaded", "answered"} /\ route.mode = LIVE =>
       configured /\ requestedMode # "local"

(***************************************************************************)
(* The tamper demo shows what it says: the file passes before and after,   *)
(* and the overwritten file fails; the one way to pass is that the bytes   *)
(* came from the network, which was not tampered with.                     *)
(***************************************************************************)
TamperingShows ==
  job # Idle =>
    \A i \in DOMAIN job.verdicts :
      IF i = 2 THEN job.verdicts[i].ok <=> job.verdicts[i].mode = LIVE ELSE job.verdicts[i].ok

(***************************************************************************)
(* What an upload returned for can be read without the network from then   *)
(* on.  It is itself unless, since an upload of it last returned, a write  *)
(* of its file failed or was interrupted or the demo ended between its two *)
(* writes; or the demo is between them now.  The next upload that returns  *)
(* mends it.                                                               *)
(***************************************************************************)
MirrorKept ==
  \A c \in Content : uploads[c] # {} =>
    /\ mirror[c] # Absent
    /\ mirror[c] = c \/ c \in hurt \/ (c = Original /\ Overwritten)
=============================================================================
