---------------------------- MODULE OffChainTheorems ----------------------------
(***************************************************************************)
(* What happens off the chain, for any bonds and any number of reports,    *)
(* amounts, contents, jobs, crashes and updates.                           *)
(***************************************************************************)
EXTENDS MCOffChain, RuleTheorems

-----------------------------------------------------------------------------
(***************************************************************************)
(* A step is one of the part in focus, and all the others rest.            *)
(***************************************************************************)
LEMMA OnePartMoves ==
  [OffChainNext]_offChainVars =>
    /\ [Next]_vars /\ [HistoryNext]_historyVars /\ [StorageNext]_storageVars
    /\ [Consider]_desk
  BY DEF OffChainNext, offChainVars

-----------------------------------------------------------------------------
(***************************************************************************)
(* Reports: the types are all the decision and the settlement depend on.   *)
(***************************************************************************)
ReportsTypeOK ==
  /\ reports \in Seq(Report)
  /\ bond \in Nat
  /\ challengeType \in ChallengeType
  /\ refusals \in 0..Len(reports)

(* No report was filed at first. *)
LEMMA ReportsInit == Init => ReportsTypeOK
  <1> SUFFICES ASSUME Init PROVE ReportsTypeOK
    OBVIOUS
  <1>1. reports = <<>> /\ reports \in Seq(Report)
    BY DEF Init
  <1>2. bond \in Nat
    BY BondsAssumption DEF Init
  <1> QED BY <1>1, <1>2 DEF Init, ReportsTypeOK

(* Reports are filed by the rules, until the case is resolved. *)
LEMMA ReportsStep == ReportsTypeOK /\ [Next]_vars => ReportsTypeOK'
  <1> SUFFICES ASSUME ReportsTypeOK, [Next]_vars PROVE ReportsTypeOK'
    OBVIOUS
  <1>1. CASE Refuse
    BY <1>1 DEF Refuse, ReportsTypeOK
  <1>2. ASSUME NEW report \in Report, Submit(report) PROVE ReportsTypeOK'
    <2>1. Append(reports, report) \in Seq(Report) /\ Len(Append(reports, report)) = Len(reports) + 1
      BY DEF ReportsTypeOK
    <2> QED BY <1>2, <2>1 DEF Submit, ReportsTypeOK
  <1>3. CASE UNCHANGED vars
    BY <1>3 DEF vars, ReportsTypeOK
  <1> QED BY <1>1, <1>2, <1>3 DEF Next

(* The types hold in every state. *)
LEMMA ReportsAlways == OffChainSpec => []ReportsTypeOK
  <1>1. OffChainInit => Init
    BY DEF OffChainInit
  <1> QED BY <1>1, OnePartMoves, ReportsInit, ReportsStep, PTL DEF OffChainSpec

(***************************************************************************)
(* Reports from enough providers, or too few reports to decide, make the   *)
(* contract and protocol-core agree.                                       *)
(***************************************************************************)
LEMMA SameStatus ==
  ASSUME ReportsTypeOK,
         ~(Cardinality(Providers(reports)) < MIN_DISTINCT_PROVIDERS)
           \/ Len(reports) < MIN_REPORTS_REQUIRED
  PROVE  Status = Apply(reports).status
  <1>1. Len(reports) >= MIN_REPORTS_REQUIRED =>
          ~(Cardinality(Providers(reports)) < MIN_DISTINCT_PROVIDERS)
    BY DEF ReportsTypeOK, MIN_REPORTS_REQUIRED
  <1> QED BY <1>1, ContractDecidesAsProcedure DEF ReportsTypeOK, Status, CurrentTally

(***************************************************************************)
(* The contract agrees with the disclosed procedure, up to the cases that  *)
(* protocol-core leaves undecided for want of a second provider, and no    *)
(* report is lost between the majority and the dissent.                    *)
(***************************************************************************)
THEOREM ContractFollowsProcedure == OffChainSpec => []ContractMatchesProcedure
  <1>1. ASSUME ReportsTypeOK PROVE ContractMatchesProcedure
    <2> DEFINE outcome == Apply(reports)
    <2>1. Len(reports) \in Nat
      BY <1>1 DEF ReportsTypeOK
    <2>2. \/ Status = outcome.status
          \/ /\ Cardinality(Providers(reports)) < MIN_DISTINCT_PROVIDERS
             /\ outcome.status = "INCONCLUSIVE"
      <3>1. CASE TooFewToResolve(reports)
        <4>1. outcome.status = "INCONCLUSIVE"
          BY <3>1 DEF Apply, Outcome
        <4> QED BY <1>1, <3>1, <4>1, SameStatus DEF TooFewToResolve
      <3>2. CASE ~TooFewToResolve(reports)
        BY <1>1, <3>2, SameStatus DEF TooFewToResolve
      <3> QED BY <3>1, <3>2
    <2>3. /\ outcome.majorityReports \cup outcome.dissent = 1..Len(reports)
          /\ outcome.majorityReports \cap outcome.dissent = {}
      BY DEF Apply, Outcome, Dissent, LargerSide, Voting
    <2>4. outcome.status = "CONTESTED" => outcome.dissent # {}
      <3> SUFFICES ASSUME outcome.status = "CONTESTED" PROVE outcome.dissent # {}
        OBVIOUS
      <3>1. ~AllVote(reports, "SUPPORTS") /\ ~AllVote(reports, "REJECTS")
              /\ outcome.dissent = Dissent(reports)
        BY DEF Apply, Outcome
      <3>2. LargerSide(reports) # 1..Len(reports) /\ LargerSide(reports) \subseteq 1..Len(reports)
        BY <3>1 DEF LargerSide, AllVote, Voting
      <3> QED BY <3>1, <3>2 DEF Dissent
    <2> QED BY <2>2, <2>3, <2>4 DEF ContractMatchesProcedure
  <1> QED BY <1>1, ReportsAlways, PTL

(***************************************************************************)
(* payment.ts predicts what the contract pays, refunds and keeps, told     *)
(* what apply() decided (or, from too few providers, what the contract     *)
(* did), for every bond and any number of reports.                         *)
(***************************************************************************)
THEOREM PaymentIsPredicted == OffChainSpec => []PredictionExact
  <1>1. ASSUME ReportsTypeOK PROVE PredictionExact
    <2> SUFFICES ASSUME refusals = 0 PROVE PredictionExact
      BY DEF PredictionExact
    <2> DEFINE decided == IF Cardinality(Providers(reports)) < MIN_DISTINCT_PROVIDERS
                          THEN Status ELSE Apply(reports).status
               predicted == ComputeFeeSplit(bond, Len(reports), challengeType, decided # "TRUE")
    <2>1. decided = Status
      BY <1>1, SameStatus
    <2>2. Settled = SettleBond(bond, challengeType, decided, Len(reports), 0)
      BY <2>1 DEF Settled
    <2>3. bond \in Nat /\ Len(reports) \in Nat
      BY <1>1 DEF ReportsTypeOK
    <2> HIDE DEF decided
    <2>4. /\ predicted.perInvestigator = Settled.share
          /\ predicted.remainderToChallenger = Settled.refund
          /\ predicted.remainderForfeit = Settled.retained
      BY <2>2, <2>3, PredictionIsExact
    <2> QED BY <2>4 DEF PredictionExact, decided
  <1> QED BY <1>1, ReportsAlways, PTL

(***************************************************************************)
(* Reputation is not to be farmed by siding with a majority: nobody gains  *)
(* more than an undisputed report is worth from a case whose reports       *)
(* differ.                                                                 *)
(***************************************************************************)
THEOREM MajorityGainsNothing == OffChainSpec => []NobodyGainsByMajority
  <1>1. ASSUME ReportsTypeOK PROVE NobodyGainsByMajority
    <2> DEFINE verdicts == {reports[i].verdict : i \in DOMAIN reports}
               differ == Cardinality(verdicts) > 1
    <2>1. DOMAIN reports = 1..Len(reports)
      BY <1>1 DEF ReportsTypeOK
    <2>2. ASSUME NEW v, AllVote(reports, v) PROVE ~differ
      <3>1. verdicts \subseteq {v}
        BY <2>1, <2>2 DEF AllVote, Voting
      <3>2. Cardinality({}) = 0 /\ Cardinality({v}) = 1
        BY FS_EmptySet, FS_Singleton
      <3>3. verdicts = {} \/ verdicts = {v}
        BY <3>1
      <3> HIDE DEF verdicts
      <3> QED BY <3>2, <3>3
    <2>3. differ => Apply(reports).status \notin {"TRUE", "FALSE"}
      BY <2>2 DEF Apply, Outcome
    <2> HIDE DEF differ
    <2>4. ASSUME NEW i \in DOMAIN reports
          PROVE  ReputationDelta(reports[i].verdict, Apply(reports).status, differ) <= 1
      BY <2>3 DEF ReputationDelta
    <2> QED BY <2>4 DEF NobodyGainsByMajority, differ
  <1> QED BY <1>1, ReportsAlways, PTL
-----------------------------------------------------------------------------
(***************************************************************************)
(* Storage: the types of what the processes, the network and the disk have.*)
(***************************************************************************)
Label == {LIVE, LOCAL_DEMO}

FileContent == Content \cup {Altered, Absent, Torn}

Verification == [ok : BOOLEAN, mode : Label]

Uploading == {"sending", "writingMirror", "writingMapping", "writingLocal"}

Demonstrating == {"verifying", "writing"}

Active ==
  [ at : {"ready"} \cup Uploading \cup Demonstrating, content : Content, demo : BOOLEAN,
    verdicts : Seq(Verification) ]

StorageTypeOK ==
  /\ requestedMode \in {"auto", "live", "local"} /\ configured \in BOOLEAN
  /\ sdk \in [Process -> {"untried", "live", "failed"}]
  /\ network \in SUBSET Content
  /\ mirror \in [Content -> FileContent] /\ mapping \in [Content -> BOOLEAN]
  /\ job = Idle \/ job \in Active
  /\ uploads \in [Content -> SUBSET Label] /\ hurt \in SUBSET Content
  /\ jobs \in Nat /\ crashes \in Nat

(***************************************************************************)
(* What is mapped or labelled live was sent, and an adapter is live only   *)
(* where the processes are configured to reach the network.                *)
(***************************************************************************)
SentFirst ==
  /\ \A p \in Process : sdk[p] = "live" => configured /\ requestedMode # "local"
  /\ \A c \in Content : LIVE \in uploads[c] \/ mapping[c] => c \in network
  /\ job.at \in {"writingMirror", "writingMapping"} => job.content \in network
  /\ route.at \in {"downloaded", "answered"} /\ route.mode = LIVE =>
       route.text = route.hash /\ configured /\ requestedMode # "local"

(***************************************************************************)
(* Where an upload and the demo are: what they wrote last is what the file *)
(* holds, for only they write; and a verification has an adapter that was  *)
(* tried, so that it cannot fail to be made.                               *)
(***************************************************************************)
WhereItIs ==
  /\ job.at \in Uploading => job.verdicts = <<>>
  /\ job.at = "writingMapping" => mirror[job.content] = job.content
  /\ job.at \in Uploading \cup Demonstrating => requestedMode = "local" \/ sdk["driver"] # "untried"
  /\ job.at \in Demonstrating => job.demo /\ uploads[Original] # {}
  /\ job.at = "verifying" =>
       \/ Len(job.verdicts) \in {0, 2} /\ mirror[Original] = Original
       \/ Len(job.verdicts) = 1 /\ mirror[Original] = Altered
  /\ job.at = "writing" => Len(job.verdicts) \in {1, 2}
  /\ job.at = "ready" => Len(job.verdicts) \in {0, 3} /\ (~job.demo => job.verdicts = <<>>)
  /\ job.at # "idle" /\ job.demo => job.content = Original

StorageInv == StorageTypeOK /\ SentFirst /\ WhereItIs /\ TamperingShows /\ MirrorKept

(***************************************************************************)
(* The constants are told apart as the runs do it.                         *)
(***************************************************************************)
LEMMA FilesDiffer ==
  /\ Original \in Content /\ Original # Altered
  /\ Absent \notin Content /\ Absent # Altered /\ Torn # Absent
  /\ LIVE # LOCAL_DEMO
  BY StorageAssumption DEF LIVE, LOCAL_DEMO

(* A storage adapter starts with nothing sent, mirrored or mapped. *)
LEMMA StorageStart == StorageInit => StorageInv
  <1> SUFFICES ASSUME StorageInit PROVE StorageInv
    OBVIOUS
  <1>1. /\ sdk = [p \in Process |-> "untried"]
        /\ job = Idle /\ route = Idle /\ job.at = "idle" /\ route.at = "idle"
        /\ uploads = [c \in Content |-> {}] /\ mapping = [c \in Content |-> FALSE]
    BY DEF StorageInit, Idle
  <1>2. mirror \in [Content -> FileContent]
    BY DEF StorageInit, FileContent
  <1>3. mapping \in [Content -> BOOLEAN] /\ uploads \in [Content -> SUBSET Label]
    BY <1>1
  <1>4. sdk \in [Process -> {"untried", "live", "failed"}]
    BY <1>1
  <1>5. StorageTypeOK
    BY <1>1, <1>2, <1>3, <1>4 DEF StorageInit, StorageTypeOK
  <1>6. SentFirst
    BY <1>1 DEF SentFirst
  <1>7. WhereItIs /\ TamperingShows /\ MirrorKept
    BY <1>1 DEF WhereItIs, TamperingShows, MirrorKept, Uploading, Demonstrating
  <1> QED BY <1>5, <1>6, <1>7 DEF StorageInv

(***************************************************************************)
(* A job that is at something is well formed, and stays so.                *)
(***************************************************************************)
LEMMA JobIsActive ==
  ASSUME StorageTypeOK, job.at # "idle"
  PROVE  /\ job \in Active /\ job # Idle
         /\ job.at \in {"ready"} \cup Uploading \cup Demonstrating
         /\ job.content \in Content /\ job.demo \in BOOLEAN /\ job.verdicts \in Seq(Verification)
  BY DEF StorageTypeOK, Idle, Active

(* An upload that moves on is the same upload. *)
LEMMA JobAt ==
  ASSUME NEW j \in Active, NEW at \in {"ready"} \cup Uploading \cup Demonstrating
  PROVE  LET moved == [j EXCEPT !.at = at]
         IN /\ moved \in Active /\ moved.at = at /\ moved.demo = j.demo
            /\ moved.content = j.content /\ moved.verdicts = j.verdicts
  BY DEF Active

(* An idle driver is no upload. *)
LEMMA IdleIsIdle == Idle.at = "idle" /\ \A j \in Active : j # Idle
  BY DEF Idle, Active, Uploading, Demonstrating

(***************************************************************************)
(* Trying the network: an adapter turns live only where it can, and is     *)
(* untried no longer afterwards unless only the local store is asked for.  *)
(***************************************************************************)
LEMMA Tried ==
  ASSUME StorageTypeOK, SentFirst, UNCHANGED configVars,
         NEW p \in Process, NEW result, GetLive(p, result)
  PROVE  /\ sdk' \in [Process -> {"untried", "live", "failed"}]
         /\ \A q \in Process : q # p => sdk'[q] = sdk[q]
         /\ \A q \in Process : sdk'[q] = "live" => configured /\ requestedMode # "local"
         /\ result = "live" => configured /\ requestedMode # "local"
         /\ result \in {"live", "none", "throws"}
         /\ requestedMode = "local" \/ sdk'[p] # "untried"
         /\ requestedMode = "local" \/ sdk[p] # "untried" => result # "throws"
         /\ result = "throws" => requestedMode = "live"
  BY DEF GetLive, StorageTypeOK, SentFirst, configVars

(***************************************************************************)
(* A download that is labelled live has the right bytes; any other has     *)
(* what the file in the mirror holds.                                      *)
(***************************************************************************)
LEMMA Downloaded ==
  ASSUME StorageTypeOK, SentFirst, UNCHANGED configVars,
         NEW p \in Process, NEW h, NEW result, Download(p, h, result)
  PROVE  /\ sdk' \in [Process -> {"untried", "live", "failed"}]
         /\ \A q \in Process : q # p => sdk'[q] = sdk[q]
         /\ \A q \in Process : sdk'[q] = "live" => configured /\ requestedMode # "local"
         /\ requestedMode = "local" \/ sdk'[p] # "untried"
         /\ \/ result.mode = LIVE /\ result.bytes = h /\ configured /\ requestedMode # "local"
            \/ result.mode = LOCAL_DEMO /\ result.bytes = mirror[h]
            \/ result.mode = "error"
  <1>1. PICK live \in {"live", "none", "throws"} :
          /\ GetLive(p, live)
          /\ \/ /\ live = "live" /\ mapping[h]
                /\ result = [bytes |-> h, mode |-> LIVE]
             \/ /\ live # "throws" /\ mirror[h] # Absent
                /\ result = [bytes |-> mirror[h], mode |-> LOCAL_DEMO]
             \/ result = [bytes |-> Absent, mode |-> "error"]
    BY DEF Download, LabelOfMirror
  <1>2. /\ sdk' \in [Process -> {"untried", "live", "failed"}]
        /\ \A q \in Process : q # p => sdk'[q] = sdk[q]
        /\ \A q \in Process : sdk'[q] = "live" => configured /\ requestedMode # "local"
        /\ live = "live" => configured /\ requestedMode # "local"
        /\ requestedMode = "local" \/ sdk'[p] # "untried"
        /\ requestedMode = "local" \/ sdk[p] # "untried" => live # "throws"
    BY <1>1, Tried
  <1> QED BY <1>1, <1>2 DEF Label
(***************************************************************************)
(* A new job makes an adapter of its own and has verified nothing yet.     *)
(***************************************************************************)
LEMMA BeginKeeps ==
  ASSUME StorageInv, NEW demo \in BOOLEAN, Begin(demo)
  PROVE  StorageInv'
  <1> USE FilesDiffer
  <1> DEFINE j == [at |-> "ready", content |-> Original, demo |-> demo, verdicts |-> <<>>]
  <1>1. /\ job = Idle /\ job' = j /\ jobs' = jobs + 1
        /\ sdk' = [sdk EXCEPT !["driver"] = "untried"]
        /\ UNCHANGED <<configVars, network, mirror, mapping, route, uploads, hurt, crashes>>
    BY DEF Begin
  <1>2. j \in Active
    BY DEF Active
  <1>3. j.at = "ready" /\ j.content = Original /\ j.verdicts = <<>> /\ Len(j.verdicts) = 0
    OBVIOUS
  <1> HIDE DEF j
  <1>4. sdk' \in [Process -> {"untried", "live", "failed"}]
          /\ \A p \in Process : sdk'[p] = "live" => sdk[p] = "live"
    BY <1>1 DEF StorageInv, StorageTypeOK
  <1>5. StorageTypeOK'
    BY <1>1, <1>2, <1>4 DEF StorageInv, StorageTypeOK, configVars
  <1>6. SentFirst'
    BY <1>1, <1>3, <1>4 DEF StorageInv, SentFirst, configVars
  <1>7. WhereItIs'
    BY <1>1, <1>3 DEF WhereItIs, Uploading, Demonstrating
  <1>8. TamperingShows'
    BY <1>1, <1>3 DEF TamperingShows
  <1>9. MirrorKept'
    BY <1>1, IdleIsIdle DEF StorageInv, MirrorKept, Overwritten
  <1> QED BY <1>5, <1>6, <1>7, <1>8, <1>9 DEF StorageInv

(***************************************************************************)
(* What a write that does not succeed leaves: a file that was there is     *)
(* there, and if it changed, or was overwritten by the demo, it counts as  *)
(* hurt.                                                                   *)
(***************************************************************************)
FilesLeft ==
  /\ mirror' \in [Content -> FileContent] /\ hurt' \in SUBSET Content /\ hurt \subseteq hurt'
  /\ \A c \in Content : mirror[c] # Absent => mirror'[c] # Absent
  /\ \A c \in Content : mirror'[c] = mirror[c] \/ c \in hurt'
  /\ Overwritten => Original \in hurt'

(* Leaving the files is one such end of a write. *)
LEMMA LeftAsTheyAre ==
  ASSUME StorageInv, LeavesFiles
  PROVE  FilesLeft
  BY FilesDiffer DEF LeavesFiles, FilesLeft, StorageInv, StorageTypeOK

(* Being cut short is another. *)
LEMMA LeftCutShort ==
  ASSUME StorageInv, job.at # "idle", CutShort
  PROVE  FilesLeft
  <1>1. CASE LeavesFiles
    BY <1>1, LeftAsTheyAre
  <1>2. CASE mirror' = [mirror EXCEPT ![job.content] = Torn] /\ hurt' = hurt \cup {job.content}
    <2>1. job.content \in Content
      BY JobIsActive DEF StorageInv
    <2>2. Overwritten => job.content = Original
      BY DEF StorageInv, WhereItIs, Overwritten, Demonstrating
    <2>3. mirror' \in [Content -> FileContent]
      BY <1>2, <2>1 DEF StorageInv, StorageTypeOK, FileContent
    <2> QED BY <1>2, <2>1, <2>2, <2>3, FilesDiffer DEF FilesLeft, StorageInv, StorageTypeOK
  <1> QED BY <1>1, <1>2 DEF CutShort

(* Where the demo has not written, no file counts as overwritten. *)
LEMMA FilesUntouched ==
  ASSUME StorageInv, UNCHANGED <<mirror, hurt>>, job.at \notin Demonstrating
  PROVE  FilesLeft
  BY DEF FilesLeft, StorageInv, StorageTypeOK, Overwritten, Demonstrating

(***************************************************************************)
(* A job that is over, for whatever reason, leaves no file changed that    *)
(* does not count as hurt.                                                 *)
(***************************************************************************)
LEMMA OverKeeps ==
  ASSUME StorageInv, FilesLeft,
         job' = Idle,
         sdk' \in [Process -> {"untried", "live", "failed"}],
         \A p \in Process : sdk'[p] = "live" => configured /\ requestedMode # "local",
         mapping' \in [Content -> BOOLEAN], \A c \in Content : mapping'[c] => mapping[c],
         jobs' = jobs, crashes' \in Nat,
         UNCHANGED <<configVars, network, route, uploads>>
  PROVE  StorageInv'
  <1>1. job'.at = "idle"
    BY IdleIsIdle
  <1>2. StorageTypeOK'
    BY DEF StorageInv, StorageTypeOK, FilesLeft, configVars
  <1>3. SentFirst'
    BY <1>1 DEF StorageInv, SentFirst, configVars
  <1>4. WhereItIs'
    BY <1>1 DEF WhereItIs, Uploading, Demonstrating
  <1>5. TamperingShows'
    BY DEF TamperingShows
  <1>6. MirrorKept'
    BY DEF StorageInv, MirrorKept, FilesLeft
  <1> QED BY <1>2, <1>3, <1>4, <1>5, <1>6 DEF StorageInv

(***************************************************************************)
(* An upload that moves on without having written the mirror whole.        *)
(***************************************************************************)
LEMMA UploadMoves ==
  ASSUME StorageInv, job.at # "idle", job.verdicts = <<>>,
         NEW at \in Uploading, NEW content \in Content,
         at \notin {"writingMapping"},
         job.demo => content = Original,
         NEW j \in Active, job' = j,
         j.at = at, j.content = content, j.demo = job.demo, j.verdicts = job.verdicts,
         network \subseteq network', network' \in SUBSET Content,
         at = "writingMirror" => content \in network',
         sdk' \in [Process -> {"untried", "live", "failed"}],
         \A p \in Process : sdk'[p] = "live" => configured /\ requestedMode # "local",
         requestedMode = "local" \/ sdk'["driver"] # "untried",
         FilesLeft,
         mapping' \in [Content -> BOOLEAN], \A c \in Content : mapping'[c] => mapping[c],
         UNCHANGED <<configVars, route, uploads, boundVars>>
  PROVE  StorageInv'
  <1>1. StorageTypeOK'
    BY DEF StorageInv, StorageTypeOK, FilesLeft, configVars, boundVars
  <1>2. SentFirst'
    BY DEF StorageInv, SentFirst, configVars
  <1>3. WhereItIs'
    BY DEF StorageInv, WhereItIs, configVars, Uploading, Demonstrating
  <1>4. TamperingShows'
    BY DEF TamperingShows
  <1>5. MirrorKept'
    BY DEF StorageInv, MirrorKept, FilesLeft
  <1> QED BY <1>1, <1>2, <1>3, <1>4, <1>5 DEF StorageInv

(* An upload that starts finds the files as they were. *)
LEMMA StartUploadKeeps ==
  ASSUME StorageInv, NEW content \in Content, StartUpload(content)
  PROVE  StorageInv'
  <1>1. PICK live \in {"live", "none", "throws"} :
          /\ GetLive("driver", live)
          /\ job' = IF live = "throws" THEN Idle
                    ELSE [job EXCEPT !.at = IF live = "live" THEN "sending" ELSE "writingLocal",
                                     !.content = content]
    BY DEF StartUpload
  <1>2. /\ job.at = "ready" /\ (job.demo => content = Original /\ job.verdicts = <<>>)
        /\ UNCHANGED <<configVars, network, mirror, mapping, route, uploads, hurt, boundVars>>
    BY DEF StartUpload
  <1>6. /\ FilesLeft
        /\ mapping' \in [Content -> BOOLEAN] /\ \A c \in Content : mapping'[c] => mapping[c]
        /\ jobs' = jobs /\ crashes' \in Nat
    BY <1>2, FilesUntouched DEF StorageInv, StorageTypeOK, Demonstrating, boundVars
  <1>3. /\ sdk' \in [Process -> {"untried", "live", "failed"}]
        /\ \A q \in Process : sdk'[q] = "live" => configured /\ requestedMode # "local"
        /\ requestedMode = "local" \/ sdk'["driver"] # "untried"
    BY <1>1, <1>2, Tried DEF StorageInv, Process
  <1>4. CASE live = "throws"
    BY <1>1, <1>2, <1>3, <1>4, <1>6, OverKeeps
  <1>5. CASE live # "throws"
    <2> DEFINE at == IF live = "live" THEN "sending" ELSE "writingLocal"
               j == [job EXCEPT !.at = at, !.content = content]
    <2>1. at \in Uploading /\ at \notin {"writingMirror", "writingMapping"}
      BY DEF Uploading
    <2> HIDE DEF at
    <2>2. /\ job \in Active /\ job.verdicts \in Seq(Verification) /\ job.verdicts = <<>>
      BY <1>2, JobIsActive DEF StorageInv, WhereItIs
    <2>3. j \in Active /\ j.at = at /\ j.content = content
            /\ j.demo = job.demo /\ j.verdicts = job.verdicts
      BY <2>1, <2>2 DEF Active
    <2>4. job' = j
      BY <1>1, <1>5 DEF at
    <2>5. network' \in SUBSET Content /\ network \subseteq network'
      BY <1>2 DEF StorageInv, StorageTypeOK
    <2> HIDE DEF j
    <2> QED BY <1>2, <1>3, <1>6, <2>1, <2>2, <2>3, <2>4, <2>5, UploadMoves
  <1> QED BY <1>4, <1>5

(* An upload that failed falls back to the local directory, or ends. *)
LEMMA UploadFailsKeeps ==
  ASSUME StorageInv, UploadFails
  PROVE  StorageInv'
  <1>1. /\ job.at \in Uploading
        /\ job' = IF requestedMode = "live" \/ job.at = "writingLocal" THEN Idle
                  ELSE [job EXCEPT !.at = "writingLocal"]
        /\ UNCHANGED <<configVars, sdk, network, route, uploads, boundVars>>
    BY DEF UploadFails, Uploading
  <1>2. /\ sdk' \in [Process -> {"untried", "live", "failed"}]
        /\ \A q \in Process : sdk'[q] = "live" => configured /\ requestedMode # "local"
        /\ requestedMode = "local" \/ sdk'["driver"] # "untried"
        /\ network' \in SUBSET Content /\ network \subseteq network'
    BY <1>1 DEF StorageInv, StorageTypeOK, SentFirst, WhereItIs
  <1>3. job.at # "idle" /\ job.verdicts = <<>>
    BY <1>1 DEF StorageInv, WhereItIs, Uploading
  <1>6. /\ FilesLeft
        /\ mapping' \in [Content -> BOOLEAN] /\ \A c \in Content : mapping'[c] => mapping[c]
    <2>1. job.content \in Content /\ mapping \in [Content -> BOOLEAN]
      BY <1>3, JobIsActive DEF StorageInv, StorageTypeOK
    <2>2. job.at \notin Demonstrating
      BY <1>1 DEF Uploading, Demonstrating
    <2>3. FilesLeft
      BY <1>3, <2>2, FilesUntouched, LeftCutShort DEF UploadFails
    <2>4. mapping' = mapping \/ mapping' = [mapping EXCEPT ![job.content] = FALSE]
      BY DEF UploadFails
    <2> QED BY <2>1, <2>3, <2>4
  <1>7. jobs' = jobs /\ crashes' \in Nat
    BY <1>1 DEF StorageInv, StorageTypeOK, boundVars
  <1>4. CASE job' = Idle
    BY <1>1, <1>2, <1>4, <1>6, <1>7, OverKeeps
  <1>5. CASE job' = [job EXCEPT !.at = "writingLocal"]
    <2> DEFINE j == [job EXCEPT !.at = "writingLocal"]
    <2>1. "writingLocal" \in Uploading
      BY DEF Uploading
    <2>2. job \in Active /\ job.content \in Content /\ job.verdicts \in Seq(Verification)
      BY <1>3, JobIsActive DEF StorageInv
    <2>3. j \in Active /\ j.at = "writingLocal" /\ j.content = job.content
            /\ j.demo = job.demo /\ j.verdicts = job.verdicts
      BY <2>1, <2>2, JobAt
    <2>4. job.demo => job.content = Original
      BY <1>3 DEF StorageInv, WhereItIs
    <2> HIDE DEF j
    <2> QED BY <1>1, <1>2, <1>3, <1>5, <1>6, <2>1, <2>2, <2>3, <2>4, UploadMoves DEF j
  <1> QED BY <1>1, <1>4, <1>5

(* What is sent is on the network from then on. *)
LEMMA SendKeeps ==
  ASSUME StorageInv, Send
  PROVE  StorageInv'
  <1> DEFINE j == [job EXCEPT !.at = "writingMirror"]
  <1>1. /\ job.at = "sending" /\ job.at \in Uploading
        /\ network' = network \cup {job.content}
        /\ job' = j
        /\ UNCHANGED <<configVars, sdk, mirror, mapping, route, uploads, hurt, boundVars>>
    BY DEF Send, Uploading
  <1>2. job \in Active /\ job.content \in Content /\ job.verdicts \in Seq(Verification)
    BY <1>1, JobIsActive DEF StorageInv
  <1>3. /\ sdk' \in [Process -> {"untried", "live", "failed"}]
        /\ \A q \in Process : sdk'[q] = "live" => configured /\ requestedMode # "local"
        /\ requestedMode = "local" \/ sdk'["driver"] # "untried"
        /\ network' \in SUBSET Content /\ network \subseteq network' /\ job.content \in network'
    BY <1>1, <1>2 DEF StorageInv, StorageTypeOK, SentFirst, WhereItIs
  <1>4. "writingMirror" \in Uploading
    BY DEF Uploading
  <1>5. j \in Active /\ j.at = "writingMirror" /\ j.content = job.content
          /\ j.demo = job.demo /\ j.verdicts = job.verdicts
    BY <1>2, <1>4, JobAt
  <1>6. job.verdicts = <<>> /\ (job.demo => job.content = Original)
    BY <1>1 DEF StorageInv, WhereItIs
  <1>7. /\ FilesLeft
        /\ mapping' \in [Content -> BOOLEAN] /\ \A c \in Content : mapping'[c] => mapping[c]
    BY <1>1, FilesUntouched DEF StorageInv, StorageTypeOK, Demonstrating
  <1> HIDE DEF j
  <1> QED BY <1>1, <1>2, <1>3, <1>4, <1>5, <1>6, <1>7, UploadMoves
(***************************************************************************)
(* Writing the whole content to the mirror gives back what was altered or  *)
(* torn before.                                                            *)
(***************************************************************************)
LEMMA MirrorWritten ==
  ASSUME StorageInv, job.at \in Uploading,
         mirror' = [mirror EXCEPT ![job.content] = job.content]
  PROVE  /\ job.content \in Content
         /\ mirror' \in [Content -> FileContent]
         /\ mirror'[job.content] = job.content
         /\ \A c \in Content : c # job.content => mirror'[c] = mirror[c]
         /\ \A c \in Content : mirror[c] # Absent => mirror'[c] # Absent
         /\ \A c \in Content : mirror[c] = c => mirror'[c] = c
  <1>1. job.content \in Content
    BY JobIsActive DEF StorageInv, Uploading
  <1> QED BY <1>1, FilesDiffer DEF StorageInv, StorageTypeOK, FileContent

(* The mirror of what was sent holds what was sent. *)
LEMMA WriteLocalMirrorKeeps ==
  ASSUME StorageInv, WriteLocalMirror
  PROVE  StorageInv'
  <1> DEFINE j == [job EXCEPT !.at = "writingMapping"]
  <1>1. /\ job.at = "writingMirror" /\ job.at \in Uploading
        /\ mirror' = [mirror EXCEPT ![job.content] = job.content]
        /\ job' = j
        /\ UNCHANGED <<configVars, sdk, network, mapping, route, uploads, hurt, boundVars>>
    BY DEF WriteLocalMirror, Uploading
  <1>2. job \in Active /\ job.content \in Content /\ job.verdicts = <<>>
          /\ (job.demo => job.content = Original)
          /\ (requestedMode = "local" \/ sdk["driver"] # "untried")
    BY <1>1, JobIsActive DEF StorageInv, WhereItIs
  <1>3. "writingMapping" \in Uploading
    BY DEF Uploading
  <1>4. j \in Active /\ j.at = "writingMapping" /\ j.content = job.content
          /\ j.demo = job.demo /\ j.verdicts = job.verdicts
    BY <1>2, <1>3, JobAt
  <1> HIDE DEF j
  <1>5. /\ mirror' \in [Content -> FileContent]
        /\ mirror'[job.content] = job.content
        /\ \A c \in Content : mirror[c] # Absent => mirror'[c] # Absent
        /\ \A c \in Content : mirror[c] = c => mirror'[c] = c
    BY <1>1, MirrorWritten
  <1>6. StorageTypeOK'
    BY <1>1, <1>4, <1>5 DEF StorageInv, StorageTypeOK, configVars, boundVars
  <1>7. SentFirst'
    BY <1>1, <1>4 DEF StorageInv, SentFirst, configVars
  <1>8. WhereItIs'
    BY <1>1, <1>2, <1>4, <1>5 DEF WhereItIs, configVars, Uploading, Demonstrating
  <1>9. TamperingShows'
    BY <1>1, <1>2, <1>4 DEF TamperingShows
  <1>10. MirrorKept'
    BY <1>1, <1>5 DEF StorageInv, MirrorKept, Overwritten
  <1> QED BY <1>6, <1>7, <1>8, <1>9, <1>10 DEF StorageInv

(***************************************************************************)
(* An upload that returns left the content in the mirror, and in the       *)
(* network if it says so.                                                  *)
(***************************************************************************)
LEMMA ReturnKeeps ==
  ASSUME StorageInv, job.at \in Uploading, NEW label \in Label, Returns(label),
         label = LIVE => job.content \in network,
         mirror' \in [Content -> FileContent],
         mirror'[job.content] = job.content,
         \A c \in Content : mirror[c] # Absent => mirror'[c] # Absent,
         \A c \in Content : mirror[c] = c => mirror'[c] = c,
         mapping' \in [Content -> BOOLEAN],
         \A c \in Content : mapping'[c] => mapping[c] \/ (c = job.content /\ label = LIVE),
         UNCHANGED <<configVars, sdk, network, route, boundVars>>
  PROVE  StorageInv'
  <1> DEFINE at == IF job.demo THEN "verifying" ELSE "ready"
             j == [job EXCEPT !.at = at]
  <1>1. /\ uploads' = [uploads EXCEPT ![job.content] = @ \cup {label}] /\ job' = j
        /\ hurt' = hurt \ {job.content}
    BY DEF Returns
  <1>2. /\ job \in Active /\ job.content \in Content /\ job.verdicts = <<>> /\ job.demo \in BOOLEAN
        /\ (job.demo => job.content = Original)
        /\ (requestedMode = "local" \/ sdk["driver"] # "untried")
    BY JobIsActive DEF StorageInv, WhereItIs, Uploading
  <1>3. /\ at \in {"ready"} \cup Uploading \cup Demonstrating
        /\ (at = "verifying" /\ job.demo) \/ (at = "ready" /\ ~job.demo)
    BY DEF Demonstrating
  <1> HIDE DEF at
  <1>4. j \in Active /\ j.at = at /\ j.content = job.content
          /\ j.demo = job.demo /\ j.verdicts = job.verdicts
    BY <1>2, <1>3, JobAt
  <1> HIDE DEF j
  <1>5. /\ uploads' \in [Content -> SUBSET Label]
        /\ uploads'[job.content] # {}
        /\ \A c \in Content : c # job.content => uploads'[c] = uploads[c]
        /\ \A c \in Content : LIVE \in uploads'[c] => LIVE \in uploads[c] \/ c \in network
    BY <1>1, <1>2 DEF StorageInv, StorageTypeOK
  <1>6. StorageTypeOK'
    BY <1>1, <1>4, <1>5 DEF StorageInv, StorageTypeOK, configVars, boundVars
  <1>7. SentFirst'
    BY <1>1, <1>3, <1>4, <1>5 DEF StorageInv, SentFirst, configVars
  <1>8. Len(job.verdicts) = 0 /\ Len(job'.verdicts) = 0
    BY <1>1, <1>2, <1>4
  <1>9. WhereItIs'
    BY <1>1, <1>2, <1>3, <1>4, <1>5, <1>8 DEF WhereItIs, configVars, Uploading, Demonstrating
  <1>10. TamperingShows'
    BY <1>1, <1>2, <1>4 DEF TamperingShows
  <1>11. MirrorKept'
    <2> SUFFICES ASSUME NEW c \in Content, uploads'[c] # {}
                 PROVE  mirror'[c] # Absent /\ (mirror'[c] = c \/ c \in hurt')
      BY DEF MirrorKept
    <2>1. CASE c = job.content
      BY <1>2, <2>1, FilesDiffer
    <2>2. CASE c # job.content
      <3>1. ~Overwritten
        BY DEF Overwritten, Uploading
      <3> QED BY <1>1, <1>5, <2>2, <3>1 DEF StorageInv, MirrorKept
    <2> QED BY <2>1, <2>2
  <1> QED BY <1>6, <1>7, <1>9, <1>10, <1>11 DEF StorageInv

(* A mapping is written for what was sent and mirrored. *)
LEMMA WriteLiveMappingKeeps ==
  ASSUME StorageInv, WriteLiveMapping
  PROVE  StorageInv'
  <1>1. /\ job.at = "writingMapping" /\ job.at \in Uploading
        /\ mapping' = [mapping EXCEPT ![job.content] = TRUE]
        /\ Returns(LIVE)
        /\ UNCHANGED <<configVars, sdk, network, mirror, route, boundVars>>
    BY DEF WriteLiveMapping, Uploading
  <1>2. job.content \in network /\ mirror[job.content] = job.content /\ LIVE \in Label
    BY <1>1 DEF StorageInv, SentFirst, WhereItIs, Label
  <1>3. mirror' \in [Content -> FileContent] /\ mapping' \in [Content -> BOOLEAN]
          /\ \A c \in Content : mapping'[c] => mapping[c] \/ c = job.content
    BY <1>1 DEF StorageInv, StorageTypeOK
  <1> QED BY <1>1, <1>2, <1>3, ReturnKeeps

(* A local upload is labelled as what it is. *)
LEMMA UploadLocalKeeps ==
  ASSUME StorageInv, UploadLocal
  PROVE  StorageInv'
  <1>1. /\ job.at = "writingLocal" /\ job.at \in Uploading
        /\ mirror' = [mirror EXCEPT ![job.content] = job.content]
        /\ Returns(LOCAL_DEMO)
        /\ UNCHANGED <<configVars, sdk, network, mapping, route, boundVars>>
    BY DEF UploadLocal, MirroredBytes, Uploading
  <1>2. /\ mirror' \in [Content -> FileContent]
        /\ mirror'[job.content] = job.content
        /\ \A c \in Content : mirror[c] # Absent => mirror'[c] # Absent
        /\ \A c \in Content : mirror[c] = c => mirror'[c] = c
    BY <1>1, MirrorWritten
  <1>3. LOCAL_DEMO \in Label /\ LOCAL_DEMO # LIVE /\ mapping' \in [Content -> BOOLEAN]
    BY <1>1, FilesDiffer DEF Label, StorageInv, StorageTypeOK
  <1> QED BY <1>1, <1>2, <1>3, ReturnKeeps
(***************************************************************************)
(* A verification of the demo has an answer: the right one before and      *)
(* after, the wrong one in between unless the network gave it.             *)
(***************************************************************************)
LEMMA DemoVerifiesKeeps ==
  ASSUME StorageInv, DemoVerifies
  PROVE  StorageInv'
  <1> USE FilesDiffer
  <1>1. PICK result \in Results("driver", Original) :
          /\ Download("driver", Original, result)
          /\ \/ result.mode = "error" /\ job' = Idle /\ LeavesFiles
             \/ /\ result.mode # "error"
                /\ job' = [job EXCEPT
                             !.at = IF Len(job.verdicts) = 2 THEN "ready" ELSE "writing",
                             !.verdicts = Append(@, [ok |-> VerifyIntegrity(Original, result.bytes),
                                                     mode |-> result.mode])]
                /\ UNCHANGED <<mirror, hurt>>
    BY DEF DemoVerifies
  <1>2. /\ job.at = "verifying"
        /\ UNCHANGED <<configVars, network, mapping, route, uploads, boundVars>>
    BY DEF DemoVerifies
  <1>3. /\ job \in Active /\ job.verdicts \in Seq(Verification) /\ job.demo
        /\ uploads[Original] # {} /\ job.content = Original
        /\ requestedMode = "local" \/ sdk["driver"] # "untried"
        /\ \/ Len(job.verdicts) \in {0, 2} /\ mirror[Original] = Original
           \/ Len(job.verdicts) = 1 /\ mirror[Original] = Altered
        /\ mirror[Original] # Absent
    BY <1>2, JobIsActive DEF StorageInv, WhereItIs, Demonstrating
  <1>4. /\ sdk' \in [Process -> {"untried", "live", "failed"}]
        /\ \A q \in Process : sdk'[q] = "live" => configured /\ requestedMode # "local"
        /\ requestedMode = "local" \/ sdk'["driver"] # "untried"
        /\ \/ result.mode = LIVE /\ result.bytes = Original
           \/ result.mode = LOCAL_DEMO /\ result.bytes = mirror[Original]
           \/ result.mode = "error"
    BY <1>1, <1>2, <1>3, Downloaded DEF StorageInv, Process
  <1>17. CASE result.mode = "error"
    <2>1. job' = Idle /\ FilesLeft
      BY <1>1, <1>17, LeftAsTheyAre
    <2>2. jobs' = jobs /\ crashes' \in Nat /\ mapping' \in [Content -> BOOLEAN]
            /\ \A c \in Content : mapping'[c] => mapping[c]
      BY <1>2 DEF StorageInv, StorageTypeOK, boundVars
    <2> QED BY <1>2, <1>4, <2>1, <2>2, OverKeeps
  <1> SUFFICES ASSUME result.mode # "error" PROVE StorageInv'
    BY <1>17
  <1>5. result.mode # "error" /\ UNCHANGED <<mirror, hurt>> /\ result.mode \in Label
    BY <1>1, <1>4 DEF Label
  <1> DEFINE n == Len(job.verdicts)
             at == IF Len(job.verdicts) = 2 THEN "ready" ELSE "writing"
             verdict == [ok |-> result.bytes = Original, mode |-> result.mode]
             verdicts == Append(job.verdicts, verdict)
             j == [job EXCEPT !.at = at, !.verdicts = verdicts]
  <1>6. job' = j
    BY <1>1, <1>3, <1>5 DEF VerifyIntegrity, Active
  <1>7. verdict \in Verification /\ verdict.mode = result.mode
          /\ (verdict.ok <=> result.bytes = Original)
    BY <1>5 DEF Verification
  <1>8. at \in {"ready", "writing"} /\ (at = "ready" <=> n = 2)
    OBVIOUS
  <1> HIDE DEF at, verdict
  <1>9. verdicts \in Seq(Verification) /\ Len(verdicts) = n + 1
          /\ verdicts[n + 1] = verdict
          /\ \A i \in 1..n : verdicts[i] = job.verdicts[i]
    BY <1>3, <1>7
  <1> HIDE DEF verdicts
  <1>10. /\ n \in {0, 1, 2} /\ DOMAIN job.verdicts = 1..n
         /\ n \in {0, 2} => mirror[Original] = Original
         /\ n = 1 => mirror[Original] = Altered
    <2>1. DOMAIN job.verdicts = 1..n
      BY <1>3
    <2>2. \/ n \in {0, 2} /\ mirror[Original] = Original
          \/ n = 1 /\ mirror[Original] = Altered
      BY <1>3
    <2> HIDE DEF n
    <2> QED BY <2>1, <2>2
  <1> HIDE DEF n
  <1>11. j \in Active /\ j.at = at /\ j.demo /\ j.content = Original /\ j.verdicts = verdicts
    BY <1>3, <1>8, <1>9 DEF Active, Demonstrating
  <1> HIDE DEF j
  <1>12. StorageTypeOK'
    BY <1>2, <1>4, <1>5, <1>6, <1>11 DEF StorageInv, StorageTypeOK, configVars, boundVars
  <1>13. SentFirst'
    BY <1>2, <1>4, <1>6, <1>8, <1>11 DEF StorageInv, SentFirst, configVars
  <1>14. WhereItIs'
    <2>2. /\ at = "ready" => Len(verdicts) = 3
          /\ at = "writing" => Len(verdicts) \in {1, 2}
      BY <1>8, <1>9, <1>10
    <2> QED
      BY <1>2, <1>3, <1>4, <1>5, <1>6, <1>8, <1>11, <2>2 DEF WhereItIs, configVars, Uploading, Demonstrating
  <1>15. TamperingShows'
    <2> SUFFICES ASSUME NEW i \in 1..Len(verdicts)
                 PROVE  IF i = 2 THEN verdicts[i].ok <=> verdicts[i].mode = LIVE ELSE verdicts[i].ok
      BY <1>6, <1>9, <1>11 DEF TamperingShows
    <2>1. CASE i = n + 1
      <3>1. verdicts[i] = verdict
        BY <1>9, <2>1
      <3>2. CASE i = 2
        <4>1. mirror[Original] = Altered
          BY <1>10, <2>1, <3>2
        <4> QED BY <1>4, <1>5, <1>7, <3>1, <3>2, <4>1
      <3>3. CASE i # 2
        <4>1. mirror[Original] = Original
          BY <1>10, <2>1, <3>3
        <4> QED BY <1>4, <1>5, <1>7, <3>1, <3>3, <4>1
      <3> QED BY <3>2, <3>3
    <2>2. CASE i # n + 1
      <3>1. i \in 1..n /\ verdicts[i] = job.verdicts[i]
        BY <1>9, <1>10, <2>2
      <3>2. job # Idle
        BY <1>3, IdleIsIdle
      <3> QED BY <1>10, <3>1, <3>2 DEF StorageInv, TamperingShows
    <2> QED BY <2>1, <2>2
  <1>16. MirrorKept'
    <2> SUFFICES ASSUME NEW c \in Content, uploads[c] # {}
                 PROVE  /\ mirror[c] # Absent
                        /\ mirror[c] = c \/ c \in hurt \/ (c = Original /\ Overwritten')
      BY <1>2, <1>5 DEF MirrorKept
    <2>1. CASE c = Original
      <3>1. CASE n \in {0, 2}
        BY <1>3, <1>10, <2>1, <3>1
      <3>2. CASE n = 1
        <4>1. job'.at = "writing" /\ Len(job'.verdicts) = 2
          BY <1>6, <1>8, <1>9, <1>11, <3>2
        <4> QED BY <1>3, <2>1, <4>1 DEF Overwritten
      <3> QED BY <1>10, <3>1, <3>2
    <2>2. CASE c # Original
      BY <2>2 DEF StorageInv, MirrorKept
    <2> QED BY <2>1, <2>2
  <1> QED BY <1>12, <1>13, <1>14, <1>15, <1>16 DEF StorageInv

(***************************************************************************)
(* The demo alters the original's file, and then puts it back.             *)
(***************************************************************************)
LEMMA DemoWritesKeeps ==
  ASSUME StorageInv, DemoWrites
  PROVE  StorageInv'
  <1> USE FilesDiffer
  <1> DEFINE bytes == IF Len(job.verdicts) = 1 THEN Altered ELSE Original
             j == [job EXCEPT !.at = "verifying"]
  <1>1. /\ job.at = "writing"
        /\ mirror' = [mirror EXCEPT ![Original] = bytes]
        /\ job' = j
        /\ UNCHANGED <<configVars, sdk, network, mapping, route, uploads, hurt, boundVars>>
    BY DEF DemoWrites, PutBack
  <1>2. /\ job \in Active /\ job.demo /\ job.content = Original
        /\ uploads[Original] # {}
        /\ requestedMode = "local" \/ sdk["driver"] # "untried"
        /\ Len(job.verdicts) \in {1, 2}
    BY <1>1, JobIsActive DEF StorageInv, WhereItIs, Demonstrating
  <1>3. bytes \in {Altered, Original}
          /\ (Len(job.verdicts) = 1 => bytes = Altered)
          /\ (Len(job.verdicts) = 2 => bytes = Original)
    OBVIOUS
  <1> HIDE DEF bytes
  <1>4. /\ mirror' \in [Content -> FileContent]
        /\ mirror'[Original] = bytes
        /\ \A c \in Content : c # Original => mirror'[c] = mirror[c]
    BY <1>1, <1>3 DEF StorageInv, StorageTypeOK, FileContent
  <1>5. "verifying" \in Demonstrating
    BY DEF Demonstrating
  <1>6. j \in Active /\ j.at = "verifying" /\ j.demo = job.demo /\ j.content = job.content
          /\ j.verdicts = job.verdicts
    BY <1>2, <1>5, JobAt
  <1> HIDE DEF j
  <1>7. job # Idle /\ job' # Idle
    BY <1>1, <1>2, <1>6, IdleIsIdle
  <1>8. StorageTypeOK'
    BY <1>1, <1>4, <1>6 DEF StorageInv, StorageTypeOK, configVars, boundVars
  <1>9. SentFirst'
    BY <1>1, <1>6 DEF StorageInv, SentFirst, configVars
  <1>10. WhereItIs'
    BY <1>1, <1>2, <1>3, <1>4, <1>6 DEF WhereItIs, configVars, Uploading, Demonstrating
  <1>11. TamperingShows'
    BY <1>1, <1>6, <1>7 DEF StorageInv, TamperingShows
  <1>12. MirrorKept'
    <2> SUFFICES ASSUME NEW c \in Content, uploads[c] # {}
                 PROVE  /\ mirror'[c] # Absent
                        /\ mirror'[c] = c \/ c \in hurt \/ (c = Original /\ Overwritten')
      BY <1>1 DEF MirrorKept
    <2>1. CASE c = Original
      BY <1>1, <1>2, <1>3, <1>4, <1>6, <2>1 DEF Overwritten
    <2>2. CASE c # Original
      BY <1>4, <2>2 DEF StorageInv, MirrorKept
    <2> QED BY <2>1, <2>2
  <1> QED BY <1>8, <1>9, <1>10, <1>11, <1>12 DEF StorageInv

(* A write of the demo that fails ends it. *)
LEMMA DemoWriteFailsKeeps ==
  ASSUME StorageInv, DemoWriteFails
  PROVE  StorageInv'
  <1>1. /\ job.at = "writing" /\ CutShort /\ job' = Idle
        /\ UNCHANGED <<configVars, sdk, network, mapping, route, uploads, boundVars>>
    BY DEF DemoWriteFails
  <1>2. FilesLeft
    BY <1>1, LeftCutShort
  <1>3. /\ sdk' \in [Process -> {"untried", "live", "failed"}]
        /\ \A q \in Process : sdk'[q] = "live" => configured /\ requestedMode # "local"
        /\ mapping' \in [Content -> BOOLEAN] /\ \A c \in Content : mapping'[c] => mapping[c]
        /\ jobs' = jobs /\ crashes' \in Nat
    BY <1>1 DEF StorageInv, StorageTypeOK, SentFirst, boundVars
  <1> QED BY <1>1, <1>2, <1>3, OverKeeps

(* A driver that ends leaves the files. *)
LEMMA EndKeeps ==
  ASSUME StorageInv, End
  PROVE  StorageInv'
  <1>1. /\ job.at = "ready" /\ job' = Idle
        /\ UNCHANGED <<configVars, sdk, network, mirror, mapping, route, uploads, hurt, boundVars>>
    BY DEF End
  <1>2. FilesLeft
    BY <1>1, FilesUntouched DEF Demonstrating
  <1>3. /\ sdk' \in [Process -> {"untried", "live", "failed"}]
        /\ \A q \in Process : sdk'[q] = "live" => configured /\ requestedMode # "local"
        /\ mapping' \in [Content -> BOOLEAN] /\ \A c \in Content : mapping'[c] => mapping[c]
        /\ jobs' = jobs /\ crashes' \in Nat
    BY <1>1 DEF StorageInv, StorageTypeOK, SentFirst, boundVars
  <1> QED BY <1>1, <1>2, <1>3, OverKeeps

(***************************************************************************)
(* A crash may leave a file torn, never without any content.               *)
(***************************************************************************)
LEMMA CrashKeeps ==
  ASSUME StorageInv, Crash
  PROVE  StorageInv'
  <1>1. /\ job # Idle /\ job' = Idle /\ crashes' = crashes + 1 /\ jobs' = jobs
        /\ UNCHANGED <<configVars, sdk, network, route, uploads>>
        /\ \/ LeavesFiles
           \/ job.at \in {"writingMirror", "writingLocal", "writing"} /\ CutShort
        /\ mapping' = mapping \/ mapping' = [mapping EXCEPT ![job.content] = FALSE]
    BY DEF Crash
  <1>2. job.content \in Content
    BY <1>1 DEF StorageInv, StorageTypeOK, Active
  <1>3. FilesLeft
    BY <1>1, LeftAsTheyAre, LeftCutShort
  <1>4. mapping' \in [Content -> BOOLEAN] /\ \A c \in Content : mapping'[c] => mapping[c]
    BY <1>1, <1>2 DEF StorageInv, StorageTypeOK
  <1>5. /\ sdk' \in [Process -> {"untried", "live", "failed"}] /\ crashes' \in Nat
        /\ \A q \in Process : sdk'[q] = "live" => configured /\ requestedMode # "local"
    BY <1>1 DEF StorageInv, StorageTypeOK, SentFirst
  <1> QED BY <1>1, <1>3, <1>4, <1>5, OverKeeps

(***************************************************************************)
(* The indexer only reads.                                                 *)
(***************************************************************************)
LEMMA ReaderKeeps ==
  ASSUME StorageInv,
         sdk' \in [Process -> {"untried", "live", "failed"}],
         sdk'["driver"] = sdk["driver"],
         \A q \in Process : sdk'[q] = "live" => configured /\ requestedMode # "local",
         route'.at \in {"downloaded", "answered"} /\ route'.mode = LIVE =>
           route'.text = route'.hash /\ configured /\ requestedMode # "local",
         UNCHANGED <<configVars, network, mirror, mapping, job, uploads, hurt, boundVars>>
  PROVE  StorageInv'
  <1>1. StorageTypeOK'
    BY DEF StorageInv, StorageTypeOK, configVars, boundVars
  <1>2. SentFirst'
    BY DEF StorageInv, SentFirst, configVars
  <1>3. WhereItIs'
    BY DEF StorageInv, WhereItIs, configVars
  <1>4. TamperingShows' /\ MirrorKept'
    BY DEF StorageInv, TamperingShows, MirrorKept, Overwritten
  <1> QED BY <1>1, <1>2, <1>3, <1>4 DEF StorageInv
(***************************************************************************)
(* Every step of the driver, the indexer and the disk keeps the invariant. *)
(***************************************************************************)
LEMMA StorageStep == StorageInv /\ [StorageNext]_storageVars => StorageInv'
  <1> SUFFICES ASSUME StorageInv, [StorageNext]_storageVars PROVE StorageInv'
    OBVIOUS
  <1>1. ASSUME NEW demo \in BOOLEAN, Begin(demo) PROVE StorageInv'
    BY <1>1, BeginKeeps
  <1>2. ASSUME NEW c \in Content, StartUpload(c) PROVE StorageInv'
    BY <1>2, StartUploadKeeps
  <1>3. ASSUME NEW c \in Content, GetContent(c) PROVE StorageInv'
    <2>1. PICK result \in Results("indexer", c) :
            /\ Download("indexer", c, result)
            /\ route' = IF result.mode = "error" THEN [at |-> "notFound", hash |-> c]
                        ELSE [at |-> "downloaded", hash |-> c, text |-> result.bytes,
                              mode |-> result.mode]
      BY <1>3 DEF GetContent
    <2>2. UNCHANGED <<configVars, network, mirror, mapping, job, uploads, hurt, boundVars>>
      BY <1>3 DEF GetContent
    <2>3. /\ sdk' \in [Process -> {"untried", "live", "failed"}]
          /\ sdk'["driver"] = sdk["driver"]
          /\ \A q \in Process : sdk'[q] = "live" => configured /\ requestedMode # "local"
          /\ result.mode = LIVE => result.bytes = c /\ configured /\ requestedMode # "local"
      BY <2>1, <2>2, Downloaded, FilesDiffer DEF StorageInv, Process, LIVE
    <2>4. route'.at \in {"downloaded", "answered"} /\ route'.mode = LIVE =>
            route'.text = route'.hash /\ configured /\ requestedMode # "local"
      BY <2>1, <2>3
    <2> QED BY <2>2, <2>3, <2>4, ReaderKeeps
  <1>4. CASE VerifyContent
    <2>1. PICK result \in Results("indexer", route.hash) :
            /\ Download("indexer", route.hash, result)
            /\ route' =
                 IF result.mode = "error" THEN [at |-> "notFound", hash |-> route.hash]
                 ELSE [at |-> "answered", hash |-> route.hash, text |-> route.text,
                       mode |-> route.mode,
                       verified |-> VerifyIntegrity(route.hash, result.bytes)]
      BY <1>4 DEF VerifyContent
    <2>2. /\ route.at = "downloaded"
          /\ UNCHANGED <<configVars, network, mirror, mapping, job, uploads, hurt, boundVars>>
      BY <1>4 DEF VerifyContent
    <2>3. /\ sdk' \in [Process -> {"untried", "live", "failed"}]
          /\ sdk'["driver"] = sdk["driver"]
          /\ \A q \in Process : sdk'[q] = "live" => configured /\ requestedMode # "local"
      BY <2>1, <2>2, Downloaded DEF StorageInv, Process
    <2>4. route'.at \in {"downloaded", "answered"} /\ route'.mode = LIVE =>
            route'.text = route'.hash /\ configured /\ requestedMode # "local"
      BY <2>1, <2>2 DEF StorageInv, SentFirst
    <2> QED BY <2>2, <2>3, <2>4, ReaderKeeps
  <1>5. CASE UNCHANGED storageVars
    <2>1. SentFirst' /\ WhereItIs' /\ TamperingShows' /\ MirrorKept'
      BY <1>5 DEF storageVars, configVars, boundVars, StorageInv, SentFirst, WhereItIs, TamperingShows,
         MirrorKept, Overwritten
    <2> QED BY <1>5, <2>1 DEF storageVars, configVars, boundVars, StorageInv, StorageTypeOK
  <1>6. CASE UploadFails \/ Send \/ WriteLocalMirror \/ WriteLiveMapping \/ UploadLocal
    BY <1>6, UploadFailsKeeps, SendKeeps, WriteLocalMirrorKeeps, WriteLiveMappingKeeps,
       UploadLocalKeeps
  <1>7. CASE DemoVerifies \/ DemoWrites \/ DemoWriteFails \/ End \/ Crash
    BY <1>7, DemoVerifiesKeeps, DemoWritesKeeps, DemoWriteFailsKeeps, EndKeeps, CrashKeeps
  <1> QED BY <1>1, <1>2, <1>3, <1>4, <1>5, <1>6, <1>7 DEF StorageNext

(* The storage invariant holds in every state. *)
LEMMA StorageAlways == OffChainSpec => []StorageInv
  <1>1. OffChainInit => StorageInit
    BY DEF OffChainInit
  <1> QED BY <1>1, OnePartMoves, StorageStart, StorageStep, PTL DEF OffChainSpec

(***************************************************************************)
(* Nothing is labelled 0G_STORAGE_LIVE unless the bytes went through the   *)
(* network, which keeps them; and what is served under that label is what  *)
(* was asked for, whatever became of the files in the mirror.              *)
(***************************************************************************)
THEOREM LabelledLiveIsLive == OffChainSpec => []LiveMeansLive
  <1>1. StorageInv => LiveMeansLive
    BY DEF StorageInv, SentFirst, LiveMeansLive
  <1> QED BY <1>1, StorageAlways, PTL

(***************************************************************************)
(* The tamper demo never shows the wrong thing: its first and third        *)
(* verification pass, and the second fails unless the network answered it. *)
(***************************************************************************)
THEOREM TamperingAlwaysShows == OffChainSpec => []TamperingShows
  <1>1. StorageInv => TamperingShows
    BY DEF StorageInv
  <1> QED BY <1>1, StorageAlways, PTL

(***************************************************************************)
(* What an upload returned for stays in the mirror, and is itself unless a *)
(* write of its file was cut short, by an error or a crash, or the demo    *)
(* ended between its two writes since an upload of it last returned, or    *)
(* the demo is between them.                                               *)
(***************************************************************************)
THEOREM MirrorIsKept == OffChainSpec => []MirrorKept
  <1>1. StorageInv => MirrorKept
    BY DEF StorageInv
  <1> QED BY <1>1, StorageAlways, PTL
-----------------------------------------------------------------------------
(***************************************************************************)
(* The record of the past: types, and scores strictly between certainties. *)
(***************************************************************************)
Score == {s \in [num : Nat, den : Nat] : 0 < s.num /\ s.num < s.den}

EntryType == {"Superseded", "AppealFiled", "AppealResolved", "Resolved"}

Entry == [seq : Nat, at : Nat, type : EntryType]

Decision == {"TRUE", "FALSE", "CONTESTED", NoVerdict}

HistoryTypeOK ==
  /\ time \in Nat
  /\ log \in Seq(Entry)
  /\ validTime \in [from : Nat, until : Nat \cup {Open}]
  /\ appeal \in [originalVerdict : Decision, newVerdict : Decision]
  /\ source \in [type : {prior[1] : prior \in Prior}, score : Score, scoreHistory : Seq(Score)]

(***************************************************************************)
(* A score moves towards a verdict and never reaches it.                   *)
(***************************************************************************)
LEMMA NeverCertain ==
  ASSUME NEW s \in Score, NEW target \in {0, 1}
  PROVE  Moved(s, target) \in Score
  <1>1. s.num \in Nat /\ s.den \in Nat /\ 0 < s.num /\ s.num < s.den
    BY DEF Score
  <1> DEFINE num == 23 * s.num + 2 * target * s.den
             den == 25 * s.den
  <1>2. num \in Nat /\ den \in Nat /\ 0 < num /\ num < den
    <2>1. CASE target = 0
      BY <1>1, <2>1
    <2>2. CASE target = 1
      BY <1>1, <2>2
    <2> QED BY <2>1, <2>2
  <1>3. Moved(s, target) = [num |-> num, den |-> den]
    BY DEF Moved
  <1> HIDE DEF num, den
  <1> QED BY <1>2, <1>3 DEF Score

(***************************************************************************)
(* What is appended to is a prefix of what comes out.                      *)
(***************************************************************************)
LEMMA AppendExtends ==
  ASSUME NEW S, NEW s \in Seq(S), NEW e \in S
  PROVE  Append(s, e) \in Seq(S) /\ IsPrefix(s, s) /\ IsPrefix(s, Append(s, e))
  BY DEF IsPrefix

(***************************************************************************)
(* Judging a source adds to its scores or leaves it alone.                 *)
(***************************************************************************)
LEMMA SourceUpdated ==
  ASSUME HistoryTypeOK, NEW status
  PROVE  LET next == UpdateSourceReliability(source, status)
         IN /\ next \in [type : {prior[1] : prior \in Prior}, score : Score, scoreHistory : Seq(Score)]
            /\ IsPrefix(source.scoreHistory, next.scoreHistory)
  <1> DEFINE type == {prior[1] : prior \in Prior}
  <1> HIDE DEF type
  <1>1. source \in [type : type, score : Score, scoreHistory : Seq(Score)]
    BY DEF HistoryTypeOK, type
  <1>2. source.score \in Score /\ source.scoreHistory \in Seq(Score)
    BY <1>1
  <1>3. IsPrefix(source.scoreHistory, source.scoreHistory)
    BY <1>2, AppendExtends
  <1>4. CASE status \notin {"TRUE", "FALSE"}
    BY <1>1, <1>3, <1>4 DEF UpdateSourceReliability, type
  <1>5. CASE status \in {"TRUE", "FALSE"}
    <2> DEFINE target == IF status = "TRUE" THEN 1 ELSE 0
               score == Moved(source.score, target)
               scores == Append(source.scoreHistory, score)
    <2>1. score \in Score
      BY <1>2, NeverCertain
    <2> HIDE DEF score
    <2>2. scores \in Seq(Score) /\ IsPrefix(source.scoreHistory, scores)
      BY <1>2, <2>1, AppendExtends
    <2> HIDE DEF scores
    <2>3. UpdateSourceReliability(source, status)
            = [source EXCEPT !.score = score, !.scoreHistory = scores]
      BY <1>1, <1>5 DEF UpdateSourceReliability, score, scores
    <2> QED BY <1>1, <2>1, <2>2, <2>3 DEF type
  <1> QED BY <1>4, <1>5
(* A source starts with the scores it was given. *)
LEMMA HistoryStart == HistoryInit => HistoryTypeOK
  <1> SUFFICES ASSUME HistoryInit PROVE HistoryTypeOK
    OBVIOUS
  <1>1. PICK prior \in Prior : source = SeedSource(prior)
    BY DEF HistoryInit
  <1>2. prior[2] \in 1..99
    BY DEF Prior
  <1> DEFINE score == [num |-> prior[2], den |-> 100]
             type == {p[1] : p \in Prior}
  <1>3. score \in Score
    BY <1>2 DEF Score
  <1>4. prior[1] \in type
    OBVIOUS
  <1>5. source = [type |-> prior[1], score |-> score, scoreHistory |-> <<score>>]
    BY <1>1 DEF SeedSource
  <1> HIDE DEF score, type
  <1>6. source \in [type : type, score : Score, scoreHistory : Seq(Score)]
    BY <1>3, <1>4, <1>5
  <1>7. validTime \in [from : Nat, until : Nat \cup {Open}]
    BY DEF HistoryInit, OpenValidTime
  <1>8. appeal \in [originalVerdict : Decision, newVerdict : Decision]
    BY DEF HistoryInit, Decision
  <1> QED BY <1>6, <1>7, <1>8 DEF HistoryInit, HistoryTypeOK, type

(***************************************************************************)
(* What a step of the record may do, with the types that come out of it.   *)
(***************************************************************************)
Kept ==
  /\ IsPrefix(log, log') /\ IsPrefix(source.scoreHistory, source'.scoreHistory)
  /\ validTime.until # Open => validTime' = validTime
  /\ appeal.originalVerdict # NoVerdict => appeal'.originalVerdict = appeal.originalVerdict

(* A step extends the log and the history and keeps the original verdict. *)
LEMMA HistoryStep ==
  ASSUME HistoryTypeOK, [HistoryNext]_historyVars
  PROVE  HistoryTypeOK' /\ Kept
  <1> DEFINE Source == [type : {prior[1] : prior \in Prior}, score : Score, scoreHistory : Seq(Score)]
  <1>1. /\ IsPrefix(log, log) /\ source \in Source
        /\ IsPrefix(source.scoreHistory, source.scoreHistory)
    <2>1. source.scoreHistory \in Seq(Score) /\ log \in Seq(Entry) /\ source \in Source
      BY DEF HistoryTypeOK
    <2> QED BY <2>1 DEF IsPrefix
  <1>2. ASSUME NEW type \in EntryType, Logged(type)
        PROVE  time' \in Nat /\ log' \in Seq(Entry) /\ IsPrefix(log, log')
    <2> DEFINE entry == [seq |-> Len(log), at |-> time, type |-> type]
    <2>1. log \in Seq(Entry) /\ time \in Nat
      BY DEF HistoryTypeOK
    <2>2. entry \in Entry
      BY <2>1 DEF Entry
    <2> HIDE DEF entry
    <2>3. log' = Append(log, entry) /\ time' = time + 1
      BY <1>2 DEF Logged, entry
    <2> QED BY <2>1, <2>2, <2>3, AppendExtends
  <1> HIDE DEF Source
  <1>3. ASSUME NEW until \in 0..MaxUpdates, Close(until) PROVE HistoryTypeOK' /\ Kept
    <2>1. Logged("Superseded") /\ UNCHANGED <<appeal, source>>
            /\ validTime' = CloseValidTime(validTime, until)
      BY <1>3 DEF Close
    <2>2. validTime' \in [from : Nat, until : Nat \cup {Open}]
            /\ (validTime.until # Open => validTime' = validTime)
      BY <2>1, MaxUpdatesAssumption DEF HistoryTypeOK, CloseValidTime
    <2> QED BY <1>1, <1>2, <2>1, <2>2 DEF HistoryTypeOK, Kept, EntryType
  <1>4. ASSUME NEW status \in {"TRUE", "FALSE", "CONTESTED"}, FileAppeal(status)
        PROVE  HistoryTypeOK' /\ Kept
    <2>1. Logged("AppealFiled") /\ UNCHANGED <<validTime, source>>
            /\ appeal' = [originalVerdict |-> status, newVerdict |-> NoVerdict]
            /\ appeal.originalVerdict = NoVerdict
      BY <1>4 DEF FileAppeal
    <2>2. appeal' \in [originalVerdict : Decision, newVerdict : Decision]
      BY <2>1 DEF Decision
    <2> QED BY <1>1, <1>2, <2>1, <2>2 DEF HistoryTypeOK, Kept, EntryType
  <1>5. ASSUME NEW status \in {"TRUE", "FALSE", "CONTESTED"}, ResolveAppeal(status)
        PROVE  HistoryTypeOK' /\ Kept
    <2>1. Logged("AppealResolved") /\ UNCHANGED <<validTime, source>>
            /\ appeal' = [appeal EXCEPT !.newVerdict = status]
      BY <1>5 DEF ResolveAppeal
    <2>2. appeal' \in [originalVerdict : Decision, newVerdict : Decision]
            /\ appeal'.originalVerdict = appeal.originalVerdict
      BY <2>1 DEF HistoryTypeOK, Decision
    <2> QED BY <1>1, <1>2, <2>1, <2>2 DEF HistoryTypeOK, Kept, EntryType
  <1>6. ASSUME NEW status \in {"TRUE", "FALSE", "CONTESTED"}, Judge(status)
        PROVE  HistoryTypeOK' /\ Kept
    <2>1. Logged("Resolved") /\ UNCHANGED <<validTime, appeal>>
            /\ source' = UpdateSourceReliability(source, status)
      BY <1>6 DEF Judge
    <2>2. source' \in Source /\ IsPrefix(source.scoreHistory, source'.scoreHistory)
      BY <2>1, SourceUpdated DEF Source
    <2> QED BY <1>2, <2>1, <2>2 DEF HistoryTypeOK, Kept, EntryType, Source
  <1>7. CASE UNCHANGED historyVars
    BY <1>1, <1>7 DEF historyVars, HistoryTypeOK, Kept
  <1> QED BY <1>3, <1>4, <1>5, <1>6, <1>7 DEF HistoryNext

(***************************************************************************)
(* The past stays as it was: the log and the scores of a source are only   *)
(* added to, a validity is closed once, an appeal keeps the verdict it is  *)
(* about, and no number of verdicts makes a source certain.                *)
(***************************************************************************)
THEOREM HistoryIsKept == OffChainSpec => HistoryKept
  <1>1. OffChainInit => HistoryTypeOK
    BY HistoryStart DEF OffChainInit
  <1>2. HistoryTypeOK /\ [OffChainNext]_offChainVars => HistoryTypeOK'
    BY OnePartMoves, HistoryStep
  <1>3. ASSUME HistoryTypeOK, [OffChainNext]_offChainVars
        PROVE  /\ IsPrefix(log, log') /\ IsPrefix(source.scoreHistory, source'.scoreHistory)
               /\ \A t \in 0..MaxUpdates :
                    validTime.until # Open =>
                      DescribeTemporalStatus("SUPERSEDED", validTime, t)
                        = DescribeTemporalStatus("SUPERSEDED", validTime', t)
               /\ appeal.originalVerdict # NoVerdict =>
                    appeal'.originalVerdict = appeal.originalVerdict
               /\ 0 < source'.score.num /\ source'.score.num < source'.score.den
    <2>1. HistoryTypeOK' /\ Kept
      BY <1>3, OnePartMoves, HistoryStep
    <2>2. source'.score \in Score
      BY <2>1 DEF HistoryTypeOK
    <2>3. 0 < source'.score.num /\ source'.score.num < source'.score.den
      BY <2>2 DEF Score
    <2> QED BY <2>1, <2>3 DEF Kept
  <1> QED BY <1>1, <1>2, <1>3, PTL DEF OffChainSpec, HistoryKept
-----------------------------------------------------------------------------
(***************************************************************************)
(* The desk: whether claims fight.  Nearness of two figures goes both ways,*)
(* and a figure is near to itself.                                         *)
(***************************************************************************)
LEMMA NearBothWays ==
  ASSUME NEW v \in Int, NEW w \in Int
  PROVE  SameValue(v, w) <=> SameValue(w, v)
  BY DEF SameValue, Apart, LargerOf, TOLERANCE_PERCENT

(* A figure is near itself. *)
LEMMA NearToItself ==
  ASSUME NEW v \in Nat
  PROVE  SameValue(v, v)
  BY DEF SameValue, Apart, LargerOf, TOLERANCE_PERCENT

(***************************************************************************)
(* classifyRelationship does not depend on which claim comes first, but    *)
(* that what one narrows the other extends.                                *)
(***************************************************************************)
LEMMA Mirrored ==
  ASSUME NEW a, NEW b, a.value \in Int, b.value \in Int
  PROVE  LET there == ClassifyRelationship(a, b)
             back == ClassifyRelationship(b, a)
         IN /\ there = "NARROWS" => back = "EXTENDS"
            /\ there = "EXTENDS" => back = "NARROWS"
            /\ there \notin {"NARROWS", "EXTENDS"} => back = there
  <1>1. (Comparable(a, b) <=> Comparable(b, a)) /\ (BothNumeric(a, b) <=> BothNumeric(b, a))
    BY DEF Comparable, BothNumeric
  <1>2. SameValue(a.value, b.value) <=> SameValue(b.value, a.value)
    BY NearBothWays
  <1>3. ~(Adds(a, b) /\ Adds(b, a))
    BY DEF Adds
  <1> QED BY <1>1, <1>2, <1>3 DEF ClassifyRelationship

(***************************************************************************)
(* Two claims are sent to a challenge only if a value was read out of each *)
(* for one metric of one subject, and the values are not the same.         *)
(***************************************************************************)
LEMMA FightMeans ==
  ASSUME NEW a, NEW b, RequiresChallenge(a, b)
  PROVE  /\ a.subject = b.subject /\ a.metric = b.metric /\ a.metric # "GENERIC"
         /\ a.value # NoValue /\ b.value # NoValue /\ ~SameValue(a.value, b.value)
  BY DEF RequiresChallenge, ClassifyRelationship, Comparable, BothNumeric

Part == Word \cup Number \cup Qualification

(* A text is a subject and a sequence of parts. *)
LEMMA TextsHaveParts ==
  ASSUME NEW Subjects, NEW n \in Int, NEW text \in Text(Subjects, n)
  PROVE  text.parts \in Seq(Part) /\ text = [subject |-> text.subject, parts |-> text.parts]
  BY DEF Text, SeqOf, Part

(* What looks like a number is one, or nothing. *)
LEMMA PartsRead ==
  ASSUME NEW part \in Part, part.kind \in NumberLike
  PROVE  part.value \in Nat \cup {NoValue}
  <1>1. part \in Number \cup Qualification
    BY DEF Part, Word, NumberLike
  <1>2. part \in Number => part.value \in Nat \cup {NoValue}
    BY AmountAssumption DEF Number
  <1>3. part \in Qualification => part.value \in Nat \cup {NoValue}
    BY AmountAssumption DEF Qualification, NumberLike
  <1> QED BY <1>1, <1>2, <1>3

(* There is one first match of a pattern at most. *)
LEMMA OneFirst ==
  ASSUME NEW text, text.parts \in Seq(Part), NEW kinds,
         NEW i \in First(text, kinds), NEW j \in First(text, kinds)
  PROVE  i = j
  <1>1. i \in Nat /\ j \in Nat /\ i >= 1 /\ j >= 1
    BY DEF First
  <1>2. ~(i < j) /\ ~(j < i)
    BY <1>1 DEF First
  <1> QED BY <1>1, <1>2

(***************************************************************************)
(* What is read out of a text on the desk.                                 *)
(***************************************************************************)
LEMMA TextsRead ==
  ASSUME NEW Subjects, NEW n \in Int, NEW text \in Text(Subjects, n)
  PROVE  LET p == ExtractRuleBased(text)
         IN /\ p.subject = text.subject
            /\ p.value \in Nat \cup {NoValue} /\ p.value \in Int
            /\ p.value # NoValue =>
                 \E i \in First(text, NumberLike) : text.parts[i].value # NoValue
            /\ p.metric # "GENERIC" => p.metric \in Words(text)
  <1> DEFINE p == ExtractRuleBased(text)
             i == CHOOSE i \in First(text, NumberLike) : TRUE
  <1>1. p.subject = text.subject
          /\ p.metric = DetectMetric(text) /\ p.value = ParseMoney(text)
    BY DEF ExtractRuleBased
  <1>2. DetectMetric(text) # "GENERIC" => DetectMetric(text) \in Words(text)
    BY DEF DetectMetric
  <1>3. NoValue \in Int /\ NoValue \notin Nat
    BY DEF NoValue
  <1>4. CASE First(text, NumberLike) = {}
    <2>1. ParseMoney(text) = NoValue
      BY <1>4 DEF ParseMoney
    <2> QED BY <1>1, <1>2, <1>3, <2>1
  <1>5. CASE First(text, NumberLike) # {}
    <2>1. i \in First(text, NumberLike) /\ ParseMoney(text) = text.parts[i].value
      BY <1>5 DEF ParseMoney
    <2> HIDE DEF i
    <2>2. text.parts[i] \in Part /\ text.parts[i].kind \in NumberLike
      BY <2>1, TextsHaveParts DEF First
    <2>3. ParseMoney(text) \in Nat \cup {NoValue}
      BY <2>1, <2>2, PartsRead
    <2> QED BY <1>1, <1>2, <1>3, <2>1, <2>3
  <1> QED BY <1>4, <1>5

(* What is put after a text changes nothing about the number read first. *)
LEMMA ReadBeforeQualified ==
  ASSUME NEW Subjects, NEW n \in Int, NEW text \in Text(Subjects, n),
         NEW q \in SeqOf(Qualification, 2),
         First(text, NumberLike) # {}
  PROVE  ParseMoney([text EXCEPT !.parts = @ \o q]) = ParseMoney(text)
  <1> DEFINE more == [text EXCEPT !.parts = @ \o q]
             k == Len(text.parts)
             i == CHOOSE i \in First(text, NumberLike) : TRUE
             j == CHOOSE j \in First(more, NumberLike) : TRUE
  <1>1. text.parts \in Seq(Part) /\ q \in Seq(Part)
    <2>1. PICK m \in 0..2 : q \in [1..m -> Qualification]
      BY DEF SeqOf
    <2>2. m \in Nat /\ q \in [1..m -> Part]
      BY <2>1 DEF Part
    <2>3. q \in Seq(Part)
      BY <2>2
    <2> QED BY <2>3, TextsHaveParts
  <1>2. more.parts = text.parts \o q
    BY TextsHaveParts
  <1> HIDE DEF more
  <1>3. /\ more.parts \in Seq(Part)
        /\ DOMAIN text.parts = 1..k /\ k \in Nat
        /\ DOMAIN text.parts \subseteq DOMAIN more.parts
        /\ \A m \in 1..k : more.parts[m] = text.parts[m]
    BY <1>1, <1>2
  <1>4. i \in First(text, NumberLike)
    OBVIOUS
  <1> HIDE DEF i, k
  <1>5. i \in 1..k /\ more.parts[i] = text.parts[i] /\ i \in First(more, NumberLike)
    <2>1. i \in 1..k /\ text.parts[i].kind \in NumberLike
            /\ \A m \in 1..(i - 1) : text.parts[m].kind \notin NumberLike
      BY <1>3, <1>4 DEF First
    <2>2. \A m \in 1..(i - 1) : m \in 1..k
      BY <1>3, <2>1
    <2>3. \A m \in 1..(i - 1) : more.parts[m].kind \notin NumberLike
      BY <1>3, <2>1, <2>2
    <2> QED BY <1>3, <2>1, <2>3 DEF First
  <1>6. j \in First(more, NumberLike)
    BY <1>5
  <1> HIDE DEF j
  <1>7. i = j
    BY <1>3, <1>5, <1>6, OneFirst
  <1>8. ParseMoney(more) = more.parts[i].value /\ ParseMoney(text) = text.parts[i].value
    BY <1>4, <1>5, <1>6, <1>7 DEF ParseMoney, i, j
  <1> QED BY <1>5, <1>8 DEF more

(* No claim fights itself with qualifications put after it. *)
LEMMA QualifiedNeverFights ==
  ASSUME NEW Subjects, NEW n \in Int, NEW text \in Text(Subjects, n),
         NEW q \in SeqOf(Qualification, 2)
  PROVE  ~RequiresChallenge(ExtractRuleBased(text),
                            ExtractRuleBased([text EXCEPT !.parts = @ \o q]))
  <1> DEFINE a == ExtractRuleBased(text)
             b == ExtractRuleBased([text EXCEPT !.parts = @ \o q])
  <1> SUFFICES ASSUME RequiresChallenge(a, b) PROVE FALSE
    OBVIOUS
  <1>1. a.value # NoValue /\ ~SameValue(a.value, b.value)
    BY FightMeans
  <1>2. First(text, NumberLike) # {} /\ a.value \in Nat
    BY <1>1, TextsRead
  <1>3. b.value = a.value
    BY <1>2, ReadBeforeQualified DEF ExtractRuleBased
  <1> QED BY <1>1, <1>2, <1>3, NearToItself

(***************************************************************************)
(* A thing on the desk is what it is about.                                *)
(***************************************************************************)
DeskInv ==
  /\ desk.about = "texts" => desk \in Texts
  /\ desk.about = "world" => desk \in Worlds
  /\ desk.about = "hashes" => desk \in Hashes

(* What is on the desk is always the kind of thing it says. *)
LEMMA DeskAlways == OffChainSpec => []DeskInv
  <1>1. OffChainInit => DeskInv
    BY DEF OffChainInit, EmptyDesk, DeskInv
  <1>2. ASSUME DeskInv, [OffChainNext]_offChainVars PROVE DeskInv'
    <2>1. desk' = desk \/ desk' \in Texts \/ desk' \in Worlds \/ desk' \in Hashes
      BY <1>2, OnePartMoves DEF Consider
    <2>2. /\ \A thing \in Texts : thing.about = "texts"
          /\ \A thing \in Worlds : thing.about = "world"
          /\ \A thing \in Hashes : thing.about = "hashes"
      BY DEF Texts, Worlds, Hashes
    <2> QED BY <1>2, <2>1, <2>2 DEF DeskInv
  <1> QED BY <1>1, <1>2, PTL DEF OffChainSpec

(***************************************************************************)
(* Whether two claims fight is symmetric; what fights is about one subject,*)
(* has a word for the same metric and a number for its first number-like   *)
(* place; and no claim fights itself with qualifications put after it: for *)
(* texts of any length with any figures.                                   *)
(***************************************************************************)
THEOREM OnlyEarnedFights == OffChainSpec => []FightsAreEarned
  <1>1. ASSUME DeskInv PROVE FightsAreEarned
    <2> SUFFICES ASSUME desk.about = "texts" PROVE FightsAreEarned
      BY DEF FightsAreEarned
    <2>1. desk \in Texts /\ desk.one \in Text({"x"}, MaxParts)
            /\ desk.other \in Text({"x", "y"}, MaxParts - 1)
            /\ MaxParts \in Int /\ MaxParts - 1 \in Int
      BY <1>1, BoundsAssumption DEF DeskInv, Texts
    <2> DEFINE a == ExtractRuleBased(desk.one)
               b == ExtractRuleBased(desk.other)
               there == ClassifyRelationship(a, b)
               back == ClassifyRelationship(b, a)
               isNumber(text) == \E i \in First(text, NumberLike) : text.parts[i].value # NoValue
    <2>2. /\ a.subject = desk.one.subject /\ a.value \in Int
          /\ a.value # NoValue => isNumber(desk.one)
          /\ a.metric # "GENERIC" => a.metric \in Words(desk.one)
      BY <2>1, TextsRead
    <2>3. /\ b.subject = desk.other.subject /\ b.value \in Int
          /\ b.value # NoValue => isNumber(desk.other)
          /\ b.metric # "GENERIC" => b.metric \in Words(desk.other)
      BY <2>1, TextsRead
    <2>4. \A q \in SeqOf(Qualification, 2) :
            ~RequiresChallenge(a, ExtractRuleBased([desk.one EXCEPT !.parts = @ \o q]))
      BY <2>1, QualifiedNeverFights
    <2> HIDE DEF a, b, isNumber
    <2>5. /\ there = "NARROWS" => back = "EXTENDS"
          /\ there = "EXTENDS" => back = "NARROWS"
          /\ there \notin {"NARROWS", "EXTENDS"} => back = there
      BY <2>2, <2>3, Mirrored
    <2>6. RequiresChallenge(a, b) =>
            /\ desk.one.subject = desk.other.subject
            /\ Words(desk.one) \cap Words(desk.other) # {}
            /\ isNumber(desk.one) /\ isNumber(desk.other)
      BY <2>2, <2>3, FightMeans
    <2>7. back = CASE there = "NARROWS" -> "EXTENDS" [] there = "EXTENDS" -> "NARROWS"
                   [] OTHER -> there
      BY <2>5
    <2> QED BY <2>4, <2>6, <2>7 DEF FightsAreEarned, a, b, isNumber
  <1> QED BY <1>1, DeskAlways, PTL
-----------------------------------------------------------------------------
(***************************************************************************)
(* An answer of 0G Compute has the verdict of its text, and is attested    *)
(* only if processResponse said so.                                        *)
(***************************************************************************)
LEMMA LiveAnswer ==
  ASSUME NEW world \in Worlds, TryLive(world).kind = "answered"
  PROVE  /\ world.live \in Answer
         /\ TryLive(world).verdict = ParseVerdictJson(world.live)
         /\ TryLive(world).attested \in BOOLEAN
         /\ TryLive(world).attested <=> world.attestation = "true"
  <1>1. world.live \in {"none", "fails"} \cup Answer
    BY DEF Worlds
  <1>2. world.live # "none" /\ world.live # "fails" /\ world.attestation # "throws"
    BY DEF TryLive, Nothing, Threw
  <1>3. TryLive(world) = Answered(ParseVerdictJson(world.live), Attested(world))
    BY <1>2 DEF TryLive
  <1>4. Attested(world) = (world.attestation = "true")
    BY DEF Attested
  <1>5. /\ TryLive(world).verdict = ParseVerdictJson(world.live)
        /\ TryLive(world).attested = Attested(world)
    BY <1>3 DEF Answered
  <1> QED BY <1>1, <1>2, <1>4, <1>5

(***************************************************************************)
(* Without 0G Compute the report is that of the model that has a key, and  *)
(* a stub speaks only if none has.                                         *)
(***************************************************************************)
LEMMA WithoutLiveReports ==
  ASSUME NEW world \in Worlds, WithoutLive(world).kind = "report"
  PROVE  /\ WithoutLive(world).verdict \in ReportVerdict
         /\ WithoutLive(world).verified = FALSE
         /\ \/ /\ WithoutLive(world).mode = "LOCAL_LLM"
               /\ \E text \in {world.anthropic, world.openai} :
                    text \in Answer /\ WithoutLive(world).verdict = ParseVerdictJson(text)
            \/ WithoutLive(world).mode = "SIMULATED" /\ {world.anthropic, world.openai} = {"noKey"}
  <1>1. /\ world.anthropic \in {"noKey", "fails", "SUPPORTS", "garbled"}
        /\ world.openai \in {"noKey", "fails", "REJECTS"}
    BY DEF Worlds
  <1>2. Simulate(world) \in ReportVerdict
    BY DEF Simulate, ReportVerdict, Worlds
  <1>3. \A text : ParseVerdictJson(text) \in ReportVerdict
    BY DEF ParseVerdictJson, ReportVerdict
  <1> DEFINE Says(text) == IF text = "fails" THEN Threw ELSE Answered(ParseVerdictJson(text), FALSE)
  <1>4. ASSUME NEW text \in {world.anthropic, world.openai}, text # "noKey",
               TryLocalLlm(world) = Says(text)
        PROVE  /\ WithoutLive(world).mode = "LOCAL_LLM" /\ WithoutLive(world).verified = FALSE
               /\ text \in Answer /\ WithoutLive(world).verdict = ParseVerdictJson(text)
    <2>1. text # "fails"
      <3> SUFFICES ASSUME TryLocalLlm(world) = Threw PROVE FALSE
        BY <1>4
      <3>1. WithoutLive(world) = Threw
        BY DEF WithoutLive
      <3> QED BY <3>1 DEF Threw
    <2>2. TryLocalLlm(world) = Answered(ParseVerdictJson(text), FALSE)
      BY <1>4, <2>1
    <2>3. WithoutLive(world) = Finalize(ParseVerdictJson(text), "LOCAL_LLM", FALSE)
      <3> DEFINE said == Answered(ParseVerdictJson(text), FALSE)
      <3>1. said # Threw /\ said # Nothing /\ said.verdict = ParseVerdictJson(text)
        BY DEF Answered, Threw, Nothing
      <3> HIDE DEF said
      <3>2. TryLocalLlm(world) = said
        BY <2>2 DEF said
      <3>3. WithoutLive(world) = Finalize(said.verdict, "LOCAL_LLM", FALSE)
        BY <3>1, <3>2 DEF WithoutLive
      <3> QED BY <3>1, <3>3
    <2>4. text \in Answer
      BY <1>1, <1>4, <2>1 DEF Answer
    <2> QED BY <2>3, <2>4 DEF Finalize
  <1>5. CASE world.anthropic # "noKey"
    <2>1. TryLocalLlm(world) = Says(world.anthropic)
      BY <1>5 DEF TryLocalLlm
    <2> HIDE DEF Says
    <2> QED BY <1>3, <1>4, <1>5, <2>1
  <1>6. CASE world.anthropic = "noKey" /\ world.openai # "noKey"
    <2>1. TryLocalLlm(world) = Says(world.openai)
      BY <1>6 DEF TryLocalLlm
    <2> HIDE DEF Says
    <2> QED BY <1>3, <1>4, <1>6, <2>1
  <1>7. CASE world.anthropic = "noKey" /\ world.openai = "noKey"
    <2>1. TryLocalLlm(world) = Nothing
      BY <1>7 DEF TryLocalLlm
    <2>2. WithoutLive(world) = Finalize(Simulate(world), "SIMULATED", FALSE)
      BY <2>1 DEF WithoutLive, Nothing, Threw
    <2> QED BY <1>2, <1>7, <2>2 DEF Finalize
  <1> QED BY <1>5, <1>6, <1>7

(* The label of a report names the answer it rests on. *)
LEMMA Labels ==
  ASSUME desk \in Worlds
  PROVE  LabelsNameTheAnswer
  <1> DEFINE report == Investigate(desk)
  <1> SUFFICES ASSUME report.kind = "report" PROVE LabelsNameTheAnswer
    BY DEF LabelsNameTheAnswer
  <1>1. desk.mode \in {"auto", "live", "local"}
    BY DEF Worlds
  <1>2. \/ desk.mode # "local" /\ TryLive(desk).kind = "answered"
           /\ report = Finalize(TryLive(desk).verdict, "0G_COMPUTE_TEE", TryLive(desk).attested)
        \/ report = WithoutLive(desk)
    <2>1. Investigate(desk) # Threw
      BY DEF Threw
    <2>2. CASE desk.mode = "local"
      BY <2>2 DEF Investigate
    <2>3. CASE desk.mode # "local"
      BY <2>1, <2>3 DEF Investigate
    <2> QED BY <2>2, <2>3
  <1>3. desk.mode = "live" =>
          desk.live # "fails" /\ ~(desk.live \in Answer /\ desk.attestation = "throws")
    <2> SUFFICES ASSUME desk.mode = "live" PROVE TryLive(desk) # Threw /\ "none" \notin Answer
      BY DEF TryLive
    <2> QED BY DEF Investigate, LiveErrorSurfaces, Threw, Answer
  <1> HIDE DEF report
  <1> DEFINE Live == /\ report.mode = "0G_COMPUTE_TEE" /\ desk.mode # "local" /\ desk.live \in Answer
                     /\ report.verdict = ParseVerdictJson(desk.live)
                     /\ report.verified => desk.attestation = "true"
             Local == /\ report.mode = "LOCAL_LLM" /\ report.verified = FALSE
                      /\ \E text \in {desk.anthropic, desk.openai} :
                           text \in Answer /\ report.verdict = ParseVerdictJson(text)
             Stub == /\ report.mode = "SIMULATED" /\ report.verified = FALSE
                     /\ {desk.anthropic, desk.openai} = {"noKey"}
  <1>4. /\ Live \/ Local \/ Stub
        /\ report.verdict \in ReportVerdict /\ report.verified \in BOOLEAN
    <2>1. CASE /\ desk.mode # "local" /\ TryLive(desk).kind = "answered"
               /\ report = Finalize(TryLive(desk).verdict, "0G_COMPUTE_TEE", TryLive(desk).attested)
      <3> DEFINE attested == TryLive(desk).attested
                 text == desk.live
      <3>1. /\ text \in Answer
            /\ TryLive(desk).verdict = ParseVerdictJson(text)
            /\ attested \in BOOLEAN
            /\ attested <=> desk.attestation = "true"
        BY <2>1, LiveAnswer
      <3> HIDE DEF attested
      <3>2. report = Finalize(ParseVerdictJson(text), "0G_COMPUTE_TEE", attested)
        BY <2>1, <3>1 DEF attested
      <3>3. /\ report.mode = "0G_COMPUTE_TEE" /\ report.verified = attested
            /\ report.verdict = ParseVerdictJson(text)
        BY <3>2 DEF Finalize
      <3>4. report.verdict \in ReportVerdict
        BY <3>3 DEF ParseVerdictJson, ReportVerdict
      <3> QED BY <2>1, <3>1, <3>3, <3>4
    <2>2. CASE report = WithoutLive(desk)
      BY <2>2, WithoutLiveReports
    <2> QED BY <1>2, <2>1, <2>2
  <1>5. AnyLiveTee({report}) = report.verified
    BY <1>4 DEF AnyLiveTee
  <1>6. \A v \in ReportVerdict : VerdictIndex(v) = VerdictIndex(report.verdict) => v = report.verdict
    BY <1>4 DEF ReportVerdict, VerdictIndex
  <1>7. \A m \in AttestationMode : AttestationModeIndex(m) = AttestationModeIndex(report.mode) => m = report.mode
    BY <1>4 DEF AttestationMode, AttestationModeIndex
  <1>8. report.verified => report.mode = "0G_COMPUTE_TEE" /\ desk.attestation = "true" /\ desk.live \in Answer
    BY <1>4
  <1>9. CASE report.mode = "0G_COMPUTE_TEE"
    BY <1>3, <1>4, <1>5, <1>6, <1>7, <1>8, <1>9 DEF LabelsNameTheAnswer, report
  <1>10. CASE report.mode = "LOCAL_LLM"
    BY <1>3, <1>4, <1>5, <1>6, <1>7, <1>8, <1>10 DEF LabelsNameTheAnswer, report
  <1>11. CASE report.mode = "SIMULATED"
    BY <1>3, <1>4, <1>5, <1>6, <1>7, <1>8, <1>11 DEF LabelsNameTheAnswer, report
  <1> QED BY <1>4, <1>9, <1>10, <1>11

(***************************************************************************)
(* A label names the source of a report, verified means that its answer    *)
(* was attested, and errors surface where only 0G Compute was asked for,   *)
(* whatever the world the investigation meets.                             *)
(***************************************************************************)
THEOREM LabelsAreTrue == OffChainSpec => []LabelsNameTheAnswer
  <1>1. DeskInv => LabelsNameTheAnswer
    BY Labels DEF DeskInv, LabelsNameTheAnswer
  <1> QED BY <1>1, DeskAlways, PTL

-----------------------------------------------------------------------------
(***************************************************************************)
(* Merkle roots, bundles and batches.                                      *)
(***************************************************************************)
(***************************************************************************)
(* Hashes of pairs, whatever the number of leaves.                         *)
(***************************************************************************)
Triangle(n) == (n * (n + 1)) \div 2

(* There is room for n + 1 pairs with sum n. *)
LEMMA TrianglesGrow ==
  ASSUME NEW n \in Nat, NEW m \in Nat, n < m
  PROVE  Triangle(n) \in Nat /\ Triangle(n) + n < Triangle(m)
  <1> DEFINE p == n * (n + 1)
             q == m * (m + 1)
  <1>1. p \in Nat /\ q \in Nat
    OBVIOUS
  <1>2. (n + 1) * (n + 2) <= q
    OBVIOUS
  <1>3. (n + 1) * (n + 2) = p + 2 * (n + 1)
    OBVIOUS
  <1>4. p + 2 * (n + 1) <= q
    BY <1>2, <1>3
  <1> HIDE DEF p, q
  <1>5. p \div 2 \in Nat /\ p \div 2 + n < q \div 2
    BY <1>1, <1>4
  <1> QED BY <1>5 DEF p, q, Triangle

(* The hash of a pair is above the leaves and above both hashes of the pair. *)
LEMMA PairIsAbove ==
  ASSUME NEW a \in Nat, NEW b \in Nat
  PROVE  /\ HashPair(a, b) \in Nat /\ HashPair(a, b) = HashPair(b, a)
         /\ HashPair(a, b) > Leaves /\ HashPair(a, b) > a /\ HashPair(a, b) > b
  <1>1. Triangle(a + b) \in Nat /\ (a + b) + 1 \in Nat
    BY TrianglesGrow, a + b < (a + b) + 1
  <1>2. HashPair(a, b) = Leaves + 1 + Triangle(a + b) + Larger(a, b)
    BY DEF HashPair, Triangle
  <1>3. HashPair(b, a) = Leaves + 1 + Triangle(a + b) + Larger(a, b)
    <2>1. a + b = b + a /\ Larger(a, b) = Larger(b, a)
      BY DEF Larger
    <2> QED BY <2>1 DEF HashPair, Triangle
  <1>4. Larger(a, b) \in Nat /\ Larger(a, b) >= a /\ Larger(a, b) >= b
    BY DEF Larger
  <1> QED BY <1>1, <1>2, <1>3, <1>4, LeavesAssumption

(* The hash of a pair tells the pair, up to its order. *)
LEMMA PairTellsItsParts ==
  ASSUME NEW a \in Nat, NEW b \in Nat, NEW c \in Nat, NEW d \in Nat,
         HashPair(a, b) = HashPair(c, d)
  PROVE  (a = c /\ b = d) \/ (a = d /\ b = c)
  <1>1. ASSUME NEW x \in Nat, NEW y \in Nat
        PROVE  /\ HashPair(x, y) = Leaves + 1 + Triangle(x + y) + Larger(x, y)
               /\ Larger(x, y) \in Nat /\ Larger(x, y) <= x + y
               /\ Triangle(x + y) \in Nat
    <2>1. Triangle(x + y) \in Nat
      <3>1. x + y \in Nat /\ (x + y) + 1 \in Nat /\ x + y < (x + y) + 1
        OBVIOUS
      <3> QED BY <3>1, TrianglesGrow
    <2>2. Larger(x, y) \in Nat /\ Larger(x, y) <= x + y
      <3>1. Larger(x, y) = x \/ Larger(x, y) = y
        BY DEF Larger
      <3> QED BY <3>1
    <2>3. HashPair(x, y) = Leaves + 1 + Triangle(x + y) + Larger(x, y)
      BY DEF HashPair, Triangle
    <2> QED BY <2>1, <2>2, <2>3
  <1> DEFINE n == a + b
             m == c + d
             larger == Larger(a, b)
             larger2 == Larger(c, d)
  <1>2. /\ n \in Nat /\ m \in Nat
        /\ larger \in Nat /\ larger <= n /\ larger2 \in Nat /\ larger2 <= m
        /\ Triangle(n) \in Nat /\ Triangle(m) \in Nat
    BY <1>1
  <1>3. Leaves + 1 + Triangle(n) + larger = Leaves + 1 + Triangle(m) + larger2
    BY <1>1
  <1>4. n = a + b /\ m = c + d
    OBVIOUS
  <1>5. larger = IF a <= b THEN b ELSE a
    BY DEF Larger
  <1>6. larger2 = IF c <= d THEN d ELSE c
    BY DEF Larger
  <1> HIDE DEF n, m, larger, larger2
  <1>7. Triangle(n) + larger = Triangle(m) + larger2
    BY <1>2, <1>3, LeavesAssumption
  <1>8. n = m
    <2>1. n < m => Triangle(n) + n < Triangle(m)
      BY <1>2, TrianglesGrow
    <2>2. m < n => Triangle(m) + m < Triangle(n)
      BY <1>2, TrianglesGrow
    <2> QED BY <1>2, <1>7, <2>1, <2>2
  <1>9. larger = larger2
    BY <1>2, <1>7, <1>8
  <1> QED BY <1>4, <1>5, <1>6, <1>8, <1>9

(* Values for leaves, and for pairs of values whatever their order. *)
Joins(D, leaf, join) ==
  /\ leaf \in [LeafHash -> D] /\ join \in [D \X D -> D]
  /\ \A x, y \in D : join[<<x, y>>] = join[<<y, x>>]

(***************************************************************************)
(* What is said of leaves and of pairs is said of hashes: a function that  *)
(* joins the values of what a pair is made of exists.                      *)
(***************************************************************************)
LEMMA HashesFold ==
  ASSUME NEW D, NEW leaf, NEW join, Joins(D, leaf, join)
  PROVE  \E F \in [Nat -> D] :
           /\ \A h \in LeafHash : F[h] = leaf[h]
           /\ \A a, b \in Nat : F[HashPair(a, b)] = join[<<F[a], F[b]>>]
  <1> DEFINE PartsOf(v) == {p \in Nat \X Nat : HashPair(p[1], p[2]) = v}
             part(v) == CHOOSE p \in PartsOf(v) : TRUE
             next(g, v) == IF v \in LeafHash THEN leaf[v]
                           ELSE IF PartsOf(v) # {} THEN join[<<g[part(v)[1]], g[part(v)[2]]>>]
                           ELSE leaf[1]
             E == [Nat -> D]
             step == [g \in E |-> [v \in Nat |-> next(g, v)]]
             base == [v \in Nat |-> leaf[1]]
  <1>1. 1 \in LeafHash /\ leaf[1] \in D /\ LeafHash \subseteq Nat
    BY LeavesAssumption DEF LeafHash, Joins
  <1>2. ASSUME NEW v \in Nat, PartsOf(v) # {}
        PROVE  /\ part(v) \in Nat \X Nat /\ HashPair(part(v)[1], part(v)[2]) = v
               /\ part(v)[1] \in Nat /\ part(v)[2] \in Nat /\ part(v)[1] < v /\ part(v)[2] < v
    <2>1. part(v) \in PartsOf(v)
      BY <1>2
    <2> HIDE DEF part
    <2>2. part(v)[1] \in Nat /\ part(v)[2] \in Nat /\ HashPair(part(v)[1], part(v)[2]) = v
      BY <2>1
    <2> QED BY <2>1, <2>2, PairIsAbove
  <1> HIDE DEF part
  <1>3. ASSUME NEW g \in E, NEW v \in Nat PROVE next(g, v) \in D
    <2>1. CASE v \in LeafHash
      BY <2>1 DEF Joins
    <2>2. CASE v \notin LeafHash /\ PartsOf(v) # {}
      <3>1. g[part(v)[1]] \in D /\ g[part(v)[2]] \in D
        BY <1>2, <2>2
      <3>2. join[<<g[part(v)[1]], g[part(v)[2]]>>] \in D
        BY <3>1 DEF Joins
      <3> QED BY <2>2, <3>2
    <2>3. CASE v \notin LeafHash /\ PartsOf(v) = {}
      BY <1>1, <2>3
    <2> QED BY <2>1, <2>2, <2>3
  <1>4. base \in E /\ step \in [E -> E]
    <2>1. base \in E
      BY <1>1
    <2> HIDE DEF next
    <2>2. \A g \in E : [v \in Nat |-> next(g, v)] \in E
      BY <1>3
    <2> QED BY <2>1, <2>2
  <1>5. PICK h \in [Nat -> E] : h[0] = base /\ \A n \in Nat : h[n + 1] = step[h[n]]
    <2>1. base \in E /\ step \in [E -> E]
      BY <1>4
    <2> HIDE DEF E, step, base
    <2>2. \E h \in [Nat -> E] : h[0] = base /\ \A n \in Nat : h[n + 1] = step[h[n]]
      BY <2>1, IterationExists
    <2> QED BY ONLY <2>2
  <1>6. ASSUME NEW n \in Nat, n # 0, NEW v \in Nat PROVE h[n][v] = next(h[n - 1], v) /\ h[n - 1] \in E
    <2>1. n - 1 \in Nat /\ (n - 1) + 1 = n
      BY <1>6
    <2>2. h[n] = step[h[n - 1]] /\ h[n - 1] \in E
      <3> HIDE DEF step, E
      <3> QED BY <1>5, <2>1
    <2>3. step[h[n - 1]] = [w \in Nat |-> next(h[n - 1], w)]
      <3> HIDE DEF next, E
      <3> QED BY <2>2
    <2> HIDE DEF next
    <2> QED BY <2>2, <2>3
  <1> DEFINE F == [v \in Nat |-> h[v + 1][v]]
  <1>7. F \in E
    <2>1. \A v \in Nat : h[v + 1] \in [Nat -> D]
      BY <1>5
    <2> QED BY <2>1
  <1>8. \A v \in Nat : F[v] = next(h[v], v) /\ h[v] \in E
    <2> TAKE v \in Nat
    <2>1. v + 1 \in Nat /\ v + 1 # 0 /\ (v + 1) - 1 = v
      OBVIOUS
    <2>2. h[v + 1][v] = next(h[v], v) /\ h[v] \in E
      <3> HIDE DEF next, E
      <3> QED BY <1>6, <2>1
    <2>3. F[v] = h[v + 1][v]
      OBVIOUS
    <2> QED BY <2>2, <2>3
  <1> HIDE DEF F
  <1> DEFINE N == {n \in Nat : \A v \in Nat : v < n => \A m \in Nat : m > v => h[m][v] = F[v]}
  <1>9. N = Nat
    <2>1. 0 \in N
      OBVIOUS
    <2>2. ASSUME NEW n \in N PROVE n + 1 \in N
      <3>1. ASSUME NEW v \in Nat, v < n + 1, NEW m \in Nat, m > v PROVE h[m][v] = F[v]
        <4>1. h[m][v] = next(h[m - 1], v) /\ h[m - 1] \in E /\ m - 1 \in Nat
          <5> HIDE DEF next, E
          <5>1. m # 0 /\ m - 1 \in Nat
            BY <3>1
          <5> QED BY <1>6, <5>1
        <4>2. F[v] = next(h[v], v) /\ h[v] \in E
          BY <1>8
        <4>3. PartsOf(v) # {} =>
                /\ h[m - 1][part(v)[1]] = F[part(v)[1]] /\ h[m - 1][part(v)[2]] = F[part(v)[2]]
                /\ h[v][part(v)[1]] = F[part(v)[1]] /\ h[v][part(v)[2]] = F[part(v)[2]]
          <5> SUFFICES ASSUME PartsOf(v) # {}
                       PROVE  \A a \in {part(v)[1], part(v)[2]} : h[m - 1][a] = F[a] /\ h[v][a] = F[a]
            OBVIOUS
          <5> TAKE a \in {part(v)[1], part(v)[2]}
          <5>1. a \in Nat /\ a < v
            <6> HIDE DEF PartsOf
            <6> QED BY <1>2
          <5>2. a < n /\ m - 1 > a /\ m - 1 \in Nat
            BY <3>1, <5>1
          <5> QED BY <2>2, <3>1, <5>1, <5>2
        <4> HIDE DEF PartsOf
        <4> QED BY <4>1, <4>2, <4>3
      <3> QED BY <3>1
    <2>3. N \in SUBSET Nat
      OBVIOUS
    <2> HIDE DEF N
    <2> QED BY <2>1, <2>2, <2>3, AllNumbers
  <1>10. ASSUME NEW v \in LeafHash PROVE F[v] = leaf[v]
    <2>1. v \in Nat
      BY <1>1
    <2>2. F[v] = next(h[v], v)
      BY <1>8, <2>1
    <2> QED BY <2>2
  <1>11. ASSUME NEW a \in Nat, NEW b \in Nat PROVE F[HashPair(a, b)] = join[<<F[a], F[b]>>]
    <2> DEFINE v == HashPair(a, b)
    <2>1. v \in Nat /\ v \notin LeafHash
      <3> HIDE DEF N
      <3>1. v \in Nat /\ v > Leaves
        BY PairIsAbove
      <3> HIDE DEF v
      <3> QED BY <3>1, LeavesAssumption DEF LeafHash
    <2>2. PartsOf(v) # {}
      <3>1. <<a, b>> \in PartsOf(v)
        OBVIOUS
      <3> QED BY <3>1
    <2> HIDE DEF v
    <2>3. /\ part(v)[1] \in Nat /\ part(v)[2] \in Nat /\ part(v)[1] < v /\ part(v)[2] < v
          /\ HashPair(part(v)[1], part(v)[2]) = HashPair(a, b)
      BY <1>2, <2>1, <2>2 DEF v
    <2>4. F[v] = join[<<h[v][part(v)[1]], h[v][part(v)[2]]>>]
      <3> HIDE DEF PartsOf
      <3> QED BY <1>8, <2>1, <2>2
    <2>5. h[v][part(v)[1]] = F[part(v)[1]] /\ h[v][part(v)[2]] = F[part(v)[2]]
      <3>1. \A m \in Nat, w \in Nat : w < m => h[m][w] = F[w]
        <4> TAKE m \in Nat, w \in Nat
        <4>1. w + 1 \in N /\ w < w + 1
          <5> HIDE DEF N
          <5> QED BY <1>9
        <4> QED BY <4>1
      <3> QED BY <2>1, <2>3, <3>1
    <2>6. \/ part(v)[1] = a /\ part(v)[2] = b
          \/ part(v)[1] = b /\ part(v)[2] = a
      <3> DEFINE c == part(v)[1]
                 d == part(v)[2]
      <3>1. c \in Nat /\ d \in Nat /\ HashPair(c, d) = HashPair(a, b)
        BY <2>3
      <3> HIDE DEF c, d
      <3>2. (c = a /\ d = b) \/ (c = b /\ d = a)
        BY <3>1, PairTellsItsParts
      <3> QED BY <3>2 DEF c, d
    <2>7. F[a] \in D /\ F[b] \in D
      BY <1>7
    <2>8. join[<<F[a], F[b]>>] = join[<<F[b], F[a]>>]
      BY <2>7 DEF Joins
    <2> QED BY <2>4, <2>5, <2>6, <2>8 DEF v
  <1> QED BY <1>7, <1>10, <1>11

(***************************************************************************)
(* What a list may hold: hashes of contents, plain or not, up to the       *)
(* largest that is put on the desk.                                        *)
(***************************************************************************)
Top == HashPair(1, Leaves)

Id == 0..Top

(* All contents are such hashes. *)
LEMMA TopIsHash ==
  /\ Top \in Nat /\ Id \in SUBSET Nat
  /\ LeafHash \in SUBSET Id /\ ContentHash \in SUBSET Id
  <1>1. Top \in Nat /\ Top > Leaves
    BY LeavesAssumption, PairIsAbove DEF Top
  <1>2. ContentHash = LeafHash \cup {0, Top}
    BY DEF ContentHash, EMPTY_BUNDLE, Top
  <1> HIDE DEF Top
  <1> QED BY <1>1, <1>2, LeavesAssumption DEF Id, LeafHash

(* A list of hashes has numbers at its places. *)
LEMMA HashesAreNumbers ==
  ASSUME NEW s \in Seq(Id)
  PROVE  /\ \A j \in DOMAIN s : s[j] \in Id /\ s[j] \in Nat
         /\ Range(s) \in SUBSET Id /\ Range(s) \in SUBSET Nat
  <1>1. \A j \in DOMAIN s : s[j] \in Id
    OBVIOUS
  <1>2. Range(s) \in SUBSET Id
    BY <1>1 DEF Range
  <1> QED BY <1>1, <1>2, TopIsHash

(* A list of some hashes is a list of hashes. *)
LEMMA ListsOfSome ==
  ASSUME NEW S \in SUBSET Id, NEW s \in Seq(S)
  PROVE  s \in Seq(Id)
  <1>1. s \in [1..Len(s) -> S] /\ Len(s) \in Nat
    OBVIOUS
  <1>2. s \in [1..Len(s) -> Id]
    BY <1>1
  <1> QED BY <1>1, <1>2

(* A list has as many places as it is long. *)
LEMMA PositionsCount ==
  ASSUME NEW s \in Seq(Id)
  PROVE  IsFiniteSet(1..Len(s)) /\ Cardinality(1..Len(s)) = Len(s)
  <1>1. Len(s) \in Nat
    OBVIOUS
  <1> QED BY <1>1, FS_Interval

(* Some places of a list are at most as many as it is long. *)
LEMMA CountIsFinite ==
  ASSUME NEW s \in Seq(Id), NEW P \in SUBSET (DOMAIN s)
  PROVE  IsFiniteSet(P) /\ Cardinality(P) \in Nat /\ Cardinality(P) <= Len(s)
  <1>1. IsFiniteSet(1..Len(s)) /\ Cardinality(1..Len(s)) = Len(s)
    BY PositionsCount
  <1>2. P \in SUBSET (1..Len(s))
    OBVIOUS
  <1>3. IsFiniteSet(P) /\ Cardinality(P) <= Len(s)
    BY <1>1, <1>2, FS_Subset
  <1> QED BY <1>3, FS_CardinalityType

(* How many of a list's hashes are at most h: the more, the greater h is. *)
LEMMA Counted ==
  ASSUME NEW s \in Seq(Id), NEW h \in Int
  PROVE  /\ CountUpTo(s, h) \in Nat /\ CountUpTo(s, h) <= Len(s)
         /\ h >= Top => CountUpTo(s, h) = Len(s)
         /\ \A g \in Int : g <= h => CountUpTo(s, g) <= CountUpTo(s, h)
         /\ \A g \in Int : g <= h /\ (\A j \in DOMAIN s : s[j] <= h => s[j] <= g)
              => CountUpTo(s, g) = CountUpTo(s, h)
         /\ CountUpTo(s, -1) = 0
  <1> DEFINE below(g) == {j \in DOMAIN s : s[j] <= g}
  <1>1. \A g : /\ IsFiniteSet(below(g)) /\ Cardinality(below(g)) \in Nat
               /\ Cardinality(below(g)) <= Len(s)
    BY CountIsFinite
  <1>2. \A g : CountUpTo(s, g) = Cardinality(below(g))
    BY DEF CountUpTo
  <1>3. \A j \in DOMAIN s : s[j] \in Id /\ s[j] \in Nat /\ s[j] <= Top
    BY TopIsHash DEF Id
  <1>4. h >= Top => CountUpTo(s, h) = Len(s)
    <2> SUFFICES ASSUME h >= Top PROVE CountUpTo(s, h) = Len(s)
      OBVIOUS
    <2>1. below(h) = 1..Len(s)
      <3>1. DOMAIN s = 1..Len(s)
        OBVIOUS
      <3>2. \A j \in DOMAIN s : s[j] <= h
        BY <1>3, TopIsHash
      <3> QED BY <3>1, <3>2
    <2>3. Cardinality(1..Len(s)) = Len(s)
      BY PositionsCount
    <2> HIDE DEF below
    <2>4. CountUpTo(s, h) = Cardinality(below(h))
      BY <1>2
    <2>5. Cardinality(below(h)) = Cardinality(1..Len(s))
      BY <2>1
    <2> QED BY <2>3, <2>4, <2>5
  <1>5. ASSUME NEW g \in Int, g <= h PROVE CountUpTo(s, g) <= CountUpTo(s, h)
    <2>1. \A j \in below(g) : j \in below(h)
      BY <1>3, <1>5
    <2> HIDE DEF below
    <2> QED BY <1>1, <1>2, <2>1, FS_Subset
  <1>6. ASSUME NEW g \in Int, g <= h, \A j \in DOMAIN s : s[j] <= h => s[j] <= g
        PROVE  CountUpTo(s, g) = CountUpTo(s, h)
    <2>1. below(g) = below(h)
      BY <1>3, <1>6
    <2> HIDE DEF below
    <2> QED BY <1>2, <2>1
  <1>7. CountUpTo(s, -1) = 0
    <2>1. below(-1) = {}
      BY <1>3
    <2> HIDE DEF below
    <2> QED BY <1>2, <2>1, FS_EmptySet
  <1> HIDE DEF below
  <1>8. CountUpTo(s, h) \in Nat /\ CountUpTo(s, h) <= Len(s)
    BY <1>1, <1>2
  <1> QED BY <1>4, <1>5, <1>6, <1>7, <1>8

(* How often a list has h, as RootsIdentifyContents counts it. *)
Occurs(h, s) == Cardinality({i \in DOMAIN s : s[i] = h})

(* Up to h + 1 a list has what it has up to h, and each h + 1 in it. *)
LEMMA CountGoesOn ==
  ASSUME NEW s \in Seq(Id), NEW h \in Int
  PROVE  /\ CountUpTo(s, h + 1) = CountUpTo(s, h) + Occurs(h + 1, s)
         /\ Occurs(h + 1, s) \in Nat
         /\ Occurs(h + 1, s) = 0 <=> h + 1 \notin Range(s)
  <1> DEFINE before == {j \in DOMAIN s : s[j] <= h}
             at == {j \in DOMAIN s : s[j] = h + 1}
             upTo == {j \in DOMAIN s : s[j] <= h + 1}
  <1>1. /\ IsFiniteSet(before) /\ Cardinality(before) \in Nat
        /\ IsFiniteSet(at) /\ Cardinality(at) \in Nat
    BY CountIsFinite
  <1>2. \A j \in DOMAIN s : s[j] \in Nat
    BY TopIsHash DEF Id
  <1>3. upTo = before \cup at /\ before \cap at = {}
    BY <1>2
  <1>4. Cardinality(at) = 0 <=> h + 1 \notin Range(s)
    <2>1. at = {} <=> h + 1 \notin Range(s)
      BY DEF Range
    <2> HIDE DEF at
    <2> QED BY <1>1, <2>1, FS_EmptySet
  <1>5. /\ CountUpTo(s, h) = Cardinality(before) /\ CountUpTo(s, h + 1) = Cardinality(upTo)
        /\ Occurs(h + 1, s) = Cardinality(at)
    BY DEF CountUpTo, Occurs
  <1> HIDE DEF before, at, upTo
  <1>6. Cardinality(upTo) = Cardinality(before) + Cardinality(at) - Cardinality({})
    BY <1>1, <1>3, FS_Union
  <1>7. Cardinality({}) = 0
    BY FS_EmptySet
  <1> QED BY <1>1, <1>4, <1>5, <1>6, <1>7
(* A number of a finite list that is not above h: there is a greatest. *)
LEMMA GreatestUpTo ==
  ASSUME NEW S \in SUBSET Nat, NEW h \in Int, \E x \in S : x <= h
  PROVE  \E g \in S : g <= h /\ \A x \in S : x <= h => x <= g
  <1> DEFINE N == {n \in Nat : \E x \in S : x <= h /\ n = h - x}
  <1>1. N \in SUBSET Nat /\ N # {}
    <2>1. PICK x \in S : x <= h
      OBVIOUS
    <2>2. h - x \in N
      BY <2>1
    <2> QED BY <2>2
  <1>2. PICK n \in N : \A m \in N : n <= m
    <2> HIDE DEF N
    <2> QED BY <1>1, LeastNumber
  <1>3. PICK g \in S : g <= h /\ n = h - g
    OBVIOUS
  <1>4. ASSUME NEW x \in S, x <= h PROVE x <= g
    <2>1. h - x \in N
      BY <1>4
    <2>2. h - g <= h - x
      BY <1>2, <1>3, <2>1
    <2> QED BY <2>2
  <1> QED BY <1>3, <1>4

(***************************************************************************)
(* A sorted list: its i-th hash is at most h if and only if i hashes are.  *)
(***************************************************************************)
LEMMA SortedByCount ==
  ASSUME NEW s \in Seq(Id)
  PROVE  /\ Sorted(s) \in Seq(Id) /\ Len(Sorted(s)) = Len(s)
         /\ DOMAIN Sorted(s) = 1..Len(s)
         /\ \A i \in 1..Len(s) : Sorted(s)[i] \in Range(s)
         /\ \A i \in 1..Len(s), h \in Int : Sorted(s)[i] <= h <=> i <= CountUpTo(s, h)
  <1> DEFINE reaching(i) == {h \in Range(s) : i <= CountUpTo(s, h)}
             least(i) == CHOOSE h \in reaching(i) : \A g \in reaching(i) : h <= g
  <1>1. Range(s) \in SUBSET Id /\ Id \in SUBSET Nat /\ Range(s) \in SUBSET Nat
    BY TopIsHash, HashesAreNumbers
  <1>2. ASSUME NEW i \in 1..Len(s), NEW h \in Int, i <= CountUpTo(s, h)
        PROVE  \E g \in reaching(i) : g <= h
    <2>1. \E x \in Range(s) : x <= h
      <3> SUFFICES ASSUME \A j \in DOMAIN s : ~(s[j] <= h) PROVE FALSE
        BY DEF Range
      <3>1. \A j \in DOMAIN s : s[j] <= h => s[j] <= -1
        OBVIOUS
      <3>2. CountUpTo(s, -1) = 0 /\ -1 \in Int
        BY Counted
      <3>3. CASE -1 <= h
        <4>1. CountUpTo(s, -1) = CountUpTo(s, h)
          BY <3>1, <3>2, <3>3, Counted
        <4> QED BY <1>2, <3>2, <4>1
      <3>4. CASE h <= -1
        <4>1. CountUpTo(s, h) <= CountUpTo(s, -1) /\ CountUpTo(s, h) \in Nat
          BY <3>2, <3>4, Counted
        <4> QED BY <1>2, <3>2, <4>1
      <3> QED BY <3>3, <3>4
    <2>2. PICK g \in Range(s) : g <= h /\ \A x \in Range(s) : x <= h => x <= g
      <3> DEFINE S == Range(s)
      <3>1. S \in SUBSET Nat /\ \E x \in S : x <= h
        BY <1>1, <2>1
      <3> HIDE DEF S
      <3>2. \E g \in S : g <= h /\ \A x \in S : x <= h => x <= g
        BY <3>1, GreatestUpTo
      <3> QED BY <3>2 DEF S
    <2>3. \A j \in DOMAIN s : s[j] <= h => s[j] <= g
      BY <2>2 DEF Range
    <2>4. g \in Nat
      BY <1>1
    <2>5. CountUpTo(s, g) = CountUpTo(s, h)
      BY <2>2, <2>3, <2>4, Counted
    <2> QED BY <1>2, <2>2, <2>5
  <1>3. ASSUME NEW i \in 1..Len(s)
        PROVE  least(i) \in reaching(i) /\ \A g \in reaching(i) : least(i) <= g
    <2>1. Top \in Nat /\ CountUpTo(s, Top) = Len(s)
      BY TopIsHash, Counted
    <2>2. reaching(i) # {}
      <3> HIDE DEF reaching
      <3>1. i <= CountUpTo(s, Top)
        BY <2>1
      <3> QED BY <1>2, <2>1, <3>1
    <2>3. reaching(i) \in SUBSET Nat
      BY <1>1
    <2> HIDE DEF reaching
    <2>4. \E h \in reaching(i) : \A g \in reaching(i) : h <= g
      BY <2>2, <2>3, LeastNumber
    <2> QED BY <2>4
  <1>4. Sorted(s) = [i \in 1..Len(s) |-> least(i)]
    BY DEF Sorted
  <1> HIDE DEF least
  <1>5. ASSUME NEW i \in 1..Len(s) PROVE Sorted(s)[i] = least(i)
    BY <1>4
  <1>6. ASSUME NEW i \in 1..Len(s), NEW h \in Int
        PROVE  Sorted(s)[i] <= h <=> i <= CountUpTo(s, h)
    <2>1. least(i) \in Range(s) /\ i <= CountUpTo(s, least(i)) /\ least(i) \in Nat
      BY <1>1, <1>3
    <2>2. CASE least(i) <= h
      <3>1. CountUpTo(s, least(i)) <= CountUpTo(s, h)
        BY <2>1, <2>2, Counted
      <3>2. CountUpTo(s, least(i)) \in Nat /\ CountUpTo(s, h) \in Nat
        BY <2>1, Counted
      <3> QED BY <1>5, <2>1, <2>2, <3>1, <3>2
    <2>3. CASE i <= CountUpTo(s, h)
      <3>1. PICK g \in reaching(i) : g <= h
        <4> HIDE DEF reaching
        <4> QED BY <1>2, <2>3
      <3>2. least(i) <= g /\ g \in Nat
        BY <1>1, <1>3
      <3> QED BY <1>5, <2>1, <2>3, <3>1, <3>2
    <2> QED BY <1>5, <2>2, <2>3
  <1>7. \A i \in 1..Len(s) : least(i) \in Range(s) /\ least(i) \in Id
    BY <1>1, <1>3
  <1>8. Sorted(s) \in Seq(Id) /\ Len(Sorted(s)) = Len(s) /\ DOMAIN Sorted(s) = 1..Len(s)
    <2>1. Sorted(s) \in [1..Len(s) -> Id] /\ Len(s) \in Nat
      BY <1>4, <1>7
    <2> QED BY <2>1
  <1> QED BY <1>5, <1>6, <1>7, <1>8

(* The levels of a tree. *)
Level == Seq(Nat) \ {<<>>}

(* A level has numbers at its places. *)
LEMMA LevelsAreNumbers ==
  ASSUME NEW x \in Level
  PROVE  Len(x) \in Nat /\ DOMAIN x = 1..Len(x) /\ \A j \in DOMAIN x : x[j] \in Nat
  BY DEF Level

(* The partner of a level's (2 * i - 1)-th hash: the next one, or itself. *)
Partner(x, i) == IF 2 * i <= Len(x) THEN 2 * i ELSE 2 * i - 1

(* The level above has a hash for each pair, about half as many. *)
LEMMA LevelAbove ==
  ASSUME NEW x \in Level
  PROVE  /\ NextLevel(x) \in Level
         /\ 2 * Len(NextLevel(x)) \in {Len(x), Len(x) + 1}
         /\ DOMAIN NextLevel(x) = 1..Len(NextLevel(x))
         /\ \A i \in DOMAIN NextLevel(x) :
              /\ 2 * i - 1 \in DOMAIN x /\ Partner(x, i) \in DOMAIN x
              /\ NextLevel(x)[i] = HashPair(x[2 * i - 1], x[Partner(x, i)])
  <1> DEFINE n == Len(x)
             m == (n + 1) \div 2
  <1>1. x \in Seq(Nat) /\ n \in Nat /\ n # 0 /\ DOMAIN x = 1..n
    BY DEF Level
  <1>2. m \in Nat /\ m # 0 /\ 2 * m \in {n, n + 1}
    <2> HIDE DEF n
    <2> QED BY <1>1
  <1>3. ASSUME NEW i \in 1..m
        PROVE  /\ 2 * i - 1 \in 1..n /\ Partner(x, i) \in 1..n
               /\ (2 * i <= n => Partner(x, i) = 2 * i) /\ (~(2 * i <= n) => Partner(x, i) = 2 * i - 1)
    <2>1. Partner(x, i) = IF 2 * i <= n THEN 2 * i ELSE 2 * i - 1
      BY DEF Partner
    <2>2. i \in Nat /\ i # 0 /\ 2 * i <= n + 1
      <3> HIDE DEF n, m
      <3> QED BY <1>1, <1>2
    <2> HIDE DEF n, m
    <2> QED BY <1>1, <2>1, <2>2
  <1>4. NextLevel(x) = [i \in 1..m |->
          HashPair(x[2 * i - 1], IF 2 * i <= n THEN x[2 * i] ELSE x[2 * i - 1])]
    BY DEF NextLevel
  <1> HIDE DEF n, m
  <1>5. ASSUME NEW i \in 1..m
        PROVE  /\ NextLevel(x)[i] = HashPair(x[2 * i - 1], x[Partner(x, i)])
               /\ NextLevel(x)[i] \in Nat
    <2>1. NextLevel(x)[i] = HashPair(x[2 * i - 1], x[Partner(x, i)])
      BY <1>3, <1>4
    <2>2. x[2 * i - 1] \in Nat /\ x[Partner(x, i)] \in Nat
      BY <1>1, <1>3
    <2>3. HashPair(x[2 * i - 1], x[Partner(x, i)]) \in Nat
      BY <2>2, PairIsAbove
    <2> QED BY <2>1, <2>3
  <1>6. NextLevel(x) \in [1..m -> Nat]
    <2> DEFINE pair(i) == HashPair(x[2 * i - 1], IF 2 * i <= n THEN x[2 * i] ELSE x[2 * i - 1])
    <2>1. NextLevel(x) = [i \in 1..m |-> pair(i)]
      BY <1>4
    <2>2. \A i \in 1..m : NextLevel(x)[i] \in Nat
      BY <1>5
    <2> HIDE DEF pair
    <2> QED BY <2>1, <2>2
  <1>7. NextLevel(x) \in Seq(Nat) /\ Len(NextLevel(x)) = m /\ DOMAIN NextLevel(x) = 1..m
    BY <1>2, <1>6
  <1>8. NextLevel(x) # <<>>
    BY <1>2, <1>7
  <1> QED BY <1>1, <1>2, <1>3, <1>5, <1>7, <1>8 DEF Level, n

(* From one level to the next, up to the root. *)
Up(x) == IF Len(x) = 1 THEN x ELSE NextLevel(x)

(* Going up makes a level shorter, until one hash is left. *)
LEMMA UpIsLevel ==
  ASSUME NEW x \in Level
  PROVE  Up(x) \in Level /\ Len(x) \in Nat /\ Len(x) # 0 /\ Len(Up(x)) \in Nat /\ Len(Up(x)) # 0
         /\ (Len(x) = 1 => Len(Up(x)) = 1) /\ (Len(x) # 1 => Len(Up(x)) < Len(x))
  <1>1. ASSUME NEW y \in Level PROVE Len(y) \in Nat /\ Len(y) # 0
    BY DEF Level
  <1>2. Up(x) \in Level
    BY LevelAbove DEF Up
  <1>3. CASE Len(x) = 1
    BY <1>1, <1>2, <1>3 DEF Up
  <1>4. CASE Len(x) # 1
    <2>1. Up(x) = NextLevel(x)
      BY <1>4 DEF Up
    <2>2. 2 * Len(Up(x)) \in {Len(x), Len(x) + 1}
      BY <2>1, LevelAbove
    <2>3. Len(x) \in Nat /\ Len(x) # 0 /\ Len(Up(x)) \in Nat /\ Len(Up(x)) # 0
      BY <1>1, <1>2
    <2>4. Len(Up(x)) < Len(x)
      <3> DEFINE n == Len(x)
                 m == Len(Up(x))
      <3>1. n \in Nat /\ n # 0 /\ n # 1 /\ m \in Nat /\ 2 * m \in {n, n + 1}
        BY <1>4, <2>2, <2>3
      <3> HIDE DEF n, m
      <3>2. m < n
        BY <3>1
      <3> QED BY <3>2 DEF n, m
    <2> QED BY <1>2, <1>4, <2>3, <2>4
  <1> QED BY <1>3, <1>4

(* Going up level by level can be done for ever. *)
LEMMA LevelsIterate ==
  ASSUME NEW x, x \in Level
  PROVE  \E h \in [Nat -> Level] : h[0] = x /\ \A n \in Nat : h[n + 1] = Up(h[n])
  <1> DEFINE step == [y \in Level |-> Up(y)]
  <1>1. step \in [Level -> Level] /\ \A y \in Level : step[y] = Up(y)
    BY UpIsLevel
  <1> HIDE DEF step
  <1>2. \E h \in [Nat -> Level] : h[0] = x /\ \A n \in Nat : h[n + 1] = step[h[n]]
    BY <1>1, IterationExists
  <1>3. PICK h \in [Nat -> Level] : h[0] = x /\ \A n \in Nat : h[n + 1] = step[h[n]]
    BY <1>2
  <1> QED BY <1>1, <1>3

(***************************************************************************)
(* The root of a tree is reached from its sorted leaves, level by level.   *)
(***************************************************************************)
LEMMA LevelsByRecursion ==
  ASSUME NEW s \in Seq(Id), s # <<>>
  PROVE  \E h \in [Nat -> Level] :
           /\ h[0] = Sorted(s)
           /\ \A n \in Nat : h[n + 1] = Up(h[n])
           /\ MerkleRoot(s) = h[Len(s)][1]
  <1> DEFINE At(h) == [n \in Nat |->
               IF n = 0 THEN Sorted(s)
               ELSE LET below == h[n - 1] IN IF Len(below) = 1 THEN below ELSE NextLevel(below)]
  <1>1. Sorted(s) \in Level
    <2>1. Sorted(s) \in Seq(Id) /\ Len(Sorted(s)) = Len(s)
      BY SortedByCount
    <2>2. Len(s) # 0
      OBVIOUS
    <2>3. Sorted(s) \in Seq(Nat)
      BY <2>1, TopIsHash DEF Id
    <2> QED BY <2>1, <2>2, <2>3 DEF Level
  <1>3. PICK g \in [Nat -> Level] : g[0] = Sorted(s) /\ \A n \in Nat : g[n + 1] = Up(g[n])
    BY <1>1, LevelsIterate
  <1>5. g = At(g)
    <2>1. ASSUME NEW n \in Nat, n # 0
          PROVE  g[n] = IF Len(g[n - 1]) = 1 THEN g[n - 1] ELSE NextLevel(g[n - 1])
      <3>1. n - 1 \in Nat /\ (n - 1) + 1 = n
        BY <2>1
      <3>2. g[n] = Up(g[n - 1])
        BY <1>3, <3>1
      <3> QED BY <3>2 DEF Up
    <2> QED BY <1>3, <2>1
  <1> DEFINE h == CHOOSE x : x = At(x)
  <1>6. h = At(h)
    <2> HIDE DEF At
    <2> QED BY <1>5
  <1>7. MerkleRoot(s) = h[Len(s)][1]
    BY DEF MerkleRoot
  <1> HIDE DEF h
  <1>8. h[0] = Sorted(s)
    BY <1>6
  <1>9. ASSUME NEW n \in Nat PROVE h[n + 1] = Up(h[n])
    <2>1. n + 1 \in Nat /\ n + 1 # 0 /\ (n + 1) - 1 = n
      OBVIOUS
    <2>2. At(h)[n + 1] = IF Len(h[n]) = 1 THEN h[n] ELSE NextLevel(h[n])
      BY <2>1
    <2>3. h[n + 1] = IF Len(h[n]) = 1 THEN h[n] ELSE NextLevel(h[n])
      <3> HIDE DEF At
      <3> QED BY <1>6, <2>2
    <2> QED BY <2>3 DEF Up
  <1>10. \A n \in Nat : h[n] \in Level
    <2> DEFINE N == {n \in Nat : h[n] \in Level}
    <2>1. 0 \in N
      BY <1>1, <1>8
    <2>2. ASSUME NEW n \in N PROVE n + 1 \in N
      <3>1. n \in Nat /\ n + 1 \in Nat /\ h[n] \in Level
        OBVIOUS
      <3>2. h[n + 1] = Up(h[n])
        BY <1>9, <3>1
      <3>3. h[n + 1] \in Level
        BY <3>1, <3>2, UpIsLevel
      <3> QED BY <3>1, <3>3
    <2>3. N = Nat
      <3>1. N \in SUBSET Nat
        OBVIOUS
      <3> HIDE DEF N
      <3> QED BY <2>1, <2>2, <3>1, AllNumbers
    <2> QED BY <2>3
  <1>11. h \in [Nat -> Level]
    <2>1. h = [n \in Nat |-> h[n]]
      BY <1>6
    <2> QED BY <1>10, <2>1
  <1> QED BY <1>7, <1>8, <1>9, <1>11

(* The levels of a list's tree, of which the last is its root alone. *)
Climbs(h, s) ==
  /\ h \in [Nat -> Level]
  /\ h[0] = Sorted(s)
  /\ \A n \in Nat : h[n + 1] = Up(h[n])
  /\ Len(h[Len(s)]) = 1 /\ MerkleRoot(s) = h[Len(s)][1]

(* Every list that is not empty has such levels. *)
LEMMA LevelsEndAtRoot ==
  ASSUME NEW s \in Seq(Id), s # <<>>
  PROVE  \E h : Climbs(h, s)
  <1>1. PICK h \in [Nat -> Level] :
           /\ h[0] = Sorted(s)
           /\ \A n \in Nat : h[n + 1] = Up(h[n])
           /\ MerkleRoot(s) = h[Len(s)][1]
    BY LevelsByRecursion
  <1> DEFINE N == {n \in Nat : Len(h[n]) = 1 \/ Len(h[n]) + n <= Len(s)}
  <1>2. \A n \in Nat : h[n] \in Level /\ Len(h[n]) \in Nat /\ Len(h[n]) # 0
    BY <1>1, UpIsLevel
  <1>3. Len(s) \in Nat
    OBVIOUS
  <1>4. 0 \in N
    BY <1>1, <1>2, <1>3, SortedByCount
  <1>5. ASSUME NEW n \in N PROVE n + 1 \in N
    <2> DEFINE a == Len(h[n])
               b == Len(h[n + 1])
               z == Len(s)
    <2>1. n \in Nat /\ n + 1 \in Nat /\ (a = 1 \/ a + n <= z)
      OBVIOUS
    <2>2. a \in Nat /\ b \in Nat /\ z \in Nat /\ a # 0
      BY <1>2, <1>3, <2>1
    <2>3. (a = 1 => b = 1) /\ (a # 1 => b < a)
      BY <1>1, <1>2, <2>1, UpIsLevel
    <2>4. (b = 1 \/ b + (n + 1) <= z) => n + 1 \in N
      BY <2>1
    <2> HIDE DEF a, b, z, N
    <2> QED BY <2>1, <2>2, <2>3, <2>4
  <1>6. N = Nat
    <2>1. N \in SUBSET Nat
      OBVIOUS
    <2> HIDE DEF N
    <2> QED BY <1>4, <1>5, <2>1, AllNumbers
  <1>7. Len(h[Len(s)]) = 1
    <2>1. Len(s) \in N
      <3> HIDE DEF N
      <3> QED BY <1>3, <1>6
    <2> QED BY <1>2, <1>3, <2>1
  <1> QED BY <1>1, <1>7 DEF Climbs

(* Sorting a list of plain contents makes one. *)
LEMMA PlainLists ==
  ASSUME NEW s \in Seq(LeafHash)
  PROVE  s \in Seq(Id) /\ Sorted(s) \in Seq(LeafHash)
  <1>1. s \in Seq(Id)
    BY TopIsHash, ListsOfSome
  <1>2. /\ Sorted(s) \in Seq(Id) /\ Len(Sorted(s)) = Len(s) /\ DOMAIN Sorted(s) = 1..Len(s)
        /\ \A i \in 1..Len(s) : Sorted(s)[i] \in Range(s)
    BY <1>1, SortedByCount
  <1>3. Range(s) \in SUBSET LeafHash
    BY DEF Range
  <1> DEFINE x == Sorted(s)
             n == Len(s)
  <1>4. n \in Nat /\ DOMAIN x = 1..n /\ (\A i \in 1..n : x[i] \in LeafHash) /\ x \in Seq(Id)
    BY <1>2, <1>3
  <1> HIDE DEF x, n
  <1>5. x = [i \in 1..n |-> x[i]]
    BY <1>4
  <1>6. x \in [1..n -> LeafHash]
    BY <1>4, <1>5
  <1>7. x \in Seq(LeafHash)
    BY <1>4, <1>6
  <1> QED BY <1>1, <1>7 DEF x

(* No root of plain contents is that of the empty bundle. *)
LEMMA HashesArePositive ==
  ASSUME NEW s \in Seq(LeafHash), s # <<>>
  PROVE  MerkleRoot(s) \in Nat /\ MerkleRoot(s) # 0
  <1>1. PICK h : Climbs(h, s)
    BY PlainLists, LevelsEndAtRoot
  <1>2. h \in [Nat -> Level] /\ h[0] = Sorted(s) /\ \A n \in Nat : h[n + 1] = Up(h[n])
    BY <1>1 DEF Climbs
  <1> DEFINE Positive(x) == \A i \in DOMAIN x : x[i] \in Nat /\ x[i] # 0
             N == {n \in Nat : Positive(h[n])}
  <1>3. 0 \in N
    <2>1. Sorted(s) \in Seq(LeafHash)
      BY PlainLists
    <2>2. Positive(Sorted(s))
      BY <2>1, LeavesAssumption DEF LeafHash
    <2> QED BY <1>2, <2>2
  <1>4. ASSUME NEW n \in N PROVE n + 1 \in N
    <2>1. n \in Nat /\ n + 1 \in Nat /\ Positive(h[n]) /\ h[n] \in Level /\ h[n + 1] = Up(h[n])
      BY <1>2
    <2>2. Positive(Up(h[n]))
      <3>1. CASE Len(h[n]) = 1
        BY <2>1, <3>1 DEF Up
      <3>2. CASE Len(h[n]) # 1
        <4> DEFINE x == h[n]
        <4>1. Up(x) = NextLevel(x)
          BY <3>2 DEF Up
        <4>2. ASSUME NEW i \in DOMAIN NextLevel(x) PROVE NextLevel(x)[i] \in Nat /\ NextLevel(x)[i] # 0
          <5>1. /\ 2 * i - 1 \in DOMAIN x /\ Partner(x, i) \in DOMAIN x
                /\ NextLevel(x)[i] = HashPair(x[2 * i - 1], x[Partner(x, i)])
            BY <2>1, LevelAbove
          <5>2. x[2 * i - 1] \in Nat /\ x[Partner(x, i)] \in Nat
            BY <2>1, <5>1
          <5> HIDE DEF x
          <5>3. HashPair(x[2 * i - 1], x[Partner(x, i)]) \in Nat /\ HashPair(x[2 * i - 1], x[Partner(x, i)]) > Leaves
            BY <5>2, PairIsAbove
          <5> QED BY <5>1, <5>3, LeavesAssumption
        <4> QED BY <4>1, <4>2
      <3> QED BY <3>1, <3>2
    <2> QED BY <2>1, <2>2
  <1>5. N = Nat
    <2>1. N \in SUBSET Nat
      OBVIOUS
    <2> HIDE DEF N
    <2> QED BY <1>3, <1>4, <2>1, AllNumbers
  <1>6. Positive(h[Len(s)])
    <2>1. Len(s) \in N
      <3> HIDE DEF N
      <3> QED BY <1>5
    <2> QED BY <2>1
  <1>7. Len(h[Len(s)]) = 1 /\ h[Len(s)] \in Seq(Nat) /\ MerkleRoot(s) = h[Len(s)][1]
    <2>1. Len(s) \in Nat
      OBVIOUS
    <2> QED BY <1>1, <1>2, <2>1 DEF Climbs, Level
  <1>8. 1 \in DOMAIN h[Len(s)]
    BY <1>7
  <1> QED BY <1>6, <1>7, <1>8

(* Every hash of a level is in a pair of the next. *)
LEMMA EveryPlacePairs ==
  ASSUME NEW x \in Level, NEW j \in DOMAIN x
  PROVE  \E i \in DOMAIN NextLevel(x) : j = 2 * i - 1 \/ j = Partner(x, i)
  <1> DEFINE i == (j + 1) \div 2
             n == Len(x)
             m == Len(NextLevel(x))
  <1>1. n \in Nat /\ m \in Nat /\ j \in 1..n /\ 2 * m \in {n, n + 1} /\ DOMAIN NextLevel(x) = 1..m
    BY LevelAbove DEF Level
  <1>2. Partner(x, i) = IF 2 * i <= n THEN 2 * i ELSE 2 * i - 1
    BY DEF Partner
  <1>3. i = (j + 1) \div 2
    OBVIOUS
  <1> HIDE DEF i, n, m
  <1>4. i \in Int /\ (2 * i = j + 1 \/ 2 * i = j)
    BY <1>1, <1>3
  <1>5. i \in 1..m
    BY <1>1, <1>4
  <1>6. j = 2 * i - 1 \/ j = Partner(x, i)
    BY <1>1, <1>2, <1>4
  <1> QED BY <1>1, <1>5, <1>6

(* Sorting keeps the contents. *)
LEMMA SortedKeeps ==
  ASSUME NEW s \in Seq(Id)
  PROVE  Range(Sorted(s)) = Range(s)
  <1>1. Range(Sorted(s)) \subseteq Range(s)
    BY SortedByCount DEF Range
  <1>2. ASSUME NEW g \in Range(s) PROVE g \in Range(Sorted(s))
    <2> DEFINE h == g - 1
               i == CountUpTo(s, g)
    <2>1. g \in Id
      BY <1>2 DEF Range
    <2>2. h \in Int /\ g = h + 1 /\ g \in Nat
      BY <2>1, TopIsHash DEF Id
    <2> HIDE DEF h, i
    <2>3. /\ CountUpTo(s, g) = CountUpTo(s, h) + Occurs(g, s)
          /\ Occurs(g, s) \in Nat /\ Occurs(g, s) # 0
      BY <1>2, <2>2, CountGoesOn
    <2>4. CountUpTo(s, g) \in Nat /\ CountUpTo(s, h) \in Nat /\ CountUpTo(s, g) <= Len(s)
      BY <2>2, Counted
    <2>5. i = CountUpTo(s, g)
      BY DEF i
    <2>6. i \in 1..Len(s) /\ ~(i <= CountUpTo(s, h))
      BY <2>3, <2>4, <2>5
    <2>7. Sorted(s)[i] <= g /\ ~(Sorted(s)[i] <= h)
      BY <2>2, <2>4, <2>5, <2>6, SortedByCount
    <2>8. i \in DOMAIN Sorted(s) /\ Sorted(s)[i] \in Nat
      <3>1. Sorted(s) \in Seq(Id) /\ DOMAIN Sorted(s) = 1..Len(s)
        BY SortedByCount
      <3> QED BY <2>6, <3>1, TopIsHash DEF Id
    <2>9. Sorted(s)[i] = g
      BY <2>2, <2>7, <2>8
    <2> QED BY <2>8, <2>9 DEF Range
  <1> QED BY <1>1, <1>2

(* The leaves a hash is made of. *)
MadeOf(L) ==
  /\ L \in [Nat -> SUBSET LeafHash]
  /\ \A g \in LeafHash : L[g] = {g}
  /\ \A a, b \in Nat : L[HashPair(a, b)] = L[a] \cup L[b]

(* A hash is made of the leaves of both its parts. *)
LEMMA MadeOfExists == \E L : MadeOf(L)
  <1> DEFINE D == SUBSET LeafHash
             leaf == [g \in LeafHash |-> {g}]
             join == [p \in D \X D |-> p[1] \cup p[2]]
  <1>1. leaf \in [LeafHash -> D] /\ join \in [D \X D -> D]
    OBVIOUS
  <1>2. \A x, y \in D : join[<<x, y>>] = x \cup y
    OBVIOUS
  <1>3. Joins(D, leaf, join)
    <2>1. \A x, y \in D : join[<<x, y>>] = join[<<y, x>>]
      BY <1>2
    <2> HIDE DEF D, leaf, join
    <2> QED BY <1>1, <2>1 DEF Joins
  <1>4. \A g \in LeafHash : leaf[g] = {g}
    OBVIOUS
  <1> HIDE DEF D, leaf, join
  <1>5. PICK L \in [Nat -> D] :
           /\ \A h \in LeafHash : L[h] = leaf[h]
           /\ \A a, b \in Nat : L[HashPair(a, b)] = join[<<L[a], L[b]>>]
    BY <1>3, HashesFold
  <1>6. \A a, b \in Nat : L[HashPair(a, b)] = L[a] \cup L[b]
    <2> TAKE a, b \in Nat
    <2>1. L[a] \in D /\ L[b] \in D
      OBVIOUS
    <2>2. join[<<L[a], L[b]>>] = L[a] \cup L[b]
      BY <1>2, <2>1
    <2>3. L[HashPair(a, b)] = join[<<L[a], L[b]>>]
      BY <1>5
    <2> QED BY <2>2, <2>3
  <1>7. L \in [Nat -> SUBSET LeafHash]
    BY DEF D
  <1> QED BY <1>4, <1>5, <1>6, <1>7 DEF MadeOf

(***************************************************************************)
(* A root tells the contents of its leaves: all of a level is made of what *)
(* all of the level below is made of.                                      *)
(***************************************************************************)
LEMMA RootTellsContents ==
  ASSUME NEW s \in Seq(LeafHash), s # <<>>, NEW L, MadeOf(L)
  PROVE  L[MerkleRoot(s)] = Range(s)
  <1> DEFINE All(x) == UNION {L[x[i]] : i \in DOMAIN x}
  <1>1. PICK h : Climbs(h, s)
    BY PlainLists, LevelsEndAtRoot
  <1>2. h \in [Nat -> Level] /\ h[0] = Sorted(s) /\ \A n \in Nat : h[n + 1] = Up(h[n])
    BY <1>1 DEF Climbs
  <1>3. ASSUME NEW x \in Level PROVE All(NextLevel(x)) = All(x)
    <2> DEFINE y == NextLevel(x)
    <2>1. \A j \in DOMAIN x : x[j] \in Nat
      BY DEF Level
    <2>2. ASSUME NEW i \in DOMAIN y
          PROVE  /\ 2 * i - 1 \in DOMAIN x /\ Partner(x, i) \in DOMAIN x
                 /\ L[y[i]] = L[x[2 * i - 1]] \cup L[x[Partner(x, i)]]
      <3>1. /\ 2 * i - 1 \in DOMAIN x /\ Partner(x, i) \in DOMAIN x
            /\ y[i] = HashPair(x[2 * i - 1], x[Partner(x, i)])
        BY LevelAbove
      <3>2. x[2 * i - 1] \in Nat /\ x[Partner(x, i)] \in Nat
        BY <2>1, <3>1
      <3> QED BY <3>1, <3>2 DEF MadeOf
    <2> HIDE DEF y
    <2>3. ASSUME NEW i \in DOMAIN y PROVE L[y[i]] \subseteq All(x)
      BY <2>2
    <2>4. ASSUME NEW j \in DOMAIN x PROVE L[x[j]] \subseteq All(y)
      <3>1. PICK i \in DOMAIN y : j = 2 * i - 1 \/ j = Partner(x, i)
        BY EveryPlacePairs DEF y
      <3>2. L[x[j]] \subseteq L[y[i]]
        BY <2>2, <3>1
      <3> QED BY <3>2
    <2>5. All(y) = All(x)
      BY <2>3, <2>4
    <2> QED BY <2>5 DEF y
  <1>4. ASSUME NEW x \in Level PROVE All(Up(x)) = All(x)
    <2> HIDE DEF All
    <2> QED BY <1>3 DEF Up
  <1>5. All(h[0]) = Range(s)
    <2>1. Sorted(s) \in Seq(LeafHash) /\ Range(Sorted(s)) = Range(s)
      BY PlainLists, SortedKeeps
    <2>2. \A i \in DOMAIN Sorted(s) : L[Sorted(s)[i]] = {Sorted(s)[i]}
      BY <2>1 DEF MadeOf
    <2>3. All(Sorted(s)) = Range(Sorted(s))
      BY <2>2 DEF Range
    <2> QED BY <1>2, <2>1, <2>3
  <1> DEFINE N == {n \in Nat : All(h[n]) = Range(s)}
  <1>6. N = Nat
    <2>1. ASSUME NEW n \in N PROVE n + 1 \in N
      <3>1. n \in Nat /\ n + 1 \in Nat /\ h[n] \in Level /\ h[n + 1] = Up(h[n])
        BY <1>2
      <3>2. All(h[n]) = Range(s)
        OBVIOUS
      <3> HIDE DEF All
      <3>3. All(h[n + 1]) = Range(s)
        BY <1>4, <3>1, <3>2
      <3> QED BY <3>1, <3>3
    <2>2. 0 \in N
      <3> HIDE DEF All
      <3> QED BY <1>5
    <2>3. N \in SUBSET Nat
      OBVIOUS
    <2> HIDE DEF N
    <2> QED BY <2>1, <2>2, <2>3, AllNumbers
  <1>7. All(h[Len(s)]) = Range(s)
    <2>1. Len(s) \in Nat
      OBVIOUS
    <2>2. Len(s) \in N
      <3> HIDE DEF N
      <3> QED BY <1>6, <2>1
    <2> HIDE DEF All
    <2> QED BY <2>2
  <1>8. Len(h[Len(s)]) = 1 /\ h[Len(s)] \in Seq(Nat) /\ MerkleRoot(s) = h[Len(s)][1]
    <2>1. Len(s) \in Nat
      OBVIOUS
    <2> QED BY <1>1, <1>2, <2>1 DEF Climbs, Level
  <1> DEFINE top == h[Len(s)]
  <1>9. DOMAIN top = {1}
    BY <1>8
  <1> HIDE DEF top
  <1>10. All(top) = L[top[1]]
    BY <1>9
  <1> HIDE DEF All
  <1> QED BY <1>7, <1>8, <1>10 DEF top

-----------------------------------------------------------------------------
(* Whatever hashes weigh, there are weights by which a pair weighs as much as both its parts. *)
LEMMA PairsWeigh ==
  ASSUME NEW V \in [Nat -> Nat]
  PROVE  \E W \in [Nat -> Nat] : \A a, b \in Nat : W[HashPair(a, b)] = V[a] + V[b]
  <1> DEFINE PartsOf(v) == {p \in Nat \X Nat : HashPair(p[1], p[2]) = v}
             part(v) == CHOOSE p \in PartsOf(v) : TRUE
             weight(v) == IF PartsOf(v) # {} THEN V[part(v)[1]] + V[part(v)[2]] ELSE 0
             W == [v \in Nat |-> weight(v)]
  <1>1. ASSUME NEW v \in Nat, PartsOf(v) # {}
        PROVE  part(v)[1] \in Nat /\ part(v)[2] \in Nat /\ HashPair(part(v)[1], part(v)[2]) = v
    <2>1. part(v) \in PartsOf(v)
      BY <1>1
    <2> HIDE DEF part
    <2> QED BY <2>1
  <1> HIDE DEF part
  <1>2. \A v \in Nat : weight(v) \in Nat
    <2> HIDE DEF PartsOf
    <2> QED BY <1>1
  <1>3. ASSUME NEW a \in Nat, NEW b \in Nat PROVE W[HashPair(a, b)] = V[a] + V[b]
    <2> DEFINE v == HashPair(a, b)
    <2>1. v \in Nat
      BY PairIsAbove
    <2>2. <<a, b>> \in PartsOf(v)
      OBVIOUS
    <2>3. PartsOf(v) # {}
      BY <2>2
    <2>4. W[v] = weight(v)
      <3> HIDE DEF weight, v
      <3> QED BY <2>1
    <2> DEFINE c == part(v)[1]
               d == part(v)[2]
    <2>5. c \in Nat /\ d \in Nat /\ HashPair(c, d) = HashPair(a, b)
      <3> HIDE DEF PartsOf
      <3> QED BY <1>1, <2>1, <2>3
    <2>6. W[v] = V[c] + V[d]
      <3> HIDE DEF PartsOf, v
      <3> QED BY <2>3, <2>4
    <2> HIDE DEF c, d, v
    <2>7. (c = a /\ d = b) \/ (c = b /\ d = a)
      BY <2>5, PairTellsItsParts
    <2>8. V[a] \in Nat /\ V[b] \in Nat
      OBVIOUS
    <2>9. W[v] = V[a] + V[b]
      <3> HIDE DEF W
      <3> QED BY <2>6, <2>7, <2>8
    <2> QED BY <2>9 DEF v
  <1>4. W \in [Nat -> Nat]
    <2> HIDE DEF weight
    <2> QED BY <1>2
  <1> HIDE DEF W
  <1> QED BY <1>3, <1>4

(* y has at least as much as x everywhere, and more somewhere. *)
Lighter(V, x, y) ==
  /\ Len(x) = Len(y)
  /\ \A i \in DOMAIN x : V[x[i]] <= V[y[i]]
  /\ \E i \in DOMAIN x : V[x[i]] < V[y[i]]

(* What is lighter on a level is lighter on the next, by what pairs weigh there. *)
LEMMA LighterGoesUp ==
  ASSUME NEW x \in Level, NEW y \in Level, NEW V \in [Nat -> Nat], Lighter(V, x, y)
  PROVE  \E W \in [Nat -> Nat] : Lighter(W, Up(x), Up(y))
  <1>1. CASE Len(x) = 1
    <2>1. Up(x) = x /\ Up(y) = y
      BY <1>1 DEF Lighter, Up
    <2> QED BY <2>1
  <1>2. CASE Len(x) # 1
    <2>9. PICK W \in [Nat -> Nat] : \A a, b \in Nat : W[HashPair(a, b)] = V[a] + V[b]
      BY PairsWeigh
    <2> DEFINE x1 == NextLevel(x)
               y1 == NextLevel(y)
    <2>1. Up(x) = x1 /\ Up(y) = y1
      BY <1>2 DEF Up, Lighter
    <2>2. /\ DOMAIN x1 = 1..Len(x1) /\ 2 * Len(x1) \in {Len(x), Len(x) + 1} /\ x1 \in Level
          /\ DOMAIN y1 = 1..Len(y1) /\ 2 * Len(y1) \in {Len(y), Len(y) + 1} /\ y1 \in Level
      BY LevelAbove
    <2>3. Len(x1) = Len(y1)
      <3> DEFINE n == Len(x)
                 m == Len(x1)
                 o == Len(y1)
      <3>1. n \in Nat /\ m \in Nat /\ o \in Nat
        BY <2>2, LevelsAreNumbers
      <3>2. 2 * m \in {n, n + 1} /\ 2 * o \in {n, n + 1}
        BY <2>2 DEF Lighter
      <3> HIDE DEF n, m, o
      <3>3. m = o
        BY <3>1, <3>2
      <3> QED BY <3>3 DEF m, o
    <2>4. DOMAIN x = DOMAIN y
      BY DEF Lighter, Level
    <2>5. \A i : Partner(x, i) = Partner(y, i)
      BY DEF Partner, Lighter
    <2>6. ASSUME NEW i \in DOMAIN x1
          PROVE  /\ 2 * i - 1 \in DOMAIN x /\ Partner(x, i) \in DOMAIN x
                 /\ W[x1[i]] = V[x[2 * i - 1]] + V[x[Partner(x, i)]]
                 /\ W[y1[i]] = V[y[2 * i - 1]] + V[y[Partner(x, i)]]
                 /\ W[x1[i]] \in Nat /\ W[y1[i]] \in Nat
                 /\ V[x[2 * i - 1]] \in Nat /\ V[x[Partner(x, i)]] \in Nat
                 /\ V[y[2 * i - 1]] \in Nat /\ V[y[Partner(x, i)]] \in Nat
      <3>1. /\ 2 * i - 1 \in DOMAIN x /\ Partner(x, i) \in DOMAIN x
            /\ x1[i] = HashPair(x[2 * i - 1], x[Partner(x, i)])
        BY LevelAbove
      <3>2. y1[i] = HashPair(y[2 * i - 1], y[Partner(x, i)])
        BY <2>2, <2>3, <2>5, LevelAbove
      <3>3. /\ x[2 * i - 1] \in Nat /\ x[Partner(x, i)] \in Nat
            /\ y[2 * i - 1] \in Nat /\ y[Partner(x, i)] \in Nat
        BY <2>4, <3>1, LevelsAreNumbers
      <3> HIDE DEF x1, y1
      <3>4. /\ W[x1[i]] = V[x[2 * i - 1]] + V[x[Partner(x, i)]]
            /\ W[y1[i]] = V[y[2 * i - 1]] + V[y[Partner(x, i)]]
        <4> DEFINE a == x[2 * i - 1]
                   b == x[Partner(x, i)]
                   c == y[2 * i - 1]
                   d == y[Partner(x, i)]
        <4>1. a \in Nat /\ b \in Nat /\ c \in Nat /\ d \in Nat
          BY <3>3
        <4>2. x1[i] = HashPair(a, b) /\ y1[i] = HashPair(c, d)
          BY <3>1, <3>2
        <4> HIDE DEF a, b, c, d
        <4>3. W[x1[i]] = V[a] + V[b] /\ W[y1[i]] = V[c] + V[d]
          BY <2>9, <4>1, <4>2
        <4> QED BY <4>3 DEF a, b, c, d
      <3>5. /\ V[x[2 * i - 1]] \in Nat /\ V[x[Partner(x, i)]] \in Nat
            /\ V[y[2 * i - 1]] \in Nat /\ V[y[Partner(x, i)]] \in Nat
        BY <3>3
      <3> QED BY <3>1, <3>4, <3>5
    <2>7. \A i \in DOMAIN x1 : W[x1[i]] <= W[y1[i]]
      <3> HIDE DEF x1, y1
      <3> TAKE i \in DOMAIN x1
      <3>1. V[x[2 * i - 1]] <= V[y[2 * i - 1]] /\ V[x[Partner(x, i)]] <= V[y[Partner(x, i)]]
        BY <2>6 DEF Lighter
      <3> QED BY <2>6, <3>1
    <2>8. \E i \in DOMAIN x1 : W[x1[i]] < W[y1[i]]
      <3>1. PICK j \in DOMAIN x : V[x[j]] < V[y[j]]
        BY DEF Lighter
      <3>2. PICK i \in DOMAIN x1 : j = 2 * i - 1 \/ j = Partner(x, i)
        BY EveryPlacePairs
      <3> HIDE DEF x1, y1
      <3>3. V[x[2 * i - 1]] <= V[y[2 * i - 1]] /\ V[x[Partner(x, i)]] <= V[y[Partner(x, i)]]
        BY <2>6 DEF Lighter
      <3>4. V[x[2 * i - 1]] < V[y[2 * i - 1]] \/ V[x[Partner(x, i)]] < V[y[Partner(x, i)]]
        BY <3>1, <3>2
      <3>5. W[x1[i]] < W[y1[i]]
        BY <2>6, <3>3, <3>4
      <3> QED BY <3>5
    <2> HIDE DEF x1, y1
    <2> QED BY <2>1, <2>3, <2>7, <2>8 DEF Lighter
  <1> QED BY <1>1, <1>2

(***************************************************************************)
(* A root tells how many of its leaves are at most k, if it is known how   *)
(* many leaves there are: of two lists that are as long, the tree of the   *)
(* one with fewer is lighter on every level.                               *)
(***************************************************************************)
LEMMA FewerWeighLess ==
  ASSUME NEW s \in Seq(Id), NEW t \in Seq(Id), s # <<>>, Len(s) = Len(t),
         NEW k \in Nat, CountUpTo(s, k) < CountUpTo(t, k)
  PROVE  MerkleRoot(s) # MerkleRoot(t)
  <1>1. t # <<>> /\ Len(s) \in Nat
    OBVIOUS
  <1>2. PICK h : Climbs(h, s)
    BY LevelsEndAtRoot
  <1>3. PICK g : Climbs(g, t)
    BY <1>1, LevelsEndAtRoot
  <1> DEFINE V == [v \in Nat |-> IF v <= k THEN 1 ELSE 0]
  <1>4. V \in [Nat -> Nat] /\ \A v \in Nat : V[v] = IF v <= k THEN 1 ELSE 0
    OBVIOUS
  <1> HIDE DEF V
  <1>5. /\ h \in [Nat -> Level] /\ h[0] = Sorted(s) /\ \A n \in Nat : h[n + 1] = Up(h[n])
        /\ g \in [Nat -> Level] /\ g[0] = Sorted(t) /\ \A n \in Nat : g[n + 1] = Up(g[n])
    BY <1>2, <1>3 DEF Climbs
  <1>6. Lighter(V, Sorted(s), Sorted(t))
    <2> DEFINE n == Len(s)
               a == CountUpTo(s, k)
               b == CountUpTo(t, k)
               x == Sorted(s)
               y == Sorted(t)
    <2>1. a \in Nat /\ b \in Nat /\ a < b /\ b <= n /\ n \in Nat
      BY <1>1, Counted
    <2>2. /\ x \in Seq(Id) /\ Len(x) = n /\ DOMAIN x = 1..n
          /\ \A i \in 1..n : x[i] <= k <=> i <= a
      BY SortedByCount
    <2>3. /\ y \in Seq(Id) /\ Len(y) = n /\ DOMAIN y = 1..n
          /\ \A i \in 1..n : y[i] <= k <=> i <= b
      BY SortedByCount
    <2> HIDE DEF n, a, b, x, y
    <2>4. ASSUME NEW i \in 1..n
          PROVE  /\ V[x[i]] = IF i <= a THEN 1 ELSE 0
                 /\ V[y[i]] = IF i <= b THEN 1 ELSE 0
      <3>1. x[i] \in Nat /\ y[i] \in Nat
        BY <2>2, <2>3, HashesAreNumbers
      <3>2. V[x[i]] = (IF x[i] <= k THEN 1 ELSE 0) /\ V[y[i]] = (IF y[i] <= k THEN 1 ELSE 0)
        BY <1>4, <3>1
      <3> QED BY <2>2, <2>3, <3>2
    <2>5. \A i \in DOMAIN x : V[x[i]] <= V[y[i]]
      BY <2>1, <2>2, <2>4
    <2>6. b \in 1..n /\ ~(b <= a) /\ b <= b
      BY <2>1
    <2>7. V[x[b]] < V[y[b]]
      BY <2>4, <2>6
    <2>8. Len(x) = Len(y) /\ \E i \in DOMAIN x : V[x[i]] < V[y[i]]
      BY <2>2, <2>3, <2>6, <2>7
    <2>9. Lighter(V, x, y)
      BY <2>5, <2>8 DEF Lighter
    <2> QED BY <2>9 DEF x, y
  <1> DEFINE N == {n \in Nat : \E W \in [Nat -> Nat] : Lighter(W, h[n], g[n])}
  <1>7. N = Nat
    <2>1. 0 \in N
      BY <1>4, <1>5, <1>6
    <2>2. ASSUME NEW n \in N PROVE n + 1 \in N
      <3>1. n \in Nat /\ n + 1 \in Nat
        OBVIOUS
      <3>4. PICK W \in [Nat -> Nat] : Lighter(W, h[n], g[n])
        OBVIOUS
      <3>2. h[n] \in Level /\ g[n] \in Level /\ h[n + 1] = Up(h[n]) /\ g[n + 1] = Up(g[n])
        BY <1>5, <3>1
      <3>3. \E U \in [Nat -> Nat] : Lighter(U, Up(h[n]), Up(g[n]))
        BY <3>2, <3>4, LighterGoesUp
      <3> QED BY <3>1, <3>2, <3>3
    <2>3. N \in SUBSET Nat
      OBVIOUS
    <2> HIDE DEF N
    <2> QED BY <2>1, <2>2, <2>3, AllNumbers
  <1> DEFINE x == h[Len(s)]
             y == g[Len(s)]
  <1>8. PICK W \in [Nat -> Nat] : Lighter(W, x, y)
    <2>1. Len(s) \in N
      <3> HIDE DEF N
      <3> QED BY <1>1, <1>7
    <2> QED BY <2>1
  <1>9. /\ Len(x) = 1 /\ x \in Level /\ MerkleRoot(s) = x[1]
        /\ Len(y) = 1 /\ y \in Level /\ MerkleRoot(t) = y[1]
    BY <1>1, <1>2, <1>3, <1>5 DEF Climbs
  <1> HIDE DEF x, y
  <1>10. W[x[1]] < W[y[1]]
    <2>1. DOMAIN x = {1}
      BY <1>9, LevelsAreNumbers
    <2> QED BY <1>8, <2>1 DEF Lighter
  <1>11. W[x[1]] \in Nat /\ W[y[1]] \in Nat
    <2>1. ASSUME NEW z \in Level, Len(z) = 1 PROVE z[1] \in Nat
      <3>1. 1 \in DOMAIN z
        BY <2>1, LevelsAreNumbers
      <3> QED BY <3>1, LevelsAreNumbers
    <2>2. x[1] \in Nat /\ y[1] \in Nat
      BY <1>9, <2>1
    <2> QED BY <2>2
  <1>12. x[1] # y[1]
    <2> SUFFICES ASSUME x[1] = y[1] PROVE FALSE
      OBVIOUS
    <2>1. W[x[1]] = W[y[1]]
      OBVIOUS
    <2> DEFINE v == W[x[1]]
               w == W[y[1]]
    <2>2. v \in Nat /\ v < w /\ v = w
      BY <1>10, <1>11, <2>1
    <2> HIDE DEF v, w
    <2> QED BY ONLY <2>2
  <1> QED BY <1>9, <1>12

(* Lists as long and with the same root have as many hashes up to each. *)
LEMMA RootTellsCounts ==
  ASSUME NEW s \in Seq(Id), NEW t \in Seq(Id), s # <<>>, Len(s) = Len(t),
         MerkleRoot(s) = MerkleRoot(t), NEW k \in Nat
  PROVE  CountUpTo(s, k) = CountUpTo(t, k)
  <1>1. t # <<>>
    OBVIOUS
  <1>2. ~(CountUpTo(s, k) < CountUpTo(t, k)) /\ ~(CountUpTo(t, k) < CountUpTo(s, k))
    BY <1>1, FewerWeighLess
  <1>3. CountUpTo(s, k) \in Nat /\ CountUpTo(t, k) \in Nat
    <2>1. k \in Int
      OBVIOUS
    <2> QED BY <2>1, Counted
  <1> QED BY <1>2, <1>3

(* What a list has up to each hash says what it has of each, and the other way round. *)
LEMMA CountsAndOccurrences ==
  ASSUME NEW s \in Seq(Id), NEW t \in Seq(Id)
  PROVE  (\A k \in Nat : CountUpTo(s, k) = CountUpTo(t, k))
           <=> (\A g \in Id : Occurs(g, s) = Occurs(g, t))
  <1>1. ASSUME NEW g \in Id, \A k \in Nat : CountUpTo(s, k) = CountUpTo(t, k)
        PROVE  Occurs(g, s) = Occurs(g, t)
    <2> DEFINE h == g - 1
    <2>1. h \in Int /\ h + 1 = g /\ g \in Nat /\ (h \in Nat \/ h = -1)
      BY TopIsHash DEF Id
    <2> HIDE DEF h
    <2>2. /\ CountUpTo(s, g) = CountUpTo(s, h) + Occurs(g, s) /\ Occurs(g, s) \in Nat
          /\ CountUpTo(t, g) = CountUpTo(t, h) + Occurs(g, t) /\ Occurs(g, t) \in Nat
      BY <2>1, CountGoesOn
    <2>3. CountUpTo(s, h) \in Nat /\ CountUpTo(t, h) \in Nat
      BY <2>1, Counted
    <2>4. CountUpTo(s, g) = CountUpTo(t, g) /\ CountUpTo(s, h) = CountUpTo(t, h)
      <3>1. CountUpTo(s, -1) = 0 /\ CountUpTo(t, -1) = 0
        BY Counted
      <3> QED BY <1>1, <2>1, <3>1
    <2> QED BY <2>2, <2>3, <2>4
  <1>2. ASSUME \A g \in Id : Occurs(g, s) = Occurs(g, t)
        PROVE  \A k \in Nat : CountUpTo(s, k) = CountUpTo(t, k)
    <2>1. ASSUME NEW k \in Int, CountUpTo(s, k) = CountUpTo(t, k), k + 1 \in Nat
          PROVE  CountUpTo(s, k + 1) = CountUpTo(t, k + 1)
      <3>1. CASE k + 1 \in Id
        <4>1. Occurs(k + 1, s) = Occurs(k + 1, t)
          BY <1>2, <3>1
        <4> QED BY <2>1, <4>1, CountGoesOn
      <3>2. CASE k + 1 \notin Id
        <4>1. k + 1 \notin Range(s) /\ k + 1 \notin Range(t)
          BY <3>2 DEF Range
        <4>2. Occurs(k + 1, s) = 0 /\ Occurs(k + 1, t) = 0
          BY <4>1, CountGoesOn
        <4> QED BY <2>1, <4>2, CountGoesOn
      <3> QED BY <3>1, <3>2
    <2> DEFINE N == {k \in Nat : CountUpTo(s, k) = CountUpTo(t, k)}
    <2>2. 0 \in N
      <3>1. CountUpTo(s, -1) = CountUpTo(t, -1) /\ -1 \in Int /\ (-1) + 1 = 0
        BY Counted
      <3> QED BY <2>1, <3>1
    <2>3. ASSUME NEW k \in N PROVE k + 1 \in N
      BY <2>1
    <2>4. N \in SUBSET Nat
      OBVIOUS
    <2>5. N = Nat
      <3> HIDE DEF N
      <3> QED BY <2>2, <2>3, <2>4, AllNumbers
    <2> QED BY <2>5
  <1> QED BY <1>1, <1>2

(* Lists of the same hashes, as often, are sorted into the same list. *)
LEMMA CountsTellSorted ==
  ASSUME NEW s \in Seq(Id), NEW t \in Seq(Id),
         \A k \in Nat : CountUpTo(s, k) = CountUpTo(t, k)
  PROVE  Len(s) = Len(t) /\ Sorted(s) = Sorted(t)
  <1>1. Top \in Nat
    BY TopIsHash
  <1>2. Len(s) = Len(t)
    <2>1. CountUpTo(s, Top) = Len(s) /\ CountUpTo(t, Top) = Len(t)
      BY <1>1, Counted
    <2> QED BY <1>1, <2>1
  <1>3. /\ Sorted(s) \in Seq(Id) /\ Len(Sorted(s)) = Len(s) /\ DOMAIN Sorted(s) = 1..Len(s)
        /\ \A i \in 1..Len(s), k \in Nat : Sorted(s)[i] <= k <=> i <= CountUpTo(s, k)
    BY SortedByCount
  <1>4. /\ Sorted(t) \in Seq(Id) /\ Len(Sorted(t)) = Len(s) /\ DOMAIN Sorted(t) = 1..Len(s)
        /\ \A i \in 1..Len(s), k \in Nat : Sorted(t)[i] <= k <=> i <= CountUpTo(t, k)
    BY <1>2, SortedByCount
  <1>5. ASSUME NEW i \in 1..Len(s) PROVE Sorted(s)[i] = Sorted(t)[i]
    <2> DEFINE a == Sorted(s)[i]
               b == Sorted(t)[i]
    <2>1. a \in Nat /\ b \in Nat
      BY <1>3, <1>4, TopIsHash DEF Id
    <2>2. \A k \in Nat : a <= k <=> b <= k
      BY <1>3, <1>4
    <2> HIDE DEF a, b
    <2>4. a <= b /\ b <= a
      BY <2>1, <2>2
    <2>3. a = b
      BY <2>1, <2>4
    <2> QED BY <2>3 DEF a, b
  <1> DEFINE x == Sorted(s)
             y == Sorted(t)
             n == Len(s)
  <1>6. x \in [1..n -> Id] /\ y \in [1..n -> Id] /\ \A i \in 1..n : x[i] = y[i]
    BY <1>3, <1>4, <1>5
  <1> HIDE DEF x, y, n
  <1>7. x = y
    <2>1. x = [i \in 1..n |-> x[i]] /\ y = [i \in 1..n |-> y[i]]
      BY <1>6
    <2>2. [i \in 1..n |-> x[i]] = [i \in 1..n |-> y[i]]
      BY <1>6
    <2> QED BY <2>1, <2>2
  <1> QED BY <1>2, <1>7 DEF x, y

(* The root depends on the sorted leaves and on how many they are only. *)
LEMMA SortedTellsRoot ==
  ASSUME NEW s \in Seq(Id), NEW t \in Seq(Id), Sorted(s) = Sorted(t), Len(s) = Len(t)
  PROVE  MerkleRoot(s) = MerkleRoot(t)
  <1>1. s = <<>> <=> t = <<>>
    OBVIOUS
  <1> QED BY <1>1 DEF MerkleRoot

(* The ids of a bundle are its contents, each once, sorted. *)
LEMMA CanonicalContents ==
  ASSUME NEW s \in Seq(Id)
  PROVE  /\ Canonical(s) \in Seq(Id) /\ Range(Canonical(s)) = Range(s)
         /\ Canonical(s) = <<>> <=> s = <<>>
  <1> DEFINE S == Range(s)
             n == Cardinality(S)
             c == SetToSeq(S)
  <1>1. S \in SUBSET Id /\ (S = {} <=> s = <<>>)
    <2>1. S = {} <=> DOMAIN s = {}
      BY DEF Range
    <2>2. DOMAIN s = {} <=> s = <<>>
      OBVIOUS
    <2> QED BY <2>1, <2>2, HashesAreNumbers
  <1>2. IsFiniteSet(S) /\ n \in Nat /\ ExistsBijection(1..n, S)
    <2>1. IsFiniteSet(Id)
      <3>1. Top \in Nat
        BY TopIsHash
      <3> QED BY <3>1, FS_Interval DEF Id
    <2>2. IsFiniteSet(S)
      <3> HIDE DEF S
      <3> QED BY <1>1, <2>1, FS_Subset
    <2> HIDE DEF S
    <2> QED BY <2>2, FS_CardinalityType
  <1> HIDE DEF S
  <1>3. \E f \in [1..n -> S] : IsInjective(f)
    <2>1. PICK f \in Bijection(1..n, S) : TRUE
      BY <1>2 DEF ExistsBijection
    <2> HIDE DEF n
    <2> QED BY <2>1 DEF Bijection, Injection, IsInjective
  <1>4. c \in [1..n -> S] /\ IsInjective(c)
    <2> HIDE DEF n
    <2>1. c = CHOOSE f \in [1..n -> S] : IsInjective(f)
      BY DEF SetToSeq, n
    <2> HIDE DEF c
    <2> QED BY <1>3, <2>1
  <1> HIDE DEF c
  <1>5. Range(c) = S
    <2>1. IsFiniteSet(1..n) /\ Cardinality(1..n) = n
      <3> HIDE DEF n
      <3> QED BY <1>2, FS_Interval
    <2>2. c \in Injection(1..n, S)
      BY <1>4 DEF Injection, IsInjective
    <2>3. c \in Surjection(1..n, S)
      <3>1. Cardinality(1..n) = Cardinality(S)
        BY <2>1
      <3> DEFINE I == 1..n
      <3> HIDE DEF I
      <3>2. c \in Injection(I, S) /\ Cardinality(I) = Cardinality(S)
        BY <2>2, <3>1 DEF I
      <3>3. c \in Surjection(I, S)
        BY <1>2, <3>2, FS_Injection
      <3> QED BY <3>3 DEF I
    <2> HIDE DEF n
    <2> QED BY <1>4, <2>3 DEF Surjection, Range
  <1>6. c \in Seq(Id)
    <2> HIDE DEF n
    <2>1. c \in [1..n -> Id]
      BY <1>1, <1>4
    <2> QED BY <1>2, <2>1
  <1>7. c = <<>> <=> S = {}
    <2>1. S = {} => DOMAIN c = {}
      BY <1>5 DEF Range
    <2>2. DOMAIN c = {} <=> c = <<>>
      BY <1>6
    <2>3. DOMAIN c = {} => S = {}
      BY <1>5 DEF Range
    <2> QED BY <2>1, <2>2, <2>3
  <1>8. /\ Sorted(c) \in Seq(Id) /\ Len(Sorted(c)) = Len(c) /\ Range(Sorted(c)) = Range(c)
    BY <1>6, SortedByCount, SortedKeeps
  <1>9. Canonical(s) = Sorted(c)
    BY DEF Canonical, S, c
  <1>10. Sorted(c) = <<>> <=> c = <<>>
    BY <1>6, <1>8
  <1> QED BY <1>1, <1>5, <1>7, <1>8, <1>9, <1>10 DEF S

(***************************************************************************)
(* Bundles of the same contents have one root, and of plain contents only  *)
(* these.                                                                  *)
(***************************************************************************)
LEMMA BundleRoots ==
  ASSUME NEW s \in Seq(Id), NEW t \in Seq(Id)
  PROVE  /\ Range(s) = Range(t) => BuildBundle(s, 1).root = BuildBundle(t, 1).root
         /\ Range(s) \subseteq LeafHash /\ Range(t) \subseteq LeafHash =>
              (BuildBundle(s, 1).root = BuildBundle(t, 1).root => Range(s) = Range(t))
  <1> DEFINE a == Canonical(s)
             b == Canonical(t)
  <1>1. BuildBundle(s, 1).root = MerkleRoot(a) /\ BuildBundle(t, 1).root = MerkleRoot(b)
    BY DEF BuildBundle
  <1>2. /\ a \in Seq(Id) /\ Range(a) = Range(s) /\ b \in Seq(Id) /\ Range(b) = Range(t)
    BY CanonicalContents
  <1>3. Range(s) = Range(t) => a = b
    BY DEF Canonical
  <1> HIDE DEF a, b
  <1>4. PICK L : MadeOf(L)
    BY MadeOfExists
  <1>5. ASSUME Range(s) \subseteq LeafHash, Range(t) \subseteq LeafHash, MerkleRoot(a) = MerkleRoot(b)
        PROVE  Range(a) = Range(b)
    <2>1. ASSUME NEW c \in Seq(Id), Range(c) \subseteq LeafHash PROVE c \in Seq(LeafHash)
      <3>1. c \in [1..Len(c) -> LeafHash] /\ Len(c) \in Nat
        BY <2>1 DEF Range
      <3> QED BY <3>1
    <2>2. a \in Seq(LeafHash) /\ b \in Seq(LeafHash)
      BY <1>2, <1>5, <2>1
    <2>3. /\ a # <<>> => L[MerkleRoot(a)] = Range(a) /\ MerkleRoot(a) # 0
          /\ b # <<>> => L[MerkleRoot(b)] = Range(b) /\ MerkleRoot(b) # 0
      BY <1>4, <2>2, RootTellsContents, HashesArePositive
    <2>4. (a = <<>> => MerkleRoot(a) = 0) /\ (b = <<>> => MerkleRoot(b) = 0)
      BY DEF MerkleRoot, EMPTY_BUNDLE
    <2>5. CASE a = <<>> /\ b = <<>>
      BY <2>5
    <2>6. CASE a # <<>> /\ b # <<>>
      BY <1>5, <2>3, <2>6
    <2>7. CASE (a = <<>>) # (b = <<>>)
      BY <1>5, <2>3, <2>4, <2>7
    <2> QED BY <2>5, <2>6, <2>7
  <1> QED BY <1>1, <1>2, <1>3, <1>5

(* A batch has the id of another if and only if it has the same events as often. *)
LEMMA BatchIds ==
  ASSUME NEW s \in Seq(Id), NEW t \in Seq(Id), s # <<>>, t # <<>>
  PROVE  BatchId(s) = BatchId(t) <=> \A g \in Id : Occurs(g, s) = Occurs(g, t)
  <1>1. BatchId(s) = BatchId(t) <=> MerkleRoot(s) = MerkleRoot(t) /\ Len(s) = Len(t)
    BY DEF BatchId
  <1>2. ASSUME MerkleRoot(s) = MerkleRoot(t), Len(s) = Len(t)
        PROVE  \A g \in Id : Occurs(g, s) = Occurs(g, t)
    <2>1. \A k \in Nat : CountUpTo(s, k) = CountUpTo(t, k)
      BY <1>2, RootTellsCounts
    <2> QED BY <2>1, CountsAndOccurrences
  <1>3. ASSUME \A g \in Id : Occurs(g, s) = Occurs(g, t)
        PROVE  MerkleRoot(s) = MerkleRoot(t) /\ Len(s) = Len(t)
    <2>1. \A k \in Nat : CountUpTo(s, k) = CountUpTo(t, k)
      BY <1>3, CountsAndOccurrences
    <2>2. Len(s) = Len(t) /\ Sorted(s) = Sorted(t)
      BY <2>1, CountsTellSorted
    <2> QED BY <2>2, SortedTellsRoot
  <1> QED BY <1>1, <1>2, <1>3

(* What is committed to for a list of hashes. *)
LEMMA CommittedTo ==
  ASSUME NEW s \in SeqOf(ContentHash, MaxHashes)
  PROVE  /\ s \in Seq(Id) /\ Range(s) \subseteq ContentHash
         /\ Commitment(s).contents = Range(s)
         /\ Commitment(s).occurs = [h \in ContentHash |-> Occurs(h, s)]
         /\ Commitment(s).bundle = BuildBundle(s, 1).root
         /\ Commitment(s).batch = IF s = <<>> THEN <<>> ELSE BatchId(s)
  <1>1. s \in Seq(Id) /\ Range(s) \subseteq ContentHash
    <2>1. PICK m \in 0..MaxHashes : s \in [1..m -> ContentHash]
      BY DEF SeqOf
    <2>2. m \in Nat
      BY BoundsAssumption
    <2>3. Range(s) \subseteq ContentHash
      BY <2>1 DEF Range
    <2>4. s \in Seq(ContentHash)
      BY <2>1, <2>2
    <2> QED BY <2>3, <2>4, TopIsHash, ListsOfSome
  <1> DEFINE events == [i \in DOMAIN s |-> [hash |-> s[i], seq |-> i]]
             batch == IF s = <<>> THEN <<>> ELSE ComputeBatchCommitment(events).batchId
             occurs == [h \in ContentHash |-> Cardinality({i \in DOMAIN s : s[i] = h})]
  <1>2. Commitment(s) = [contents |-> Range(s), occurs |-> occurs,
                         bundle |-> BuildBundle(s, 1).root, batch |-> batch]
    BY DEF Commitment
  <1>3. ComputeBatchCommitment(events).batchId = BatchId([i \in DOMAIN events |-> events[i].hash])
    BY DEF ComputeBatchCommitment
  <1>4. [i \in DOMAIN events |-> events[i].hash] = s
    <2>1. s = [i \in DOMAIN s |-> s[i]]
      BY <1>1
    <2>2. DOMAIN events = DOMAIN s /\ \A i \in DOMAIN s : events[i].hash = s[i]
      OBVIOUS
    <2> HIDE DEF events
    <2>3. [i \in DOMAIN events |-> events[i].hash] = [i \in DOMAIN s |-> s[i]]
      BY <2>2
    <2> QED BY <2>1, <2>3
  <1> HIDE DEF events
  <1>5. batch = IF s = <<>> THEN <<>> ELSE BatchId(s)
    BY <1>3, <1>4
  <1>6. occurs = [h \in ContentHash |-> Occurs(h, s)]
    BY DEF Occurs
  <1> HIDE DEF batch, occurs
  <1> QED BY <1>1, <1>2, <1>5, <1>6

(* Lists have the same hashes as often if they have each content so. *)
LEMMA OccurrencesOfContents ==
  ASSUME NEW s \in Seq(Id), NEW t \in Seq(Id),
         Range(s) \subseteq ContentHash, Range(t) \subseteq ContentHash
  PROVE  [h \in ContentHash |-> Occurs(h, s)] = [h \in ContentHash |-> Occurs(h, t)]
           <=> \A g \in Id : Occurs(g, s) = Occurs(g, t)
  <1>1. ASSUME NEW g \in Id, g \notin ContentHash PROVE Occurs(g, s) = 0 /\ Occurs(g, t) = 0
    <2> DEFINE h == g - 1
    <2>1. h \in Int /\ h + 1 = g
      BY TopIsHash DEF Id
    <2>2. g \notin Range(s) /\ g \notin Range(t)
      BY <1>1
    <2> HIDE DEF h
    <2> QED BY <2>1, <2>2, CountGoesOn
  <1>2. ASSUME [h \in ContentHash |-> Occurs(h, s)] = [h \in ContentHash |-> Occurs(h, t)]
        PROVE  \A g \in ContentHash : Occurs(g, s) = Occurs(g, t)
    <2> TAKE g \in ContentHash
    <2>1. /\ [h \in ContentHash |-> Occurs(h, s)][g] = Occurs(g, s)
          /\ [h \in ContentHash |-> Occurs(h, t)][g] = Occurs(g, t)
      OBVIOUS
    <2> QED BY <1>2, <2>1
  <1>3. ASSUME \A g \in Id : Occurs(g, s) = Occurs(g, t)
        PROVE  [h \in ContentHash |-> Occurs(h, s)] = [h \in ContentHash |-> Occurs(h, t)]
    BY <1>3, TopIsHash
  <1> QED BY <1>1, <1>2, <1>3

(* Locking a bundle once more changes nothing, and adding makes another version. *)
LEMMA LockedBundles ==
  ASSUME NEW ids, NEW more
  PROVE  LET first == LockBundle(BuildBundle(ids, 1), 5)
             added == AddEvidence(first, more)
         IN first = LockBundle(first, 6) /\ added.version > first.version
  <1> DEFINE bundle == BuildBundle(ids, 1)
             first == LockBundle(bundle, 5)
  <1>1. /\ bundle = [evidenceIds |-> Canonical(ids), root |-> MerkleRoot(Canonical(ids)),
                     version |-> 1, lockedAt |-> -1]
    BY DEF BuildBundle, NotLocked
  <1>2. first = [bundle EXCEPT !.lockedAt = 5]
    BY <1>1 DEF LockBundle, Locked, NotLocked
  <1>3. first.lockedAt = 5 /\ first.version = 1
    BY <1>1, <1>2
  <1> HIDE DEF first
  <1>4. Locked(first)
    BY <1>3 DEF Locked, NotLocked
  <1>5. AddEvidence(first, more).version = 2
    BY <1>3, <1>4 DEF AddEvidence, BuildBundle, VersionOfAddition
  <1>6. LockBundle(first, 6) = first
    BY <1>4 DEF LockBundle
  <1>7. AddEvidence(first, more).version > first.version
    BY <1>3, <1>5
  <1> QED BY <1>6, <1>7 DEF first

(* What two lists commit to tells whether they have the same contents. *)
LEMMA Roots ==
  ASSUME desk \in Hashes
  PROVE  RootsIdentifyContents
  <1> DEFINE s == desk.hashes
  <1>1. s \in SeqOf(ContentHash, MaxHashes)
    BY DEF Hashes
  <1> HIDE DEF s
  <1>2. ASSUME NEW t \in SeqOf(ContentHash, MaxHashes)
        PROVE  LET this == Commitment(s)
                   that == Commitment(t)
                   plain(c) == c.contents \subseteq LeafHash
               IN /\ this.contents = that.contents => this.bundle = that.bundle
                  /\ plain(this) /\ plain(that) /\ this.bundle = that.bundle =>
                       this.contents = that.contents
                  /\ this.batch = that.batch <=> this.occurs = that.occurs
    <2> DEFINE this == Commitment(s)
               that == Commitment(t)
               alike == \A g \in Id : Occurs(g, s) = Occurs(g, t)
    <2>1. /\ s \in Seq(Id) /\ Range(s) \subseteq ContentHash
          /\ this.contents = Range(s) /\ this.occurs = [h \in ContentHash |-> Occurs(h, s)]
          /\ this.bundle = BuildBundle(s, 1).root
          /\ this.batch = IF s = <<>> THEN <<>> ELSE BatchId(s)
      BY <1>1, CommittedTo
    <2>2. /\ t \in Seq(Id) /\ Range(t) \subseteq ContentHash
          /\ that.contents = Range(t) /\ that.occurs = [h \in ContentHash |-> Occurs(h, t)]
          /\ that.bundle = BuildBundle(t, 1).root
          /\ that.batch = IF t = <<>> THEN <<>> ELSE BatchId(t)
      BY CommittedTo
    <2> HIDE DEF this, that
    <2>3. /\ Range(s) = Range(t) => this.bundle = that.bundle
          /\ Range(s) \subseteq LeafHash /\ Range(t) \subseteq LeafHash =>
               (this.bundle = that.bundle => Range(s) = Range(t))
      BY <2>1, <2>2, BundleRoots
    <2>4. this.occurs = that.occurs <=> alike
      BY <2>1, <2>2, OccurrencesOfContents
    <2>5. this.batch = that.batch <=> alike
      <3>1. CASE s # <<>> /\ t # <<>>
        BY <2>1, <2>2, <3>1, BatchIds
      <3>2. CASE s = <<>> /\ t = <<>>
        BY <2>1, <2>2, <3>2
      <3>3. CASE (s = <<>>) # (t = <<>>)
        <4>1. this.batch # that.batch
          <5>1. \A u : <<>> # BatchId(u)
            BY DEF BatchId
          <5> QED BY <2>1, <2>2, <3>3, <5>1
        <4>2. ~(\A k \in Nat : CountUpTo(s, k) = CountUpTo(t, k))
          <5>1. Len(s) # Len(t)
            BY <2>1, <2>2, <3>3
          <5> QED BY <2>1, <2>2, <5>1, CountsTellSorted
        <4>3. ~alike
          BY <2>1, <2>2, <4>2, CountsAndOccurrences
        <4> QED BY <4>1, <4>3
      <3> QED BY <3>1, <3>2, <3>3
    <2> HIDE DEF alike
    <2> QED BY <2>1, <2>2, <2>3, <2>4, <2>5 DEF this, that
  <1>3. \A k \in DOMAIN s :
          LET first == LockBundle(BuildBundle(SubSeq(s, 1, k), 1), 5)
              more == AddEvidence(first, s)
          IN first = LockBundle(first, 6) /\ more.version > first.version
    BY LockedBundles
  <1> QED BY <1>2, <1>3 DEF RootsIdentifyContents, Commitments, s

(***************************************************************************)
(* Roots and batch ids identify what they commit to, for lists of any      *)
(* length of any number of contents: bundles of plain ones, batches of     *)
(* whatever has a hash.                                                    *)
(***************************************************************************)
THEOREM RootsIdentify == OffChainSpec => []RootsIdentifyContents
  <1>1. DeskInv => RootsIdentifyContents
    BY Roots DEF DeskInv, RootsIdentifyContents
  <1> QED BY <1>1, DeskAlways, PTL

-----------------------------------------------------------------------------
(***************************************************************************)
(* The justification graph.  Reachable is computed by a recursion over the *)
(* number of steps, which some function satisfies.                         *)
(***************************************************************************)
LEMMA ReachableBySteps ==
  ASSUME NEW next \in [Nodes -> SUBSET Nodes], NEW start \in Nodes
  PROVE  \E h : /\ h = [n \in Nat |-> IF n = 0 THEN {start}
                          ELSE h[n - 1] \cup UNION {next[m] : m \in h[n - 1]}]
                /\ Reachable(next, start) = h[Cardinality(Nodes)]
  <1> DEFINE Near(h) == [n \in Nat |-> IF n = 0 THEN {start}
                           ELSE h[n - 1] \cup UNION {next[m] : m \in h[n - 1]}]
             step == [near \in SUBSET Nodes |-> near \cup UNION {next[m] : m \in near}]
  <1>1. step \in [SUBSET Nodes -> SUBSET Nodes]
    OBVIOUS
  <1>2. PICK g \in [Nat -> SUBSET Nodes] : g[0] = {start} /\ \A n \in Nat : g[n + 1] = step[g[n]]
    <2> DEFINE D == SUBSET Nodes
               base == {start}
    <2>1. base \in D /\ step \in [D -> D]
      BY <1>1
    <2> HIDE DEF step, D, base
    <2>2. \E g \in [Nat -> D] : g[0] = base /\ \A n \in Nat : g[n + 1] = step[g[n]]
      BY <2>1, IterationExists
    <2> QED BY <2>2 DEF D, base
  <1>3. g = Near(g)
    <2>1. ASSUME NEW n \in Nat, n # 0
          PROVE  g[n] = g[n - 1] \cup UNION {next[m] : m \in g[n - 1]}
      <3>1. n - 1 \in Nat /\ (n - 1) + 1 = n
        BY <2>1
      <3>2. g[n] = step[g[n - 1]] /\ g[n - 1] \in SUBSET Nodes
        <4> HIDE DEF step
        <4> QED BY <1>2, <3>1
      <3> QED BY <3>2
    <2> QED BY <1>2, <2>1
  <1>4. (CHOOSE h : h = Near(h)) = Near(CHOOSE h : h = Near(h))
    <2> HIDE DEF Near
    <2> QED BY <1>3
  <1>5. Reachable(next, start) = (CHOOSE h : h = Near(h))[Cardinality(Nodes)]
    BY DEF Reachable
  <1> QED BY <1>4, <1>5

(***************************************************************************)
(* The steps lead from start over nodes along edges.                       *)
(***************************************************************************)
LEMMA ReachableSteps ==
  ASSUME NEW next \in [Nodes -> SUBSET Nodes], NEW start \in Nodes
  PROVE  \E h \in [Nat -> SUBSET Nodes] :
           /\ h[0] = {start}
           /\ \A n \in Nat : h[n + 1] = h[n] \cup UNION {next[m] : m \in h[n]}
           /\ Reachable(next, start) = h[Cardinality(Nodes)]
  <1>1. PICK h : /\ h = [n \in Nat |-> IF n = 0 THEN {start}
                          ELSE h[n - 1] \cup UNION {next[m] : m \in h[n - 1]}]
                 /\ Reachable(next, start) = h[Cardinality(Nodes)]
    BY ReachableBySteps
  <1>2. h[0] = {start}
    BY <1>1
  <1>3. ASSUME NEW n \in Nat PROVE h[n + 1] = h[n] \cup UNION {next[m] : m \in h[n]}
    <2>1. n + 1 \in Nat /\ n + 1 # 0 /\ (n + 1) - 1 = n
      OBVIOUS
    <2> QED BY <1>1, <2>1
  <1>4. \A n \in Nat : h[n] \in SUBSET Nodes
    <2> DEFINE N == {n \in Nat : h[n] \in SUBSET Nodes}
    <2>1. 0 \in N
      BY <1>2
    <2>2. ASSUME NEW n \in N PROVE n + 1 \in N
      BY <1>3
    <2>3. N = Nat
      <3> HIDE DEF N
      <3>1. N \in SUBSET Nat
        BY DEF N
      <3> QED BY <2>1, <2>2, <3>1, AllNumbers
    <2> QED BY <2>3
  <1>5. h \in [Nat -> SUBSET Nodes]
    BY <1>1, <1>4
  <1> QED BY <1>1, <1>2, <1>3, <1>5

(***************************************************************************)
(* |Nodes| steps are enough: what is reached has start and, with a node,   *)
(* the nodes its edges lead to.  A step that reaches nothing new is the    *)
(* last that could, and each before it reached one node more.              *)
(***************************************************************************)
LEMMA ReachableIsClosed ==
  ASSUME NEW next \in [Nodes -> SUBSET Nodes], NEW start \in Nodes
  PROVE  /\ Reachable(next, start) \subseteq Nodes /\ start \in Reachable(next, start)
         /\ \A m \in Reachable(next, start) : next[m] \subseteq Reachable(next, start)
  <1>1. PICK h \in [Nat -> SUBSET Nodes] :
          /\ h[0] = {start}
          /\ \A n \in Nat : h[n + 1] = h[n] \cup UNION {next[m] : m \in h[n]}
          /\ Reachable(next, start) = h[Cardinality(Nodes)]
    BY ReachableSteps
  <1>2. \A n \in Nat : /\ IsFiniteSet(h[n]) /\ Cardinality(h[n]) \in Nat
                       /\ Cardinality(h[n]) <= Cardinality(Nodes)
    BY GraphAssumption, FS_Subset, FS_CardinalityType
  <1> DEFINE N == {n \in Nat : /\ start \in h[n]
                               /\ Cardinality(h[n]) > n \/ h[n + 1] = h[n]}
  <1>3. 0 \in N
    <2>1. Cardinality(h[0]) = 1
      BY <1>1, FS_Singleton
    <2>2. start \in h[0] /\ Cardinality(h[0]) > 0
      BY <1>1, <2>1
    <2> QED BY <2>2
  <1>4. ASSUME NEW n \in N PROVE n + 1 \in N
    <2>1. n \in Nat /\ n + 1 \in Nat /\ start \in h[n + 1]
      BY <1>1
    <2>2. CASE h[n + 1] = h[n]
      <3>1. h[(n + 1) + 1] = h[n + 1]
        BY <1>1, <2>1, <2>2
      <3> QED BY <2>1, <3>1
    <2>3. CASE Cardinality(h[n]) > n /\ h[n + 1] # h[n]
      <3>1. h[n] \subseteq h[n + 1]
        BY <1>1, <2>1
      <3>2. /\ Cardinality(h[n]) <= Cardinality(h[n + 1])
            /\ Cardinality(h[n + 1]) # Cardinality(h[n])
        BY <1>2, <2>1, <2>3, <3>1, FS_Subset
      <3>3. Cardinality(h[n + 1]) > n + 1
        BY <1>2, <2>1, <2>3, <3>2
      <3> QED BY <2>1, <3>3
    <2> QED BY <2>2, <2>3
  <1>5. N = Nat
    <2> HIDE DEF N
    <2>1. N \in SUBSET Nat
      BY DEF N
    <2> QED BY <1>3, <1>4, <2>1, AllNumbers
  <1>6. Cardinality(Nodes) \in Nat
    BY GraphAssumption, FS_CardinalityType
  <1> DEFINE n == Cardinality(Nodes)
  <1> HIDE DEF n
  <1>7. n \in Nat /\ start \in h[n] /\ h[n + 1] = h[n]
    BY <1>2, <1>5, <1>6 DEF n
  <1> QED BY <1>1, <1>7 DEF n

(***************************************************************************)
(* Nothing else is reached: a set with start that edges do not leave has   *)
(* all of it.                                                              *)
(***************************************************************************)
LEMMA ReachableIsLeast ==
  ASSUME NEW next \in [Nodes -> SUBSET Nodes], NEW start \in Nodes,
         NEW C, start \in C, \A m \in C \cap Nodes : next[m] \subseteq C
  PROVE  Reachable(next, start) \subseteq C
  <1>1. PICK h \in [Nat -> SUBSET Nodes] :
          /\ h[0] = {start}
          /\ \A n \in Nat : h[n + 1] = h[n] \cup UNION {next[m] : m \in h[n]}
          /\ Reachable(next, start) = h[Cardinality(Nodes)]
    BY ReachableSteps
  <1> DEFINE N == {n \in Nat : h[n] \subseteq C}
  <1>2. 0 \in N
    BY <1>1
  <1>3. ASSUME NEW n \in N PROVE n + 1 \in N
    <2>1. n \in Nat /\ h[n] \subseteq C /\ h[n] \subseteq Nodes
      OBVIOUS
    <2>2. \A m \in h[n] : next[m] \subseteq C
      BY <2>1
    <2>3. h[n + 1] \subseteq C
      BY <1>1, <2>1, <2>2
    <2> QED BY <2>1, <2>3
  <1>4. N = Nat
    <2> HIDE DEF N
    <2>1. N \in SUBSET Nat
      BY DEF N
    <2> QED BY <1>2, <1>3, <2>1, AllNumbers
  <1>5. Cardinality(Nodes) \in Nat
    BY GraphAssumption, FS_CardinalityType
  <1> QED BY <1>1, <1>4, <1>5

(***************************************************************************)
(* No edge leads from a node to one that reaches it.                       *)
(***************************************************************************)
Acyclic(next) == \A n \in Nodes : \A m \in next[n] : n \notin Reachable(next, m)

(* Fewer edges reach less. *)
LEMMA FewerEdgesReachLess ==
  ASSUME NEW next \in [Nodes -> SUBSET Nodes], NEW more \in [Nodes -> SUBSET Nodes],
         \A n \in Nodes : next[n] \subseteq more[n], NEW start \in Nodes
  PROVE  Reachable(next, start) \subseteq Reachable(more, start)
  <1> DEFINE C == Reachable(more, start)
  <1>1. start \in C /\ \A m \in C : more[m] \subseteq C
    BY ReachableIsClosed
  <1> HIDE DEF C
  <1>2. \A m \in C \cap Nodes : next[m] \subseteq C
    BY <1>1
  <1>3. Reachable(next, start) \subseteq C
    BY <1>1, <1>2, ReachableIsLeast
  <1> QED BY <1>3 DEF C

(* What a reachable node reaches is reachable. *)
LEMMA ReachingIsTransitive ==
  ASSUME NEW next \in [Nodes -> SUBSET Nodes], NEW start \in Nodes,
         NEW m \in Reachable(next, start)
  PROVE  m \in Nodes /\ Reachable(next, m) \subseteq Reachable(next, start)
  <1> DEFINE C == Reachable(next, start)
  <1>1. C \subseteq Nodes /\ \A k \in C : next[k] \subseteq C
    BY ReachableIsClosed
  <1>2. m \in C
    OBVIOUS
  <1> HIDE DEF C
  <1>3. Reachable(next, m) \subseteq C
    BY <1>1, <1>2, ReachableIsLeast
  <1> QED BY <1>1, <1>2, <1>3 DEF C

(***************************************************************************)
(* An edge from u to v, where v does not reach u, closes no circle: what   *)
(* the new edge adds to what a node reaches is what v reached before.      *)
(***************************************************************************)
LEMMA NewEdgeClosesNoCircle ==
  ASSUME NEW next \in [Nodes -> SUBSET Nodes], Acyclic(next),
         NEW u \in Nodes, NEW v \in Nodes, u \notin Reachable(next, v)
  PROVE  Acyclic([next EXCEPT ![u] = @ \cup {v}])
  <1> DEFINE more == [next EXCEPT ![u] = @ \cup {v}]
             R == Reachable(next, v)
  <1>1. /\ more \in [Nodes -> SUBSET Nodes]
        /\ \A n \in Nodes : more[n] = IF n = u THEN next[u] \cup {v} ELSE next[n]
    OBVIOUS
  <1>2. v \in R /\ R \subseteq Nodes /\ u \notin R /\ \A m \in R : next[m] \subseteq R
    BY ReachableIsClosed
  <1> HIDE DEF more, R
  <1>3. ASSUME NEW start \in Nodes
        PROVE  Reachable(more, start) \subseteq Reachable(next, start) \cup R
    <2> DEFINE S == Reachable(next, start)
    <2>1. start \in S /\ \A m \in S : next[m] \subseteq S
      BY ReachableIsClosed
    <2> HIDE DEF S
    <2>2. \A m \in (S \cup R) \cap Nodes : more[m] \subseteq S \cup R
      BY <1>1, <1>2, <2>1
    <2>3. start \in S \cup R
      BY <2>1
    <2>4. Reachable(more, start) \subseteq S \cup R
      BY <1>1, <2>2, <2>3, ReachableIsLeast
    <2> QED BY <2>4 DEF S
  <1>4. ASSUME NEW start \in Nodes, u \notin Reachable(next, start)
        PROVE  Reachable(more, start) \subseteq Reachable(next, start)
    <2> DEFINE S == Reachable(next, start)
    <2>1. start \in S /\ u \notin S /\ \A m \in S : next[m] \subseteq S
      BY <1>4, ReachableIsClosed
    <2> HIDE DEF S
    <2>2. \A m \in S \cap Nodes : more[m] \subseteq S
      BY <1>1, <2>1
    <2>3. Reachable(more, start) \subseteq S
      BY <1>1, <2>1, <2>2, ReachableIsLeast
    <2> QED BY <2>3 DEF S
  <1>5. ASSUME NEW n \in Nodes, NEW m \in more[n], n \in Reachable(more, m)
        PROVE  FALSE
    <2>1. m \in Nodes
      BY <1>1
    <2>2. CASE m \in next[n]
      <3>1. n \notin Reachable(next, m)
        BY <2>2 DEF Acyclic
      <3>2. n \in R
        BY <1>3, <1>5, <2>1, <3>1
      <3>3. u \in Reachable(next, m)
        BY <1>4, <1>5, <2>1, <3>1
      <3>4. m \in R
        BY <1>2, <2>2, <3>2
      <3>5. Reachable(next, m) \subseteq R
        BY <3>4, ReachingIsTransitive DEF R
      <3> QED BY <1>2, <3>3, <3>5
    <2>3. CASE m \notin next[n]
      <3>1. n = u /\ m = v
        BY <1>1, <2>3
      <3>2. u \in R
        BY <1>3, <1>5, <3>1 DEF R
      <3> QED BY <1>2, <3>2
    <2> QED BY <2>2, <2>3
  <1>6. Acyclic(more)
    BY <1>5 DEF Acyclic
  <1> QED BY <1>6 DEF more

-----------------------------------------------------------------------------
(***************************************************************************)
(* The search in addEdge is over edges of all kinds, so it finds at least  *)
(* the paths over dependencies.                                            *)
(***************************************************************************)
GraphInv ==
  /\ edges \in Seq(Edge)
  /\ adjacency \in [Nodes -> SUBSET Nodes]
  /\ \A n \in Nodes : Dependencies[n] \subseteq adjacency[n]
  /\ Acyclic(Dependencies)

(* Dependencies lead from nodes to nodes. *)
LEMMA DependenciesTyped ==
  ASSUME edges \in Seq(Edge)
  PROVE  Dependencies \in [Nodes -> SUBSET Nodes]
  <1>1. \A i \in DOMAIN edges : edges[i] \in Edge
    OBVIOUS
  <1>2. \A i \in DOMAIN edges : edges[i].to \in Nodes
    BY <1>1 DEF Edge
  <1> QED BY <1>2 DEF Dependencies

(* No edges close no circle. *)
LEMMA GraphStart == GraphInit => GraphInv
  BY DEF GraphInit, GraphInv, Dependencies, Acyclic

(* Every edge that addEdge accepts keeps the dependencies acyclic. *)
LEMMA AddEdgeKeeps ==
  ASSUME GraphInv, NEW edge \in Edge, AddEdge(edge)
  PROVE  GraphInv'
  <1>1. /\ edge.from \in Nodes /\ edge.to \in Nodes /\ edges \in Seq(Edge)
        /\ edges' = Append(edges, edge)
        /\ adjacency' = [adjacency EXCEPT ![edge.from] = @ \cup {edge.to}]
    BY DEF AddEdge, Edge, GraphInv
  <1>2. /\ edges' \in Seq(Edge) /\ Len(edges') = Len(edges) + 1 /\ Len(edges) \in Nat
        /\ edges'[Len(edges) + 1] = edge
        /\ \A i \in 1..Len(edges) : edges'[i] = edges[i]
        /\ DOMAIN edges = 1..Len(edges) /\ DOMAIN edges' = 1..(Len(edges) + 1)
    BY <1>1
  <1>3. adjacency' \in [Nodes -> SUBSET Nodes]
    BY <1>1 DEF GraphInv
  <1>4. ASSUME NEW n \in Nodes
        PROVE  Dependencies'[n] = IF n = edge.from /\ edge.kind \in DAG_CONSTRAINED
                                  THEN Dependencies[n] \cup {edge.to} ELSE Dependencies[n]
    <2> DEFINE Here(e) == e.from = n /\ e.kind \in DAG_CONSTRAINED
    <2>1. /\ Dependencies[n] = {edges[i].to : i \in {j \in 1..Len(edges) : Here(edges[j])}}
          /\ Dependencies'[n] = {edges'[i].to : i \in {j \in 1..(Len(edges) + 1) : Here(edges'[j])}}
      BY <1>2 DEF Dependencies
    <2> DEFINE before == {j \in 1..Len(edges) : Here(edges[j])}
               after == {j \in 1..(Len(edges) + 1) : Here(edges'[j])}
    <2>2. after = IF Here(edge) THEN before \cup {Len(edges) + 1} ELSE before
      <3> HIDE DEF Here
      <3> QED BY <1>2
    <2>3. \A i \in before : edges'[i].to = edges[i].to
      BY <1>2
    <2> HIDE DEF before, after
    <2>4. /\ Dependencies[n] = {edges[i].to : i \in before}
          /\ Dependencies'[n] = {edges'[i].to : i \in after}
      BY <2>1 DEF before, after
    <2> QED BY <1>2, <2>2, <2>3, <2>4
  <1>5. \A n \in Nodes : Dependencies'[n] \subseteq adjacency'[n]
    BY <1>1, <1>4 DEF GraphInv
  <1>6. Dependencies \in [Nodes -> SUBSET Nodes] /\ Dependencies' \in [Nodes -> SUBSET Nodes]
    <2>1. \A i \in DOMAIN edges' : edges'[i] \in Edge
      BY <1>2
    <2>2. \A i \in DOMAIN edges' : edges'[i].to \in Nodes
      BY <2>1 DEF Edge
    <2>3. Dependencies' \in [Nodes -> SUBSET Nodes]
      BY <2>2 DEF Dependencies
    <2> QED BY <1>1, <2>3, DependenciesTyped
  <1>7. Acyclic(Dependencies')
    <2>1. CASE edge.kind \in DAG_CONSTRAINED
      <3>1. edge.from \notin Reachable(adjacency, edge.to)
        BY <2>1 DEF AddEdge, MayAdd, FindPath
      <3>2. Reachable(Dependencies, edge.to) \subseteq Reachable(adjacency, edge.to)
        BY <1>1, <1>6, FewerEdgesReachLess DEF GraphInv
      <3>3. Dependencies' = [Dependencies EXCEPT ![edge.from] = @ \cup {edge.to}]
        BY <1>1, <1>4, <1>6, <2>1
      <3>4. Acyclic([Dependencies EXCEPT ![edge.from] = @ \cup {edge.to}])
        BY <1>1, <1>6, <3>1, <3>2, NewEdgeClosesNoCircle DEF GraphInv
      <3> QED BY <3>3, <3>4
    <2>2. CASE edge.kind \notin DAG_CONSTRAINED
      <3>1. Dependencies' = Dependencies
        BY <1>4, <1>6, <2>2
      <3> QED BY <3>1 DEF GraphInv
    <2> QED BY <2>1, <2>2
  <1> QED BY <1>2, <1>3, <1>5, <1>7 DEF GraphInv, Acyclic

-----------------------------------------------------------------------------
(***************************************************************************)
(* The successor of a claim, if it has one, is the end of a SUPERSEDES     *)
(* edge, which is a dependency and among the relationships of both claims. *)
(***************************************************************************)
LEMMA SuccessorSupersedes ==
  ASSUME edges \in Seq(Edge), NEW c \in Nodes, NEW m \in Successor(c)
  PROVE  /\ Successor(c) = {m} /\ m \in Nodes /\ m \in Dependencies[c]
         /\ [from |-> c, to |-> m, kind |-> "SUPERSEDES"] \in RelationshipsOf(c)
         /\ [from |-> c, to |-> m, kind |-> "SUPERSEDES"] \in RelationshipsOf(m)
  <1> DEFINE S == {i \in DOMAIN edges : edges[i].from = c /\ edges[i].kind = "SUPERSEDES"}
  <1>1. S # {} /\ m = edges[Min(S)].to /\ Successor(c) = {m}
    BY DEF Successor
  <1>2. DOMAIN edges \in SUBSET Nat
    OBVIOUS
  <1>3. \E i \in S : \A j \in S : i <= j
    <2>1. S \in SUBSET Nat
      BY <1>2
    <2> HIDE DEF S
    <2> QED BY <1>1, <2>1, LeastNumber
  <1> DEFINE i == Min(S)
  <1>4. i \in S
    <2> HIDE DEF S
    <2> QED BY <1>3 DEF Min
  <1> HIDE DEF i
  <1>5. /\ i \in DOMAIN edges /\ edges[i] \in Edge
        /\ edges[i].from = c /\ edges[i].kind = "SUPERSEDES"
    BY <1>4
  <1>6. edges[i].to = m
    BY <1>1 DEF i
  <1>7. edges[i] = [from |-> c, to |-> m, kind |-> "SUPERSEDES"]
    BY <1>5, <1>6 DEF Edge
  <1>8. m \in Nodes
    BY <1>5, <1>6 DEF Edge
  <1>9. m \in Dependencies[c]
    BY <1>5, <1>6 DEF Dependencies, DAG_CONSTRAINED
  <1>10. edges[i] \in RelationshipsOf(c) /\ edges[i] \in RelationshipsOf(m)
    BY <1>5, <1>6 DEF RelationshipsOf
  <1> QED BY <1>1, <1>7, <1>8, <1>9, <1>10

(***************************************************************************)
(* How successorChain goes on: to the successor it has not met yet.        *)
(***************************************************************************)
Ahead(chain) == Successor(Last(chain)) \ Range(chain)

Extended(chain) ==
  IF Ahead(chain) = {} THEN chain ELSE Append(chain, CHOOSE m \in Ahead(chain) : TRUE)

(* A chain has a first claim and goes from claim to claim. *)
Chain == Seq(Nodes) \ {<<>>}

(* A chain that goes on is still one, and goes on by one claim.            *)
LEMMA ExtendedTyped ==
  ASSUME edges \in Seq(Edge), NEW chain \in Chain
  PROVE  /\ Last(chain) \in Nodes /\ Extended(chain) \in Chain
         /\ Ahead(chain) # {} =>
              \E m \in Ahead(chain) : Extended(chain) = Append(chain, m) /\ m \in Nodes
  <1>1. Last(chain) \in Nodes /\ chain \in Seq(Nodes) /\ chain # <<>>
    BY DEF Chain, Last
  <1>2. Ahead(chain) \subseteq Nodes
    BY <1>1, SuccessorSupersedes DEF Ahead
  <1>3. CASE Ahead(chain) = {}
    BY <1>1, <1>3 DEF Extended
  <1>4. CASE Ahead(chain) # {}
    <2>1. PICK m \in Ahead(chain) : Extended(chain) = Append(chain, m)
      BY <1>4 DEF Extended
    <2>2. Append(chain, m) \in Seq(Nodes) /\ Append(chain, m) # <<>>
      BY <1>1, <1>2
    <2> QED BY <1>1, <1>2, <2>1, <2>2 DEF Chain
  <1> QED BY <1>1, <1>3, <1>4

(* A chain can be stepped on for any number of times. *)
LEMMA ChainsIterate ==
  ASSUME NEW base \in Chain, NEW step \in [Chain -> Chain]
  PROVE  \E g \in [Nat -> Chain] : g[0] = base /\ \A n \in Nat : g[n + 1] = step[g[n]]
  BY IterationExists

(* The recursion of successorChain is satisfied by some function. *)
LEMMA WalkSteps ==
  ASSUME edges \in Seq(Edge), NEW c \in Nodes
  PROVE  \E h \in [Nat -> Chain] :
           /\ h[0] = <<c>> /\ \A n \in Nat : h[n + 1] = Extended(h[n])
           /\ SuccessorChain(c) = Tail(h[Cardinality(Nodes)])
  <1> DEFINE Walk(h) == [n \in Nat |-> IF n = 0 THEN <<c>> ELSE Extended(h[n - 1])]
  <1>1. PICK step \in [Chain -> Chain] : \A chain \in Chain : step[chain] = Extended(chain)
    <2>1. [chain \in Chain |-> Extended(chain)] \in [Chain -> Chain]
      BY ExtendedTyped
    <2> QED BY <2>1
  <1>2. PICK g \in [Nat -> Chain] : g[0] = <<c>> /\ \A n \in Nat : g[n + 1] = step[g[n]]
    <2>1. <<c>> \in Chain
      BY DEF Chain
    <2>2. PICK base \in Chain : base = <<c>>
      BY <2>1
    <2>3. \E g \in [Nat -> Chain] : g[0] = base /\ \A n \in Nat : g[n + 1] = step[g[n]]
      BY ChainsIterate
    <2> QED BY <2>2, <2>3
  <1>3. g = Walk(g)
    <2>1. ASSUME NEW n \in Nat, n # 0 PROVE g[n] = Extended(g[n - 1])
      <3>1. n - 1 \in Nat /\ (n - 1) + 1 = n
        BY <2>1
      <3>2. g[n] = step[g[n - 1]] /\ g[n - 1] \in Chain
        BY <1>2, <3>1
      <3> QED BY <1>1, <3>2
    <2> QED BY <1>2, <2>1
  <1>4. PICK w : w = Walk(w) /\ SuccessorChain(c) = Tail(w[Cardinality(Nodes)])
    <2>1. SuccessorChain(c) = Tail((CHOOSE h : h = Walk(h))[Cardinality(Nodes)])
      BY DEF SuccessorChain, Extended, Ahead
    <2>2. (CHOOSE h : h = Walk(h)) = Walk(CHOOSE h : h = Walk(h))
      <3> HIDE DEF Walk
      <3> QED BY <1>3
    <2> HIDE DEF Walk
    <2> QED BY <2>1, <2>2
  <1>6. w[0] = <<c>>
    BY <1>4
  <1>7. ASSUME NEW n \in Nat PROVE w[n + 1] = Extended(w[n])
    <2>1. n + 1 \in Nat /\ n + 1 # 0 /\ (n + 1) - 1 = n
      OBVIOUS
    <2> QED BY <1>4, <2>1
  <1>8. \A n \in Nat : w[n] \in Chain
    <2> DEFINE N == {n \in Nat : w[n] \in Chain}
    <2>1. 0 \in N
      <3>1. <<c>> \in Chain
        BY DEF Chain
      <3> QED BY <1>6, <3>1
    <2>2. ASSUME NEW n \in N PROVE n + 1 \in N
      <3>1. n \in Nat /\ w[n] \in Chain
        OBVIOUS
      <3>2. Extended(w[n]) \in Chain
        BY <3>1, ExtendedTyped
      <3>3. w[n + 1] = Extended(w[n])
        BY <1>7, <3>1
      <3>4. w[n + 1] \in Chain /\ n + 1 \in Nat
        BY <3>1, <3>2, <3>3
      <3> QED BY <3>4
    <2>3. N = Nat
      <3> HIDE DEF N
      <3>1. N \in SUBSET Nat
        BY DEF N
      <3> QED BY <2>1, <2>2, <3>1, AllNumbers
    <2> QED BY <2>3
  <1>9. w \in [Nat -> Chain]
    <2>1. DOMAIN w = Nat /\ w = [n \in Nat |-> w[n]]
      BY <1>4
    <2> QED BY <1>8, <2>1
  <1> QED BY <1>4, <1>6, <1>7, <1>9

(***************************************************************************)
(* A chain from c: no claim twice, each the successor of the one before,   *)
(* and the last reached from all.                                          *)
(***************************************************************************)
ChainFrom(c, chain) ==
  /\ chain[1] = c
  /\ \A i, j \in 1..Len(chain) : chain[i] = chain[j] => i = j
  /\ \A i \in 1..(Len(chain) - 1) : chain[i + 1] \in Successor(chain[i])
  /\ \A i \in 1..Len(chain) : Last(chain) \in Reachable(Dependencies, chain[i])

(* A chain that goes on is a chain from the same claim, one longer. *)
LEMMA ChainGoesOn ==
  ASSUME edges \in Seq(Edge), NEW c \in Nodes, NEW chain \in Chain, ChainFrom(c, chain)
  PROVE  /\ ChainFrom(c, Extended(chain))
         /\ Ahead(chain) = {} => Extended(chain) = chain
         /\ Ahead(chain) # {} => Len(Extended(chain)) = Len(chain) + 1
  <1>1. CASE Ahead(chain) = {}
    BY <1>1 DEF Extended
  <1>2. CASE Ahead(chain) # {}
    <2>1. PICK m \in Ahead(chain) : Extended(chain) = Append(chain, m) /\ m \in Nodes
      BY <1>2, ExtendedTyped
    <2> DEFINE n == Len(chain)
               longer == Append(chain, m)
    <2>2. /\ n \in Nat /\ n >= 1 /\ Len(longer) = n + 1 /\ longer[n + 1] = m
          /\ \A i \in 1..n : longer[i] = chain[i] /\ chain[i] \in Nodes
          /\ Last(chain) = chain[n] /\ Last(longer) = m
      BY <2>1 DEF Chain, Last
    <2>3. m \in Successor(chain[n]) /\ \A i \in 1..n : chain[i] # m
      <3>1. DOMAIN chain = 1..n
        BY DEF Chain
      <3> QED BY <2>2, <3>1 DEF Ahead, Range
    <2>4. m \in Dependencies[chain[n]] /\ chain[n] \in Nodes
      <3>1. chain[n] \in Nodes /\ m \in Successor(chain[n])
        BY <2>2, <2>3
      <3> HIDE DEF n
      <3> QED BY <3>1, SuccessorSupersedes
    <2>5. Dependencies \in [Nodes -> SUBSET Nodes]
      BY DependenciesTyped
    <2>6. ASSUME NEW i \in 1..n PROVE m \in Reachable(Dependencies, chain[i])
      <3>1. chain[n] \in Reachable(Dependencies, chain[i]) /\ chain[i] \in Nodes
        BY <2>2 DEF ChainFrom
      <3> QED BY <2>4, <2>5, <3>1, ReachableIsClosed
    <2>7. m \in Reachable(Dependencies, m)
      BY <2>1, <2>5, ReachableIsClosed
    <2> HIDE DEF longer, n
    <2>8. longer[1] = c
      BY <2>2 DEF ChainFrom
    <2>9. \A i, j \in 1..(n + 1) : longer[i] = longer[j] => i = j
      <3>1. \A i, j \in 1..n : chain[i] = chain[j] => i = j
        BY DEF ChainFrom, n
      <3>2. \A i \in 1..(n + 1) : i \in 1..n \/ i = n + 1
        BY <2>2
      <3> QED BY <2>2, <2>3, <3>1, <3>2
    <2>10. ASSUME NEW i \in 1..((n + 1) - 1) PROVE longer[i + 1] \in Successor(longer[i])
      <3>1. i \in 1..n
        BY <2>2
      <3>2. CASE i = n
        BY <2>2, <2>3, <3>1, <3>2
      <3>3. CASE i # n
        <4>1. i \in 1..(n - 1) /\ i + 1 \in 1..n
          BY <2>2, <3>1, <3>3
        <4>2. chain[i + 1] \in Successor(chain[i])
          BY <4>1 DEF ChainFrom, n
        <4> QED BY <2>2, <3>1, <4>1, <4>2
      <3> QED BY <3>2, <3>3
    <2>11. \A i \in 1..(n + 1) : Last(longer) \in Reachable(Dependencies, longer[i])
      <3>1. \A i \in 1..(n + 1) : i \in 1..n \/ i = n + 1
        BY <2>2
      <3> QED BY <2>2, <2>6, <2>7, <3>1
    <2>12. ChainFrom(c, longer)
      BY <2>2, <2>8, <2>9, <2>10, <2>11 DEF ChainFrom
    <2>13. Extended(chain) = longer /\ Len(longer) = Len(chain) + 1
      BY <2>1, <2>2 DEF longer, n
    <2> QED BY <1>2, <2>12, <2>13
  <1> QED BY <1>1, <1>2

(***************************************************************************)
(* After |Nodes| steps the chain has ended: it would otherwise be longer   *)
(* than there are nodes.  As dependencies are acyclic, it ended because    *)
(* nothing supersedes its last claim, not because it met a claim again.    *)
(***************************************************************************)
LEMMA ChainEnds ==
  ASSUME edges \in Seq(Edge), Acyclic(Dependencies), NEW c \in Nodes
  PROVE  \E chain \in Chain :
           /\ <<c>> \o SuccessorChain(c) = chain
           /\ ChainFrom(c, chain) /\ Successor(Last(chain)) = {}
  <1>1. PICK h \in [Nat -> Chain] :
          /\ h[0] = <<c>> /\ \A n \in Nat : h[n + 1] = Extended(h[n])
          /\ SuccessorChain(c) = Tail(h[Cardinality(Nodes)])
    BY WalkSteps
  <1>2. Dependencies \in [Nodes -> SUBSET Nodes]
    BY DependenciesTyped
  <1> DEFINE N == {n \in Nat : ChainFrom(c, h[n]) /\ (Ahead(h[n]) = {} \/ Len(h[n]) = n + 1)}
  <1>3. 0 \in N
    <2>1. c \in Reachable(Dependencies, c)
      BY <1>2, ReachableIsClosed
    <2> DEFINE one == <<c>>
    <2>2. Len(one) = 1 /\ one[1] = c /\ Last(one) = c
      BY DEF Last
    <2> HIDE DEF one
    <2>3. ChainFrom(c, one)
      BY <2>1, <2>2 DEF ChainFrom
    <2>4. h[0] = one
      BY <1>1 DEF one
    <2> QED BY <2>2, <2>3, <2>4
  <1>4. ASSUME NEW n \in N PROVE n + 1 \in N
    <2>1. n \in Nat /\ h[n] \in Chain /\ ChainFrom(c, h[n]) /\ h[n + 1] = Extended(h[n])
      BY <1>1
    <2>2. ChainFrom(c, h[n + 1])
      BY <2>1, ChainGoesOn
    <2>3. CASE Ahead(h[n]) = {}
      <3>1. h[n + 1] = h[n]
        BY <2>1, <2>3, ChainGoesOn
      <3> QED BY <2>1, <2>2, <2>3, <3>1
    <2>4. CASE Ahead(h[n]) # {}
      <3>1. Len(h[n + 1]) = (n + 1) + 1
        BY <2>1, <2>4, ChainGoesOn
      <3> QED BY <2>1, <2>2, <3>1
    <2> QED BY <2>3, <2>4
  <1>5. N = Nat
    <2> HIDE DEF N
    <2>1. N \in SUBSET Nat
      BY DEF N
    <2> QED BY <1>3, <1>4, <2>1, AllNumbers
  <1> DEFINE size == Cardinality(Nodes)
  <1>6. size \in Nat
    BY GraphAssumption, FS_CardinalityType
  <1> HIDE DEF size
  <1>7. PICK chain \in Chain : /\ chain = h[size] /\ ChainFrom(c, chain)
                               /\ Ahead(chain) = {} \/ Len(chain) = size + 1
    BY <1>5, <1>6
  <1>8. chain \in Seq(Nodes) /\ chain # <<>> /\ DOMAIN chain = 1..Len(chain) /\ Len(chain) \in Nat
    BY DEF Chain
  <1>9. Len(chain) # size + 1
    <2> SUFFICES ASSUME Len(chain) = size + 1 PROVE FALSE
      OBVIOUS
    <2>1. IsFiniteSet(1..(size + 1)) /\ Cardinality(1..(size + 1)) = size + 1
      BY <1>6, FS_Interval
    <2>2. chain \in [1..(size + 1) -> Nodes] /\ size < size + 1
      BY <1>6, <1>8
    <2>3. \E x, y \in 1..(size + 1) : x # y /\ chain[x] = chain[y]
      BY <2>1, <2>2, GraphAssumption, FS_PigeonHole DEF size
    <2> QED BY <2>3, <1>7 DEF ChainFrom
  <1>10. Successor(Last(chain)) = {}
    <2> SUFFICES ASSUME NEW m \in Successor(Last(chain)) PROVE FALSE
      OBVIOUS
    <2>1. m \in Range(chain)
      BY <1>7, <1>9 DEF Ahead
    <2>2. PICK i \in 1..Len(chain) : m = chain[i]
      BY <1>8, <2>1 DEF Range
    <2>3. Last(chain) \in Reachable(Dependencies, m)
      BY <1>7, <2>2 DEF ChainFrom
    <2>4. Last(chain) \in Nodes /\ m \in Dependencies[Last(chain)]
      BY ExtendedTyped, SuccessorSupersedes
    <2> QED BY <2>3, <2>4 DEF Acyclic
  <1>11. <<c>> \o SuccessorChain(c) = chain
    <2>1. SuccessorChain(c) = Tail(chain) /\ chain[1] = c
      BY <1>1, <1>7 DEF size, ChainFrom
    <2>2. <<chain[1]>> \o Tail(chain) = chain
      BY <1>8
    <2> QED BY <2>1, <2>2
  <1> QED BY <1>7, <1>10, <1>11

(* What happens elsewhere leaves the graph. *)
LEMMA GraphAlways == OffChainSpec => []GraphInv
  <1>1. OffChainInit => GraphInv
    BY GraphStart DEF OffChainInit
  <1>2. GraphInv /\ [OffChainNext]_offChainVars => GraphInv'
    <2> SUFFICES ASSUME GraphInv, [OffChainNext]_offChainVars PROVE GraphInv'
      OBVIOUS
    <2>1. [GraphNext]_graphVars
      BY DEF OffChainNext, offChainVars
    <2>2. CASE UNCHANGED graphVars
      BY <2>2 DEF graphVars, GraphInv, Dependencies, Acyclic
    <2> QED BY <2>1, <2>2, AddEdgeKeeps DEF GraphNext
  <1> QED BY <1>1, <1>2, PTL DEF OffChainSpec

(***************************************************************************)
(* No claim comes to depend on itself, whatever edges are added in what    *)
(* order to a graph of whatever size, and the successors of every claim    *)
(* end in one that nothing supersedes.                                     *)
(***************************************************************************)
THEOREM DependenciesStayAcyclic == OffChainSpec => []DependenciesAcyclic
  <1>1. ASSUME GraphInv PROVE DependenciesAcyclic
    <2>1. edges \in Seq(Edge) /\ Acyclic(Dependencies)
      BY <1>1 DEF GraphInv
    <2>2. ASSUME NEW n \in Nodes, NEW m \in SupportersOf(n)
          PROVE  m \notin Reachable(Dependencies, n)
      <3>1. PICK i \in DOMAIN edges :
              edges[i].from = m /\ edges[i].to = n /\ edges[i].kind = "JUSTIFIES"
        BY DEF SupportersOf
      <3>2. edges[i] \in Edge
        BY <2>1
      <3>3. m \in Nodes /\ n \in Dependencies[m]
        BY <3>1, <3>2 DEF Edge, Dependencies, DAG_CONSTRAINED
      <3> QED BY <2>1, <3>3 DEF Acyclic
    <2>3. ASSUME NEW n \in Nodes
          PROVE  LET chain == <<n>> \o SuccessorChain(n)
                 IN /\ IsInjective(chain) /\ Successor(Last(chain)) = {}
                    /\ \A i \in 1..(Len(chain) - 1) :
                         [from |-> chain[i], to |-> chain[i + 1], kind |-> "SUPERSEDES"]
                           \in RelationshipsOf(chain[i]) \cap RelationshipsOf(chain[i + 1])
      <3>1. PICK chain \in Chain :
              /\ <<n>> \o SuccessorChain(n) = chain
              /\ ChainFrom(n, chain) /\ Successor(Last(chain)) = {}
        BY <2>1, ChainEnds
      <3>2. DOMAIN chain = 1..Len(chain) /\ \A i \in 1..Len(chain) : chain[i] \in Nodes
        BY DEF Chain
      <3>3. IsInjective(chain)
        BY <3>1, <3>2 DEF IsInjective, ChainFrom
      <3>4. ASSUME NEW i \in 1..(Len(chain) - 1)
            PROVE  [from |-> chain[i], to |-> chain[i + 1], kind |-> "SUPERSEDES"]
                     \in RelationshipsOf(chain[i]) \cap RelationshipsOf(chain[i + 1])
        <4>1. Len(chain) \in Nat
          BY DEF Chain
        <4>2. chain[i] \in Nodes /\ chain[i + 1] \in Successor(chain[i])
          BY <3>1, <3>2, <4>1 DEF ChainFrom
        <4> QED BY <2>1, <4>2, SuccessorSupersedes
      <3> QED BY <3>1, <3>3, <3>4
    <2> QED BY <2>1, <2>2, <2>3 DEF DependenciesAcyclic, Acyclic
  <1> QED BY <1>1, GraphAlways, PTL
=============================================================================
