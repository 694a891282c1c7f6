# MEMORY WAR: specification and verification

TLA+ models of the parts of this repository that carry its protocol, the
TLC runs that check them on small instances, and the theorems TLAPS proves
about them for all instances. `PROJECT.json` lists the runs, the source
lines each definition stands for, the hazards and the theorems.

To check: `tlc -config X.cfg M` for the pairs of "Runs" below, `tlapm M.tla`
for the modules of "Proofs".

## The system

| Component | State | Operations | Talks to |
| --- | --- | --- | --- |
| `MemoryWarRegistry.sol` | claims, challenges, verdicts, pending evidence and its locks, who reported, tallies, payees, appeals, native balance | create a claim, record a relationship, submit and lock evidence, open a challenge, request a verification, begin the investigation, submit a report (also for an identity), resolve, file and resolve an appeal | asks the investigator registry who controls an identity; transfers to investigators and challengers; emits the events everything off-chain is rebuilt from |
| `InvestigatorRegistry.sol` | identities: controller, predecessor | register, rotate the controller | events |
| `protocol-core` | pure functions; an in-memory event log and graph | lifecycle tables, resolution procedure, payment split, evidence bundles and Merkle roots, justification graph, predicate classification, temporal queries, reputation | called by the demo driver and by tests; states what the contract promises |
| `zg-adapters` | a local mirror and a mapping of root hashes on disk, a cached SDK per adapter | chain access, storage with the mirror, compute with fallbacks | called by demo and indexer, which share the disk |
| indexer: `eventStore.ts` | the read model | apply one event, replay a log | reads the two contracts' logs |
| indexer: `server.ts` | the served read model, last error | periodic rebuild, rebuild on request, queries, calibration | event store, RPC node |
| demo: `lib.ts`, `server.ts` | one write queue, a request log | the scenarios, verification for agents, the tamper demo | all of the above |
| web client | what each card and page shows | run and cancel a scenario, verify a claim, presentation | indexer; demo server through a proxy route, steps as a stream |

What makes each component correct, and where it is hard:

- **Registry.** Everybody may call everything, so calls come in any order and
  race for the same claim. Claim and case are two records that five functions
  write side by side; four tallies, the replay guard and the payee list
  describe one set of reports; the bond is split by integer division, some
  transfers fail and others do not; a payee runs code in the middle of
  `resolve()`. Correct means: the records never drift apart, one case per
  claim, a verdict that anybody can recompute from the reports, evidence that
  does not change under the investigators, verdicts and settlements that are
  final, a balance that covers what is still owed, and a decision for every
  case somebody pursues.
- **Investigator registry.** Keys rotate at any time, also between two reports
  of one case, and may be handed back. Correct means: an identity's reports are
  signed by its keys in the order in which it had them, so that a lost key cannot add
  to the record, and a lineage never starts from somebody else's record.
- **Resolution and payment in protocol-core.** They must agree with the
  contract, which computes the same from other data.
- **Event store.** It knows only the events, in log order; correct means that
  it arrives at the contracts' state.
- **Indexer service.** Rebuilds overlap, reads fail, the two logs are read at
  different times, nothing is on disk. Correct means: what is served is
  coherent, and in the end complete.
- **Demo server.** All requests sign with the same few keys and share one list
  of providers, so runs must not overlap, and none may stop the queue or leave
  its providers behind. A caller must stay within its rate and come back in once
  the window has slid on.
- **Demo driver.** A run is a dozen transactions, each of which may be lost,
  acknowledged late, or pre-empted by a stranger, since the contracts ask nobody's
  permission. Correct means: nothing is sent twice, and a reported success is one
  the chain holds.
- **Storage adapter.** An upload is three writes (network, mirror, mapping), each
  of which may fail or be cut short, and two processes read what one writes.
  Correct means: nothing is labelled live unless the network has it, and what
  an upload returned for can be read from then on.
- **Compute adapter.** Three sources of an answer with a label each. Correct
  means: the label names the one that answered, `verified` means attested, and where
  only 0G Compute was asked for nothing else answers in place of an error.
- **Evidence, graph, predicates, history.** Roots that identify the contents they
  commit to; an append-only graph whose dependencies stay acyclic in whatever order
  edges come; a classifier that lets claims fight for a reason only, and does
  not depend on which comes first; a past that is only added to.
- **Playground.** A run goes on when its reader goes away, and a card may start
  another one meanwhile. Correct means: a card shows its own run only, and
  nobody is left waiting.

## Modules

| Module | Models | State and actions |
| --- | --- | --- |
| `Lifecycle` | `stateMachine.ts` | abstract specification: a status per claim, a state per challenge; a step moves one claim, one challenge, or one of each along the transition tables |
| `Resolution` | `_expectedStatus`, `_claimStatusFor`; `DefaultResolutionProcedure.apply` | operators: the rule on tallies and the rule on reports |
| `Settlement` | `_settleBond`; `payment.ts` | operators: settlement with refusals, and its prediction |
| `MemoryWarRegistry` | `MemoryWarRegistry.sol` | one variable per mapping, one action per external function; extends the two above |
| `InvestigatorRegistry` | `InvestigatorRegistry.sol` | `investigators`, and the sequence of `controllers` its events name; `Register`, `RotateController` |
| `IdentifiedReports` | `submitReportAsIdentity`, both contracts | composes the two registries; `links` is the sequence of `ReportIdentityLinked` events |
| `EventStore` | `eventStore.ts`, `calibrationOf` of `server.ts` | operators: one per event, `Rebuilt` for a rebuild |
| `IndexedRegistry` | the events the contracts emit, replayed | every call with its events; `unemitted` holds those of a `resolve()` that is still paying; `indexed` is the replay of the log so far |
| `Indexer` | `server.ts` | rebuilds as processes over a growing chain, failures, restarts |
| `Evidence` | `ids.ts`, `evidence.ts`, `daBatch.ts` | operators: Merkle roots over injective hashes, of contents and of pairs alike; bundles, locks and versions, batches |
| `Predicates` | `predicate.ts` | operators: a text, its subject and in order the parts the patterns find, is extracted and classified |
| `Investigator` | `compute.ts`, and what `demo/lib.ts` makes of the label | operators: `Investigate` of a world that says which source is there and what it answers |
| `JustificationGraph` | `dag.ts` | `edges`, `adjacency`; `AddEdge`; the queries as operators |
| `History` | `EventLog`, `temporal.ts`, `appeal.ts`, `agent.ts` | `log`, `validTime`, `appeal`, `source`; close, file, resolve, judge, each logged |
| `Storage` | `storage.ts`, `runTamperDemo`, the route `/content/:hash` | the network, the mirror and the mapping, shared by the driver's and the indexer's adapter; each write a step, any of them failing or cut short, which leaves a torn file; crashes |
| `DemoServer` | `demo/server.ts`, provider tracking of `demo/lib.ts`, nonces of `chain.ts` | the request log, the chain of promises, the transactions of a run as nonces; arrival, admission, run, sign, send, end, restart |
| `Playground` | `ScenarioCard.tsx`, `verify/page.tsx`, the stream reader of `api.ts`, the proxy route | extends `DemoServer`: cards and pages, who reads which answer and how far; run, cancel, read, break off |
| `DemoDriver` | `demo/lib.ts` | a scenario as a sequence of calls on `IdentifiedReports`, one at a time: call, wait, read the receipt; strangers and faults in between |
| `MCRules`, `MCRegistry`, `MCProgress`, `MCIndex` | | what the runs need and the proofs do not: generated inputs, symmetry, sums, fairness, and statements of the documentation |
| `MCOffChain` | | composes `MCRules` with the modules from `Evidence` to `Storage`: they share no state, so each behaviour explores one of them, its `focus`; pure functions are applied to whatever `desk` holds |
| `RuleTheorems`, `RegistryTheorems`, `IdentityTheorems`, `DriverTheorems`, `IndexerTheorems`, `PlaygroundTheorems`, `OffChainTheorems`, `ReadModelTheorems` | | proofs, see "Proofs" |

Operators introduced by "A slip" are plausible mistakes. No specification uses
them; each property has one that breaks it (`PROJECT.json`, "mutants").

### How the registry's model relates to the code

- A call that reverts is no step. Guards are the code's `revert` and `require`
  conditions, in its order where order matters.
- Ids are hashes of inputs, sender and time. The model picks any id not in use;
  since anything can be submitted or locked for an id before a case with that
  id exists, evidence is indexed by all ids, used or not.
- `uint` arithmetic does not wrap: Solidity 0.8 reverts on overflow, and no sum
  here reaches 2^256 or, for times, 2^64. `balance` is an integer so that a
  deficit would show as a violation instead of disabling a step.
- A call is one step. For all functions but `resolve()` the EVM makes it so.
  `resolve()` hands control to payees, but only after it wrote the case, the
  claim, the verdict and the cleared bond; it reads nothing a payee could
  change but `investigatorsOf`, copied to memory before the first transfer. So
  to the contract's state a payee's call is a later step of its own. To the
  *log* it is not: events of such a call precede `Resolved`. `IndexedRegistry`
  models exactly that.
- A payee's acceptance is chosen at each `resolve()` (`refusing`, a subset of
  the accounts with code). An investigator who refuses keeps its share in the
  pool. A challenger who refuses its refund makes the call revert, so a
  `Resolve` step with a refund means it was accepted.
- Left out: hashes of texts, predicates and procedures, authors, the
  `reportsRoot` and `dissentRoot` nobody checks, attestation fields, appeal
  reasons and their new status (event only), the relationship edges other than
  SUPERSEDES (event only).
- `reports`, `ledger`, `supersededBy`, `controllers`, `links`, `calledBack`,
  `startedAt`, `admitted`, `landed`, `uploads` and `hurt` are history: what an observer
  saw. No guard reads them but the bound `MaxKeys`.

### How the models off the chain relate to the code

- Hashes are numbers, so that they can be sorted as the code sorts hex strings, and
  equal only for equal bytes. The bytes of two ids in a row hash to what the pair of
  them does, and the text "EMPTY_BUNDLE" to the root of the empty bundle, since
  `ids.ts` hashes contents and nodes alike; contents that are neither are called
  plain. Canonical JSON is left to this.
- `Storage`: a content stands for its hash and for the network's own root of it.
  `getLive` reads and changes what the adapter remembers in the same step as
  what calls it; `LiveStorageBackend`'s calls and the file writes are steps of
  their own, with other processes in between. The network is taken to
  give back, for a root, what was uploaded under it, or to fail; when it fails the
  mirror is read. `writeFileSync` empties a file before it fills it: a write that
  fails, on a full disk say, or is interrupted leaves the file as it was or torn.
- `Investigator`: nothing in `investigate()` is shared, so it is a function of
  what the world answers; every source may be missing, fail, or answer with a
  verdict, an unknown verdict or no JSON. Of the evidence the stub reads, only what
  it concludes from matters: no text, no figures, figures near the claim's, one that is not.
- `Predicates`: the regular expressions are not interpreted. A text is the
  subject and the parts they find in it, in order: words for a metric, number-like
  places, and qualifiers. Parts overlap as the patterns do: the year that ends "as of
  ..." is a number-like place, and "series a" a word for a raise. `Number` makes
  a value of such a place, 0 of a lone comma, and none of a lone period.
- `Playground`: the lines of a stream arrive in the order they were written or
  not at all; one step is streamed for each transaction. The run does not look
  at its connection, so breaking it off changes nothing at the server.

## Runs

| Run | Module, cfg | What it asks |
| --- | --- | --- |
| off_chain | `MCOffChain`, `OffChain.cfg` | each part off the chain. Reports: up to 4, with 3 verdicts, 2 providers, 6 bonds and any number of refusals: contract and procedure agree whenever two providers (or too few reports) are there, the settlement prediction is exact without refusals, and siding with a majority is never rewarded. Graph: all sequences of 3 edges. History: 4 steps. Storage: every configuration, 2 jobs, any step failing, one crash. Desk: roots of up to 4 hashes, of plain contents and others, pairs of texts, worlds of an investigator |
| races | `MCRegistry`, `Races.cfg` | 2 claims and 2 cases, one account that may refuse payment: cases racing for claims, supersession in between, appeals, and the balance over both cases. One account reports once, so every verdict is INCONCLUSIVE; that a claim found TRUE may be superseded is added by the theorems `CasesAndClaimsAgree` and `ValidityClosedOnce` |
| one_case | `MCProgress`, `OneCase.cfg` | 1 case, 4 accounts, of which one has code and may refuse, bonds 0, 4 and 11 (no money, a pool of zero after rounding, a share that leaves dust); and such a case gets decided, see "Fairness" |
| index | `MCIndex`, `Index.cfg` | 2 accounts, 2 identities, 1 case. Keys rotate between reports, are handed back, and identities succeed each other: reports, links and lineage. The replayed read model equals the contracts' state between transactions, with a payee that may call anything while it is paid; after such a call only work, identities and calibration are asked for |
| indexer | `Indexer`, `Indexer.cfg` | 2 overlapping rebuilds, any read failing, one restart, with or without a contract address |
| playground | `Playground`, `Playground.cfg` | the demo server with its readers: a card, a verification page and agents, 2 requests for a limit of 1, runs that throw at any point, connections that break, one restart. The limiter admits exactly whom it should, no run signs with a stale nonce, a card shows its own run, nobody waits for ever |
| demo | `DemoDriver`, `Demo.cfg` | every scenario on every deployment (local devnet; another network with one key or two), two faults and two calls of strangers anywhere: success is never fabricated, nothing is sent twice, an undisturbed run fails only where `SucceedsUndisturbed` says, and no run is ever stuck (deadlock). Evidence that the run or a stranger locked for whatever id, with a root or with zero, which `lockEvidence` accepts, stays as it was |

Five runs show where the code departs from what the repository says of it:

| Run | The statement | What the code does |
| --- | --- | --- |
| false_fights | `predicate.ts:34`: what cannot be confidently parsed "degrades to metric: GENERIC", so as not to be "a false positive" | `parseMoney` takes the first place that looks like a number, be it the year of an "as of", the 3 of "v3" or a lone comma, which counts as 0: "X as of Jan 2024 raised $40M" fights "X raised $40M" (a lone period gives no value, so the text does not fight) |
| tee_label | `compute.ts:4`: the mode is `0G_COMPUTE_TEE` "ONLY if" `processResponse` returned true for the response | every answer of 0G Compute gets that mode (`compute.ts:65`); whether it was attested is in `verified`, which `agentVerifyClaim` asks (`AnyLiveTee`), and in a detail |
| rechallenge | `stateMachine.test.ts:24`: CONTESTED and INCONCLUSIVE "can be re-challenged" | `openChallenge` asks for OPEN, so such a claim is stuck |
| appeal_before_resolved | `MemoryWarRegistry.sol:19`: anyone can rebuild the history "by replaying this contract's events" | a payee that files an appeal while `resolve()` pays it is logged before `Resolved`; the replay ends with RESOLVED, the contract with APPEALED |
| window | `MemoryWarRegistry.sol:135`: the window is "deliberately short for local/testnet demos" | it is two minutes; off a local devnet the driver waits for it 15 seconds at most, so scenario B calls `resolve` too early unless its other steps took the rest |

Observations made on the way, which no run expects to fail:

- `openChallenge` takes a value of zero, where the repository's `README.md:70`
  says "disputing a claim costs a bond".
- Nothing keeps SUPERSEDES edges acyclic on the chain, as `dag.ts` does off it:
  `recordRelationship` lets claims supersede each other in a circle, or
  themselves.
- Since TRUE and FALSE need unanimity, `calibrationOf` can never count a
  disagreement (`CalibrationPerReport`), which is also why reading only an
  identity's *first* report of a case does no harm when a rotated identity has
  several; and the reputation of +0.1 for siding with the outcome of a contested
  case is never paid under the default procedure (`NobodyGainsByMajority`).
- With mode "live" and nothing configured `investigate()` goes on to the fallbacks
  without an error.
- `lockEvidence` takes any root, zero too, after which the reports of the case are
  filed under `evidenceRoot` zero; it is as frozen as any other (run `demo`).
- `resolve()` pays everybody who reported, which nothing limits, and leaves 63/64 of
  its gas to each payee with code (`MemoryWarRegistry.sol:509`); a challenger that
  refuses its refund makes it revert (`MemoryWarRegistry.sol:528`). A case with a bond can be held
  up for good by those it has to pay, whoever calls (`CasesGetDecided` excepts it).
- Two reports of one provider decide a case on the chain but not under the procedure,
  which asks for two providers; the contract says so itself
  (`MemoryWarRegistry.sol:410`), and `ContractMatchesProcedure` leaves the case out.
- Evidence whose bytes are two ids in a row has the root of the bundle of these two, and
  evidence "EMPTY_BUNDLE" that of the empty bundle (`ids.ts:45`, `ids.ts:58`):
  `RootsIdentifyContents` is about bundles of plain contents. Batches are not
  affected, as their ids count the events.
- The storage adapter in mode "live" reports a failed initialisation once; after
  that the same adapter stores and reads locally, under the label `LOCAL_DEMO`.
- `/content/:hash` downloads twice, so `verified` may be about other bytes than
  `text` (`GetContent`, `VerifyContent`).
- With the network there, `runTamperDemo` reads the untouched original and calls
  that "VERIFIED ✓ (BUG)" (`demo/lib.ts:541`; `TamperingShows` allows for it).
- `classifyRelationship` ignores qualifiers and dates when two figures differ. A
  qualifier with a figure may be that figure: put before the amount, "as of Jan 2024"
  is read as it (run `false_fights`); put at the end it does no harm
  (`FightsAreEarned`).
- `findPath` of `dag.ts` follows edges of all kinds where its comment constrains
  only some: whether an edge is refused can depend on the order of additions.
  What it promises, `DependenciesAcyclic`, holds.
- The Merkle roots of three hashes and of the same three with the last repeated
  are equal, as a lone node is paired with itself; a batch id counts its events,
  and bundles hold each hash once (`RootsIdentifyContents`).
- All browsers are one caller to the rate limiter, since the proxy forwards no
  client address. A card whose connection breaks shows "error" while its run goes
  on, and "Run again" starts another.

### Bounds, and why they are enough

- `MaxTime = 2` with `DEFAULT_CHALLENGE_WINDOW = 1` has a time before and a
  time after the window closes; where time plays no role it is 1 and 0.
- `MaxTransfers = 2` of 4 possible reporters: a list that is short enough, and one
  that is not.
- Two claims and two cases are what a race, a crossing of two settlements or a
  supersession needs; properties relate at most two of them.
- Two reporters reach every verdict; the third separates "all" from "most" and
  leaves dust in the division.
- The bonds of `off_chain` are zero, one too small for any fee, and some that do
  and do not divide; `RuleTheorems` covers the rest. With four reports there
  is a majority of three, a tie, and every mix with abstentions.
- Three nodes and three edges have the shortest cycle through a third node, and
  parallel edges of two kinds. Four updates close a validity, close it again,
  file and resolve an appeal, in any order.
- Storage: two contents, the demo's original and its altered file, which an
  ordinary run may upload as well; two jobs, so that the second meets what the
  first left; one crash.
- Trees of up to four hashes, of three plain contents, "EMPTY_BUNDLE" and one pair:
  even and odd levels, repetitions, every order.
- Texts of up to three parts against texts of two: a word and a number in either order,
  with a qualifier before, between or after them. Amounts 49 and 50 are within the
  tolerance, 12 is not; 0 is what a lone comma is read as, 24 the year of an "as of".
- `MaxEvidence = 4` per subject in `Demo.cfg`: scenario B's two pieces and two of
  strangers. Elsewhere 1, or no evidence at all.
- `MaxKeys = 3` in `Index.cfg`: a key can be rotated away and come back.
- `MaxRegistryLog = 3` in `Index.cfg`: a registration and two rotations, or two identities of
  which one rotates. One registration and one rotation are the least with which
  one identity signs two reports of a case, and with these everything is explored; with
  a third entry, or a second identity, the run goes as far as the reports of the case (`Bounded`).
- `EvidenceOnCases` in `Index.cfg` stops at evidence on a claim, which the read
  model ignores.
- `Indexer`: a chain of 2 events (an identity registered, a report linked to
  it), 2 rebuilds for overlap, 1 restart. Longer chains repeat the pattern; a
  chain of 3 was checked once and takes two minutes.
- `Playground`: 2 requests with a limit of 1, so that one may be refused or come
  after the window slid on (times 0 to 3, a window of 2); 2 transactions per run,
  so that a second nonce and a second step follow a first. With 1 card the second
  request is the card's second run, the page's, or an agent's. Requests are
  numbered in the order they are first heard of, which loses nothing: no
  definition tells them apart.
- `DemoDriver`: `MaxFaults = 2` with `RETRIES = 1` has a retry that helps and one
  that does not (the code's 4 and 5 repeat it); `MaxStrangerCalls = 2`: one
  call at any point suffices to pre-empt any of the run's own, and a second can follow it up. The window of 2
  with a wait of at most 1 and a skip of 2 stands for 120, 15 and 130 seconds.
  One run at a time: `Playground` shows that runs do not overlap, and runs of
  other processes act like strangers.
- Ids and accounts that no definition tells apart are symmetric (`Symmetric`);
  no run with a liveness property uses symmetry.

### Fairness

- `FairSpec` of `MCProgress`: every function is permissionless, so a case needs
  *somebody* who goes on with it: weak fairness for locking, beginning and
  resolving that case, and for time. The demo driver does just that. Nothing is
  assumed of investigators. Nor is a `resolve()` assumed to succeed that its payees
  can make revert, by refusing a refund or using up its gas: fairness asks for it only
  while it is `Affordable`, that is without a bond, or while nobody it may have to
  pay has code and there are at most `MaxTransfers` of them. As anybody may report, a
  case can cease to be affordable until it is decided, and `CasesGetDecided` says no
  more than that this is the one way not to be.
- `FairSpec` of `Indexer`: the timer (`setInterval`) gives weak fairness to
  starting a rebuild. Reads and their completion have strong fairness: an RPC
  node that answers again and again, not always. Without it the service may
  stay on an old state for ever, which the code reports as `lastRebuildError`.
- `PlaygroundSpec`: weak fairness for each request's run: its turn comes when the
  promise before it settles, and its calls return, throw or time out. Weak
  fairness for serving a request: what a card or page sent arrives, and what the
  server wrote is read (HTTP over a connection that either delivers or breaks).
  Nothing is assumed of users, agents, or connections staying up. That a run of
  the driver always has a next step is what run `demo` checks; that the node answers is
  assumed: `tx.wait()` has no timeout, so the node has to mine what it took or say
  that it did not.

`OffChain.cfg`, `FalseFights.cfg`, `TeeLabel.cfg` and `Playground.cfg` switch the deadlock check
off: sequences of reports, edges, updates and jobs are bounded, and requests are
answered. In `DemoDriver` a run that has ended stays as it is (`Ended`), so a deadlock
there would be a run that is stuck.

## Proofs

Every theorem holds for all constants that satisfy the assumptions named
below: any number of claims, cases, callers, reports, requests, files, with
every amount, limit and bound on steps.

| Module | Theorem | Says |
| --- | --- | --- |
| `RuleTheorems` | `SettlementConservesBond`, `PredictionIsExact` | shares, refund and what is retained make up the bond; `payment.ts` predicts them |
| | `ContractDecidesAsProcedure`, `LateReportUnsettles` | contract and procedure agree on reports of two providers or more; one more report never turns a verdict into its opposite |
| `RegistryTheorems` | `TypeCorrect` | `Spec => []TypeOK`: also that a case which exists is about a claim |
| | `CasesAndClaimsAgree`, `AtMostOneCase` | `Spec => []StatusesAgree`, `Spec => []OneCasePerClaim` |
| | `TalliesAreExact`, `VerdictsAreAuditable` | `[]TalliesMatchReports`, `[]VerdictMatchesReports` |
| | `BondsAreAccounted`, `AlwaysSolvent` | `[]BondAccounted`, `[]Solvent` |
| | `VerdictsAreFinal`, `EvidenceFrozen`, `ValidityClosedOnce` | the action properties `VerdictsFinal`, `LockedEvidenceFrozen`, `ValidTimeClosedOnce` |
| | `ContractKeepsLifecycle` | the contract implements `Lifecycle`: every step is one of its steps or a stutter |
| | `PrematureLockStrands` | evidence locked for an id before the case with that id is opened: the case stays OPEN, and undecided, for ever |
| `IdentityTheorems` | `TogetherRefinesEach` | the two contracts together implement each of them, so the theorems of the registry hold with identities |
| | `LineagesAreEndorsed`, `LinksAreExact`, `RecordsFollowKeys` | `[]LineageEndorsed`, `[]LinksNameOneReport`, `[]RecordFollowsKeys`, for any number of keys an identity ever has |
| `DriverTheorems` | `TransactionsOnce`, `SuccessIsReal` | the driver's `[]EachTransactionOnce`, `[]ResultMatchesChain`, for every scenario and deployment, any number of faults, retries and strangers |
| | `UndisturbedRunsSucceed` | `[]SucceedsUndisturbed`: a run that meets no failure and no stranger fails only with one key for both investigators, or before the window is over |
| | `RefusedNeverLands` | what the model says the contracts revert for never takes effect |
| `IndexerTheorems` | `TypeCorrect`, `LinksResolve`, `RebuildsSeeTheirStart` | the service's `[]TypeOK`, `[]ServedLinksResolve`, `RebuildSeesItsStart` |
| `PlaygroundTheorems` | `RunsOneAtATime`, `NothingGoesStale` | one run at a time, which alone signs; `[]NothingSignedIsStale` |
| | `PlaygroundKeepsServer`, `ViewsAreOfTheirRun` | cards and pages leave the server `DemoServer`; `[]ViewsShowTheirRun` |
| | `LimiterIsExact` | `[]AdmissionExact`, for every limit, window and number of callers |
| `ReadModelTheorems` | `SystemRefinesContracts` | with the log and its reader the two contracts are still what they were, so their theorems hold here too |
| | `ReadModelIsExact` | `[]ReadModelExact`: between transactions the replayed log is the contracts' state, as long as no payee called back |
| | `WorkIsIndexed`, `IdentitiesAreIndexed`, `CalibrationIsPerReport` | `[]WorkIndexed`, `[]IdentitiesIndexed`, `[]CalibrationPerReport`, whatever payees call |
| `OffChainTheorems` | `ContractFollowsProcedure`, `PaymentIsPredicted`, `MajorityGainsNothing` | `[]ContractMatchesProcedure`, `[]PredictionExact`, `[]NobodyGainsByMajority` |
| | `LabelledLiveIsLive`, `TamperingAlwaysShows`, `MirrorIsKept` | `[]LiveMeansLive`, `[]TamperingShows`, `[]MirrorKept` |
| | `HistoryIsKept`, `OnlyEarnedFights`, `DependenciesStayAcyclic` | `HistoryKept`, `[]FightsAreEarned`, `[]DependenciesAcyclic` |
| | `RootsIdentify` | `[]RootsIdentifyContents`, for lists of any length over any number of contents; of bundles, that different contents give different roots is said of plain ones |
| | `LabelsAreTrue` | `[]LabelsNameTheAnswer` |

`RuleTheorems` also holds the lemmas about numbers, sums over finite sets and
recursive functions that the others cite.

### The inductive invariants

Hardly any of these properties is inductive by itself. What had to be added says
why the code is right:

- **Case and claim** (`CaseInv`). That a case and its claim agree survives
  `RecordRelationship` only if the claim of an undecided case is never OPEN or
  TRUE; that no second case is opened needs that the claim of a case is never
  OPEN again; and the status after a decision is that of the verdict, which must
  exist exactly when the case is decided. `CaseMoves` does the four actions that
  move a case and its claim together once.
- **Verdicts**: `VerdictMatchesReports` needs the tallies to be those of the
  reports (`TalliesMatchReports`), since `resolve()` never looks at the
  reports, and that no report comes once a case is decided.
- **Frozen evidence** (`LockInv`): a case that left OPEN has its evidence locked,
  under whatever root. **Validity** (`ValidInv`): it is closed exactly for SUPERSEDED
  claims, which no undecided case is about, and the time is never zero, so that
  zero does mean "not closed".
- **Money** (`MoneyInv`): a case never opened has an empty ledger, and the
  balance is the sum, over all cases, of deposit less payments. A step changes
  the entry of one case, so the sum changes by that entry alone (`SumChanges`);
  `BondAccounted` then bounds what is escrowed by what is held.
- **Lineage** (`LineageInv`): who controls an identity is the last of those its events
  name (`LastKeyControls`). **Keys**: to each link belongs the turn in which its signer had
  the key, and these turns never go back (`SignedInTurn`): a new link is of the last
  turn, which none is after (`LinkKeepsTurns`), and a rotation only adds one. **Links** (`LinkInv`): a link is about a report of the account it names, and
  the replay guard lets an account report once.
- **Driver**: `LandedOnce` adds that a running call has not landed yet, and that a wait
  is for one that has. `KnowledgeInv` says what a run knows of the chain after each
  step (`Known`: its case exists, its evidence and root are locked, its reports are
  on the list, the verdict is its own); `KnownStays` shows that no call of anybody takes
  that away, from the registry's lemmas on frozen evidence and final verdicts. A run
  that met an error knows nothing any more, and says nothing. That the verdict of
  the chain is the one computed off it needs no agreement of the two rules: the
  contract rejects any other.
- **Undisturbed runs** (`UndisturbedInv`) do need it. `AsLeft(k)` is what the first k
  steps leave behind: a claim that may be challenged, nothing locked before its
  time, the state of the case, its reports one by one, the keys of the two identities. From it `FewRefusals` shows for each
  step that the contracts do not refuse it. For `resolve` that is
  `OwnReportsDecide`: the status computed of two verdicts is the one the contract
  finds, by `ContractDecidesAsProcedure` and since two different keys reported.
- **Indexer** (`ServiceInv`): on the chain a link comes after the registration it
  refers to, and every rebuild reads the registry's log before the identities'. It is
  the order of two reads, not any lock, that makes overlapping rebuilds safe.
- **Demo server** (`SerialInv`): a request is chained once, all before the running
  one have settled, and only the running one has signed. **Views** (`ViewInv`): an
  answer has at most one reader, and the reader has read what it shows.
- **Rate limiter** (`LimiterInv`): it forgets as it goes, so what it remembers of a
  caller is shown to be the end of all that caller's admissions, and what it forgot
  to be older than a window. Times only grow, so the filter of an ordered log is its
  end (`RecentAreLast`, `KeptIsEnd`), and the requests it counts are exactly those let
  in within the last window (`RecentAreAdmissions`).
- **Storage** (`StorageInv`): where an upload is says what it has written; a file is
  itself unless the demo is between its two writes, or it is among the `hurt`: some write
  of it did not succeed, or the demo ended between its two, and no upload of it
  returned since. That a failed upload of a content does hurt an earlier, good one is
  why the property cannot say less.
- **Graph** (`GraphInv`): dependencies are among the adjacencies, in which `FindPath`
  looks. Reachability is the least closed set (`ReachableIsLeast`); a new edge
  closes no circle if its end does not reach its start (`NewEdgeClosesNoCircle`).
  That `successorChain` ends needs that it visits no claim twice (`ChainEnds`).
- **Read model.** Its records are those of the contracts, except what a running
  `resolve()` has yet to emit (`IndexInv`); the queue holds what `resolve()` found,
  which no call of a payee changes (`StillTrue`, `QueueTyped`). The registry's log,
  applied after the other one, changes keys and parents alone (`KeysInv`), since a
  record a link left behind is found again under its id. States and statuses agree
  except where a `Resolved` is still in the queue (`StatesInv`): this alone needs that
  no payee called back, as `appeal_before_resolved` shows. An identity's record lists
  its links in some order, one entry each, which is said with a numbering
  (`LinksInv`), as several reports of a case may be of the same identity.
  `calibrationOf` looks only at the first of them; that this does no harm follows from
  unanimity (`VerdictExact`), and its counts are sizes of sets because the record and
  the links can be paired off.
- **Merkle roots** are a fact about algorithms, so what is needed is an induction
  over the levels of a tree. Hashing a pair is injective and gives more than its
  parts, so on hashes there is a function that joins, up to the leaves, what it is at
  the parts (`HashesFold`). With the set of leaves a hash is made of, a root tells its
  contents if they are plain (`RootTellsContents`), which is enough for bundles. Occurrences are harder,
  since a lone node is paired with itself and its leaves count twice. The function
  is then the number of occurrences of leaves up to k: for two sorted lists of the
  same length of which the first has fewer of them, these come first, so on every
  level each place of the first weighs no more than the same place of the second, and
  some place less, up to the root (`LighterGoesUp`, `RootTellsCounts`). That is where
  the equal length is needed, which the batch id provides.

Induction over numbers, which the library's theorems state with an operator as
parameter, is done with a set of numbers instead (`AllNumbers`: a set that has 0
and with each number the next has them all; `LeastNumber`). The sums over a finite set
follow from its Cardinality, and the existence of a recursive function from its
finite approximations (`IterationExists`). Sorting is defined by counting
(`Sorted`: at place i, the least hash with i or more up to it), as the provers know
nothing of `SortSeq`; it is the ascending order of the list, repetitions kept
(`SortedByCount`).

### Assumptions

`ConstantsAssumption`: the zero id is no id (but may be a root), claim and case ids differ, accounts
are finite in number, amounts and times are naturals. `CasesAssumption`,
`GraphAssumption`: ids of cases and claims of the graph are finite in number.
`BondsAssumption`, `AmountAssumption`: amounts of wei, and figures in a text,
are naturals. `LeavesAssumption`, `BoundsAssumption`: there is something to hash, in
lists of bounded length, and texts are bounded too. `InvestigatorsAssumption`: no
identity is the zero id. `KeysAssumption`: an identity has at least one key.
`TransfersAssumption`: a natural number of transfers.
`CallersAssumption`: only accounts with code call when they are paid.
`DriverAssumption`: the driver's keys and the strangers have
accounts, the two investigators' keys differ on the devnet, and so do two configured keys
elsewhere (two equal ones are the deployment with one key); its root and evidence are some, its bond or fee is not zero, bounds and waits
are naturals.
`StorageAssumption`: a file's contents, the altered file, a torn and an absent
one differ. `ServerAssumption`, `PlaygroundAssumption`, `IndexerAssumption`,
`MaxUpdatesAssumption`: limits and bounds are naturals, markers are no values.
TLC evaluates each of them in the runs of its module.

### Only model-checked

- Liveness, which rests on fairness and ENABLED: `CasesGetDecided`, `Converges`,
  `NobodyWaitsForEver`.
- That `Refused` lists *all* the contracts revert for. It spells out the negated guards
  of the driver's calls, since ENABLED is beyond the provers. That it lists nothing else is
  `RefusedNeverLands`; were something missing, a run would be stuck at a call
  that neither lands nor reverts, and run `demo` would find a deadlock.

Every other property of the runs that pass is proved. The three liveness properties
stand on proved invariants: that a case can be decided at all is `CaseInv`, that a
rebuild serves what it read is `ServiceInv`, that the queue moves is `SerialInv`.

## Not modelled

- Of the resolution procedure: `buildVerdict`'s commitments (`procedureHash`,
  `reportsRoot`) and rationales. Nothing on or off the chain checks them.
- Gas, but for what `Affordable` says of `resolve()`.
- `canonicalJson`, and the regular expressions of `predicate.ts` and of the
  stub; prompts and the texts of reasoning and traces.
- The indexer without an investigator registry (`null` address): it reads one
  log instead of two. Query routes that return a part of the state as it is.
- A chain that is reorganised or reset under the indexer; nothing acknowledged
  is ever undone.
- Of the chain adapter: ABIs, addresses, the helpers that read logs for a
  replay by hand.
- Of the demo driver: the order of uploads and transactions within one run (an
  upload that throws ends the run like a transaction that does), the balances it
  reports.
- Of the web client: pages that only show what the indexer returns. A card that
  is unmounted while its run goes on keeps reading, unseen.
- Deployment scripts, build files.

## What is open

The components are modelled as far as their state goes, and all their invariants and
action properties are proved. Worth doing next:

- the order of uploads and transactions within a run of the driver, which would bind
  `DemoDriver` to `Storage`;
- the pages of the web client, if they come to keep state of their own.
