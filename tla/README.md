# kubus-node: specifications, model checking and proofs

This directory holds TLA+ specifications of the kubus node, the TLC configurations
that check them on small instances, and TLAPS proofs of their main invariants. Paths
below are relative to the repository.

`tlc -config X.cfg M` checks a run, `tlapm M.tla` checks the proofs of a module.
`PROJECT.json` lists the components, the runs, the source lines behind every
definition, the hazards and the theorems.

## 1. The system

The node is one single-threaded Node.js process with a durable JSON state
(`src/state/localStore.ts`). It pins public content in a Kubo repository, stores private
captures, runs reconstruction jobs on a separate Python worker, and takes part in remote
compute through a backend; paired devices reach its local API over HTTP or WebRTC. Inside
the process, code between two `await`s is atomic; the interleavings that matter are those
of the awaits, with crashes, requests that time out and are executed later, and other
processes.

| Component | Module | State | What is hard |
|---|---|---|---|
| Managed pins `src/ipfs/managedPins.ts` | `ManagedPins` | ledger of records per CID | lost answers, late RPCs, crashes between journal and RPC, stale snapshots |
| Job runtime `src/jobs/jobRuntime.ts` | `JobRuntime`, `JobDispatch` | jobs, `running`, `tasks`, per-capture chains | cancellation at every await, restart, one attempt per job |
| Cleanup journal `src/jobs/jobCleanup.ts` | `JobCleanup` | record per job | a worker that is asked late, restarts, or does not answer |
| Spatial worker `spatial-worker/` | `SpatialWorker` | instance id, markers, processes | requests that arrive after a cancellation |
| Runtime lease `src/runtime/runtimeLease.ts` | `RuntimeLease`, `ExclusiveWriter` | lease file, `.reclaim` | dead owners, PID reuse, reboot, racing reapers |
| Local store `src/state/localStore.ts` | `LocalStore`, `AtomicState` | state file, memory, write chain | failed write, crash, hand-over |
| Capture store `src/captures/` | `CaptureStore` | drafts, directories, records | writes queued behind a commit, repairs, sweeps |
| Provider cleanup and remote compute `src/compute/` | `ProviderCleanup`, `RemoteCompute` | remote job records, poll | expiry during preparation, lost transitions, restart |
| Requester `src/compute/` | `RemoteRequester` | journal of encrypted inputs | a submission whose answer is lost |
| Pairing, idempotency, dispatch `src/localApi/` | `Pairing`, `Idempotency`, `LocalApi` | sessions, credentials, claimed keys | concurrent exchanges, retries, eviction, revocation |
| Data channel and peers `src/webrtc/` | `ChannelServer`, `RemoteAccess` | requests in flight, sessions, peers | reuse of ids, sessions that end before their peers |
| Archive `src/operator/`, `src/ipfs/pinning.ts` | `Archive` | pin set, pins, commitments | a set that changes between its pages |
| Participation gate `src/participation/` | `Participation` | lease, stamps | a refresh that overwrites a renewal |
| Scheduler, action lock, startup, shutdown | `NodeRuntime` | lock, services, loops | contention, stopping during startup |
| Console `src/gui/viewModel.ts` | `Console` | none (operators) | a view put together over several awaits |
| Identity, installation, permission update | `NodeIdentity`, `Installation`, `SetupServer`, `PermissionUpdate`, `Enrolment` | key file, grants, credential on disk | crashes and lost answers between claim, write and confirmation |

The modules compose along `EXTENDS`: `SpatialWorker` ← `JobCleanup` ← `JobRuntime`;
`RuntimeLease` ← `LocalStore`; `ProviderCleanup` ← `RemoteCompute`; `Pairing`,
`Idempotency`, `RemoteRequester` ← `LocalApi`; `ChannelServer` ← `RemoteAccess`;
`Archive` ← `Participation`, with `Console` ← `NodeRuntime`; `Installation`,
`NodeIdentity` ← `SetupServer` ← `PermissionUpdate` ← `Enrolment`. Operators whose name ends
in `_Something` and whose comment begins with "Fault" are variants of the definition that
follows, each a plausible mistake; `PROJECT.json` names the property that notices it.

## 2. Modules

### Pins: `ManagedPins`

`op[c]` is the one operation that holds the lock of CID `c` (`exclusive`), at one of
its awaits; `ledger` is the durable record; `pins` is what Kubo holds. An RPC that is
abandoned may be executed later: it moves to `late[c]`. Every update of the store
takes effect or fails without effect (`UpdateFails`), and the node can crash at any
point (`NodeCrash`), which loses `op` and `sweep` and keeps the rest. `acquire` is
`BeginAcquire`, `ProbeOwnership`, `JournalOwner`, `PinAdd`/`PinAddFails`,
`ConfirmPinned`; `release` and `reconcile` (`BeginSweep`, `SweepNext`) share
`releaseUnreferenced`: `Decide` and then `Retain`, `Defer`, or `JournalReleasing`,
`PinRm`/`PinRmRejected`/`PinRmUncertain` and `RecordOutcome`. `refs` stands for the
references that `referenced()` finds outside the ledger; the archive and spatial
records change it (`ChangeReference`). `ExternalPin` is another user of the Kubo
repository, who adds pins; one who removes pins of the node is not modelled.
`allowUnpin` is KUBUS_MANAGED_PIN_RELEASE_ENABLED, which may change at a restart.

`acquire` probes a record that a crash left `pending` again; `release` does not, and
trusts the ownership recorded before the crash. The model has this difference, and no
property promises the survival of a pin that another user made in between.

`FreshSpec` restricts the behaviours to those in which no reconcile still has to
visit a CID whose removal has been journaled since its snapshot. The code does not
ensure this; three of the theorems need it, and `PinsUncertain.cfg` shows why.

### Jobs: `SpatialWorker`, `JobCleanup`, `JobRuntime`, `MCJobRuntime`

`SpatialWorker` has the worker's admission, markers, processes and restarts, and the
directories of jobs. `JobCleanup` extends it with the journal, and `JobRuntime` extends
that with the runtime, for JOB_CONCURRENCY = 1, the default. `task[j]` is the await of
`run()` at which job `j` stands; each action takes the run to the next await, and
`ReturnsEarly`, `Throws`, `Catches` and `ReconcilesAtEnd` are its early returns, its
catch and its finally. `request` has the requests of `POST /jobs` through the
per-capture chain, `quiesce` the calls of `ensureJobQuiescent`, `sweep` those of
`reconcileCleanup`. A request for `/v1/process` that is on its way is in `inbox` and
survives a crash of the node. `Legacy` jobs were running under a release without a
journal. `ApartSpec` leaves out the sweeps that meet a job with a live task.

### Dispatch: `JobDispatch`

`schedule()` and the loop of `dispatch()`, one iteration per step, for any
JOB_CONCURRENCY. While the loop runs nothing else does, since it awaits nothing
(`NotLooping`). A run is reduced to its patches of the job's state. `Before` is the order in which
`list().reverse()` finds jobs, ties included. JOB_CONCURRENCY = 1 is the configuration
`JobRuntime` assumes; `OneRunAtATime` justifies its single run at a time.

### Lease and state file: `ExclusiveWriter`, `RuntimeLease`, `LocalStore`, `AtomicState`

A process is one life of an operating system process and calls `acquireRuntimeLease`
once. Each await is a step at which it may die (`Die`, `Reboot`). `ProvenStopped` is the
code's decision, from the owner's host, boot, namespace, PID and start time.
`ExclusiveWriter` is the promise, and `RuntimeLease` is shown to implement it through
`Writers`. `CalmSpec` leaves out one step: a command giving its lease back between a
reaper's second reading of the lease and its proof (`Undisturbed`). The code does not
ensure this, and `LeaseCrossed.cfg` shows what happens otherwise. That a hostname names one
machine is an assumption of the code, and of the model.

`LocalStore` puts the store on top: the process that holds the lease loads the file
(`Load`, which sets a spoilt file aside) and runs `update()` calls through the write chain:
`Update` queues a call, `Snapshot` takes the state, `Mutate` runs the mutator and writes the
temporary file, `Rename` replaces the file, `Commit` makes memory follow and tells the
caller, and `Fail` is a mutator or write that throws at any of these. A command waits for
its updates before it gives the lease back (`AwaitsUpdates`); a death may come anywhere.
`AtomicState` is what every other module assumes of the store, and `StoreIsAtomic` shows
that it is implemented, with the file as the abstract state.

### Captures: `CaptureStore`

An upload stands for the id that a draft, its directory and later its record share. The
promise chains `entry.lock` and `commitLock` are the sequences `lock` and `commits`; the head
of each runs. A commit goes through `CommitEnters`, `CommitChecks`,
`CommitLooksAtExisting`, `CommitInspects`, `CommitWritesManifest`, `CommitInstalls`,
`CommitForgets` and `CommitRetires`, or leaves at `CommitIsRedundant`, `CommitRefuses` or a
failing step. `Problem` is `inspectCapturePackage`: a document is the set of frames it
declares. A sweep has two steps, `SweepLooks` and `SweepRemoves`, since the owner is asked
twice; `MarkerAges` is the idle grace. `JobInspects` and `JobInserted` are the two halves of
`JobRuntime.create` as far as a capture is concerned. `taken` are the uploads that a
user, or something outside the node, has removed files of, and those that a user has
written to after their draft had gone; no property promises anything about their contents.
`Bytes` are the bytes of a draft's files, one for each file and position, so that the size
is a cardinality.

### Remote compute: `ProviderCleanup`, `RemoteCompute`, `RemoteRequester`

`ProviderCleanup` is the journal of what a provider holds for an assignment: plaintext,
capture, pin. `release[j]` is the shared release in flight. It relies on
`ensureJobQuiescent` returning only when the local job is over, which is `GrantMeansQuiet`
of `JobRuntime`. `RemoteCompute` is the poll: one at a time, over the listing it fetched,
whose states (`poll.seen`) may be stale; `PollHandles` starts on a job and the steps after it
are the awaits of `handleProviderJob`. Each transition at the backend is taken and answered
(`Asked`), refused, or taken with its answer lost (`Throws`). Any failure goes through
`FailJob` to `request()`, whose own failure ends the poll (`ThrowFromRequest`). `verdict` is the
authorization block with the credential it was given on.

`RemoteRequester` is the other side: encryption, pin, submission and the journal
`privateComputeCids`, up to the release of the input. It is composed in `LocalApi`, whose route
`POST /compute/jobs` runs it.

### Local API: `Pairing`, `Idempotency`, `LocalApi`

`req[r]` is a request in service. `MutationArrives` is admission by address and credential,
the touch of the credential is a write of its own (`MutationClaims` follows it), then the claim
of the key, the operation and `MutationSettles`. `RouteOf` is the table of routes with
scope, prerequisites and effect. `ExchangeArrives`/`ExchangeIssues` and
`AttachArrives`/`AttachIssues` are the two ways to a credential, each with a check before an
await and the decision inside the update. `lost[k]` counts how often the entry of a key went
away by age, capacity or restart while it mattered.

### Remote access: `ChannelServer`, `RemoteAccess`

`inFlight` is the table of the channel by request id and `run[n]` the n-th accepted request,
which goes on when it leaves the table. `Refuse`, `Serve`, `ReadBody`, `Respond` and
`StreamEnds` are the awaits of `runRequest`; `RequestChunk` may reject the body promise of a
run that waits for it. The peer may send any frame at any time. `RemoteAccess` adds the
signaling sessions, whose end leaves a connected peer in `activePeers` (`Kept`), the states
of the peer, the deadline of the identity proof, and `Stop`.

### The running node: `Archive`, `Participation`, `Console`, `NodeRuntime`

A runner (startup, the console, each loop of the scheduler) has at most one task: a
sequence of operations, each a sequence of awaits. `Archive` has the paged synchronization
(a page is the part of the set that is served then, in the order in which the backend lists
it, `Listing`; `SamePage` is the comparison of count and generation), the greedy plan, a
recursive function over the records in the order of their ranks, pins, removals (`MayRelease`)
and commitments.
`Participation` has the gate: a lease is a level (3 live, 2 in grace, 1 over, 0 none) that
time lowers, and a refresh writes back the lease it read. `Console` is the view model as
operators; `Shown` is the view that `buildGuiView` puts together when it starts from a refresh
that has just been written. `NodeRuntime` has the action lock, `recoverNetworkStartup`, the
loops, the console's actions, and the shutdown of the CLI in its order with each step given up
after its budget.

### Enrolment: `NodeIdentity`, `Installation`, `SetupServer`, `PermissionUpdate`, `Enrolment`

A key is a number, and so is a grant with the credential it delivers. Every call of the
backend is answered, refused or lost, and a lost one may have been taken; a confirmation on
`wire` may arrive later. The setup page's requests share `setup`, those of the permission
update share `update`, and both write `disk`, the credential in the configuration file.
`Boot`, `Exit` and `Crash` are the process under its supervisor; a second process uses the
identity file.

## 3. Runs

| Run | Checks | Shows |
|---|---|---|
| Pins | RemovalJustified, WantedGetsPinned | also with stale sweeps only unowned pins of the node are removed, and a wanted CID is not starved |
| Jobs | CompleteMeansQuiet, GrantMeansQuiet, OneActiveReconstruction, TerminalIsFinal | a completed cleanup and a granted quiescence are final; one reconstruction per capture; nothing changes a job that has ended |
| JobsLive | JobsEnd, CleanupSettles | jobs end, directories get an outcome |
| Dispatch | BoundedRuns, QueuedIsServed | JOB_CONCURRENCY = 1: one run at a time, no wake-up is lost |
| Lease | ExclusiveWriters, StoreIsAtomic, SuccessorGetsLease | lease and store implement their abstract specifications through deaths, a reboot, PID reuse and hand-overs |
| Captures | OneReplica, ClaimedIsOnDisk, JobsKeepTheirCapture | concurrent uploads, commits, repairs, sweeps and jobs on one capture |
| CapturesLive | StoredIsComplete, AccountingIsExact, OrphansReclaimed | writes behind a commit, ceilings, reconciliation and a crash; what is stored is whole, and directories without an owner go |
| Compute | CompleteMeansGone, HoldingsAreJournaled, OneLocalJob, InputsAreReleased | what a provider holds is journaled, given to the worker once, and given back |
| Api | AppliedOnce, OneCredential, RevokedStaysRevoked, InputsStayPinned | retries, concurrent exchanges, revocation, lost submissions |
| Remote | AnsweredOnce, RequestsAnswered, PeersAreKnown | one channel and its signaling session |
| Node | RemovalsFromWhole, PlanIsGreedy, EligibleIsEarned, GreenIsOneMoment, WantedIsKept, NothingStartsLate, Contributes | startup, loops, console, gate and shutdown together |
| Enrolment | TokenWorks, OneIdentity, ReplacedIsLeft | from the first start to a replaced credential |

**Bounds** are the constants of the cfg files.

* *Pins.* One CID: the lock and all conditions are per CID, and only a sweep visits several.
* *Jobs.* Two requests and two jobs compete up to the hand-over to the worker; beyond it the
  constraint `OneByOne` follows one job, since jobs meet only in the creation and in dispatch.
  Two crashes let a restart fail as well; two worker instances let a request outlive its
  addressee.
* *Dispatch.* Two jobs: one runs while the other is inserted, waits or is cancelled.
* *Lease.* Three processes are an owner that dies, a reaper and a faster successor; two of them
  share a PID and the third has it in another namespace, so that only the boot id tells them
  apart after a reboot. One of them is a command, which gives the lease back; the others hold it
  until they die. Two updates are one that is queued behind another, or one before and one
  after a hand-over. Several hosts and platforms without boot ids are not in a run; the
  theorems cover them.
* *Captures.* Two uploads for one key are what a repair needs: the damaged replica and its
  replacement, each with a manifest and an image, with one file lost. Status requests, writes
  that are queued behind a commit and a crash are in *CapturesLive*, with one upload, two images
  and files of one or two bytes against ceilings of two files and two bytes: a third file meets the
  one, a file that grows when it is replaced the other. The theorems have any number of uploads and
  crashes and all ceilings.
* *Compute.* One assignment, with another of the node that counts against a capacity of one;
  two failures of any kind, so that a failure can be followed by one of its handling; one
  restart. Assignments meet only in the capacity and in the order of the poll.
* *Api.* Two requests in service, a session and a grant, one key, an idempotency table of one
  entry, so that eviction happens, one input.
* *Remote.* One request id used for two requests, bodies of up to one chunk beyond the limit, one
  session.
* *Node.* Three records of which the plan takes two by count, or fewer by size, in two versions of
  the set (one for a start with generations and the other for a start without, `ReleasedInit`);
  all eight runners; two troubles (`MaxTroubles`: failing calls, changes of the set,
  passing times and interventions together), one asker and one restart.
* *Enrolment.* Two grants (the first installation and its replacement), two concurrent requests,
  two faults, two processes that may mint a key.

Deadlock is checked in the runs of `ManagedPins` and `JobRuntime`. The others may stop: all jobs
are over, all processes dead, all calls made.

**Fairness.** `ManagedPins`: strong fairness of each step of `acquire` for a
referenced CID, because the archive loop tries every desired CID on every pass, and
the store and Kubo do not fail every one of infinitely many attempts; weak fairness of
the steps of a release, which are awaits with timeouts. `JobRuntime`: weak fairness of the
event loop's steps, of the worker's handling of a request and of its handlers' end (training
has a timeout), and of the node being started again; none of requests, cancellation, crashes
or sweeps. Failures of the store are left out of `JobsLive`: a store that rejects the update
in `run()`'s catch leaves the job as it is until the next start. `JobDispatch`: microtasks run
and runs end; the store may fail there, but not in every one of infinitely many runs of a job.
`RuntimeLease`: as long as some process can take its next step, one does. `CaptureStore`: queued
operations, the
sweep timer and the clock go on; no client does anything. `RemoteCompute`: the poll, the
release and the cleanup timer go on and an assignment's time runs out; nothing is assumed of
the backend, the requester or the operator. `RemoteAccess`: accepted requests are served on.
`NodeRuntime`: the task that has the lock goes on, since every call has a timeout, and the
three loops the gate depends on tick infinitely often and are not refused by the lock every
time (strong fairness): their periods differ and a refused tick is repeated after its backoff.

### Supplementary configurations

The following are not among the runs. The first passes; in the other four TLC finds a behaviour
that a sentence of the repository excludes.

| Configuration | Module | Result |
|---|---|---|
| JobsApart.cfg | JobRuntime | passes: CompleteMeansRemoved, DirectoriesAreJournaled under ApartSpec |
| PinsUncertain.cfg | ManagedPins | UncertainIsFinal is violated |
| JobsLeftover.cfg | JobRuntime | CompleteMeansRemoved is violated |
| DispatchTwo.cfg | JobDispatch | BoundedRuns is violated |
| LeaseCrossed.cfg | MCRuntimeLease | LiveLeaseStands is violated |

* **PinsUncertain.** docs/COMPLIANCE_REMEDIATION.md:81 says of an unacknowledged removal
  "Neither reacquisition nor another release of that CID is allowed; restart reconciliation does
  not replay releasing or release_uncertain entries." `reconcile` (managedPins.ts:260-270) selects
  CIDs from a snapshot and does not look at the record's state again under the lock.
* **JobsLeftover.** docs/PRIVACY.md:11 says "It waits for preparation and acknowledged worker
  quiescence before removing readable source and job directories after terminal processing."
  `POST /jobs/cleanup` does not wait for the task of a cancelled job; `mkdir` (jobRuntime.ts:308)
  or the dataset (322) then recreate the directory after the record is complete.
* **DispatchTwo.** docs/architecture.md:24 says that `JobRuntime` "bounds concurrency". The loop
  (jobRuntime.ts:270-281) selects a job that is still queued again; `running` keeps its size, so
  with two slots the loop does not end.
* **LeaseCrossed.** The comment at runtimeLease.ts:61 says "Every reaper reads the owner again
  after claiming this guard, so it cannot delete a replacement live lease." Between the second
  reading and the unlink (66-67) the lease can change hands.

### Other places where code and text differ

Met while translating; the modules follow the code, and the properties are stated so that they
hold of it.

* `captureStore.ts:679-681`: "there is no moment at which a committing upload is claimed by
  neither". `discardDraft` of a draft that is being committed forgets it first; until the record is
  installed nothing claims the directory. `StoredIsComplete`, `ClaimedIsOnDisk` and
  `AccountingIsExact` except the uploads in `taken`: discarded, deleted, stored whole by `create`,
  written to late, or damaged from outside.
* `captureStore.ts:352-416`: a write that was queued behind the commit of its draft does not ask
  again whether the draft is there; it lands in the stored capture and is answered with success.
  The test at captureStreaming.test.ts:449 is named 'a committed draft can no longer be appended to'.
  Such an upload is in `taken`.
* `captureStore.ts:741-743`: reconciling "never interleaves with a write's own accounting". A write
  may begin during the awaits of a reconcile; it matters only when files have disappeared.
* `captureStore.ts:786`: `delete` asks about jobs before its awaits and not again;
  `JobsKeepTheirCapture` excepts it.
* `remoteComputeRuntime.ts:517-525`: the record of a failed assignment keeps its active state and
  goes on counting against the capacity (441-452).
* `channelServer.ts:39-42`: a cancelled request leaves the table at once and no longer counts,
  while its handler runs to its end.
* `nodeSignalingClient.ts:178-182`: a peer that was disconnected and is connected again is in
  `activePeers` no more. `PeersAreKnown` has such peers in `lapsed`.
* `networkParticipationGate.ts:82`: a refresh that overlaps a heartbeat writes the older lease
  back. `EligibleIsEarned` shows that the error is only ever on that side, and `Contributes` that
  the next heartbeat mends it.
* `setupServer.ts:174`: "confirmation retries on next start". Nothing retries it; the
  credential works all the same (`TokenWorks`).
* `permissionUpdate.ts:104-106`: repeated calls "cannot open a pile of grants". Until the backend has
  answered the first, a second `begin` opens another.
* `docs/PARTICIPATION.md:3`: local compute too "is available only while the runtime holds a verified
  archive-participation lease"; `jobRuntime.ts:146-148` asks the gate for remote assignments only.
* `localStore.ts:162-174`: `load` treats every read error but ENOENT as corruption and sets the file
  aside; `AtomicState` has this as `SetAside`.

## 4. Proofs

All constants are arbitrary, within the named assumptions of the modules.

**`ComponentProofs`**, the pin ledger. `PinsTypeCorrect`; `RemovalsAreJustified` (inductive together
with the type invariant: from `Decide` on the lock keeps others from adding owners);
`PinnedRecordsAreBacked`, `UncertainOutcomesStay` and `AdoptedPinsAreKept` under FreshSpec;
`SwitchIsComplete`, an action property, from the fact that a removal is only journaled with the
switch on. `PinnedIsPinned` is not inductive: the strengthening says that a removal in flight or
abandoned implies a record under review, and that an operation about to confirm has its pin.

**`JobRuntimeProofs`.** `TypeCorrect`, then `CompletedCleanupIsQuiet`, `GrantedQuiescenceHolds`,
`JobsAreSubmittedOnce`, `DirectoriesHaveOwners` and `LegacyDirectoriesStay` from one inductive
invariant, stated per job: what the journal says of directory and attempt at each await of the run;
that every request on its way and every process of the worker belongs to the instance the record
names; what a terminal job with no task can still cause; what a release has established at each of
its awaits; and that legacy jobs have no record. It is needed because `CompleteMeansQuiet` speaks of
requests that were sent long before the record was completed, by a run that may be gone.
`TerminalStatesAreFinal` follows from it, because a run that writes a state stands at an await at
which its job has not ended; and `OneReconstructionAtATime`, because only `Insert` makes a job wait
for a capture, and it looks at all jobs of the capture in the step in which it inserts.

**`LocalStoreProofs`**, the lease. `TypeCorrect` (with the bound on the loop's turns),
`LeaseStands`, `GuardExcludes` and `LeaseImplementsLock` under CalmSpec. The invariant relates the
lease file to the processes that own it, the guard to the process under it, and says that a reaper
past its proof has seen the present lease and that its owner is dead. `ProofIsSound` is the lemma
about `ProvenStopped`.

**`LocalStoreProofs`**, the store. `UpdatesAreAtomic`: every behaviour of `LocalStore` is one of
`AtomicState`. The invariant is relative to the lease: a process that serves is the one the lease
names, so that at most one has the file (`Loaders`); its memory is the file, except between the
rename and the commit, when it is the file without the update in hand, and its candidate is memory
with that update or without effect (`Follow`); and an update that is still in a chain has been told
nothing and is in no file before its rename (`Fresh`). It is what makes a successor's first write
start from everything that was acknowledged.

**`CaptureStoreProofs`** and **`CaptureSizeProofs`**. `CapturesTypeCorrect`, `OneReplicaHolds`,
`StoredCapturesAreComplete`, `ClaimedFilesAreOnDisk`, `JobsKeepTheirCaptureHolds` and
`AccountingIsExactHolds`, for any uploads, images, documents, readers, ceilings, losses and
restarts. The invariant is stated per upload (`UploadInv`). `QueueInv`: only the first turn of a
queue is past its beginning, and a draft has at most one commit in it, whose draft is the head of
`commitLock`; so no two commits are under way. `CommitInv`: what a commit has found out still holds
when it is used, namely that no other record has its key but the one it repairs, that the one it
repairs is not itself, and that its package is complete. `StoredInv`: stored captures and live
drafts have their files. None of this is affected by steps of other uploads, sweeps, jobs and
readers, except in the ways that `Kept` lists; `KeptKeeps` shows once that those keep the invariant,
and each action is then shown to be `Kept` for every upload whose turn it is not.
`CaptureSizeProofs` has the accounting. The ceilings are a second invariant on top (`CeilingInv`: an
open write has room for its file), and the accounting a third: the size is the number of bytes, an
open write knows what its file added before (`SizeInv`), and a reconciliation of an untouched draft
finds every file it looks for, and so drops nothing (`ReadInv`, from `StoredInv`). `TotalBooked` is
the lemma on the sum; it counts bytes with the library's facts on finite sets and takes no
induction.

**`RemoteProofs`**, the provider. `CompleteMeansGoneTheorem`, `OneLocalJobTheorem` and
`HoldingsAreJournaledTheorem`, for any finite set of assignments and any number of failures and
restarts. The invariant is stated per assignment: what is held has a record that says so
(`RecordInv`); a release in flight was asked for durably, and what its steps have undone stays
undone until the record says so (`ReleaseInv`); and who prepares is in the map of preparations, so
that a release waits for it, and what has had a local job is not prepared again (`PrepareInv`). The
last is what keeps a preparation from writing plaintext behind a completed cleanup. The counts that
the operator sees follow from the per-assignment facts with the lemmas on finite sets.

**`LocalApiProofs`.** `OneCredentialTheorem` and `RevokedStaysRevokedTheorem` from `PairingInv`:
what can still be exchanged has produced no credential, and a request that attaches names a grant.
`InputsStayPinnedTheorem` from `InputsInv`: an input is pinned before the backend is told of it and
is let go of only when its job has ended. `AppliedOnceTheorem` from `KeysInv`: the effects of a key
and its outstanding claims together are covered by the entry that is there and those that were lost.
It is an accounting argument, because a claim outlives its entry; the lemmas about `Set`, `Delete`
and eviction say which keys of a sequence of entries survive each of them.

**`RemoteProofs`**, remote access. `AnsweredOnceTheorem` and `PeersAreKnownTheorem`. A handler
deletes its id from the table when it ends, also when the id has been given to another request by
then; `ChannelInv` says that the entry under an id is a request with that id that is being served
and has had no answer, and that a request in service has been answered only for a bad body.

**`ComponentProofs`**, enrolment. `OneIdentityTheorem`, `TokenWorksTheorem` and
`ReplacedIsLeftTheorem`, for any processes, concurrent requests, grants and faults. `IdentityInv`:
the file, once linked, is what everyone loads and every grant was started with. `ModeInv`: what
there is in each mode of the process. `SetupInv`: the setup writes at most one configuration, with a
credential that has been collected, and nothing has been replaced by then. `TokenInv`: a credential
is stored by one request, before any confirmation of it is sent, so that what a confirmation on the
wire retires is not the credential in the file.

**`NodeRuntimeProofs`.** `RemovalsFromWholeTheorem`, `EligibleIsEarnedTheorem`,
`WantedIsKeptTheorem`, `NothingStartsLateTheorem`, `GreenIsOneMomentTheorem` and
`PlanIsGreedyTheorem`, for any records, sets, listings and limits. `LockInv`: who is in the middle
of a task has the action lock, so that the plan is not replaced between the steps of a release, nor
the set between the pages and their being stored; with it, the pages collected so far are a prefix
of one listing when the backend names generations (`Listed`). `ViewInv`: a stored set with a
generation is one that was served. `GateInv`: every lease that a refresh has in hand, and the one
that is stored, is at most what heartbeats have earned. `RefreshInv`: what a refresh is about to
write is the gate's decision on the figures it read beside it (`Whole`, `KuboFacts`, `WriteFacts`);
with the lemmas on the alerts of `Console` (a view whose worst severity is good raises none) it
gives `GreenIsOneMomentTheorem`. The plan is what a recursive function computes. The library's
induction theorems cannot be used for it, so the lemmas argue by the smallest set for which they
would fail (`SmallestSet`, from the library's theorem that strict inclusion of finite sets is
well-founded): every set of records has a last one (`LastExists`), the recursion defines a function
(`PlansExist`, `PlannedFact`), and what it computes is greedy (`SelectIsGreedy`, `PlannedIsGreedy`).

**`NodeRuntimeProofs`**, the dispatch of jobs. `OneRunAtATime`: with one slot at most one run is
alive. The invariant is that a key of `running` has exactly one run and that there is at most one
key; with two slots the first half fails, which is what *DispatchTwo* shows.

**Assumptions.** Bounds are natural numbers; sets that are counted are finite (`Jobs` of
`ProviderCleanup`, `Requests` of `LocalApi`, `Images` of `CaptureStore`, `Records` of `Archive`); a
document declares images (`PackageAssumption`); markers such as `NoKey`, `NoToken`, `Nobody` and
`Nothing` are not among the values they stand beside; the served session and the node's own process
exist; a scoped key is a credential with a name (`KeysAssumption` of `LocalApi`); the ranks of
records are distinct, since the CID decides last; a listing has every record of its set once; and
the runners are those of the scheduler, startup and the console (`RuntimeAssumption`). TLC evaluates
all of them in the runs.

**Layout.** Where a proof module or a step says `USE Zenon`, a leaf without a pragma is first-order
reasoning, and one that needs arithmetic or sequences says `SMT`.

**Only model-checked.** All liveness, since fairness and ENABLED are outside the prover:
`WantedGetsPinned`, `JobsEnd`, `CleanupSettles`, `QueuedIsServed`, `SuccessorGetsLease`,
`OrphansReclaimed`, `InputsAreReleased`, `RequestsAnswered`, `Contributes`. `CompleteMeansRemoved`
of *JobsApart* has no proof.

## 5. Not modelled

* Cryptography, signatures and their encodings; the byte layout of frames; geometry, which is
  floating point; HTTP parsing, HTML and wording.
* The buffering of ICE candidates that arrive before an offer (`nodeSignalingClient.ts`,
  `nodePeer.ts`): it only delays them.
* What a read-only route of the local API answers, and the requester's retrieval of an output,
  which writes nothing.
* `LocalStore.getOrCreateNodeKey`, a file of its own; the analytics store, which nothing else
  reads; worker authentication, which signs a token per request; the backend client, whose calls
  are steps of the modules; logging and configuration parsing.
* The installer and the release scripts, which download files and call Docker.
* The textual `reason` of a pin record: it decides only whether `Defer` writes again what is
  already there.
* Lengths of time. A timeout, a lease or a grace period is a step that may be taken; the
  order of two deadlines is not assumed, except where one is defined by the other (lease and
  grace).
* The composition of `JobRuntime` with `ManagedPins`: owners of a failed import stay in the
  ledger, which docs/COMPLIANCE_REMEDIATION.md states.
