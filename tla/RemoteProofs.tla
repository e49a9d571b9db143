---------------------------- MODULE RemoteProofs ----------------------------
(***************************************************************************)
(* What a provider owes for the inputs it has taken, for any number of     *)
(* assignments, faults, restarts and credentials; and the data channel     *)
(* with the peers of the node.                                             *)
(***************************************************************************)
EXTENDS RemoteCompute, RemoteAccess, FiniteSetTheorems, TLAPS

\* A leaf is first-order reasoning unless it says otherwise.
USE Zenon

-----------------------------------------------------------------------------
(* The inductive invariant *)

\* The poll is handling job j, at one of the awaits of S.
AtJob(j, S) == poll.job = j /\ poll.pc \in S

\* What is held of an input has a record that says so.
RecordInv(j) ==
  /\ ~Owned(j) => /\ j \notin plaintext \cup captures \cup pins
                  /\ local[j] = "none" /\ ~InFlight(j)
  /\ Owned(j) /\ ~Complete(j) => record[j].pinPending
  /\ Complete(j) => j \notin plaintext \cup captures /\ local[j] # "active"
  /\ j \in pins => record[j].pinPending
  /\ created[j] = IF local[j] = "none" THEN 0 ELSE 1

\* A release has been asked for, durably, and what its steps have undone stays
\* undone until the record says so.
ReleaseInv(j) ==
  /\ InFlight(j) => record[j].requested
  /\ release[j] \in {"wait", "quiesce", "remove", "complete", "block"} => ~Complete(j)
  /\ release[j] \in {"remove", "complete"} => local[j] # "active"
  /\ release[j] = "complete" => j \notin plaintext
  /\ release[j] \in {"pin", "pinned"} => Complete(j)
  /\ release[j] = "pinned" => j \notin pins

\* Whoever prepares is in the map; its release goes no further than waiting for
\* it; and what has had a local job is not prepared again.
PrepareInv(j) ==
  /\ j \in preparing <=> AtJob(j, PrepareSteps)
  /\ AtJob(j, PrepareSteps) => /\ Owned(j) /\ ~Complete(j)
                               /\ release[j] \in {"ok", "error", "wait"}
  /\ AtJob(j, {"own"} \cup (PrepareSteps \ {"save"})) => local[j] = "none"
  /\ AtJob(j, {"await", "saveState"}) => Owned(j)

JobInv(j) == RecordInv(j) /\ ReleaseInv(j) /\ PrepareInv(j)

Inv == \A j \in Jobs : JobInv(j)

-----------------------------------------------------------------------------
(* How the poll moves *)

LEMMA GotoFact ==
  ASSUME poll \in Poll, NEW pc \in PollSteps, Goto(pc)
  PROVE poll' \in Poll /\ poll'.pc = pc /\ poll'.job = poll.job /\ poll'.then = poll.then
BY DEF Goto, Poll

LEMMA ThenFact ==
  ASSUME poll \in Poll, NEW pc \in PollSteps, Then(pc, "OUTPUT_READY") \/ Then(pc, "pollFails")
  PROVE poll' \in Poll /\ poll'.pc = pc /\ poll'.job = poll.job
BY DEF Then, Poll

LEMMA DoneFact ==
  ASSUME poll \in Poll, Done
  PROVE poll' \in Poll /\ poll'.pc = "next"
BY DEF Done, Poll, PollSteps, PrepareSteps

LEMMA EndsFact ==
  ASSUME PollEnds
  PROVE poll' \in Poll /\ poll'.pc = "idle"
BY DEF PollEnds, NoPoll, Poll, PollSteps, PrepareSteps, BackendStates

LEMMA SeesFact ==
  ASSUME poll \in Poll, poll.job \in Jobs, NEW pc \in PollSteps, NEW st \in BackendStates,
         Sees(pc, st)
  PROVE poll' \in Poll /\ poll'.pc = pc /\ poll'.job = poll.job
<1>1. [poll.seen EXCEPT ![poll.job] = st] \in [Jobs -> BackendStates]
  BY DEF Poll
<1>2. poll' = [poll EXCEPT !.pc = pc, !.seen = [poll.seen EXCEPT ![poll.job] = st]]
  BY DEF Sees, Poll
<1> QED BY <1>1, <1>2 DEF Poll

\* Where the poll can go without the store, the disk or the release.
PollMoved ==
  /\ poll' \in Poll
  /\ poll'.pc \in JobSteps => poll'.job \in Jobs
  /\ poll'.pc = "saveState" => poll'.then \in {"OUTPUT_READY", "FAILED"}

LEMMA HandlesFact ==
  ASSUME TypeOK, NEW j \in Jobs, PollHandles(j)
  PROVE /\ PollMoved
        /\ poll'.pc \in {"next", "request", "decline", "accept", "adopt"}
<1>1. ASSUME NEW pc \in {"request", "decline", "accept", "adopt"},
             NEW next \in {"done", "OUTPUT_READY", "FAILED"},
             poll' = [poll EXCEPT !.pc = pc, !.job = j, !.todo = @ \ {j}, !.then = next]
      PROVE PollMoved /\ poll'.pc = pc
  BY <1>1 DEF TypeOK, Poll, PollMoved, PollSteps, PrepareSteps
<1>2. ASSUME poll' = [poll EXCEPT !.todo = @ \ {j}]
      PROVE PollMoved /\ poll'.pc = "next"
  BY <1>2 DEF TypeOK, Poll, PollMoved, PollHandles, At, JobSteps
<1> QED BY <1>1, <1>2 DEF PollHandles

-----------------------------------------------------------------------------
(* Types *)

LEMMA TypeInit == Init => TypeOK
<1> SUFFICES ASSUME Init PROVE TypeOK
  OBVIOUS
<1>1. CleanupTypeOK
  <2>1. record \in [Jobs -> Record]
    BY DEF Init, CleanupInit, NoRecord, Record
  <2>2. faults \in 0..MaxFaults
    BY FaultsAssumption, SMT DEF Init, CleanupInit
  <2> QED BY <2>1, <2>2 DEF Init, CleanupInit, CleanupTypeOK
<1>2. poll \in Poll /\ poll.pc = "idle"
  BY EndsFact DEF Init, NoPoll, Poll, PollSteps, PrepareSteps, BackendStates
<1>3. restarts \in 0..MaxRestarts
  BY RestartsAssumption, SMT DEF Init
<1>4. backend \in [Jobs -> BackendStates] /\ poll.pc \notin JobSteps
  BY <1>2 DEF Init, BackendStates, JobSteps
<1>5. /\ offering \in BOOLEAN /\ stopped \in BOOLEAN
      /\ token \in Credentials /\ verdict \in Credentials \cup {"none"}
  BY DEF Init
<1> QED BY <1>1, <1>2, <1>3, <1>4, <1>5 DEF TypeOK

\* The steps of the cleanup keep its types.
LEMMA CleanupTypes ==
  ASSUME CleanupTypeOK, NEW j \in Jobs,
         ReleaseStep(j) \/ ReconcilePending(j) \/ LocalEnds(j) \/ Expire(j)
  PROVE CleanupTypeOK'
<1> USE DEF CleanupTypeOK, Step
<1>0. record[j] \in Record
  OBVIOUS
<1>f. ASSUME Fault \/ NoFault PROVE faults' \in 0..MaxFaults
  BY <1>f, FaultsAssumption, SMT DEF Fault, NoFault
<1>1. CASE ReleaseWaits(j)
  BY <1>1 DEF ReleaseWaits, ReleaseSteps
<1>2. CASE ReleaseQuiesces(j)
  BY <1>2, <1>f DEF ReleaseQuiesces, ReleaseSteps
<1>3. CASE ReleaseRemoves(j)
  BY <1>3, <1>f DEF ReleaseRemoves, ReleaseSteps
<1>4. CASE ReleaseCompletes(j)
  <2>1. [record[j] EXCEPT !.plaintext = "complete"] \in Record
    BY <1>0 DEF Record
  <2> QED BY <1>4, <1>f, <2>1, SMT DEF ReleaseCompletes, ReleaseSteps
<1>5. CASE ReleaseBlocks(j)
  <2>1. [record[j] EXCEPT !.plaintext = "blocked"] \in Record
    BY <1>0 DEF Record
  <2> QED BY <1>5, <1>f, <2>1, SMT DEF ReleaseBlocks
<1>6. CASE ReleasesPin(j)
  BY <1>6, <1>f DEF ReleasesPin, ReleaseSteps
<1>7. CASE PinReleaseSaved(j)
  <2>1. [record[j] EXCEPT !.pinPending = FALSE] \in Record
    BY <1>0 DEF Record
  <2>2. record' \in [Jobs -> Record]
    BY <1>7, <2>1, ZenonT(30) DEF PinReleaseSaved
  <2>3. release' \in [Jobs -> ReleaseSteps \cup {"ok", "error"}]
    BY <1>7, SMT DEF PinReleaseSaved
  <2> QED BY <1>7, <1>f, <2>2, <2>3 DEF PinReleaseSaved
<1>8. CASE ReconcilePending(j)
  <2>1. [record[j] EXCEPT !.requested = TRUE] \in Record
    BY <1>0 DEF Record
  <2> QED BY <1>8, <2>1 DEF ReconcilePending, Request, Requested, Reconcile, ReleaseSteps
<1>9. CASE LocalEnds(j)
  BY <1>9 DEF LocalEnds
<1>10. CASE Expire(j)
  BY <1>10 DEF Expire
<1> QED
  BY <1>1, <1>2, <1>3, <1>4, <1>5, <1>6, <1>7, <1>8, <1>9, <1>10 DEF ReleaseStep

\* A step of the poll that leaves the records and what is held alone.
LEMMA PollTypes ==
  ASSUME TypeOK, PollMoved, backend' \in [Jobs -> BackendStates],
         UNCHANGED <<record, captures, local, created, plaintext, pins, expired, preparing, release>>,
         Fault \/ NoFault,
         UNCHANGED <<offering, token, restarts>>,
         verdict' \in Credentials \cup {"none"}, stopped' \in BOOLEAN
  PROVE TypeOK'
<1>1. faults' \in 0..MaxFaults
  BY FaultsAssumption, SMT DEF TypeOK, CleanupTypeOK, Fault, NoFault
<1>2. CleanupTypeOK'
  BY <1>1 DEF TypeOK, CleanupTypeOK
<1> QED BY <1>2 DEF TypeOK, PollMoved

\* What the backend makes of a transition that is asked for.
LEMMA BackendFact ==
  ASSUME TypeOK, NEW j \in Jobs, NEW to \in BackendStates, Asked(j, to) \/ Throws(j, to)
  PROVE backend' \in [Jobs -> BackendStates] /\ (Fault \/ NoFault)
BY DEF TypeOK, Asked, Throws

\* The steps of the poll before the store, the disk or the release are touched.
LEMMA QuietTypes ==
  ASSUME TypeOK,
         \/ PollStarts \/ PollFetches \/ PollFails \/ (\E j \in Jobs : PollHandles(j))
         \/ Accept \/ Decline \/ Report \/ LooksAtLocal \/ Submit \/ FailJob
         \/ AwaitRelease \/ PollSucceeds
  PROVE TypeOK'
<1>0. /\ poll \in Poll /\ (poll.pc \in JobSteps => poll.job \in Jobs)
      /\ backend \in [Jobs -> BackendStates] /\ stopped \in BOOLEAN
      /\ verdict \in Credentials \cup {"none"}
  BY DEF TypeOK
<1>i. ASSUME PollMoved, UNCHANGED idle PROVE TypeOK'
  BY <1>i, <1>0, PollTypes DEF idle, cleanupVars, NoFault
<1>g. ASSUME NEW pc \in {"fetch", "decline", "adopt", "report", "running", "submit", "fail",
                         "await", "saveState"},
             pc = "fetch" \/ poll.pc \in JobSteps, Goto(pc),
             pc = "saveState" => poll.then \in {"OUTPUT_READY", "FAILED"}
      PROVE PollMoved
  BY <1>g, <1>0, GotoFact DEF PollMoved, PollSteps, PrepareSteps, JobSteps
<1>d. ASSUME Done PROVE PollMoved
  BY <1>d, <1>0, DoneFact DEF PollMoved, JobSteps
<1>e. ASSUME PollEnds PROVE PollMoved
  BY <1>e, EndsFact DEF PollMoved, JobSteps
<1>1. CASE PollStarts
  BY <1>1, <1>g, <1>i DEF PollStarts
<1>2. CASE PollFetches
  <2>1. PollMoved
    BY <1>2, <1>0, ZenonT(30) DEF PollFetches, PollMoved, NoPoll, Poll, PollSteps, PrepareSteps, JobSteps
  <2> QED BY <2>1, <1>2, <1>i DEF PollFetches
<1>3. CASE PollFails
  <2>1. PollMoved
    BY <1>3, <1>e DEF PollFails, OnPollFailed
  <2>2. verdict' \in Credentials \cup {"none"} /\ stopped' \in BOOLEAN
    BY <1>3, <1>0 DEF PollFails, OnPollFailed, BlockOnAuthorizationFailure, StopsPolling, TypeOK
  <2> QED BY <2>1, <2>2, <1>3, <1>0, PollTypes DEF PollFails, OnPollFailed
<1>4. ASSUME NEW j \in Jobs, PollHandles(j) PROVE TypeOK'
  BY <1>4, <1>i, HandlesFact DEF PollHandles
<1>5. CASE Accept
  <2>0. poll.pc \in JobSteps /\ poll.job \in Jobs
    BY <1>5, <1>0 DEF Accept, At, JobSteps, PollSteps
  <2>1. PollMoved
    <3>1. ASSUME Sees("adopt", "ACCEPTED") PROVE PollMoved
      BY <3>1, <2>0, <1>0, SeesFact, SMT
      DEF PollMoved, PollSteps, BackendStates, Listed
    <3> QED BY <1>5, <2>0, <1>g, <3>1 DEF Accept
  <2>2. backend' \in [Jobs -> BackendStates] /\ (Fault \/ NoFault)
    <3>1. "ACCEPTED" \in BackendStates
      BY DEF BackendStates, Listed
    <3> QED BY <1>5, <1>0, <2>0, <3>1, BackendFact DEF Accept, J
  <2> QED BY <2>1, <2>2, <1>5, <1>0, PollTypes DEF Accept
<1>6. CASE Decline
  <2>0. poll.pc \in JobSteps /\ poll.job \in Jobs
    BY <1>6, <1>0 DEF Decline, At, JobSteps, PollSteps
  <2>1. PollMoved
    BY <1>6, <2>0, <1>g, <1>d DEF Decline
  <2>2. backend' \in [Jobs -> BackendStates] /\ (Fault \/ NoFault)
    <3>1. "DECLINED" \in BackendStates
      BY DEF BackendStates, Listed, Terminal
    <3> QED BY <1>6, <2>0, <3>1, BackendFact DEF Decline, J
  <2> QED BY <2>1, <2>2, <1>6, <1>0, PollTypes DEF Decline
<1>7. CASE Report
  <2>0. poll.pc \in JobSteps /\ poll.job \in Jobs
    BY <1>7, <1>0 DEF Report, At, JobSteps, PollSteps
  <2>f. Following(Seen) \in BackendStates
    BY DEF Following, BackendStates, Listed
  <2>1. PollMoved
    <3>1. ASSUME Sees("report", Following(Seen)) PROVE PollMoved
      BY <3>1, <2>0, <2>f, <1>0, SeesFact, SMT DEF PollMoved, PollSteps
    <3> QED BY <1>7, <2>0, <1>g, <3>1 DEF Report
  <2>2. backend' \in [Jobs -> BackendStates] /\ (Fault \/ NoFault)
    BY <1>7, <1>0, <2>0, <2>f, BackendFact DEF Report, J
  <2> QED BY <2>1, <2>2, <1>7, <1>0, PollTypes DEF Report
<1>8. CASE LooksAtLocal
  <2>1. poll.pc \in JobSteps
    BY <1>8, <1>0 DEF LooksAtLocal, At, JobSteps, PollSteps
  <2> QED BY <2>1, <1>8, <1>g, <1>d, <1>i DEF LooksAtLocal
<1>9. CASE Submit
  <2>0. poll.pc \in JobSteps /\ poll.job \in Jobs
    BY <1>9, <1>0 DEF Submit, At, JobSteps, PollSteps
  <2>1. PollMoved
    <3>1. ASSUME Then("request", "OUTPUT_READY") PROVE PollMoved
      BY <3>1, <2>0, <1>0, ThenFact, SMT DEF PollMoved, PollSteps
    <3> QED BY <1>9, <2>0, <1>g, <3>1 DEF Submit
  <2>2. backend' \in [Jobs -> BackendStates] /\ (Fault \/ NoFault)
    <3>1. "OUTPUT_READY" \in BackendStates
      BY DEF BackendStates, Listed
    <3> QED BY <1>9, <2>0, <3>1, BackendFact DEF Submit, J
  <2> QED BY <2>1, <2>2, <1>9, <1>0, PollTypes DEF Submit
<1>10. CASE FailJob
  <2>0. poll.pc \in JobSteps /\ poll.job \in Jobs
    BY <1>10, <1>0 DEF FailJob, At, JobSteps, PollSteps
  <2>1. PollMoved
    <3>1. ASSUME Then("request", "pollFails") PROVE PollMoved
      BY <3>1, <2>0, <1>0, ThenFact, SMT DEF PollMoved, PollSteps
    <3> QED BY <1>10, <1>d, <3>1 DEF FailJob
  <2>2. backend' \in [Jobs -> BackendStates] /\ (Fault \/ NoFault)
    <3>1. "FAILED" \in BackendStates
      BY DEF BackendStates, Listed, Terminal
    <3> QED BY <1>10, <1>0, <2>0, <3>1, BackendFact DEF FailJob, J
  <2> QED BY <2>1, <2>2, <1>10, <1>0, PollTypes DEF FailJob
<1>11. CASE AwaitRelease
  <2>1. poll.pc \in JobSteps
    BY <1>11, <1>0 DEF AwaitRelease, At, JobSteps, PollSteps
  <2> QED BY <2>1, <1>11, <1>g, <1>d, <1>e, <1>i DEF AwaitRelease, ThrowFromRequest
<1>12. CASE PollSucceeds
  BY <1>12, <1>e, <1>0, PollTypes DEF PollSucceeds, RecordAuthorized, cleanupVars, NoFault
<1> QED
  BY <1>1, <1>2, <1>3, <1>4, <1>5, <1>6, <1>7, <1>8, <1>9, <1>10, <1>11, <1>12, ZenonT(30)

\* A step of the poll that leaves the backend and the verdict alone.
LEMMA WorkTypes ==
  ASSUME TypeOK, NEW pc \in JobSteps \ {"saveState"}, poll.pc \in JobSteps, Goto(pc), CleanupTypeOK',
         UNCHANGED <<backend, offering, verdict, token, stopped, restarts>>
  PROVE TypeOK'
BY GotoFact DEF TypeOK, JobSteps

LEMMA PrepareTypes ==
  ASSUME TypeOK, Adopt \/ PrepareStep
  PROVE TypeOK'
<1>0. CleanupTypeOK /\ poll \in Poll /\ poll.pc \in JobSteps /\ J \in Jobs /\ record[J] \in Record
  BY DEF TypeOK, CleanupTypeOK, Adopt, PrepareStep, Own, AcquireInput, ReadInput, Decrypt, Register,
     CreateLocal, SaveLocal, At, JobSteps, PollSteps, PrepareSteps, J
<1> DEFINE WorkSteps == JobSteps \ {"saveState"}
<1>p. /\ PrepareSteps \cup {"own", "report", "fail"} \subseteq WorkSteps
      /\ "acquire" \in PrepareSteps /\ "cat" \in PrepareSteps /\ "decrypt" \in PrepareSteps
      /\ "register" \in PrepareSteps /\ "create" \in PrepareSteps /\ "save" \in PrepareSteps
  BY DEF JobSteps, PollSteps, PrepareSteps
<1>f. ASSUME Fault \/ NoFault PROVE faults' \in 0..MaxFaults
  BY <1>f, <1>0, FaultsAssumption, SMT DEF Fault, NoFault, CleanupTypeOK
<1>c. ASSUME NEW ok \in BOOLEAN, NEW next \in WorkSteps, Continue(ok, next)
      PROVE (\E pc \in WorkSteps : Goto(pc)) /\ preparing' \in SUBSET Jobs
  BY <1>c, <1>0, <1>p DEF Continue, Prepares, CleanupTypeOK
<1>r. /\ OwnedRecord(J) \in Record
      /\ [record[J] EXCEPT !.localJobId = TRUE] \in Record
      /\ [record[J] EXCEPT !.localJobId = TRUE, !.state = "RUNNING"] \in Record
  <2>1. OwnedRecord(J) \in Record
    BY <1>0 DEF OwnedRecord, NoRecord, Record, Active
  <2>2. [record[J] EXCEPT !.localJobId = TRUE] \in Record
    BY <1>0 DEF Record
  <2>3. [record[J] EXCEPT !.localJobId = TRUE, !.state = "RUNNING"] \in Record
    BY <1>0 DEF Record, Active
  <2> QED BY <2>1, <2>2, <2>3
<1> USE DEF CleanupTypeOK
<1>1. CASE Adopt
  <2>1. record' \in [Jobs -> Record]
    BY <1>1, <1>0, <1>r DEF Adopt
  <2> QED BY <1>1, <2>1, <1>0, <1>p, WorkTypes DEF Adopt
<1>2. CASE Own
  <2>1. record' \in [Jobs -> Record]
    BY <1>2, <1>0, <1>r DEF Own
  <2>2. (\E pc \in WorkSteps : Goto(pc)) /\ preparing' \in SUBSET Jobs
    BY <1>2, <1>0, <1>c, <1>p DEF Own
  <2> QED BY <1>2, <2>1, <2>2, <1>0, <1>f, WorkTypes DEF Own
<1>3. CASE AcquireInput
  <2>1. (\E pc \in WorkSteps : Goto(pc)) /\ preparing' \in SUBSET Jobs
    BY <1>3, <1>c, <1>p DEF AcquireInput, MayPrepare
  <2> QED BY <1>3, <2>1, <1>0, <1>f, WorkTypes DEF AcquireInput
<1>4. CASE ReadInput
  <2>1. (\E pc \in WorkSteps : Goto(pc)) /\ preparing' \in SUBSET Jobs
    BY <1>4, <1>c, <1>p DEF ReadInput, MayPrepare
  <2> QED BY <1>4, <2>1, <1>0, <1>f, WorkTypes DEF ReadInput
<1>5. CASE Decrypt
  <2>1. (\E pc \in WorkSteps : Goto(pc)) /\ preparing' \in SUBSET Jobs
    BY <1>5, <1>c, <1>p DEF Decrypt, MayPrepare
  <2> QED BY <1>5, <2>1, <1>0, <1>f, WorkTypes DEF Decrypt
<1>6. CASE Register
  <2>1. (\E pc \in WorkSteps : Goto(pc)) /\ preparing' \in SUBSET Jobs
    BY <1>6, <1>c, <1>p DEF Register, MayPrepare
  <2> QED BY <1>6, <2>1, <1>0, <1>f, WorkTypes DEF Register
<1>7. CASE CreateLocal
  <2>1. (\E pc \in WorkSteps : Goto(pc)) /\ preparing' \in SUBSET Jobs
    BY <1>7, <1>0, <1>c, <1>p DEF CreateLocal
  <2>2. local' \in [Jobs -> {"none", "active", "completed", "failed"}] /\ created' \in [Jobs -> Nat]
    <3>1. local' = local \/ local' = [local EXCEPT ![J] = "active"]
      BY <1>7 DEF CreateLocal
    <3>2. created' = created \/ created' = [created EXCEPT ![J] = @ + 1]
      BY <1>7 DEF CreateLocal
    <3> QED BY <3>1, <3>2, <1>0, SMT
  <2> QED BY <1>7, <2>1, <2>2, <1>0, <1>f, WorkTypes DEF CreateLocal
<1>8. CASE SaveLocal
  <2>1. (\E pc \in WorkSteps : Goto(pc)) /\ preparing' \in SUBSET Jobs
    BY <1>8, <1>c, <1>p DEF SaveLocal
  <2>2. record' \in [Jobs -> Record]
    BY <1>8, <1>0, <1>r, ZenonT(30) DEF SaveLocal
  <2> QED BY <1>8, <2>1, <2>2, <1>0, <1>f, WorkTypes DEF SaveLocal
<1> QED BY <1>1, <1>2, <1>3, <1>4, <1>5, <1>6, <1>7, <1>8, ZenonT(30) DEF PrepareStep

LEMMA RequestTypes ==
  ASSUME TypeOK, RequestRelease \/ SaveState
  PROVE TypeOK'
<1>0. CleanupTypeOK /\ poll \in Poll /\ poll.pc \in JobSteps /\ J \in Jobs /\ record[J] \in Record
  BY DEF TypeOK, CleanupTypeOK, RequestRelease, SaveState, At, JobSteps, PollSteps, J
<1>f. ASSUME Fault \/ NoFault PROVE faults' \in 0..MaxFaults
  BY <1>f, <1>0, FaultsAssumption, SMT DEF Fault, NoFault, CleanupTypeOK
<1>g. ASSUME NEW pc \in {"await", "fail"}, Goto(pc) PROVE PollMoved
  BY <1>0, <1>g, GotoFact DEF PollMoved, J, PollSteps
<1>1. CASE RequestRelease
  <2>1. PollMoved
    BY <1>1, <1>g, EndsFact DEF RequestRelease, ThrowFromRequest, PollMoved, JobSteps
  <2>2. record' \in [Jobs -> Record] /\ release' \in [Jobs -> ReleaseSteps \cup {"ok", "error"}]
    <3>1. [record[J] EXCEPT !.requested = TRUE] \in Record
      BY <1>0 DEF Record
    <3>2. record' \in [Jobs -> Record]
      BY <1>1, <1>0, <3>1 DEF RequestRelease, Request, Requested, CleanupTypeOK
    <3>3. release' \in [Jobs -> ReleaseSteps \cup {"ok", "error"}]
      BY <1>1, <1>0, SMT DEF RequestRelease, Request, Reconcile, CleanupTypeOK, ReleaseSteps
    <3> QED BY <3>2, <3>3
  <2>3. CleanupTypeOK'
    BY <1>1, <1>0, <1>f, <2>2 DEF RequestRelease, CleanupTypeOK
  <2> QED BY <1>1, <2>1, <2>3 DEF RequestRelease, TypeOK, PollMoved
<1>2. CASE SaveState
  <2>1. PollMoved
    BY <1>2, <1>0, <1>g, DoneFact DEF SaveState, PollMoved, JobSteps
  <2>2. record' \in [Jobs -> Record]
    <3>1. ASSUME NEW st \in {"OUTPUT_READY", "FAILED"} PROVE [record[J] EXCEPT !.state = st] \in Record
      BY <1>0 DEF Record
    <3>2. poll.then \in {"OUTPUT_READY", "FAILED"}
      BY <1>2 DEF SaveState, At, TypeOK
    <3> QED BY <1>2, <1>0, <3>1, <3>2 DEF SaveState, CleanupTypeOK
  <2>3. backend' \in [Jobs -> BackendStates]
    <3>1. "FAILED" \in BackendStates
      BY DEF BackendStates, Listed, Terminal
    <3> QED BY <1>2, <1>0, <3>1, BackendFact DEF SaveState, TypeOK
  <2>4. CleanupTypeOK'
    BY <1>2, <1>0, <1>f, <2>2 DEF SaveState, Throws, CleanupTypeOK
  <2> QED BY <1>2, <2>1, <2>3, <2>4 DEF SaveState, TypeOK, PollMoved
<1> QED BY <1>1, <1>2

\* Every step keeps the types.
LEMMA TypeStep == TypeOK /\ [Next]_vars => TypeOK'
<1> SUFFICES ASSUME TypeOK, [Next]_vars PROVE TypeOK'
  OBVIOUS
<1>1. CASE PollStep
  BY <1>1, QuietTypes, PrepareTypes, RequestTypes DEF PollStep
<1>2. ASSUME NEW j \in Jobs, CleanupStep(j) \/ LocalStep(j) PROVE TypeOK'
  <2>1. CleanupTypeOK'
    BY <1>2, CleanupTypes DEF CleanupStep, LocalStep, TypeOK
  <2> QED BY <1>2, <2>1 DEF CleanupStep, LocalStep, TypeOK, runtimeVars
<1>3. ASSUME NEW j \in Jobs, BackendMoves(j) PROVE TypeOK'
  <2>1. backend' \in [Jobs -> BackendStates]
    BY <1>3 DEF BackendMoves, TypeOK, BackendStates, Listed, Terminal
  <2> QED BY <1>3, <2>1 DEF BackendMoves, TypeOK, cleanupVars, CleanupTypeOK
<1>4. CASE UpdateSettings
  BY <1>4 DEF UpdateSettings, TypeOK, cleanupVars, CleanupTypeOK
<1>5. CASE RetryAuthorization
  BY <1>5 DEF RetryAuthorization, TypeOK, cleanupVars, CleanupTypeOK
<1>6. CASE Restart
  <2>1. CleanupTypeOK'
    BY <1>6 DEF Restart, CleanupRestart, TypeOK, CleanupTypeOK
  <2>2. poll' \in Poll /\ poll'.pc \notin JobSteps /\ poll'.pc # "saveState"
    BY <1>6, EndsFact DEF Restart, PollEnds, JobSteps
  <2>3. restarts' \in 0..MaxRestarts
    BY <1>6, RestartsAssumption, SMT DEF Restart, TypeOK
  <2> QED BY <1>6, <2>1, <2>2, <2>3 DEF Restart, Blocked, TypeOK
<1>7. CASE UNCHANGED vars
  BY <1>7 DEF vars, runtimeVars, cleanupVars, TypeOK, CleanupTypeOK
<1> QED BY <1>1, <1>2, <1>3, <1>4, <1>5, <1>6, <1>7 DEF Next

-----------------------------------------------------------------------------
(* The invariant *)

LEMMA InvInit == Init => Inv
<1> SUFFICES ASSUME Init, NEW j \in Jobs PROVE JobInv(j)
  BY DEF Inv
<1> USE DEF Init, CleanupInit
<1>1. RecordInv(j)
  BY DEF RecordInv, Owned, Complete, InFlight, ReleaseSteps, NoRecord
<1>2. ReleaseInv(j)
  BY DEF ReleaseInv, InFlight, ReleaseSteps
<1>3. PrepareInv(j)
  BY DEF PrepareInv, AtJob, NoPoll, PrepareSteps
<1> QED BY <1>1, <1>2, <1>3 DEF JobInv

\* What the records and the release are made of.
Held == <<record, captures, local, created, plaintext, pins, release>>

LEMMA HeldKept ==
  ASSUME UNCHANGED Held, NEW j, RecordInv(j), ReleaseInv(j)
  PROVE RecordInv(j)' /\ ReleaseInv(j)'
BY DEF Held, RecordInv, ReleaseInv, Owned, Complete, InFlight

\* The poll goes on, away from any preparation.
LEMMA PollMoves ==
  ASSUME Inv, UNCHANGED <<Held, preparing>>,
         poll.pc \notin PrepareSteps, poll'.pc \notin PrepareSteps \cup {"own"},
         poll'.pc \in {"await", "saveState"} => poll.pc \in {"await", "saveState"} /\ poll'.job = poll.job
  PROVE Inv'
<1> SUFFICES ASSUME NEW j \in Jobs PROVE JobInv(j)'
  BY DEF Inv
<1>0. JobInv(j)
  BY DEF Inv
<1>1. RecordInv(j)' /\ ReleaseInv(j)'
  BY <1>0, HeldKept DEF JobInv
<1>2. PrepareInv(j)'
  BY <1>0 DEF JobInv, PrepareInv, AtJob, Held, Owned, Complete
<1> QED BY <1>1, <1>2 DEF JobInv

LEMMA QuietInv ==
  ASSUME TypeOK, Inv,
         \/ PollStarts \/ PollFetches \/ PollFails \/ (\E j \in Jobs : PollHandles(j))
         \/ Accept \/ Decline \/ Report \/ LooksAtLocal \/ Submit \/ FailJob
         \/ AwaitRelease \/ PollSucceeds
  PROVE Inv'
<1>0. poll \in Poll /\ (poll.pc \in JobSteps => poll.job \in Jobs)
  BY DEF TypeOK
<1>q. UNCHANGED <<Held, preparing>>
  BY DEF PollStarts, PollFetches, PollFails, PollHandles, Accept, Decline, Report, LooksAtLocal,
     Submit, FailJob, AwaitRelease, PollSucceeds, idle, cleanupVars, Held
<1>p. poll.pc \notin PrepareSteps
  BY DEF PollStarts, PollFetches, PollFails, PollHandles, Accept, Decline, Report, LooksAtLocal,
     Submit, FailJob, AwaitRelease, PollSucceeds, At, PrepareSteps
<1>g. ASSUME NEW pc \in {"fetch", "decline", "adopt", "report", "running", "submit", "fail"}, Goto(pc)
      PROVE poll'.pc = pc
  BY <1>g, <1>0, GotoFact DEF PollSteps
<1>m. ASSUME poll'.pc \in {"idle", "next", "fetch", "request", "decline", "accept", "adopt", "report",
                           "running", "submit", "fail"}
      PROVE Inv'
  BY <1>m, <1>q, <1>p, PollMoves DEF PrepareSteps
<1>1. CASE PollStarts
  BY <1>1, <1>g, <1>m DEF PollStarts
<1>2. CASE PollFetches
  BY <1>2, <1>m DEF PollFetches, NoPoll
<1>3. CASE PollFails \/ PollSucceeds
  BY <1>3, <1>m, EndsFact DEF PollFails, OnPollFailed, PollSucceeds
<1>4. ASSUME NEW j \in Jobs, PollHandles(j) PROVE Inv'
  BY <1>4, <1>m, HandlesFact
<1>5. CASE Accept
  <2>0. poll.job \in Jobs
    BY <1>5, <1>0 DEF Accept, At, JobSteps, PollSteps
  <2>1. ASSUME Sees("adopt", "ACCEPTED") PROVE poll'.pc = "adopt"
    BY <2>0, <2>1, <1>0, SeesFact DEF PollSteps, BackendStates, Listed
  <2> QED BY <1>5, <2>1, <1>g, <1>m DEF Accept
<1>6. CASE Decline
  BY <1>6, <1>0, <1>g, <1>m, DoneFact DEF Decline
<1>7. CASE Report
  <2>0. poll.job \in Jobs
    BY <1>7, <1>0 DEF Report, At, JobSteps, PollSteps
  <2>1. ASSUME Sees("report", Following(Seen)) PROVE poll'.pc = "report"
    BY <2>0, <2>1, <1>0, SeesFact DEF PollSteps, Following, BackendStates, Listed
  <2> QED BY <1>7, <2>1, <1>g, <1>m DEF Report
<1>8. CASE LooksAtLocal
  BY <1>8, <1>0, <1>g, <1>m, DoneFact DEF LooksAtLocal
<1>9. CASE Submit
  <2>1. ASSUME Then("request", "OUTPUT_READY") PROVE poll'.pc = "request"
    BY <2>1, <1>0, ThenFact DEF PollSteps
  <2> QED BY <1>9, <2>1, <1>g, <1>m DEF Submit
<1>10. CASE FailJob
  <2>1. ASSUME Then("request", "pollFails") PROVE poll'.pc = "request"
    BY <2>1, <1>0, ThenFact DEF PollSteps
  <2> QED BY <1>10, <2>1, <1>0, <1>m, DoneFact DEF FailJob
<1>11. CASE AwaitRelease
  <2>1. CASE Goto("saveState")
    <3>1. poll'.pc = "saveState" /\ poll'.job = poll.job /\ poll.pc = "await"
      BY <1>11, <2>1, <1>0, GotoFact DEF PollSteps, AwaitRelease, At
    <3> QED BY <3>1, <1>q, <1>p, PollMoves DEF PrepareSteps
  <2> QED BY <1>11, <2>1, <1>0, <1>g, <1>m, DoneFact, EndsFact DEF AwaitRelease, ThrowFromRequest
<1> QED
  BY <1>1, <1>2, <1>3, <1>4, <1>5, <1>6, <1>7, <1>8, <1>9, <1>10, <1>11, ZenonT(30)

\* Completing a cleanup writes one field of the record.
LEMMA PlaintextFact ==
  ASSUME record \in [Jobs -> Record], NEW j \in Jobs,
         record' = [record EXCEPT ![j].plaintext = "complete"]
  PROVE /\ record'[j].plaintext = "complete" /\ record'[j].state = record[j].state
        /\ record'[j].requested = record[j].requested
        /\ record'[j].pinPending = record[j].pinPending
  BY SMT DEF Record

\* The steps of a release: they are those of the job that is released.
LEMMA ReleaseKeeps ==
  ASSUME TypeOK, Inv, NEW j \in Jobs, ReleaseStep(j) \/ ReconcilePending(j), UNCHANGED poll
  PROVE Inv'
<1> SUFFICES ASSUME NEW k \in Jobs PROVE JobInv(k)'
  BY DEF Inv
<1>0. CleanupTypeOK /\ JobInv(j) /\ JobInv(k)
  BY DEF TypeOK, Inv
<1> USE <1>0 DEF CleanupTypeOK, JobInv
<1>k. CASE k # j
  <2>1. /\ record'[k] = record[k] /\ local'[k] = local[k] /\ created'[k] = created[k]
        /\ release'[k] = release[k] /\ (k \in preparing' <=> k \in preparing)
        /\ (k \in plaintext' <=> k \in plaintext) /\ (k \in captures' <=> k \in captures)
        /\ (k \in pins' <=> k \in pins)
    <3>1. CASE ReleaseWaits(j)
      BY <1>k, <3>1, ZenonT(30) DEF ReleaseWaits, Step
    <3>2. CASE ReleaseQuiesces(j)
      BY <1>k, <3>2, ZenonT(30) DEF ReleaseQuiesces, Step
    <3>3. CASE ReleaseRemoves(j)
      BY <1>k, <3>3, ZenonT(30) DEF ReleaseRemoves, Step
    <3>4. CASE ReleaseCompletes(j)
      BY <1>k, <3>4, ZenonT(30) DEF ReleaseCompletes, Step
    <3>5. CASE ReleaseBlocks(j)
      BY <1>k, <3>5, ZenonT(30) DEF ReleaseBlocks, Step
    <3>6. CASE ReleasesPin(j)
      BY <1>k, <3>6, ZenonT(30) DEF ReleasesPin, Step
    <3>7. CASE PinReleaseSaved(j)
      BY <1>k, <3>7, ZenonT(30) DEF PinReleaseSaved, Step
    <3>8. CASE ReconcilePending(j)
      BY <1>k, <3>8, ZenonT(30) DEF ReconcilePending, Request, Requested, Reconcile
    <3> QED BY <3>1, <3>2, <3>3, <3>4, <3>5, <3>6, <3>7, <3>8, ZenonT(30) DEF ReleaseStep
  <2>2. RecordInv(k)'
    BY <2>1 DEF RecordInv, Owned, Complete, InFlight
  <2>3. ReleaseInv(k)'
    BY <2>1 DEF ReleaseInv, Complete, InFlight
  <2>4. PrepareInv(k)'
    BY <2>1 DEF PrepareInv, AtJob, Owned, Complete
  <2> QED BY <2>2, <2>3, <2>4, ZenonT(30)
<1>j. CASE k = j
  <2> SUFFICES JobInv(j)'
    BY <1>j
  <2> USE DEF RecordInv, ReleaseInv, PrepareInv, AtJob, Owned, Complete, InFlight, ReleaseSteps, Step
  <2>1. CASE ReleaseWaits(j)
    BY <2>1 DEF ReleaseWaits, PreparationSettled
  <2>2. CASE ReleaseQuiesces(j)
    BY <2>2, ZenonT(30) DEF ReleaseQuiesces
  <2>3. CASE ReleaseRemoves(j)
    BY <2>3, ZenonT(30) DEF ReleaseRemoves
  <2>4. CASE ReleaseCompletes(j)
    <3>1. CASE Step(j, "complete", "block") /\ UNCHANGED <<record, captures>>
      BY <2>4, <3>1 DEF ReleaseCompletes
    <3>2. CASE /\ Step(j, "complete", "pin") /\ captures' = captures \ {j}
               /\ record' = [record EXCEPT ![j].plaintext = "complete"]
      <4>2. /\ record'[j].plaintext = "complete" /\ record'[j].state = record[j].state
            /\ record'[j].requested = record[j].requested
            /\ record'[j].pinPending = record[j].pinPending
        BY <3>2, PlaintextFact
      <4> QED BY <2>4, <3>2, <4>2, ZenonT(30) DEF ReleaseCompletes
    <3> QED BY <2>4, <3>1, <3>2 DEF ReleaseCompletes
  <2>5. CASE ReleaseBlocks(j)
    BY <2>5, SMT DEF ReleaseBlocks, Record
  <2>6. CASE ReleasesPin(j)
    BY <2>6, ZenonT(30) DEF ReleasesPin
  <2>7. CASE PinReleaseSaved(j)
    BY <2>7, SMT DEF PinReleaseSaved, Record
  <2>8. CASE ReconcilePending(j)
    BY <2>8, SMT DEF ReconcilePending, Request, Requested, Reconcile, Record
  <2> QED BY <2>1, <2>2, <2>3, <2>4, <2>5, <2>6, <2>7, <2>8, ZenonT(30) DEF ReleaseStep
<1> QED BY <1>k, <1>j

\* What concerns one job does not concern another.
LEMMA OtherJob ==
  ASSUME NEW k, JobInv(k),
         record'[k] = record[k], local'[k] = local[k], created'[k] = created[k],
         release'[k] = release[k], k \in preparing' <=> k \in preparing,
         k \in plaintext' <=> k \in plaintext, k \in captures' <=> k \in captures,
         k \in pins' <=> k \in pins, poll.job # k, poll'.pc \in JobSteps => poll'.job # k
  PROVE JobInv(k)'
<1>1. RecordInv(k)'
  BY DEF JobInv, RecordInv, Owned, Complete, InFlight
<1>2. ReleaseInv(k)'
  BY DEF JobInv, ReleaseInv, Complete, InFlight
<1>3. PrepareInv(k)'
  BY DEF JobInv, PrepareInv, AtJob, JobSteps, PollSteps, PrepareSteps
<1> QED BY <1>1, <1>2, <1>3 DEF JobInv

\* The steps of a preparation, and the adoption of a local job.
LEMMA PrepareKeeps ==
  ASSUME TypeOK, Inv, Adopt \/ PrepareStep
  PROVE Inv'
<1> SUFFICES ASSUME NEW k \in Jobs PROVE JobInv(k)'
  BY DEF Inv
<1>0. /\ CleanupTypeOK /\ poll \in Poll /\ J \in Jobs /\ record[J] \in Record
      /\ JobInv(J) /\ JobInv(k)
  BY DEF TypeOK, CleanupTypeOK, Inv, Adopt, PrepareStep, Own, AcquireInput, ReadInput, Decrypt,
     Register, CreateLocal, SaveLocal, At, JobSteps, PollSteps, PrepareSteps, J
<1>g. ASSUME NEW pc \in PrepareSteps \cup {"own", "report", "fail"}, Goto(pc)
      PROVE poll'.pc = pc /\ poll'.job = J
  BY <1>g, <1>0, GotoFact DEF PollSteps, J
<1>c. ASSUME NEW ok \in BOOLEAN, NEW next \in PrepareSteps \cup {"report"}, Continue(ok, next)
      PROVE /\ poll'.job = J /\ poll'.pc = (IF ok THEN next ELSE "fail")
            /\ preparing' = IF ok /\ next \in PrepareSteps THEN preparing \cup {J} ELSE preparing \ {J}
  <2>1. "fail" \notin PrepareSteps
    BY DEF PrepareSteps
  <2> QED BY <1>c, <1>g, <2>1 DEF Continue, Prepares
<1>m. MayPrepare(J) \in BOOLEAN /\ (J \notin expired) \in BOOLEAN
  BY DEF MayPrepare
<1>s. /\ "acquire" \in PrepareSteps /\ "cat" \in PrepareSteps /\ "decrypt" \in PrepareSteps
      /\ "register" \in PrepareSteps /\ "create" \in PrepareSteps /\ "save" \in PrepareSteps
      /\ "report" \notin PrepareSteps /\ "fail" \notin PrepareSteps /\ "own" \notin PrepareSteps
      /\ "adopt" \notin PrepareSteps
  BY DEF PrepareSteps
<1>j. poll'.job = J
  BY <1>g, <1>c, <1>m, <1>s DEF Adopt, PrepareStep, Own, AcquireInput, ReadInput, Decrypt, Register,
     CreateLocal, SaveLocal
<1>k. CASE k # J
  <2>1. /\ record'[k] = record[k] /\ local'[k] = local[k] /\ created'[k] = created[k]
        /\ release'[k] = release[k]
        /\ (k \in plaintext' <=> k \in plaintext) /\ (k \in captures' <=> k \in captures)
        /\ (k \in pins' <=> k \in pins)
    BY <1>k, <1>0, ZenonT(30) DEF CleanupTypeOK, Adopt, PrepareStep, Own, AcquireInput, ReadInput, Decrypt,
       Register, CreateLocal, SaveLocal
  <2>2. k \in preparing' <=> k \in preparing
    BY <1>k DEF Adopt, PrepareStep, Own, AcquireInput, ReadInput, Decrypt,
       Register, CreateLocal, SaveLocal, Continue, Prepares
  <2> QED BY <1>0, <1>j, <1>k, <2>1, <2>2, OtherJob DEF J
<1>h. CASE k = J
  <2> SUFFICES RecordInv(k)' /\ ReleaseInv(k)' /\ PrepareInv(k)'
    BY DEF JobInv
  <2>0. /\ RecordInv(k) /\ ReleaseInv(k) /\ PrepareInv(k) /\ record[k] \in Record
        /\ poll.job = k /\ poll'.job = k
    BY <1>0, <1>h, <1>j DEF JobInv, J
  <2> USE <1>0, <1>h, <1>s, <2>0
      DEF CleanupTypeOK, RecordInv, ReleaseInv, PrepareInv, AtJob, Owned, Complete, InFlight, ReleaseSteps
  <2>1. CASE Adopt
    <3>1. record' = record \/ record' = [record EXCEPT ![k].localJobId = TRUE]
      BY <2>1 DEF Adopt
    <3>2. /\ record'[k].state = record[k].state /\ record'[k].requested = record[k].requested
          /\ record'[k].plaintext = record[k].plaintext
          /\ record'[k].pinPending = record[k].pinPending
      BY <3>1, SMT DEF Record
    <3>3. poll'.pc \in {"own", "report"} /\ (poll'.pc = "own" => local[k] = "none")
      <4>1. CASE Child(k)
        <5>1. record'[k].localJobId
          BY <2>1, <4>1, ZenonT(30) DEF Adopt, Record
        <5> QED BY <2>1, <1>g, <5>1, SMT DEF Adopt
      <4>2. CASE ~Child(k)
        BY <2>1, <1>g, <4>2 DEF Adopt, Child
      <4> QED BY <4>1, <4>2
    <3> QED BY <2>1, <3>2, <3>3, ZenonT(30) DEF Adopt, At
  <2>2. CASE Own
    <3>1. CASE UNCHANGED <<record, preparing>>
      <4>1. poll'.pc \in {"fail", "acquire"} /\ (poll'.pc = "acquire" => k \in preparing')
        BY <2>2, <1>g, <1>c, <1>m, ZenonT(30) DEF Own
      <4> QED BY <2>2, <3>1, <4>1 DEF Own, At
    <3>2. CASE /\ Reusable(k) \/ ~Owned(k)
               /\ record' = [record EXCEPT ![k] = OwnedRecord(k)]
               /\ Continue(k \notin expired, "acquire")
      <4>1. /\ poll'.pc \in {"fail", "acquire"}
            /\ preparing' = IF poll'.pc = "acquire" THEN preparing \cup {k} ELSE preparing \ {k}
        BY <3>2, <1>c, <1>m
      <4>2. record'[k] = OwnedRecord(k) /\ record'[k].state # "none" /\ record'[k].plaintext # "complete"
        BY <3>2 DEF OwnedRecord, NoRecord, Reusable
      <4>3. ~InFlight(k)
        BY <3>2 DEF Reusable
      <4>4. Owned(k) => record'[k] = record[k]
        BY <4>2 DEF OwnedRecord
      <4>5. ~Owned(k) => record'[k].pinPending
        BY <4>2 DEF OwnedRecord, NoRecord
      <4>6. RecordInv(k)'
        BY <2>2, <4>2, <4>4, <4>5 DEF Own
      <4>7. ReleaseInv(k)'
        BY <2>2, <4>2, <4>3 DEF Own
      <4>8. PrepareInv(k)'
        BY <2>2, <4>1, <4>2, <4>3, ZenonT(30) DEF Own, At
      <4> QED BY <4>6, <4>7, <4>8
    <3> QED BY <2>2, <3>1, <3>2, ZenonT(30) DEF Own
  <2>3. CASE AcquireInput
    <3>1. /\ poll'.pc \in {"fail", "cat"}
          /\ preparing' = IF poll'.pc = "cat" THEN preparing \cup {k} ELSE preparing \ {k}
      BY <2>3, <1>c, <1>m DEF AcquireInput
    <3> QED BY <2>3, <3>1 DEF AcquireInput, At
  <2>4. CASE ReadInput
    <3>1. /\ poll'.pc \in {"fail", "decrypt"}
          /\ preparing' = IF poll'.pc = "decrypt" THEN preparing \cup {k} ELSE preparing \ {k}
      BY <2>4, <1>c, <1>m DEF ReadInput
    <3> QED BY <2>4, <3>1 DEF ReadInput, At
  <2>5. CASE Decrypt
    <3>1. /\ poll'.pc \in {"fail", "register"}
          /\ preparing' = IF poll'.pc = "register" THEN preparing \cup {k} ELSE preparing \ {k}
      BY <2>5, <1>c, <1>m DEF Decrypt
    <3> QED BY <2>5, <3>1 DEF Decrypt, At
  <2>6. CASE Register
    <3>1. /\ poll'.pc \in {"fail", "create"}
          /\ preparing' = IF poll'.pc = "create" THEN preparing \cup {k} ELSE preparing \ {k}
      BY <2>6, <1>c, <1>m DEF Register
    <3> QED BY <2>6, <3>1 DEF Register, At
  <2>7. CASE CreateLocal
    <3>1. CASE Continue(FALSE, "save") /\ UNCHANGED <<local, created>>
      <4>1. poll'.pc = "fail" /\ preparing' = preparing \ {k}
        BY <3>1, <1>c
      <4> QED BY <2>7, <3>1, <4>1, ZenonT(30) DEF CreateLocal, At
    <3>2. CASE /\ local' = [local EXCEPT ![k] = "active"]
               /\ created' = IF local[k] = "active" THEN created ELSE [created EXCEPT ![k] = @ + 1]
               /\ Goto("save") /\ UNCHANGED preparing
      <4>1. poll'.pc = "save"
        BY <3>2, <1>g, ZenonT(30)
      <4>2. local[k] = "none" /\ created[k] = 0 /\ local'[k] = "active" /\ created'[k] = 1
        BY <2>7, <3>2, SMT DEF CreateLocal, At
      <4> QED BY <2>7, <3>2, <4>1, <4>2 DEF CreateLocal, At
    <3> QED BY <2>7, <3>1, <3>2 DEF CreateLocal
  <2>8. CASE SaveLocal
    <3>1. poll'.pc \in {"fail", "report"} /\ preparing' = preparing \ {k}
      BY <2>8, <1>c DEF SaveLocal
    <3>2. /\ record'[k].requested = record[k].requested
          /\ record'[k].plaintext = record[k].plaintext
          /\ record'[k].pinPending = record[k].pinPending
          /\ record'[k].state \in {record[k].state, "RUNNING"}
      <4>1. CASE UNCHANGED record
        BY <4>1
      <4>2. CASE record' = [record EXCEPT ![k].localJobId = TRUE, ![k].state = "RUNNING"]
        <5>1. ASSUME NEW f \in [Jobs -> Record], f = [record EXCEPT ![k].localJobId = TRUE],
                     record' = [f EXCEPT ![k].state = "RUNNING"]
              PROVE /\ record'[k].requested = record[k].requested
                    /\ record'[k].plaintext = record[k].plaintext
                    /\ record'[k].pinPending = record[k].pinPending
                    /\ record'[k].state = "RUNNING"
          <6>1. f[k] = [record[k] EXCEPT !.localJobId = TRUE]
            BY <5>1
          <6>2. record'[k] = [f[k] EXCEPT !.state = "RUNNING"]
            BY <5>1
          <6> QED BY <6>1, <6>2, SMT DEF Record
        <5>2. [record EXCEPT ![k].localJobId = TRUE] \in [Jobs -> Record]
          <6>1. [record[k] EXCEPT !.localJobId = TRUE] \in Record
            BY DEF Record
          <6> QED BY <6>1
        <5> QED BY <4>2, <5>1, <5>2, ZenonT(30)
      <4> QED BY <2>8, <4>1, <4>2 DEF SaveLocal
    <3> QED BY <2>8, <3>1, <3>2, ZenonT(30) DEF SaveLocal, At
  <2> QED BY <2>1, <2>2, <2>3, <2>4, <2>5, <2>6, <2>7, <2>8, ZenonT(30) DEF PrepareStep
<1> QED BY <1>k, <1>h

\* The request of a release, and the state that is saved after it.
LEMMA RequestKeeps ==
  ASSUME TypeOK, Inv, RequestRelease \/ SaveState
  PROVE Inv'
<1> SUFFICES ASSUME NEW k \in Jobs PROVE JobInv(k)'
  BY DEF Inv
<1>0. /\ CleanupTypeOK /\ poll \in Poll /\ J \in Jobs /\ record[J] \in Record
      /\ JobInv(J) /\ JobInv(k) /\ poll.job = J
  BY DEF TypeOK, CleanupTypeOK, Inv, RequestRelease, SaveState, At, JobSteps, PollSteps, J
<1>g. ASSUME NEW pc \in {"await", "fail"}, Goto(pc) PROVE poll'.pc = pc /\ poll'.job = J
  BY <1>g, <1>0, GotoFact DEF PollSteps, J
<1>p. poll.pc \notin PrepareSteps
  BY DEF RequestRelease, SaveState, At, PrepareSteps
<1>j. /\ poll'.pc \in {"await", "fail"} => poll'.job = J
      /\ poll'.pc \in {"await", "fail", "idle", "next"}
      /\ poll'.pc = "await" => RequestRelease /\ Owned(J)
  <2>1. CASE RequestRelease
    BY <2>1, <1>g, EndsFact DEF RequestRelease, ThrowFromRequest, Request
  <2>2. CASE SaveState
    BY <2>2, <1>0, <1>g, DoneFact DEF SaveState
  <2> QED BY <2>1, <2>2
<1>n. poll'.pc \in JobSteps => poll'.pc \in {"await", "fail"}
  BY <1>j DEF JobSteps
<1>k. CASE k # J
  <2>1. record'[k] = record[k] /\ release'[k] = release[k]
    BY <1>k, <1>0, SMT DEF CleanupTypeOK, RequestRelease, SaveState, Request, Requested, Reconcile
  <2>2. UNCHANGED <<captures, local, created, plaintext, pins, preparing>>
    BY DEF RequestRelease, SaveState
  <2> QED BY <1>0, <1>j, <1>k, <1>n, <2>1, <2>2, OtherJob, ZenonT(30)
<1>h. CASE k = J
  <2>0. RecordInv(k) /\ ReleaseInv(k) /\ PrepareInv(k) /\ record[k] \in Record
    BY <1>0, <1>h DEF JobInv
  <2>s. SaveState => record' = record \/ record'[k] = [record[k] EXCEPT !.state = poll.then]
    BY <1>0, <1>h DEF SaveState, CleanupTypeOK
  <2>q. RequestRelease => record' = record \/ record'[k] = [record[k] EXCEPT !.requested = TRUE]
    BY <1>0, <1>h DEF RequestRelease, Request, Requested, CleanupTypeOK
  <2> USE <1>0, <1>h, <2>0
      DEF CleanupTypeOK, RecordInv, ReleaseInv, PrepareInv, AtJob, Owned, Complete, InFlight, ReleaseSteps
  <2>1. UNCHANGED <<captures, local, created, plaintext, pins, preparing>>
    BY DEF RequestRelease, SaveState
  <2>2. /\ record'[k].plaintext = record[k].plaintext /\ record'[k].pinPending = record[k].pinPending
        /\ (record'[k].state # "none" <=> record[k].state # "none")
        /\ (record[k].requested => record'[k].requested)
    <3>1. CASE RequestRelease
      BY <3>1, <2>q, SMT DEF Record
    <3>2. CASE SaveState
      <4>1. record[k].state # "none" /\ poll.then \in {"OUTPUT_READY", "FAILED"}
        BY <3>2 DEF SaveState, At, TypeOK
      <4> QED BY <4>1, <3>2, <2>s, SMT DEF Record
    <3> QED BY <3>1, <3>2
  <2>3. \/ release'[k] = release[k]
        \/ /\ Owned(k) /\ record'[k].requested /\ ~InFlight(k)
           /\ release'[k] = IF Complete(k) THEN "pin" ELSE "wait"
    <3>1. CASE RequestRelease
      <4>1. CASE Request(k)
        <5>1. record'[k].requested
          BY <4>1 DEF Request, Requested, Record
        <5> QED BY <4>1, <5>1 DEF Request, Reconcile
      <4> QED BY <3>1, <4>1 DEF RequestRelease
    <3>2. CASE SaveState
      BY <3>2 DEF SaveState
    <3> QED BY <3>1, <3>2
  <2>4. RecordInv(k)'
    BY <2>1, <2>2, <2>3
  <2>5. ReleaseInv(k)'
    BY <2>1, <2>2, <2>3, ZenonT(30)
  <2>6. PrepareInv(k)'
    <3>1. k \notin preparing'
      BY <1>p, <2>1
    <3> QED BY <1>j, <1>n, <2>2, <3>1 DEF PrepareSteps
  <2> QED BY <2>4, <2>5, <2>6 DEF JobInv
<1> QED BY <1>k, <1>h

\* The local job ends; a restart forgets who prepares and who releases.
LEMMA LocalKeeps ==
  ASSUME TypeOK, Inv, NEW j \in Jobs, LocalStep(j)
  PROVE Inv'
<1> SUFFICES ASSUME NEW k \in Jobs PROVE JobInv(k)'
  BY DEF Inv
<1>0. JobInv(k) /\ local \in [Jobs -> {"none", "active", "completed", "failed"}] /\ UNCHANGED poll
  BY DEF Inv, TypeOK, CleanupTypeOK, LocalStep, runtimeVars
<1>1. UNCHANGED <<record, captures, created, plaintext, pins, preparing, release>>
  BY DEF LocalStep, LocalEnds, Expire
<1>2. local'[k] = local[k] \/ (local[k] = "active" /\ local'[k] \in {"completed", "failed"})
  BY <1>0 DEF LocalStep, LocalEnds, Expire
<1>3. RecordInv(k)'
  BY <1>0, <1>1, <1>2 DEF JobInv, RecordInv, Owned, Complete, InFlight
<1>4. ReleaseInv(k)'
  BY <1>0, <1>1, <1>2 DEF JobInv, ReleaseInv, Complete, InFlight
<1>5. PrepareInv(k)'
  BY <1>0, <1>1, <1>2 DEF JobInv, PrepareInv, AtJob, Owned, Complete
<1> QED BY <1>3, <1>4, <1>5 DEF JobInv

LEMMA RestartKeeps ==
  ASSUME TypeOK, Inv, Restart
  PROVE Inv'
<1> SUFFICES ASSUME NEW k \in Jobs PROVE JobInv(k)'
  BY DEF Inv
<1>0. JobInv(k) /\ UNCHANGED <<record, captures, local, created, plaintext, pins>>
  BY DEF Inv, Restart, CleanupRestart
<1>1. release'[k] = "ok" /\ preparing' = {}
  BY DEF Restart, CleanupRestart
<1>2. poll'.pc = "idle"
  BY EndsFact DEF Restart, PollEnds
<1>3. RecordInv(k)'
  BY <1>0, <1>1 DEF JobInv, RecordInv, Owned, Complete, InFlight, ReleaseSteps
<1>4. ReleaseInv(k)'
  BY <1>1 DEF ReleaseInv, InFlight, ReleaseSteps
<1>5. PrepareInv(k)'
  BY <1>1, <1>2 DEF PrepareInv, AtJob, PrepareSteps
<1> QED BY <1>3, <1>4, <1>5 DEF JobInv

LEMMA InvStep == TypeOK /\ Inv /\ [Next]_vars => Inv'
<1> SUFFICES ASSUME TypeOK, Inv, [Next]_vars PROVE Inv'
  OBVIOUS
<1>1. CASE PollStep
  BY <1>1, QuietInv, PrepareKeeps, RequestKeeps DEF PollStep
<1>2. ASSUME NEW j \in Jobs, CleanupStep(j) PROVE Inv'
  BY <1>2, ReleaseKeeps DEF CleanupStep, runtimeVars
<1>3. ASSUME NEW j \in Jobs, LocalStep(j) PROVE Inv'
  BY <1>3, LocalKeeps
<1>4. ASSUME UNCHANGED <<cleanupVars, poll>> PROVE Inv'
  <2> SUFFICES ASSUME NEW j \in Jobs PROVE JobInv(j)'
    BY DEF Inv
  <2>1. JobInv(j) /\ UNCHANGED <<record, captures, local, created, plaintext, pins, release, preparing, poll>>
    BY <1>4 DEF Inv, cleanupVars
  <2>2. RecordInv(j)'
    BY <2>1 DEF JobInv, RecordInv, Owned, Complete, InFlight
  <2>3. ReleaseInv(j)'
    BY <2>1 DEF JobInv, ReleaseInv, Complete, InFlight
  <2>4. PrepareInv(j)'
    BY <2>1 DEF JobInv, PrepareInv, AtJob, Owned, Complete
  <2> QED BY <2>2, <2>3, <2>4 DEF JobInv
<1>5. CASE (\E j \in Jobs : BackendMoves(j)) \/ UpdateSettings \/ RetryAuthorization
  BY <1>4, <1>5 DEF BackendMoves, UpdateSettings, RetryAuthorization
<1>6. CASE Restart
  BY <1>6, RestartKeeps
<1>7. CASE UNCHANGED vars
  BY <1>4, <1>7 DEF vars, runtimeVars
<1> QED BY <1>1, <1>2, <1>3, <1>5, <1>6, <1>7, ZenonT(30) DEF Next

-----------------------------------------------------------------------------
(* What follows from it *)

LEMMA Invariance == Spec => [](TypeOK /\ Inv)
<1>1. Init => TypeOK /\ Inv
  BY TypeInit, InvInit
<1>2. TypeOK /\ Inv /\ [Next]_vars => (TypeOK /\ Inv)'
  BY TypeStep, InvStep
<1> QED BY <1>1, <1>2, PTL DEF Spec

\* A release that the record calls complete has left no plaintext, capture or
\* running job, for any interleaving of poll, release, timer and restarts:
\* what a preparation writes is awaited before it is removed.
THEOREM CompleteMeansGoneTheorem == Spec => []CompleteMeansGone
<1>1. Inv => CompleteMeansGone
  BY DEF Inv, JobInv, RecordInv, CompleteMeansGone
<1> QED BY <1>1, Invariance, PTL

\* No sequence of faults, lost answers and restarts makes the poll insert a
\* second local job for an assignment.
THEOREM OneLocalJobTheorem == Spec => []OneLocalJob
<1>1. Inv => OneLocalJob
  BY SMT DEF Inv, JobInv, RecordInv, OneLocalJob
<1> QED BY <1>1, Invariance, PTL

\* Everything a provider holds of an input is in its journal, and the numbers
\* the operator is shown bound what is held.
THEOREM HoldingsAreJournaledTheorem == Spec => []HoldingsAreJournaled
<1>1. TypeOK /\ Inv => HoldingsAreJournaled
  <2> SUFFICES ASSUME TypeOK, Inv PROVE HoldingsAreJournaled
    OBVIOUS
  <2>1. plaintext \in SUBSET Jobs /\ captures \in SUBSET Jobs /\ pins \in SUBSET Jobs
    BY DEF TypeOK, CleanupTypeOK
  <2>2. \A j \in plaintext \cup captures : Owned(j) /\ ~Complete(j)
    BY <2>1 DEF Inv, JobInv, RecordInv
  <2>3. \A j \in pins : Owned(j) /\ record[j].pinPending
    BY <2>1 DEF Inv, JobInv, RecordInv
  <2>4. ASSUME NEW S \in SUBSET Jobs, NEW T \in SUBSET S PROVE Cardinality(T) <= Cardinality(S)
    BY JobsAssumption, FS_Subset
  <2>5. plaintext \cup captures \subseteq {j \in Jobs : Owned(j) /\ ~Complete(j)}
    BY <2>1, <2>2
  <2>6. pins \subseteq {j \in Jobs : Owned(j) /\ record[j].pinPending}
    BY <2>1, <2>3
  <2>7. /\ Cardinality(plaintext \cup captures) <= Cardinality({j \in Jobs : Owned(j) /\ ~Complete(j)})
        /\ Cardinality(pins) <= Cardinality({j \in Jobs : Owned(j) /\ record[j].pinPending})
    BY <2>4, <2>5, <2>6
  <2> QED BY <2>2, <2>3, <2>7 DEF HoldingsAreJournaled, CleanupDiagnostics
<1> QED BY <1>1, Invariance, PTL
-----------------------------------------------------------------------------
(* Remote access: any number of sessions, request ids and requests, and    *)
(* any limit on them.                                                      *)

-----------------------------------------------------------------------------
(* The inductive invariant of the channel *)

\* What is known of the n-th request.
RunInv(n) ==
  /\ Unfinished(n) => /\ run[n].id \in Ids /\ n <= accepted
                      /\ run[n].answers = IF run[n].invalid THEN 1 ELSE 0
  /\ run[n].answers <= IF run[n].invalid THEN 2 ELSE 1

\* The entry of the table under an id is a request with that id, which is being
\* served and has had no answer.
EntryInv(i) ==
  LET n == inFlight[i] IN
  n # 0 => /\ n <= accepted /\ run[n].id = i /\ Unfinished(n)
           /\ ~run[n].invalid /\ run[n].size <= MaxBody

ChannelInv == (\A n \in Runs : RunInv(n)) /\ (\A i \in Ids : EntryInv(i))

RemoteInv == RemoteTypeOK /\ ChannelInv /\ PeersAreKnown

-----------------------------------------------------------------------------
(* The channel *)

ChannelOK == ChannelTypeOK /\ ChannelInv

LEMMA ChannelStarts == ChannelInit => ChannelOK
<1> SUFFICES ASSUME ChannelInit PROVE ChannelOK
  OBVIOUS
<1>1. NoRun \in Run
  <2>1. 0 \in 0..MaxBody + 1 /\ 0 \in 0..2
    BY BoundsAssumption, SMT
  <2> QED BY <2>1 DEF NoRun, Run
<1>2. ChannelTypeOK
  <2>1. 0 \in 0..MaxRuns
    BY BoundsAssumption, SMT
  <2>2. inFlight \in [Ids -> 0..MaxRuns] /\ accepted \in 0..MaxRuns
    BY <2>1 DEF ChannelInit
  <2>3. run \in [Runs -> Run]
    BY <1>1 DEF ChannelInit
  <2> QED BY <2>2, <2>3 DEF ChannelInit, ChannelTypeOK
<1>3. ChannelInv
  BY SMT DEF ChannelInit, ChannelInv, RunInv, EntryInv, Unfinished, NoRun
<1> QED BY <1>2, <1>3 DEF ChannelOK

\* A step leaves a request as it was, as far as its answers are concerned, or
\* takes it on: it is finished, or has had the answer that it had to have.
Same(n) ==
  /\ run'[n].id = run[n].id /\ run'[n].pc = run[n].pc /\ run'[n].invalid = run[n].invalid
  /\ run'[n].answers = run[n].answers /\ run'[n].size = run[n].size

Goes(n) ==
  /\ run'[n].pc \notin {"none", "done"} =>
       /\ Unfinished(n) /\ run'[n].id = run[n].id
       /\ run'[n].answers = IF run'[n].invalid THEN 1 ELSE 0
  /\ run'[n].answers <= IF run'[n].invalid THEN 2 ELSE 1
  /\ (\E i \in Ids : inFlight'[i] = n) =>
       /\ run'[n].pc \notin {"none", "done"} /\ run'[n].id = run[n].id
       /\ ~run'[n].invalid /\ run'[n].size <= MaxBody

LEMMA RunsGo ==
  ASSUME ChannelOK, run' \in [Runs -> Run], UNCHANGED accepted,
         server' \in {"none", "open", "closed"}, verified' \in BOOLEAN,
         inFlight' \in [Ids -> 0..MaxRuns], \A i \in Ids : inFlight'[i] \in {inFlight[i], 0},
         \A n \in Runs : Same(n) \/ Goes(n)
  PROVE ChannelOK'
<1>0. ChannelTypeOK /\ (\A n \in Runs : RunInv(n)) /\ (\A i \in Ids : EntryInv(i))
  BY DEF ChannelOK, ChannelInv
<1>1. ChannelTypeOK'
  BY <1>0 DEF ChannelTypeOK
<1>2. ASSUME NEW n \in Runs PROVE RunInv(n)'
  <2>0. RunInv(n)
    BY <1>0
  <2>1. CASE Same(n)
    BY <2>0, <2>1 DEF RunInv, Unfinished, Same
  <2>2. CASE Goes(n)
    BY <2>0, <2>2 DEF RunInv, Unfinished, Goes
  <2> QED BY <2>1, <2>2
<1>3. ASSUME NEW i \in Ids PROVE EntryInv(i)'
  <2>0. EntryInv(i) /\ inFlight[i] \in 0..MaxRuns
    BY <1>0 DEF ChannelTypeOK
  <2>1. CASE inFlight'[i] = 0
    BY <2>1 DEF EntryInv
  <2>2. CASE inFlight'[i] = inFlight[i] /\ inFlight[i] # 0
    <3>1. inFlight[i] \in Runs
      BY <2>0, <2>2, BoundsAssumption, SMT DEF Runs
    <3>2. CASE Same(inFlight[i])
      BY <2>0, <2>2, <3>2 DEF EntryInv, Unfinished, Same
    <3>3. CASE Goes(inFlight[i])
      BY <2>0, <2>2, <3>3 DEF EntryInv, Unfinished, Goes
    <3> QED BY <3>1, <3>2, <3>3
  <2> QED BY <2>1, <2>2
<1> QED BY <1>1, <1>2, <1>3 DEF ChannelOK, ChannelInv

LEMMA HeadKeeps ==
  ASSUME ChannelOK, NEW i \in Ids, NEW final \in BOOLEAN, RequestHead(i, final)
  PROVE ChannelOK'
<1>0. ChannelTypeOK /\ (\A n \in Runs : RunInv(n)) /\ (\A j \in Ids : EntryInv(j))
  BY DEF ChannelOK, ChannelInv
<1>a. accepted \in 0..MaxRuns /\ accepted < MaxRuns
  BY <1>0 DEF RequestHead, ChannelTypeOK
<1>b. accepted + 1 \in Runs
  BY <1>a, BoundsAssumption, SMT DEF Runs
<1>1. PICK m \in Runs : m = accepted + 1
  BY <1>b
<1> DEFINE rec == [NoRun EXCEPT !.id = i, !.pc = "authorizing", !.verified = verified,
                                !.body = IF final THEN "ok" ELSE "pending"]
<1>2. /\ rec \in Run /\ rec.id = i /\ rec.pc = "authorizing" /\ ~rec.invalid
      /\ rec.answers = 0 /\ rec.size = 0
  <2>1. 0 \in 0..MaxBody + 1 /\ 0 \in 0..2
    BY BoundsAssumption, SMT
  <2>2. verified \in BOOLEAN /\ (IF final THEN "ok" ELSE "pending") \in {"pending", "ok", "rejected"}
    BY <1>0 DEF ChannelTypeOK
  <2> QED BY <2>1, <2>2 DEF NoRun, Run
<1>3. /\ run' = [run EXCEPT ![m] = rec] /\ inFlight' = [inFlight EXCEPT ![i] = m] /\ accepted' = m
      /\ UNCHANGED <<server, verified>>
  BY <1>1 DEF RequestHead
<1> HIDE DEF rec
<1>4. ChannelTypeOK'
  BY <1>0, <1>2, <1>3, SMT DEF ChannelTypeOK, Runs
<1>5. run'[m] = rec /\ \A n \in Runs \ {m} : run'[n] = run[n]
  BY <1>0, <1>3 DEF ChannelTypeOK
<1>6. accepted \in Nat /\ m \in Nat /\ Runs \subseteq Nat
  BY <1>0, BoundsAssumption, SMT DEF ChannelTypeOK, Runs
<1>7. ASSUME NEW n \in Runs PROVE RunInv(n)'
  <2>1. CASE n = m
    BY <1>2, <1>3, <1>5, <1>6, <2>1, SMT DEF RunInv, Unfinished
  <2>2. CASE n # m
    <3>1. RunInv(n) /\ run'[n] = run[n]
      BY <1>0, <1>5, <2>2
    <3> QED BY <1>1, <1>3, <1>6, <3>1, SMT DEF RunInv, Unfinished
  <2> QED BY <2>1, <2>2
<1>8. ASSUME NEW j \in Ids PROVE EntryInv(j)'
  <2>1. CASE j = i
    <3>1. inFlight'[j] = m
      BY <1>0, <1>3, <2>1 DEF ChannelTypeOK
    <3> QED BY <1>2, <1>3, <1>5, <1>6, <2>1, <3>1, BoundsAssumption, SMT DEF EntryInv, Unfinished
  <2>2. CASE j # i /\ inFlight[j] = 0
    BY <1>0, <1>3, <2>2 DEF EntryInv, ChannelTypeOK
  <2>3. CASE j # i /\ inFlight[j] # 0
    <3>1. inFlight'[j] = inFlight[j] /\ EntryInv(j) /\ inFlight[j] \in 0..MaxRuns
      BY <1>0, <1>3, <2>3 DEF ChannelTypeOK
    <3>2. inFlight[j] \in Runs \ {m} /\ inFlight[j] <= m
      BY <1>1, <1>6, <2>3, <3>1, BoundsAssumption, SMT DEF EntryInv, Runs
    <3>3. run'[inFlight[j]] = run[inFlight[j]]
      BY <1>5, <3>2
    <3> QED BY <1>3, <3>1, <3>2, <3>3 DEF EntryInv, Unfinished
  <2> QED BY <2>1, <2>2, <2>3
<1> QED BY <1>4, <1>7, <1>8 DEF ChannelOK, ChannelInv

\* The request n becomes rec.
LEMMA OneGoes ==
  ASSUME ChannelOK, NEW n \in Runs, NEW rec \in Run, run' = [run EXCEPT ![n] = rec]
  PROVE /\ run' \in [Runs -> Run] /\ run'[n] = rec
        /\ \A m \in Runs \ {n} : Same(m)
BY DEF ChannelOK, ChannelTypeOK, Same

\* The entry that a frame of the peer is about.
LEMMA Entry ==
  ASSUME ChannelOK, NEW i \in Ids, inFlight[i] # 0
  PROVE /\ inFlight[i] \in Runs /\ run[inFlight[i]] \in Run /\ Unfinished(inFlight[i])
        /\ ~run[inFlight[i]].invalid /\ run[inFlight[i]].answers = 0 /\ run[inFlight[i]].size <= MaxBody
        /\ run[inFlight[i]].id = i
        /\ [inFlight EXCEPT ![i] = 0] \in [Ids -> 0..MaxRuns]
        /\ \A j \in Ids : [inFlight EXCEPT ![i] = 0][j] \in {inFlight[j], 0} \ {inFlight[i]}
<1>0. ChannelTypeOK /\ (\A n \in Runs : RunInv(n)) /\ (\A j \in Ids : EntryInv(j))
  BY DEF ChannelOK, ChannelInv
<1>1. inFlight[i] \in Runs
  BY <1>0, BoundsAssumption, SMT DEF ChannelTypeOK, Runs
<1>2. RunInv(inFlight[i]) /\ EntryInv(i) /\ run[inFlight[i]] \in Run
  BY <1>0, <1>1 DEF ChannelTypeOK
<1>3. 0 \in 0..MaxRuns
  BY BoundsAssumption, SMT
<1>4. [inFlight EXCEPT ![i] = 0] \in [Ids -> 0..MaxRuns]
  BY <1>0, <1>3 DEF ChannelTypeOK
<1>5. ASSUME NEW j \in Ids PROVE [inFlight EXCEPT ![i] = 0][j] \in {inFlight[j], 0} \ {inFlight[i]}
  <2>1. CASE j = i
    BY <1>0, <2>1 DEF ChannelTypeOK
  <2>2. CASE j # i
    <3>1. inFlight[j] # inFlight[i]
      BY <1>0, <1>2, <2>2 DEF EntryInv
    <3> QED BY <1>0, <2>2, <3>1 DEF ChannelTypeOK
  <2> QED BY <2>1, <2>2
<1> QED BY <1>1, <1>2, <1>4, <1>5 DEF RunInv, EntryInv

LEMMA ChunkKeeps ==
  ASSUME ChannelOK, NEW i \in Ids, NEW final \in BOOLEAN, NEW intact \in BOOLEAN,
         RequestChunk(i, final, intact)
  PROVE ChannelOK'
<1> DEFINE n == inFlight[i]
           size == run[n].size + 1
           bad == size > MaxBody \/ (final /\ ~intact)
<1>0. n # 0 /\ UNCHANGED <<server, verified, accepted>>
  BY DEF RequestChunk
<1>1. /\ n \in Runs /\ run[n] \in Run /\ Unfinished(n) /\ ~run[n].invalid /\ run[n].answers = 0
      /\ run[n].size <= MaxBody /\ [inFlight EXCEPT ![i] = 0] \in [Ids -> 0..MaxRuns]
      /\ \A j \in Ids : [inFlight EXCEPT ![i] = 0][j] \in {inFlight[j], 0} \ {n}
  BY <1>0, Entry
<1>2. size \in 0..MaxBody + 1 /\ ChannelTypeOK
  BY <1>1, BoundsAssumption, SMT DEF Run, ChannelOK
<1>3. CASE bad
  <2>1. PICK rec : rec = [run[n] EXCEPT !.body = Rejected(@), !.size = size, !.invalid = TRUE, !.answers = @ + 1]
    OBVIOUS
  <2>2. rec \in Run /\ rec.invalid /\ rec.answers = 1 /\ rec.id = run[n].id
    <3>1. PICK body \in {"pending", "ok", "rejected"} : body = Rejected(run[n].body)
      BY <1>1 DEF Rejected, Run
    <3>2. PICK z \in 0..MaxBody + 1 : z = size
      BY <1>2
    <3>3. run[n].answers + 1 = 1 /\ 1 \in 0..2
      BY <1>1, SMT
    <3>4. rec = [run[n] EXCEPT !.body = body, !.size = z, !.invalid = TRUE, !.answers = 1]
      BY <1>1, <2>1, <3>1, <3>2, <3>3
    <3> QED BY <1>1, <3>3, <3>4, ZenonT(30) DEF Run
  <2>3. run' = [run EXCEPT ![n] = rec] /\ inFlight' = [inFlight EXCEPT ![i] = 0]
    BY <1>1, <1>2, <1>3, <2>1, ZenonT(30) DEF RequestChunk, ChannelTypeOK
  <2>4. run' \in [Runs -> Run] /\ run'[n] = rec /\ \A m \in Runs \ {n} : Same(m)
    BY <1>1, <2>2, <2>3, OneGoes
  <2>5. Goes(n)
    BY <1>1, <2>2, <2>3, <2>4, SMT DEF Goes
  <2> QED BY <1>0, <1>1, <1>2, <2>3, <2>4, <2>5, RunsGo DEF ChannelTypeOK
<1>4. CASE ~bad
  <2>1. PICK rec : rec = [run[n] EXCEPT !.size = size, !.body = IF final THEN "ok" ELSE @]
    OBVIOUS
  <2>2. /\ rec \in Run /\ ~rec.invalid /\ rec.answers = 0 /\ rec.id = run[n].id
        /\ rec.pc = run[n].pc /\ rec.size = size
    BY <1>1, <1>2, <2>1, ZenonT(30) DEF Run
  <2>3. run' = [run EXCEPT ![n] = rec] /\ inFlight' = inFlight
    BY <1>1, <1>2, <1>4, <2>1 DEF RequestChunk, ChannelTypeOK
  <2>4. run' \in [Runs -> Run] /\ run'[n] = rec /\ \A m \in Runs \ {n} : Same(m)
    BY <1>1, <2>2, <2>3, OneGoes
  <2>5. size <= MaxBody
    BY <1>2, <1>4, BoundsAssumption, SMT
  <2>6. Goes(n)
    <3>1. 0 <= 1
      BY SMT
    <3> QED BY <1>1, <2>2, <2>4, <2>5, <3>1, ZenonT(30) DEF Goes, Unfinished
  <2> QED BY <1>0, <1>1, <1>2, <2>3, <2>4, <2>6, RunsGo DEF ChannelTypeOK
<1> QED BY <1>3, <1>4

\* A request that is cancelled, or whose channel closes, is as it was but for
\* its body and the mark.
LEMMA CancelledFact ==
  ASSUME NEW rec \in Run, NEW c, c = [rec EXCEPT !.cancelled = TRUE, !.body = Rejected(@)]
  PROVE /\ c \in Run /\ c.id = rec.id /\ c.pc = rec.pc /\ c.invalid = rec.invalid
        /\ c.answers = rec.answers /\ c.size = rec.size
<1>1. Rejected(rec.body) \in {"pending", "ok", "rejected"}
  BY DEF Rejected, Run
<1> QED BY <1>1 DEF Run

LEMMA CancelKeeps ==
  ASSUME ChannelOK, NEW i \in Ids, Cancel(i)
  PROVE ChannelOK'
<1> DEFINE n == inFlight[i]
<1>0. n # 0 /\ UNCHANGED <<server, verified, accepted>> /\ ChannelTypeOK
  BY DEF Cancel, ChannelOK
<1>1. /\ n \in Runs /\ run[n] \in Run /\ [inFlight EXCEPT ![i] = 0] \in [Ids -> 0..MaxRuns]
      /\ \A j \in Ids : [inFlight EXCEPT ![i] = 0][j] \in {inFlight[j], 0} \ {n}
  BY <1>0, Entry
<1>2. PICK rec : rec = [run[n] EXCEPT !.cancelled = TRUE, !.body = Rejected(@)]
  OBVIOUS
<1>3. /\ rec \in Run /\ rec.id = run[n].id /\ rec.pc = run[n].pc /\ rec.invalid = run[n].invalid
      /\ rec.answers = run[n].answers /\ rec.size = run[n].size
  BY <1>1, <1>2, CancelledFact, ZenonT(30)
<1>4. run' = [run EXCEPT ![n] = rec] /\ inFlight' = [inFlight EXCEPT ![i] = 0]
  BY <1>0, <1>1, <1>2 DEF Cancel, ChannelTypeOK
<1>5. run' \in [Runs -> Run] /\ \A m \in Runs : Same(m)
  BY <1>1, <1>3, <1>4, OneGoes DEF Same
<1> QED BY <1>0, <1>1, <1>4, <1>5, RunsGo DEF ChannelTypeOK

LEMMA CloseKeeps ==
  ASSUME ChannelOK, Close
  PROVE ChannelOK'
<1>0. ChannelTypeOK
  BY DEF ChannelOK
<1>1. ASSUME NEW n \in Runs PROVE run'[n] \in Run /\ Same(n)
  <2>1. run[n] \in Run
    BY <1>0 DEF ChannelTypeOK
  <2>2. CASE n \in InTable
    <3>1. run'[n] = [run[n] EXCEPT !.cancelled = TRUE, !.body = Rejected(@)]
      BY <2>2 DEF Close
    <3> QED BY <2>1, <3>1, CancelledFact, ZenonT(30) DEF Same
  <2>3. CASE n \notin InTable
    BY <2>1, <2>3 DEF Close, Same
  <2> QED BY <2>2, <2>3
<1>2. run' \in [Runs -> Run]
  BY <1>1 DEF Close
<1>3. 0 \in 0..MaxRuns
  BY BoundsAssumption, SMT
<1> QED BY <1>0, <1>1, <1>2, <1>3, RunsGo DEF Close, ChannelTypeOK

LEMMA ProceedKeeps ==
  ASSUME ChannelOK, NEW n \in Runs, NEW pc \in {"reading", "working", "streaming"}, Unfinished(n),
         Proceed(n, pc)
  PROVE ChannelOK'
<1>0. ChannelTypeOK /\ RunInv(n) /\ run[n] \in Run /\ \A i \in Ids : EntryInv(i)
  BY DEF ChannelOK, ChannelInv, ChannelTypeOK
<1>1. PICK rec : rec = [run[n] EXCEPT !.pc = pc]
  OBVIOUS
<1>2. /\ rec \in Run /\ rec.id = run[n].id /\ rec.pc = pc /\ rec.invalid = run[n].invalid
      /\ rec.answers = run[n].answers /\ rec.size = run[n].size
  BY <1>0, <1>1 DEF Run
<1>3. run' = [run EXCEPT ![n] = rec] /\ UNCHANGED <<server, verified, inFlight, accepted>>
  BY <1>0, <1>1 DEF Proceed, ChannelTypeOK
<1>4. run' \in [Runs -> Run] /\ run'[n] = rec /\ \A m \in Runs \ {n} : Same(m)
  BY <1>2, <1>3, OneGoes
<1>5. \A i \in Ids : inFlight[i] = n => ~run[n].invalid /\ run[n].size <= MaxBody
  BY <1>0, SMT DEF EntryInv, Runs
<1>6. Goes(n)
  BY <1>0, <1>2, <1>3, <1>4, <1>5 DEF Goes, RunInv, Unfinished
<1> QED BY <1>0, <1>3, <1>4, <1>6, RunsGo DEF ChannelTypeOK

LEMMA FinishKeeps ==
  ASSUME ChannelOK, NEW n \in Runs, NEW sends \in BOOLEAN, Unfinished(n), Finish(n, sends)
  PROVE ChannelOK'
<1>0. ChannelTypeOK /\ RunInv(n) /\ run[n] \in Run /\ \A i \in Ids : EntryInv(i)
  BY DEF ChannelOK, ChannelInv, ChannelTypeOK
<1> DEFINE i == run[n].id
           holder == inFlight[i]
           frames == IF sends /\ server = "open" THEN 1 ELSE 0
<1>1. /\ i \in Ids /\ run[n].answers = (IF run[n].invalid THEN 1 ELSE 0)
      /\ UNCHANGED <<server, verified, accepted>> /\ inFlight' = [inFlight EXCEPT ![i] = 0]
  BY <1>0 DEF RunInv, Finish, Delete
<1>2. PICK rec : rec = [NoRun EXCEPT !.pc = "done", !.cancelled = run[n].cancelled,
                                     !.invalid = run[n].invalid, !.answers = run[n].answers + frames]
  OBVIOUS
<1>3. rec \in Run /\ rec.pc = "done" /\ rec.answers <= IF rec.invalid THEN 2 ELSE 1
  <2>1. run[n].answers + frames \in 0..2 /\ run[n].answers + frames <= IF run[n].invalid THEN 2 ELSE 1
    BY <1>1, SMT
  <2>2. run[n].invalid \in BOOLEAN /\ run[n].cancelled \in BOOLEAN /\ 0 \in 0..MaxBody + 1
    BY <1>0, BoundsAssumption, SMT DEF Run
  <2> QED BY <1>2, <2>1, <2>2 DEF NoRun, Run
<1>4. [run EXCEPT ![n] = rec] \in [Runs -> Run]
  BY <1>0, <1>3 DEF ChannelTypeOK
<1>5. \/ run' = [run EXCEPT ![n] = rec]
      \/ holder \in Runs \ {n} /\ run' = [[run EXCEPT ![n] = rec] EXCEPT ![holder].displaced = TRUE]
  <2>1. holder \in 0..MaxRuns
    BY <1>0, <1>1 DEF ChannelTypeOK
  <2>2. holder \notin {0, n} => holder \in Runs \ {n}
    BY <2>1, BoundsAssumption, SMT DEF Runs
  <2> QED BY <1>2, <2>2 DEF Finish
<1>6. run' \in [Runs -> Run] /\ run'[n] = rec /\ \A m \in Runs \ {n} : Same(m)
  <2>1. CASE run' = [run EXCEPT ![n] = rec]
    BY <1>3, <2>1, OneGoes
  <2>2. ASSUME NEW h \in Runs \ {n}, run' = [[run EXCEPT ![n] = rec] EXCEPT ![h].displaced = TRUE]
        PROVE run' \in [Runs -> Run] /\ run'[n] = rec /\ \A m \in Runs \ {n} : Same(m)
    <3>0. run[h] \in Run
      BY <1>0 DEF ChannelTypeOK
    <3>1. PICK moved : moved = [run[h] EXCEPT !.displaced = TRUE]
      OBVIOUS
    <3>2. /\ moved \in Run /\ moved.id = run[h].id /\ moved.pc = run[h].pc
          /\ moved.invalid = run[h].invalid /\ moved.answers = run[h].answers /\ moved.size = run[h].size
      BY <3>0, <3>1 DEF Run
    <3>3. run' = [[run EXCEPT ![n] = rec] EXCEPT ![h] = moved]
      BY <1>0, <1>3, <2>2, <3>1 DEF ChannelTypeOK
    <3>4. run' \in [Runs -> Run]
      BY <1>4, <3>2, <3>3
    <3>5. run'[n] = rec /\ run'[h] = moved /\ \A m \in Runs \ {n, h} : run'[m] = run[m]
      BY <1>0, <3>3 DEF ChannelTypeOK
    <3> QED BY <3>2, <3>4, <3>5 DEF Same
  <2> QED BY <1>5, <2>1, <2>2
<1>7. inFlight' \in [Ids -> 0..MaxRuns] /\ \A j \in Ids : inFlight'[j] \in {inFlight[j], 0} \ {n}
  <2>1. 0 \in 0..MaxRuns /\ n # 0
    BY BoundsAssumption, SMT DEF Runs
  <2>2. \A j \in Ids \ {i} : inFlight[j] # n
    BY <1>0, <2>1 DEF EntryInv
  <2> QED BY <1>0, <1>1, <2>1, <2>2 DEF ChannelTypeOK
<1>8. Goes(n)
  BY <1>3, <1>6, <1>7 DEF Goes, Unfinished
<1> QED BY <1>0, <1>1, <1>6, <1>7, <1>8, RunsGo DEF ChannelTypeOK

LEMMA ServerKeeps ==
  ASSUME ChannelOK, OpenServer \/ IdentityChallenge \/ UNCHANGED channelVars
  PROVE ChannelOK'
<1>1. /\ UNCHANGED <<inFlight, run, accepted>>
      /\ server' \in {"none", "open", "closed"} /\ verified' \in BOOLEAN
  BY DEF OpenServer, IdentityChallenge, channelVars, ChannelOK, ChannelTypeOK
<1>2. \A n \in Runs : Same(n)
  BY <1>1 DEF Same
<1> QED BY <1>1, <1>2, RunsGo DEF ChannelOK, ChannelTypeOK

LEMMA FrameKeeps ==
  ASSUME ChannelOK, Frame
  PROVE ChannelOK'
BY HeadKeeps, ChunkKeeps, CancelKeeps, ServerKeeps, CloseKeeps DEF Frame, VersionMismatch

LEMMA RunStepKeeps ==
  ASSUME ChannelOK, NEW n \in Runs, RunStep(n)
  PROVE ChannelOK'
<1>0. run[n].cancelled \in BOOLEAN
  BY DEF ChannelOK, ChannelTypeOK, Run
<1>1. Unfinished(n)
  BY DEF RunStep, Refuse, Serve, ReadBody, Respond, StreamEnds, Unfinished
<1>2. ASSUME NEW sends \in BOOLEAN, Finish(n, sends) PROVE ChannelOK'
  BY <1>1, <1>2, FinishKeeps
<1>3. ASSUME NEW pc \in {"reading", "working", "streaming"}, Proceed(n, pc) PROVE ChannelOK'
  BY <1>1, <1>3, ProceedKeeps
<1>4. (~run[n].cancelled) \in BOOLEAN
  BY <1>0
<1> QED BY <1>2, <1>3, <1>4 DEF RunStep, Refuse, Serve, ReadBody, Respond, StreamEnds

-----------------------------------------------------------------------------
(* The sessions and their peers *)

AccessTypeOK ==
  /\ sessions \in [Sessions -> {"none", "pending", "gone"}]
  /\ peer \in [Sessions -> PeerStates]
  /\ accepting \subseteq Sessions /\ active \subseteq Sessions /\ lapsed \subseteq Sessions
  /\ socket \in BOOLEAN /\ clientStopped \in BOOLEAN

\* PeersAreKnown, of one session.
Known(s) == Open(s) => s \in Pending \cup active \cup lapsed

LEMMA InvParts == RemoteInv <=> ChannelOK /\ AccessTypeOK /\ \A s \in Sessions : Known(s)
BY DEF RemoteInv, RemoteTypeOK, ChannelOK, AccessTypeOK, PeersAreKnown, Known

LEMMA InvPartsNext == RemoteInv' <=> ChannelOK' /\ AccessTypeOK' /\ \A s \in Sessions : Known(s)'
BY DEF RemoteInv, RemoteTypeOK, ChannelOK, AccessTypeOK, PeersAreKnown, Known

\* Only what the channel does.
LEMMA ChannelStep ==
  ASSUME RemoteInv, ChannelOK', UNCHANGED accessVars
  PROVE RemoteInv'
<1>1. AccessTypeOK' /\ \A s \in Sessions : Known(s)'
  BY InvParts DEF accessVars, AccessTypeOK, Known, Open, Pending
<1> QED BY <1>1, InvPartsNext

\* Closing peers leaves the others as they were, and closes the channel at most.
LEMMA ClosingFact ==
  ASSUME RemoteInv, NEW S, ClosePeers(S)
  PROVE /\ ChannelOK' /\ peer' \in [Sessions -> PeerStates]
        /\ \A s \in Sessions : Open(s)' => Open(s) /\ s \notin S
<1>1. ChannelOK'
  BY InvParts, CloseKeeps, ServerKeeps DEF ClosePeers
<1>2. peer' \in [Sessions -> PeerStates]
  BY InvParts DEF ClosePeers, AccessTypeOK, PeerStates
<1>3. ASSUME NEW s \in Sessions, Open(s)' PROVE Open(s) /\ s \notin S
  BY <1>3 DEF ClosePeers, Open
<1> QED BY <1>1, <1>2, <1>3

LEMMA CloseSessionKeeps ==
  ASSUME RemoteInv, NEW s \in Sessions, CloseSession(s)
  PROVE RemoteInv'
<1>0. AccessTypeOK /\ \A t \in Sessions : Known(t)
  BY InvParts
<1>1. /\ ChannelOK' /\ peer' \in [Sessions -> PeerStates]
      /\ \A t \in Sessions : Open(t)' => Open(t) /\ t \notin {s}
  BY ClosingFact DEF CloseSession
<1>2. AccessTypeOK'
  BY <1>0, <1>1 DEF CloseSession, AccessTypeOK
<1>3. ASSUME NEW t \in Sessions PROVE Known(t)'
  <2>1. Known(t)
    BY <1>0
  <2> QED BY <1>0, <1>1, <2>1 DEF CloseSession, AccessTypeOK, Known, Pending
<1> QED BY <1>1, <1>2, <1>3, InvPartsNext

LEMMA PeerGoneKeeps ==
  ASSUME RemoteInv, NEW s \in Sessions, PeerGone(s)
  PROVE RemoteInv'
<1>0. AccessTypeOK /\ \A t \in Sessions : Known(t)
  BY InvParts
<1>1. /\ ChannelOK' /\ peer' \in [Sessions -> PeerStates]
      /\ \A t \in Sessions : Open(t)' => Open(t) /\ t \notin {s}
  BY ClosingFact DEF PeerGone
<1>2. AccessTypeOK'
  BY <1>0, <1>1 DEF PeerGone, AccessTypeOK
<1>3. ASSUME NEW t \in Sessions PROVE Known(t)'
  <2>1. Known(t)
    BY <1>0
  <2> QED BY <1>0, <1>1, <2>1 DEF PeerGone, AccessTypeOK, Known, Pending
<1> QED BY <1>1, <1>2, <1>3, InvPartsNext

\* stop() closes every peer that it knows; the ones it does not are lapsed.
LEMMA StopKeeps ==
  ASSUME RemoteInv, Stop
  PROVE RemoteInv'
<1>0. AccessTypeOK /\ \A t \in Sessions : Known(t)
  BY InvParts
<1>1. /\ ChannelOK' /\ peer' \in [Sessions -> PeerStates]
      /\ \A t \in Sessions : Open(t)' => Open(t) /\ t \notin Stopped
  BY ClosingFact DEF Stop
<1>2. AccessTypeOK'
  BY <1>0, <1>1 DEF Stop, AccessTypeOK
<1>3. ASSUME NEW t \in Sessions PROVE Known(t)'
  <2>1. Known(t)
    BY <1>0
  <2> QED BY <1>1, <2>1 DEF Stop, Stopped, Known
<1> QED BY <1>1, <1>2, <1>3, InvPartsNext

LEMMA SessionKeeps ==
  ASSUME RemoteInv, NEW s \in Sessions,
         AcceptIncoming(s) \/ AcceptSettles(s) \/ AcceptOffer(s) \/ SessionEnds(s) \/ Negotiated(s)
  PROVE RemoteInv'
<1>0. ChannelOK /\ AccessTypeOK /\ \A t \in Sessions : Known(t)
  BY InvParts
<1>1. CASE CloseSession(s)
  BY <1>1, CloseSessionKeeps
<1>2. ASSUME UNCHANGED channelVars PROVE ChannelOK'
  BY <1>0, <1>2, ServerKeeps
<1>3. CASE AcceptIncoming(s)
  <2>1. AccessTypeOK'
    BY <1>0, <1>3 DEF AcceptIncoming, AccessTypeOK
  <2>2. ASSUME NEW t \in Sessions PROVE Known(t)'
    <3>1. Known(t)
      BY <1>0
    <3> QED BY <1>0, <1>3, <3>1 DEF AcceptIncoming, AccessTypeOK, Known, Open, Pending
  <2> QED BY <1>2, <1>3, <2>1, <2>2, InvPartsNext DEF AcceptIncoming
<1>4. CASE AcceptSettles(s) /\ ~CloseSession(s)
  <2>1. AccessTypeOK'
    BY <1>0, <1>4 DEF AcceptSettles, AccessTypeOK
  <2>2. \A t \in Sessions : Known(t)'
    BY <1>0, <1>4 DEF AcceptSettles, Known, Open, Pending
  <2> QED BY <1>2, <1>4, <2>1, <2>2, InvPartsNext DEF AcceptSettles
<1>5. CASE AcceptOffer(s) /\ ~CloseSession(s)
  <2>1. AccessTypeOK'
    BY <1>0, <1>5 DEF AcceptOffer, AccessTypeOK, PeerStates
  <2>2. ASSUME NEW t \in Sessions PROVE Known(t)'
    <3>1. Known(t)
      BY <1>0
    <3> QED BY <1>0, <1>5, <3>1 DEF AcceptOffer, AccessTypeOK, Known, Open, Pending
  <2> QED BY <1>2, <1>5, <2>1, <2>2, InvPartsNext DEF AcceptOffer
<1>6. CASE Negotiated(s) /\ ~CloseSession(s)
  <2>1. AccessTypeOK'
    BY <1>0, <1>6 DEF Negotiated, Kept, AccessTypeOK
  <2>2. ASSUME NEW t \in Sessions PROVE Known(t)'
    <3>1. Known(t)
      BY <1>0
    <3> QED BY <1>0, <1>6, <3>1 DEF Negotiated, Kept, AccessTypeOK, Known, Open, Pending
  <2> QED BY <1>2, <1>6, <2>1, <2>2, InvPartsNext DEF Negotiated
<1> QED BY <1>1, <1>3, <1>4, <1>5, <1>6 DEF SessionEnds

\* A connection that is interrupted after its rendezvous is forgotten for good.
LEMMA PeerChangesKeeps ==
  ASSUME RemoteInv, NEW s \in Sessions, NEW to \in PeerStates, PeerChanges(s, to)
  PROVE RemoteInv'
<1>0. ChannelOK /\ AccessTypeOK /\ \A t \in Sessions : Known(t)
  BY InvParts
<1>1. ChannelOK'
  BY <1>0, ServerKeeps DEF PeerChanges
<1>2. AccessTypeOK'
  BY <1>0 DEF PeerChanges, AccessTypeOK
<1>3. Open(s)
  BY DEF PeerChanges, Follows, Open
<1>4. ASSUME NEW t \in Sessions PROVE Known(t)'
  <2>1. Known(t) /\ Known(s)
    BY <1>0
  <2>2. CASE t = s
    BY <1>0, <1>3, <2>1, <2>2 DEF PeerChanges, AccessTypeOK, Known, Pending
  <2>3. CASE t # s
    BY <1>0, <2>1, <2>3 DEF PeerChanges, AccessTypeOK, Known, Open, Pending
  <2> QED BY <2>2, <2>3
<1> QED BY <1>1, <1>2, <1>4, InvPartsNext

LEMMA SocketKeeps ==
  ASSUME RemoteInv, Socket
  PROVE RemoteInv'
<1>0. ChannelOK /\ AccessTypeOK /\ \A t \in Sessions : Known(t)
  BY InvParts
<1>1. ChannelOK'
  BY <1>0, ServerKeeps DEF Socket
<1>2. AccessTypeOK'
  BY <1>0 DEF Socket, AccessTypeOK
<1>3. \A t \in Sessions : Known(t)'
  BY <1>0 DEF Socket, Known, Open, Pending
<1> QED BY <1>1, <1>2, <1>3, InvPartsNext

-----------------------------------------------------------------------------
(* The theorems *)

LEMMA RemoteInvStep == RemoteInv /\ [RemoteNext]_remoteVars => RemoteInv'
<1> SUFFICES ASSUME RemoteInv, [RemoteNext]_remoteVars PROVE RemoteInv'
  OBVIOUS
<1>0. ChannelOK
  BY InvParts
<1>1. CASE UNCHANGED remoteVars
  <2>1. ChannelOK' /\ UNCHANGED accessVars
    BY <1>0, <1>1, ServerKeeps DEF remoteVars
  <2> QED BY <2>1, ChannelStep
<1>2. ASSUME NEW s \in Sessions,
             AcceptIncoming(s) \/ AcceptSettles(s) \/ AcceptOffer(s) \/ SessionEnds(s) \/ Negotiated(s)
      PROVE RemoteInv'
  BY <1>2, SessionKeeps
<1>3. ASSUME NEW s \in Sessions, PeerGone(s) \/ ConnectTimeout(s) PROVE RemoteInv'
  BY <1>3, PeerGoneKeeps DEF ConnectTimeout
<1>4. ASSUME NEW s \in Sessions, NEW to \in PeerStates, PeerChanges(s, to) PROVE RemoteInv'
  BY <1>4, PeerChangesKeeps
<1>5. CASE AdoptChannel
  BY <1>0, <1>5, ServerKeeps, ChannelStep DEF AdoptChannel
<1>6. CASE ChannelCloses \/ Deadline
  BY <1>0, <1>6, CloseKeeps, ChannelStep DEF ChannelCloses, Deadline, ProofTimeout
<1>7. CASE FrameArrives
  BY <1>0, <1>7, FrameKeeps, ChannelStep DEF FrameArrives
<1>8. ASSUME NEW n \in Runs, RequestStep(n) PROVE RemoteInv'
  BY <1>0, <1>8, RunStepKeeps, ChannelStep DEF RequestStep
<1>9. CASE Socket
  BY <1>9, SocketKeeps
<1>10. CASE Stop
  BY <1>10, StopKeeps
<1> QED BY <1>1, <1>2, <1>3, <1>4, <1>5, <1>6, <1>7, <1>8, <1>9, <1>10 DEF RemoteNext

LEMMA RemoteInvariance == RemoteSpec => []RemoteInv
<1>1. RemoteInit => RemoteInv
  <2> SUFFICES ASSUME RemoteInit PROVE RemoteInv
    OBVIOUS
  <2>1. ChannelOK
    BY ChannelStarts DEF RemoteInit
  <2>2. AccessTypeOK /\ \A s \in Sessions : Known(s)
    BY DEF RemoteInit, AccessTypeOK, PeerStates, Known, Open
  <2> QED BY <2>1, <2>2, InvParts
<1> QED BY <1>1, RemoteInvStep, PTL DEF RemoteSpec

\* However frames, cancellations and the end of the channel fall between the
\* steps of the requests in service, the adapter (channelServer.ts) sends at
\* most one final answer for a request, and at most two when its body was
\* bad: for any number of ids, requests and sessions.
THEOREM AnsweredOnceTheorem == RemoteSpec => []AnsweredOnce
<1>1. RemoteInv => AnsweredOnce
  BY DEF RemoteInv, ChannelInv, RunInv, AnsweredOnce
<1> QED BY <1>1, RemoteInvariance, PTL

\* Whatever order the control plane, the device and the ICE stack keep, a peer
\* connection that is open (nodePeer.ts) is reached by its pending session or by
\* activePeers (nodeSignalingClient.ts), unless it was disconnected after its
\* rendezvous.
THEOREM PeersAreKnownTheorem == RemoteSpec => []PeersAreKnown
<1>1. RemoteInv => PeersAreKnown
  BY DEF RemoteInv
<1> QED BY <1>1, RemoteInvariance, PTL

=============================================================================
