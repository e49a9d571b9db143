-------------------------- MODULE JobRuntimeProofs --------------------------
(***************************************************************************)
(* The job runtime, for any number of jobs, captures and requests, any     *)
(* number of crashes of the node and of restarts of the worker: its types, *)
(* the inductive invariant of a job, what a step has to leave alone to     *)
(* keep it, one lemma per kind of step, and the theorems.                  *)
(***************************************************************************)
EXTENDS JobRuntime, TLAPS

\* A leaf is first-order reasoning unless it says otherwise.
USE Zenon

-----------------------------------------------------------------------------
(* Types *)

\* The idle request is a request.
LEMMA IdleRequest == NoRequest \in [pc: RequestPcs, capture: Captures \cup {NoCapture}]
  BY DEF NoRequest, RequestPcs

\* The initial state of the job runtime is of the right type.
LEMMA TypeInit == Init => TypeOK
<1> SUFFICES ASSUME Init PROVE TypeOK
  OBVIOUS
<1> USE LegacyAssumption, InstancesAssumption, CrashAssumption DEF Init
<1>1. WorkerTypeOK
  <2>1. 1 \in Instances
    BY SMT DEF Instances
  <2> QED
    BY <2>1 DEF WorkerTypeOK, Attempts
<1>2. CleanupTypeOK
  BY DEF CleanupTypeOK, JobStates, Waiting, JournalStates, ReleasePcs
<1>3. request \in [Requests -> [pc: RequestPcs, capture: Captures \cup {NoCapture}]]
  BY IdleRequest
<1>4. captureOf \in [Jobs -> Captures \cup {NoCapture}] /\ started \in SUBSET Jobs
  OBVIOUS
<1>5. crashes \in 0..MaxCrashes /\ submits \in [Jobs -> Nat]
  BY SMT
<1>6. task \in [Jobs -> TaskPcs] /\ \A j \in Jobs : task[j] \notin KnowsInstance
  BY DEF TaskPcs, KnowsInstance
<1>7. seen \in [Jobs -> Instances \cup {0}]
  OBVIOUS
<1>8. quiesce \in [Jobs -> {"no", "wait", "settle", "granted"}]
  OBVIOUS
<1>9. /\ node \in {"down", "boot", "up"} /\ wake \in BOOLEAN
      /\ aborted \in SUBSET Jobs /\ sweep \in SUBSET Jobs
  OBVIOUS
<1> HIDE DEF Init
<1> QED
  BY <1>1, <1>2, <1>3, <1>4, <1>5, <1>6, <1>7, <1>8, <1>9 DEF TypeOK

\* Types of the node's variables, of its runs and of its calls.
NodeTypeOK ==
  /\ captureOf \in [Jobs -> Captures \cup {NoCapture}]
  /\ node \in {"down", "boot", "up"}
  /\ crashes \in 0..MaxCrashes
  /\ wake \in BOOLEAN
  /\ sweep \in SUBSET Jobs
  /\ request \in [Requests -> [pc: RequestPcs, capture: Captures \cup {NoCapture}]]

TaskTypeOK ==
  /\ started \in SUBSET Jobs
  /\ task \in [Jobs -> TaskPcs]
  /\ aborted \in SUBSET Jobs

CallTypeOK ==
  /\ seen \in [Jobs -> Instances \cup {0}]
  /\ quiesce \in [Jobs -> {"no", "wait", "settle", "granted"}]
  /\ submits \in [Jobs -> Nat]

Informed == \A j \in Jobs : task[j] \in KnowsInstance => seen[j] # 0

\* TypeOK in groups of variables that change together.
LEMMA TypeGroups ==
  /\ TypeOK <=> /\ WorkerTypeOK /\ CleanupTypeOK
                /\ NodeTypeOK /\ TaskTypeOK /\ CallTypeOK /\ Informed
  /\ TypeOK' <=> /\ WorkerTypeOK' /\ CleanupTypeOK'
                 /\ NodeTypeOK' /\ TaskTypeOK' /\ CallTypeOK' /\ Informed'
  BY DEF TypeOK, NodeTypeOK, TaskTypeOK, CallTypeOK, Informed

\* A group of variables that does not change keeps its type.
LEMMA TypesStay ==
  ASSUME TypeOK
  PROVE  /\ UNCHANGED workerVars => WorkerTypeOK'
         /\ UNCHANGED cleanupVars => CleanupTypeOK'
         /\ UNCHANGED nodeVars => NodeTypeOK'
         /\ UNCHANGED <<started, task, aborted>> => TaskTypeOK'
         /\ UNCHANGED callVars => CallTypeOK'
         /\ UNCHANGED <<task, seen>> => Informed'
<1> USE TypeGroups
<1>1. UNCHANGED workerVars => WorkerTypeOK'
  BY DEF WorkerTypeOK, workerVars, serverVars
<1>2. UNCHANGED cleanupVars => CleanupTypeOK'
  BY DEF CleanupTypeOK, cleanupVars, recordVars, releaseVars
<1>3. UNCHANGED nodeVars => NodeTypeOK'
  BY DEF NodeTypeOK, nodeVars
<1>4. UNCHANGED <<started, task, aborted>> => TaskTypeOK'
  BY DEF TaskTypeOK
<1>5. UNCHANGED callVars => CallTypeOK'
  BY DEF CallTypeOK, callVars
<1>6. UNCHANGED <<task, seen>> => Informed'
  BY DEF Informed
<1> QED
  BY <1>1, <1>2, <1>3, <1>4, <1>5, <1>6

\* Changing a function at one point to a value of its range keeps its type.
LEMMA Update ==
  ASSUME NEW S, NEW T, NEW f \in [S -> T], NEW s \in S, NEW v \in T
  PROVE  [f EXCEPT ![s] = v] \in [S -> T]
  OBVIOUS

\* A run that moves to a step of its code keeps the types of the runs.
LEMMA RunGoes ==
  ASSUME TypeOK, NEW j \in Jobs, NEW to \in TaskPcs, Goto(j, to),
         to \in KnowsInstance => seen[j] # 0
  PROVE  /\ task' \in [Jobs -> TaskPcs]
         /\ UNCHANGED <<started, aborted>> => TaskTypeOK'
         /\ UNCHANGED seen => Informed'
<1> USE TypeGroups DEF Goto
<1>1. task' \in [Jobs -> TaskPcs]
  BY Update DEF TaskTypeOK
<1>2. \A k \in Jobs : task'[k] = IF k = j THEN to ELSE task[k]
  BY DEF TaskTypeOK
<1>3. UNCHANGED seen => Informed'
  BY <1>2 DEF Informed
<1> QED
  BY <1>1, <1>3 DEF TaskTypeOK

\* The steps of run() that only move keep the types.
LEMMA MoveTypes ==
  ASSUME TypeOK, NEW j \in Jobs, NEW from, NEW to \in TaskPcs, Moves(j, from, to),
         to \in KnowsInstance => from \in KnowsInstance
  PROVE  TypeOK'
<1>1. to \in KnowsInstance => seen[j] # 0
  BY TypeGroups DEF Moves, Informed
<1>2. TaskTypeOK' /\ Informed'
  BY <1>1, RunGoes DEF Moves, callVars
<1> QED
  BY <1>2, TypeGroups, TypesStay DEF Moves

\* A change of a job's state to one its code knows keeps the types of the
\* cleanup journal; so does a step of a release.
LEMMA CleanupTypes ==
  ASSUME TypeOK, NEW j \in Jobs
  PROVE  /\ \A s \in JobStates :
              state' = [state EXCEPT ![j] = s] /\ UNCHANGED <<recordVars, releaseVars>>
                => CleanupTypeOK'
         /\ Reconcile(j) /\ UNCHANGED <<state, recordVars>> => CleanupTypeOK'
         /\ \A pc \in ReleasePcs : Advance(j, pc) => CleanupTypeOK'
         /\ \A o \in JournalStates : Record(j, o) => CleanupTypeOK'
         /\ Own(j) => CleanupTypeOK'
         /\ \A i \in Nat : MarkWorkerAttempt(j, i) => CleanupTypeOK'
<1> USE TypeGroups DEF CleanupTypeOK
<1>1. ASSUME NEW s \in JobStates, state' = [state EXCEPT ![j] = s],
             UNCHANGED <<recordVars, releaseVars>>
      PROVE  CleanupTypeOK'
  <2>1. state' \in [Jobs -> JobStates]
    BY <1>1
  <2> QED
    BY <1>1, <2>1 DEF recordVars, releaseVars
<1>2. ASSUME Reconcile(j), UNCHANGED <<state, recordVars>> PROVE CleanupTypeOK'
  <2>1. boundTo[j] \in Nat
    OBVIOUS
  <2>2. (IF j \in attempted THEN "cancel" ELSE "remove") \in ReleasePcs
    BY DEF ReleasePcs
  <2>3. rel' \in [Jobs -> ReleasePcs]
    BY <1>2, <2>2 DEF Reconcile, releaseVars
  <2>4. asked' \in [Jobs -> Nat]
    BY <1>2, <2>1 DEF Reconcile, releaseVars
  <2> QED
    BY <1>2, <2>3, <2>4 DEF recordVars
<1>3. ASSUME NEW pc \in ReleasePcs, Advance(j, pc) PROVE CleanupTypeOK'
  <2>1. rel' \in [Jobs -> ReleasePcs]
    BY <1>3 DEF Advance
  <2> QED
    BY <1>3, <2>1 DEF Advance, recordVars
<1>4. ASSUME NEW o \in JournalStates, Record(j, o) PROVE CleanupTypeOK'
  <2>1. "idle" \in ReleasePcs
    BY DEF ReleasePcs
  <2>2. 0 \in Nat
    BY SMT
  <2>3. journal' \in [Jobs -> JournalStates]
    BY <1>4 DEF Record
  <2>4. rel' \in [Jobs -> ReleasePcs]
    BY <1>4, <2>1 DEF Record
  <2>5. asked' \in [Jobs -> Nat]
    BY <1>4, <2>2 DEF Record
  <2> QED
    BY <1>4, <2>3, <2>4, <2>5 DEF Record
<1>5. Own(j) => CleanupTypeOK'
  <2>1. "pending" \in JournalStates
    BY DEF JournalStates
  <2> QED
    BY <2>1, Update, ZenonT(30) DEF Own, releaseVars
<1>6. ASSUME NEW i \in Nat, MarkWorkerAttempt(j, i) PROVE CleanupTypeOK'
  <2>1. boundTo' \in [Jobs -> Nat]
    BY <1>6 DEF MarkWorkerAttempt
  <2> QED
    BY <1>6, <2>1 DEF MarkWorkerAttempt, releaseVars
<1> HIDE DEF CleanupTypeOK
<1> QED
  BY <1>1, <1>2, <1>3, <1>4, <1>5, <1>6

\* Every step of a run keeps the types.
LEMMA TaskTypes ==
  ASSUME TypeOK, NEW j \in Jobs, TaskStep(j) PROVE TypeOK'
<1>1. /\ {"own", "auth", "mark", "importing", "import", "finish", "final", "catch"} \subseteq TaskPcs
      /\ {"health", "mkdir", "begin", "dataset", "stages", "post", "await", "joined", "none"} \subseteq TaskPcs
  BY DEF TaskPcs, Preparing
<1>2. /\ \A pc \in {"own", "health", "importing", "import", "finish", "final", "catch", "joined", "none"} : pc \notin KnowsInstance
      /\ {"mkdir", "begin", "dataset", "stages", "auth", "mark", "post"} \subseteq KnowsInstance
  BY DEF KnowsInstance
<1>3. {"running", "completed", "failed", "cancelled"} \subseteq JobStates
  BY DEF JobStates, Waiting, Terminal
<1>4. CASE ReturnsEarly(j) \/ Throws(j)
  BY <1>1, <1>2, <1>4, MoveTypes DEF ReturnsEarly, Throws
<1>5. CASE \/ PassesGate(j) \/ ReportsStages(j) \/ IsAuthorized(j)
           \/ GetsOutput(j) \/ BeginsImport(j) \/ Imports(j)
  BY <1>1, <1>2, <1>5, MoveTypes DEF PassesGate, ReportsStages, IsAuthorized, GetsOutput,
     BeginsImport, Imports
<1>6. CASE OwnsDirectory(j)
  <2>1. TaskTypeOK' /\ Informed'
    BY <1>1, <1>2, <1>6, RunGoes DEF OwnsDirectory, callVars
  <2> QED
    BY <1>6, <2>1, TypeGroups, TypesStay, CleanupTypes DEF OwnsDirectory
<1>7. CASE ReadsHealth(j)
  <2>1. instance \in Instances \cup {0} /\ instance # 0
    BY TypeOK, InstancesAssumption, SMT DEF TypeOK, WorkerTypeOK, Instances
  <2>2. task' \in [Jobs -> TaskPcs] /\ seen' \in [Jobs -> Instances \cup {0}]
    BY <1>1, <1>7, <2>1, TypeGroups, Update DEF ReadsHealth, Goto, TaskTypeOK, CallTypeOK
  <2>3. \A k \in Jobs : /\ task'[k] = IF k = j THEN "mkdir" ELSE task[k]
                        /\ seen'[k] = IF k = j THEN instance ELSE seen[k]
    BY <1>7, TypeGroups DEF ReadsHealth, Goto, TaskTypeOK, CallTypeOK
  <2>4. Informed'
    BY <2>1, <2>3, TypeGroups DEF Informed
  <2>5. TaskTypeOK' /\ CallTypeOK'
    BY <1>7, <2>2, TypeGroups DEF ReadsHealth, TaskTypeOK, CallTypeOK
  <2> QED
    BY <1>7, <2>4, <2>5, TypeGroups, TypesStay DEF ReadsHealth
<1>8. CASE MakesDirectory(j) \/ BuildsDataset(j)
  <2>1. seen[j] # 0
    BY <1>2, <1>8, TypeGroups DEF MakesDirectory, BuildsDataset, Informed
  <2>2. TaskTypeOK' /\ Informed'
    BY <1>1, <1>8, <2>1, RunGoes DEF MakesDirectory, BuildsDataset, callVars
  <2>3. WorkerTypeOK'
    BY <1>8, TypeGroups DEF MakesDirectory, BuildsDataset, WorkerTypeOK, serverVars
  <2> QED
    BY <1>8, <2>2, <2>3, TypeGroups, TypesStay DEF MakesDirectory, BuildsDataset
<1>9. CASE Begins(j)
  <2>1. seen[j] # 0
    BY <1>2, <1>9, TypeGroups DEF Begins, Informed
  <2>2. task' \in [Jobs -> TaskPcs] /\ Informed'
    BY <1>1, <1>9, <2>1, RunGoes DEF Begins, callVars
  <2>3. TaskTypeOK'
    BY <1>9, <2>2, TypeGroups DEF Begins, TaskTypeOK
  <2>4. CleanupTypeOK'
    BY <1>3, <1>9, CleanupTypes DEF Begins, PatchJob
  <2> QED
    BY <1>9, <2>2, <2>3, <2>4, TypeGroups, TypesStay DEF Begins
<1>10. CASE MarksAttempt(j)
  <2>1. seen[j] # 0
    BY <1>2, <1>10, TypeGroups DEF MarksAttempt, Informed
  <2>2. seen[j] \in Nat
    BY SMT DEF TypeOK, Instances
  <2>3. TaskTypeOK' /\ Informed'
    BY <1>1, <1>10, <2>1, RunGoes DEF MarksAttempt, callVars
  <2>4. CleanupTypeOK'
    BY <1>10, <2>2, CleanupTypes DEF MarksAttempt
  <2> QED
    BY <1>10, <2>3, <2>4, TypeGroups, TypesStay DEF MarksAttempt
<1>11. CASE Submits(j)
  <2>1. seen[j] # 0 /\ seen[j] \in Instances \cup {0}
    BY <1>2, <1>11, TypeGroups DEF Submits, Informed, CallTypeOK
  <2>2. TaskTypeOK' /\ Informed'
    BY <1>1, <1>11, <2>1, RunGoes DEF Submits
  <2>3. WorkerTypeOK'
    <3>1. reply' \in [Jobs -> {"none", "ok", "error"}]
      BY <1>11, TypeGroups DEF Submits, WorkerTypeOK
    <3>2. <<j, seen[j]>> \in Attempts
      BY <2>1 DEF Attempts
    <3>3. inbox' \in SUBSET Attempts
      BY <1>11, <3>2, TypeGroups DEF Submits, WorkerTypeOK
    <3> QED
      BY <1>11, <3>1, <3>3, TypeGroups DEF Submits, WorkerTypeOK
  <2>4. submits' \in [Jobs -> Nat]
    BY <1>11, SMT DEF Submits, TypeOK
  <2>5. CallTypeOK'
    BY <1>11, <2>4, TypeGroups DEF Submits, CallTypeOK
  <2> QED
    BY <1>11, <2>2, <2>3, <2>5, TypeGroups, TypesStay DEF Submits
<1>12. CASE Completes(j) \/ Catches(j)
  <2>1. TaskTypeOK' /\ Informed'
    BY <1>1, <1>2, <1>12, RunGoes DEF Completes, Catches, callVars
  <2>2. CleanupTypeOK'
    BY <1>3, <1>12, CleanupTypes, TypesStay DEF Completes, Catches, PatchJob, cleanupVars
  <2> QED
    BY <1>12, <2>1, <2>2, TypeGroups, TypesStay DEF Completes, Catches
<1>13. CASE ReconcilesAtEnd(j)
  <2>1. TaskTypeOK' /\ Informed'
    BY <1>1, <1>2, <1>13, RunGoes DEF ReconcilesAtEnd, callVars
  <2>2. CleanupTypeOK'
    BY <1>13, CleanupTypes DEF ReconcilesAtEnd
  <2> QED
    BY <1>13, <2>1, <2>2, TypeGroups, TypesStay DEF ReconcilesAtEnd
<1>14. CASE TaskEnds(j)
  <2>1. task' \in [Jobs -> TaskPcs] /\ seen' \in [Jobs -> Instances \cup {0}]
    BY <1>1, <1>14, TypeGroups, Update DEF TaskEnds, Goto, TaskTypeOK, CallTypeOK
  <2>2. \A k \in Jobs : /\ task'[k] = IF k = j THEN "none" ELSE task[k]
                        /\ seen'[k] = IF k = j THEN 0 ELSE seen[k]
    BY <1>14, TypeGroups DEF TaskEnds, Goto, TaskTypeOK, CallTypeOK
  <2>3. Informed'
    BY <1>2, <2>2, TypeGroups DEF Informed
  <2>4. TaskTypeOK' /\ CallTypeOK'
    BY <1>14, <2>1, TypeGroups DEF TaskEnds, TaskTypeOK, CallTypeOK
  <2>5. NodeTypeOK'
    BY <1>14, TypeGroups DEF TaskEnds, NodeTypeOK
  <2> QED
    BY <1>14, <2>3, <2>4, <2>5, TypeGroups, TypesStay DEF TaskEnds
<1> QED
  BY <1>4, <1>5, <1>6, <1>7, <1>8, <1>9, <1>10, <1>11, <1>12, <1>13, <1>14 DEF TaskStep

\* Every step of a release and of the worker keeps the types.
LEMMA ReleaseTypes ==
  ASSUME TypeOK, UNCHANGED runVars,
         \/ \E j \in Jobs : ReleaseStep(j)
         \/ WorkerStep /\ UNCHANGED cleanupVars
  PROVE  TypeOK'
<1>1. NodeTypeOK' /\ TaskTypeOK' /\ CallTypeOK' /\ Informed'
  BY TypesStay DEF runVars, callVars
<1>2. ASSUME NEW j \in Jobs, ReleaseStep(j) PROVE WorkerTypeOK' /\ CleanupTypeOK'
  <2>1. {"quiesce", "remove", "block", "complete"} \subseteq ReleasePcs
    BY DEF ReleasePcs
  <2>2. CASE CancelArrives(j) \/ CancelFails(j) \/ RemoveOwnedWorkDirectory(j)
    <3>1. WorkerTypeOK'
      BY <2>2, TypeGroups DEF CancelArrives, CancelFails, RemoveOwnedWorkDirectory,
         WorkerTypeOK, serverVars
    <3> QED
      BY <2>1, <2>2, <3>1, CleanupTypes DEF CancelArrives, CancelFails,
         RemoveOwnedWorkDirectory
  <2>3. CASE Receipt(j) \/ RemovalFails(j)
    BY <2>1, <2>3, TypesStay, CleanupTypes DEF Receipt, RemovalFails
  <2>4. CASE RecordComplete(j) \/ RecordBlocked(j)
    <3>1. "complete" \in JournalStates /\ "blocked" \in JournalStates
      BY DEF JournalStates
    <3>2. journal[j] \in JournalStates
      BY TypeGroups DEF CleanupTypeOK
    <3> QED
      BY <2>4, <3>1, <3>2, TypesStay, CleanupTypes DEF RecordComplete, RecordBlocked
  <2> QED
    BY <1>2, <2>2, <2>3, <2>4 DEF ReleaseStep
<1>3. ASSUME WorkerStep, UNCHANGED cleanupVars PROVE WorkerTypeOK' /\ CleanupTypeOK'
  <2>1. ASSUME NEW j \in Jobs, Process(j) PROVE WorkerTypeOK'
    <3>1. PICK i \in Instances :
            /\ inbox' = inbox \ {<<j, i>>}
            /\ \/ active' = active \cup {<<j, i>>} /\ UNCHANGED reply
               \/ reply' = [reply EXCEPT ![j] = "error"] /\ UNCHANGED active
      BY <2>1 DEF Process
    <3>2. <<j, i>> \in Attempts
      BY DEF Attempts
    <3>3. active' \in SUBSET Attempts /\ inbox' \in SUBSET Attempts
      BY <3>1, <3>2, TypeGroups DEF WorkerTypeOK
    <3>4. reply' \in [Jobs -> {"none", "ok", "error"}]
      BY <3>1, TypeGroups DEF WorkerTypeOK
    <3> QED
      BY <2>1, <3>3, <3>4, TypeGroups DEF Process, WorkerTypeOK
  <2>2. ASSUME NEW j \in Jobs, WorkerWrites(j) PROVE WorkerTypeOK'
    BY <2>2, TypeGroups DEF WorkerWrites, WorkerTypeOK, serverVars
  <2>3. ASSUME NEW j \in Jobs, ProcessEnds(j) PROVE WorkerTypeOK'
    BY <2>3, TypeGroups, Update DEF ProcessEnds, WorkerTypeOK
  <2>4. ASSUME WorkerRestarts PROVE WorkerTypeOK'
    <3>1. instance' \in Instances
      BY <2>4, InstancesAssumption, SMT DEF WorkerRestarts, TypeOK, WorkerTypeOK, Instances
    <3> QED
      BY <2>4, <3>1, TypeGroups DEF WorkerRestarts, WorkerTypeOK
  <2> QED
    BY <1>3, <2>1, <2>2, <2>3, <2>4, TypesStay DEF WorkerStep
<1> QED
  BY <1>1, <1>2, <1>3, TypeGroups

\* The calls on a job keep the types: the sweep's, the cancellation and
\* ensureJobQuiescent.
LEMMA CallTypes ==
  ASSUME TypeOK, NEW j \in Jobs,
         SweepNext(j) \/ Cancel(j) \/ AskQuiescent(j) \/ QuiesceStep(j)
  PROVE  TypeOK'
<1>1. "cancelled" \in JobStates
  BY DEF JobStates, Terminal
<1>2. CASE SweepNext(j)
  <2>1. NodeTypeOK'
    BY <1>2, TypeGroups DEF SweepNext, NodeTypeOK
  <2> QED
    BY <1>2, <2>1, TypeGroups, TypesStay, CleanupTypes DEF SweepNext, callVars
<1>3. CASE Cancel(j)
  <2>1. TaskTypeOK'
    BY <1>3, TypeGroups DEF Cancel, CancelJob, TaskTypeOK
  <2>2. CleanupTypeOK'
    BY <1>1, <1>3, CleanupTypes DEF Cancel, CancelJob
  <2> QED
    BY <1>3, <2>1, <2>2, TypeGroups, TypesStay DEF Cancel, callVars
<1>4. CASE AskQuiescent(j)
  <2>1. TaskTypeOK'
    BY <1>4, TypeGroups DEF AskQuiescent, CancelJob, TaskTypeOK
  <2>2. CleanupTypeOK'
    BY <1>1, <1>4, CleanupTypes, TypesStay DEF AskQuiescent, CancelJob, cleanupVars
  <2>3. CallTypeOK'
    BY <1>4, TypeGroups, Update DEF AskQuiescent, CallTypeOK
  <2> QED
    BY <1>4, <2>1, <2>2, <2>3, TypeGroups, TypesStay DEF AskQuiescent
<1>5. CASE AwaitQuiescent(j)
  <2>1. CallTypeOK'
    BY <1>5, TypeGroups, Update DEF AwaitQuiescent, CallTypeOK
  <2>2. CleanupTypeOK'
    BY <1>5, CleanupTypes DEF AwaitQuiescent
  <2> QED
    BY <1>5, <2>1, <2>2, TypeGroups, TypesStay DEF AwaitQuiescent
<1>6. CASE GrantQuiescent(j)
  <2>1. CallTypeOK'
    BY <1>6, TypeGroups, Update DEF GrantQuiescent, CallTypeOK
  <2> QED
    BY <1>6, <2>1, TypeGroups, TypesStay DEF GrantQuiescent
<1> QED
  BY <1>2, <1>3, <1>4, <1>5, <1>6 DEF QuiesceStep

\* The steps of a request to create a job keep the types.
LEMMA RequestTypes ==
  ASSUME TypeOK, NEW r \in Requests, RequestStep(r) PROVE TypeOK'
<1> DEFINE R == [pc: RequestPcs, capture: Captures \cup {NoCapture}]
<1>1. request \in [Requests -> R]
  BY TypeGroups DEF NodeTypeOK
<1>2. request[r].capture \in Captures \cup {NoCapture}
  BY <1>1
<1>3. ASSUME NEW pc \in RequestPcs, NEW c \in Captures \cup {NoCapture}, RequestTo(r, pc, c)
      PROVE  request' \in [Requests -> R]
  <2>1. [pc |-> pc, capture |-> c] \in R
    OBVIOUS
  <2> HIDE DEF R
  <2> QED
    BY <1>1, <1>3, <2>1, Update DEF RequestTo
<1>4. {"idle", "lock", "inspect", "insert"} = RequestPcs
  BY DEF RequestPcs
<1>5. request' \in [Requests -> R]
  <2> HIDE DEF R
  <2>1. CASE Create(r)
    BY <1>3, <1>4, <2>1 DEF Create
  <2>2. CASE EnterExclusive(r)
    BY <1>2, <1>3, <1>4, <2>2 DEF EnterExclusive
  <2>3. CASE Inspected(r) \/ RequestFails(r) \/ Insert(r)
    BY <1>2, <1>3, <1>4, <2>3 DEF Inspected, RequestFails, Insert
  <2> QED
    BY <2>1, <2>2, <2>3 DEF RequestStep
<1>6. CASE Create(r) \/ EnterExclusive(r) \/ Inspected(r) \/ RequestFails(r)
  <2>1. NodeTypeOK'
    BY <1>5, <1>6, TypeGroups DEF Create, EnterExclusive, Inspected, RequestFails, NodeTypeOK
  <2> QED
    BY <1>6, <2>1, TypeGroups, TypesStay DEF Create, EnterExclusive, Inspected,
       RequestFails, callVars
<1>7. CASE Insert(r)
  <2>1. "queued" \in JobStates
    BY DEF JobStates, Waiting
  <2>2. captureOf' \in [Jobs -> Captures \cup {NoCapture}]
    BY <1>2, <1>7, TypeGroups, Update DEF Insert, NodeTypeOK
  <2>3. NodeTypeOK'
    BY <1>5, <1>7, <2>2, TypeGroups DEF Insert, NodeTypeOK
  <2>4. CleanupTypeOK'
    BY <1>7, <2>1, CleanupTypes, TypesStay DEF Insert, cleanupVars
  <2> QED
    BY <1>7, <2>3, <2>4, TypeGroups, TypesStay DEF Insert, callVars
<1> QED
  BY <1>6, <1>7 DEF RequestStep

\* Every step of the job runtime, of its worker and of its environment keeps
\* the types.
LEMMA TypeStep == TypeOK /\ [Next]_vars => TypeOK'
<1> SUFFICES ASSUME TypeOK, [Next]_vars PROVE TypeOK'
  OBVIOUS
<1>1. CASE Dispatch
  <2>1. "gate" \in TaskPcs /\ "gate" \notin KnowsInstance
    BY DEF TaskPcs, Preparing, KnowsInstance
  <2>2. task' = task \/ \E j \in Jobs : Goto(j, "gate")
    BY <1>1 DEF Dispatch, Goto
  <2>3. TaskTypeOK' /\ Informed'
    BY <1>1, <2>1, <2>2, RunGoes, TypesStay DEF Dispatch, callVars
  <2>4. NodeTypeOK'
    BY <1>1, TypeGroups DEF Dispatch, NodeTypeOK
  <2> QED
    BY <1>1, <2>3, <2>4, TypeGroups, TypesStay DEF Dispatch
<1>2. CASE Start
  <2>1. "failed" \in JobStates
    BY DEF JobStates, Terminal
  <2>2. state' \in [Jobs -> JobStates]
    BY <1>2, <2>1, TypeGroups DEF Start, CleanupTypeOK
  <2>3. CleanupTypeOK'
    BY <1>2, <2>2, TypeGroups DEF Start, CleanupTypeOK, recordVars, releaseVars
  <2>4. NodeTypeOK'
    BY <1>2, TypeGroups DEF Start, Unfinished, NodeTypeOK
  <2> QED
    BY <1>2, <2>3, <2>4, TypeGroups, TypesStay DEF Start, callVars
<1>3. CASE Started \/ ReconcileCleanup
  <2>1. NodeTypeOK'
    BY <1>3, TypeGroups DEF Started, ReconcileCleanup, Unfinished, NodeTypeOK
  <2> QED
    BY <1>3, <2>1, TypeGroups, TypesStay DEF Started, ReconcileCleanup, callVars
<1>4. CASE Crash
  <2>1. crashes' \in 0..MaxCrashes /\ 0 \in Nat
    BY <1>4, CrashAssumption, SMT DEF Crash, TypeOK
  <2>2. NodeTypeOK'
    BY <1>4, <2>1, IdleRequest, TypeGroups DEF Crash, NodeTypeOK
  <2>3. "none" \in TaskPcs /\ "none" \notin KnowsInstance /\ "idle" \in ReleasePcs
    BY DEF TaskPcs, KnowsInstance, ReleasePcs
  <2>4. TaskTypeOK' /\ Informed'
    BY <1>4, <2>3, TypeGroups DEF Crash, TaskTypeOK, Informed
  <2>5. CallTypeOK'
    BY <1>4, TypeGroups DEF Crash, CallTypeOK
  <2>6. CleanupTypeOK'
    BY <1>4, <2>1, <2>3, TypeGroups DEF Crash, CleanupTypeOK, recordVars
  <2> QED
    BY <1>4, <2>2, <2>4, <2>5, <2>6, TypeGroups, TypesStay DEF Crash
<1>5. CASE UNCHANGED vars
  BY <1>5, TypeGroups, TypesStay DEF vars, runVars, callVars
<1> QED
  BY <1>1, <1>2, <1>3, <1>4, <1>5, TaskTypes, ReleaseTypes, CallTypes, RequestTypes
     DEF Next, JobStep

\* Every reachable state of the job runtime is well typed: each job, journal
\* record, release, task and request has a state its code knows, and a run
\* never submits a job without knowing the worker's instance.
THEOREM TypeCorrect == Spec => []TypeOK
<1> QED
  BY TypeInit, TypeStep, PTL DEF Spec

-----------------------------------------------------------------------------
(* The node's phases *)

\* A node that is down does nothing.
NodeInv ==
  node = "down" =>
    /\ ~wake /\ sweep = {}
    /\ \A j \in Jobs : task[j] = "none" /\ rel[j] = "idle" /\ quiesce[j] = "no"
    /\ \A r \in Requests : request[r].pc = "idle"

\* Nothing runs in a node before it is started.
LEMMA NodeInit == Init => NodeInv
  BY SMT DEF Init, NodeInv, NoRequest

\* A crash stops everything that runs in the node, and what is stopped stays so
\* until the node is started again.
LEMMA NodeStep == TypeOK /\ NodeInv /\ [Next]_vars => NodeInv'
<1> SUFFICES ASSUME TypeOK, NodeInv, [Next]_vars, node' = "down" PROVE NodeInv'
  BY DEF NodeInv
<1>1. CASE Crash
  BY <1>1 DEF Crash, NodeInv, NoRequest
<1>2. ASSUME NEW j \in Jobs, TaskStep(j) PROVE NodeInv'
  <2>1. ASSUME ReturnsEarly(j) \/ Throws(j) PROVE node' = node /\ task[j] # "none"
    BY <2>1 DEF ReturnsEarly, Throws, Moves, Checks, Fallible,
       TaskPcs, Preparing, nodeVars
  <2>2. ASSUME \/ PassesGate(j) \/ ReportsStages(j) \/ IsAuthorized(j)
               \/ GetsOutput(j) \/ BeginsImport(j) \/ Imports(j)
        PROVE node' = node /\ task[j] # "none"
    BY <2>2 DEF PassesGate, ReportsStages, IsAuthorized, GetsOutput, BeginsImport,
       Imports, Moves, nodeVars
  <2>3. ASSUME \/ OwnsDirectory(j) \/ ReadsHealth(j) \/ MakesDirectory(j)
               \/ Begins(j) \/ BuildsDataset(j) \/ MarksAttempt(j)
        PROVE node' = node /\ task[j] # "none"
    BY <2>3 DEF OwnsDirectory, ReadsHealth, MakesDirectory, Begins, BuildsDataset,
       MarksAttempt, nodeVars
  <2>4. ASSUME \/ Submits(j) \/ Completes(j) \/ Catches(j) \/ ReconcilesAtEnd(j)
               \/ TaskEnds(j)
        PROVE node' = node /\ task[j] # "none"
    BY <2>4 DEF Submits, Completes, Catches, ReconcilesAtEnd, TaskEnds,
       nodeVars
  <2> QED
    BY <1>2, <2>1, <2>2, <2>3, <2>4 DEF TaskStep, NodeInv
<1>3. ASSUME NEW j \in Jobs,
             \/ SweepNext(j) \/ Cancel(j) \/ AskQuiescent(j) \/ QuiesceStep(j)
             \/ ReleaseStep(j) /\ UNCHANGED runVars
      PROVE NodeInv'
  <2>1. node' = node
    BY <1>3 DEF SweepNext, Cancel, AskQuiescent, QuiesceStep, AwaitQuiescent,
       GrantQuiescent, nodeVars, runVars
  <2>2. j \in sweep \/ quiesce[j] # "no" \/ rel[j] # "idle" \/ node = "up"
    BY <1>3 DEF SweepNext, Cancel, AskQuiescent, QuiesceStep, AwaitQuiescent,
       GrantQuiescent, ReleaseStep, CancelArrives, Receipt, CancelFails,
       RemoveOwnedWorkDirectory, RemovalFails, RecordComplete, RecordBlocked
  <2> QED
    BY <2>1, <2>2 DEF NodeInv
<1>4. ASSUME NEW r \in Requests, RequestStep(r) PROVE NodeInv'
  <2>1. node' = node /\ (node = "up" \/ request[r].pc # "idle")
    BY <1>4 DEF RequestStep, Create, EnterExclusive, Inspected, RequestFails, Insert
  <2> QED
    BY <2>1 DEF NodeInv
<1>5. CASE Dispatch \/ Start \/ Started \/ ReconcileCleanup
  <2>1. node' = "boot" \/ node' = "up" \/ (node' = node /\ wake)
    BY <1>5 DEF Dispatch, Start, Started, ReconcileCleanup
  <2> QED
    BY <2>1 DEF NodeInv
<1>6. CASE UNCHANGED <<cleanupVars, runVars>>
  BY <1>6 DEF NodeInv, cleanupVars, releaseVars, nodeVars, callVars, runVars
<1> QED
  BY <1>1, <1>2, <1>3, <1>4, <1>5, <1>6 DEF Next, JobStep, vars

-----------------------------------------------------------------------------
(* The inductive invariant, one job at a time *)

\* Between the journaling of the directory and that of the attempt.
Owned == {"health", "mkdir", "begin", "dataset", "stages", "auth", "mark"}
\* From the journaling of the attempt on.
Handed == {"post", "await", "importing", "import", "finish"}
\* The awaits of run() before its finally.
Working == {"gate", "own", "catch"} \cup Owned \cup Handed

\* Nothing of job j has reached, or is on its way to, the worker.
Untried(j) == \A i \in Instances : <<j, i>> \notin active /\ <<j, i>> \notin inbox

\* What stands in the journal, and what may exist because of it.
JournalInv(j) ==
  /\ journal[j] = "none" => /\ j \notin attempted
                            /\ task[j] \notin Owned \cup Handed
                            /\ rel[j] = "idle"
                            /\ j \in dirs => j \in Legacy
  /\ j \notin attempted => /\ submits[j] = 0
                           /\ task[j] \notin Handed
                           /\ j \notin Legacy => Untried(j)
  /\ task[j] \in Owned => j \notin attempted
  /\ task[j] = "post" => submits[j] = 0 /\ boundTo[j] = seen[j]
  /\ seen[j] <= instance
  /\ submits[j] <= 1

\* All the traffic of j is with the instance its record names, and that
\* instance is not a later one.
BindingInv(j) ==
  /\ j \notin Legacy => \A i \in Instances :
       <<j, i>> \in active \/ <<j, i>> \in inbox => i = boundTo[j]
  /\ \A i \in Instances : <<j, i>> \in inbox => i <= instance

\* Who may still act on a job that has ended.
EndInv(j) ==
  /\ state[j] \in Terminal /\ task[j] \in Working => state[j] = "cancelled"
  /\ state[j] = "absent" => task[j] = "none" /\ journal[j] = "none"
  /\ quiesce[j] # "no" => state[j] \in Terminal
  /\ quiesce[j] \in {"settle", "granted"} => task[j] = "none"
  /\ quiesce[j] = "granted" =>
       journal[j] = "complete" \/ (journal[j] = "none" /\ j \notin started)

\* Where a release stands, and what it has achieved.
ReleaseInv(j) ==
  /\ rel[j] # "idle" => state[j] \in Terminal /\ journal[j] \in {"pending", "blocked"}
  /\ rel[j] \in {"cancel", "quiesce"} => j \in attempted /\ asked[j] = boundTo[j]
  /\ rel[j] = "quiesce" => j \in marked
  /\ rel[j] \in {"remove", "complete"} => Quiet(j)
  /\ journal[j] = "complete" => state[j] \in Terminal /\ Quiet(j)

\* A job of an older release is never touched.
LegacyInv(j) ==
  j \in Legacy => /\ state[j] \in Terminal \cup {"running"}
                  /\ journal[j] = "none" /\ task[j] = "none"
                  /\ j \in started /\ j \in dirs

JobInv(j) ==
  JournalInv(j) /\ BindingInv(j) /\ EndInv(j) /\ ReleaseInv(j) /\ LegacyInv(j)

Inv == \A j \in Jobs : JobInv(j)

-----------------------------------------------------------------------------
(* What keeps it *)

\* What job k is in the worker, in the store, in its release and in its run is
\* not touched by the step.
SameServer(k) ==
  /\ instance' = instance
  /\ k \in marked' <=> k \in marked
  /\ \A i \in Instances : /\ <<k, i>> \in active' <=> <<k, i>> \in active
                          /\ <<k, i>> \in inbox' <=> <<k, i>> \in inbox

SameWorker(k) == SameServer(k) /\ (k \in dirs' <=> k \in dirs)

SameRecord(k) ==
  /\ journal'[k] = journal[k] /\ boundTo'[k] = boundTo[k]
  /\ k \in attempted' <=> k \in attempted

SameStore(k) ==
  /\ SameRecord(k)
  /\ state'[k] = state[k]
  /\ k \in started' <=> k \in started

SameRelease(k) == rel'[k] = rel[k] /\ asked'[k] = asked[k]

Keeps(k) ==
  seen'[k] = seen[k] /\ quiesce'[k] = quiesce[k] /\ submits'[k] = submits[k]

SameRun(k) == task'[k] = task[k] /\ Keeps(k)

SameJob(k) == SameWorker(k) /\ SameStore(k) /\ SameRelease(k) /\ SameRun(k)

\* A part of the state that does not change at all does not change for k.
LEMMA Unchanged ==
  ASSUME NEW k \in Jobs
  PROVE  /\ UNCHANGED serverVars => SameServer(k)
         /\ UNCHANGED workerVars => SameWorker(k)
         /\ UNCHANGED recordVars => SameRecord(k)
         /\ UNCHANGED releaseVars => SameRelease(k)
         /\ UNCHANGED callVars => Keeps(k)
  BY DEF serverVars, workerVars, recordVars, releaseVars, callVars,
     SameServer, SameWorker, SameRecord, SameRelease, Keeps

\* What the types say of the variables, with the sets left folded.
LEMMA StoreDomains ==
  ASSUME TypeOK
  PROVE  /\ state \in [Jobs -> JobStates] /\ journal \in [Jobs -> JournalStates]
         /\ boundTo \in [Jobs -> Nat]
  BY DEF TypeOK, CleanupTypeOK

\* The same for the releases.
LEMMA ReleaseDomains ==
  ASSUME TypeOK
  PROVE  rel \in [Jobs -> ReleasePcs] /\ asked \in [Jobs -> Nat]
  BY DEF TypeOK, CleanupTypeOK

\* The same for the runs.
LEMMA RunDomains ==
  ASSUME TypeOK
  PROVE  task \in [Jobs -> TaskPcs] /\ seen \in [Jobs -> Instances \cup {0}]
  BY DEF TypeOK

\* The same for the callers of ensureJobQuiescent and the number of requests.
LEMMA CallDomains ==
  ASSUME TypeOK
  PROVE  /\ instance \in Instances
         /\ quiesce \in [Jobs -> {"no", "wait", "settle", "granted"}]
         /\ submits \in [Jobs -> Nat]
  BY DEF TypeOK, WorkerTypeOK

\* A step that leaves the worker's side of k alone leaves it as quiet as it was.
LEMMA WorkerFrame ==
  ASSUME NEW k \in Jobs, SameServer(k)
  PROVE  /\ Quiet(k)' <=> Quiet(k)
         /\ Untried(k)' <=> Untried(k)
         /\ boundTo'[k] = boundTo[k] => (BindingInv(k)' <=> BindingInv(k))
<1> USE DEF SameServer
<1>1. Quiet(k)' <=> Quiet(k)
  BY DEF Quiet
<1>2. Untried(k)' <=> Untried(k)
  BY DEF Untried
<1>3. boundTo'[k] = boundTo[k] => (BindingInv(k)' <=> BindingInv(k))
  BY DEF BindingInv
<1> QED
  BY <1>1, <1>2, <1>3

\* The invariant of a job that a step does not touch is kept.
LEMMA Frame ==
  ASSUME NEW k \in Jobs, JobInv(k), SameJob(k)
  PROVE  JobInv(k)'
  BY WorkerFrame, ZenonT(30) DEF SameJob, JobInv, JournalInv, EndInv, LegacyInv, ReleaseInv, SameServer,
     SameWorker,     SameRecord, SameStore, SameRelease, SameRun, Keeps

\* run() enters no part of its course but from that part, and submits nothing.
Course(from, to) ==
  /\ from # "none" /\ to # "post"
  /\ to \in Owned => from \in Owned
  /\ to \in Handed => from \in Handed
  /\ to \in Working => from \in Working

\* The steps of run() that are of this kind.
LEMMA Courses ==
  /\ \A from \in Checks : Course(from, "final")
  /\ \A from \in Fallible : Course(from, "catch")
  /\ Course("gate", "own") /\ Course("health", "mkdir") /\ Course("mkdir", "begin")
  /\ Course("begin", "dataset") /\ Course("begin", "stages")
  /\ Course("dataset", "stages") /\ Course("dataset", "catch")
  /\ Course("stages", "auth") /\ Course("auth", "mark")
  /\ Course("await", "importing") /\ Course("importing", "import")
  /\ Course("import", "finish") /\ Course("finish", "final")
  /\ Course("catch", "final") /\ Course("joined", "none")
  BY DEF Course, Owned, Handed, Working, Checks, Fallible, TaskPcs, Preparing

\* run() changes the state of a job only while it works on it, and never that
\* of a cancelled one.
Patches(k) ==
  /\ task[k] \in Working /\ state[k] # "cancelled" /\ state'[k] # "absent"
  /\ state'[k] \in Terminal => task'[k] \notin Working

\* Such a step of run() keeps the invariant of its job.
LEMMA RunMoves ==
  ASSUME NEW k \in Jobs, JobInv(k), Course(task[k], task'[k]),
         SameServer(k), SameRecord(k), SameRelease(k),
         state'[k] = state[k] \/ Patches(k),
         k \in dirs' => k \in dirs \/ task[k] \in Owned,
         seen'[k] <= instance, quiesce'[k] = quiesce[k], submits'[k] = submits[k]
  PROVE  JobInv(k)'
<1>1. /\ state[k] \in Terminal => state'[k] = state[k]
      /\ state'[k] \in Terminal /\ task'[k] \in Working => state'[k] = "cancelled"
      /\ state'[k] = "absent" => state[k] = "absent"
      /\ k \notin Legacy /\ quiesce[k] \notin {"settle", "granted"}
  BY DEF JobInv, EndInv, LegacyInv, Course, Patches
<1>2. JournalInv(k)'
  BY WorkerFrame DEF JobInv, JournalInv, SameServer, SameRecord, SameRelease, Course
<1>3. EndInv(k)' /\ LegacyInv(k)'
  BY <1>1 DEF JobInv, EndInv, LegacyInv, SameRecord, Course
<1>4. ReleaseInv(k)' /\ BindingInv(k)'
  BY <1>1, WorkerFrame DEF JobInv, ReleaseInv, SameServer, SameRecord, SameRelease
<1> QED
  BY <1>2, <1>3, <1>4 DEF JobInv

\* The worker's side of k changes, but k does not become less quiet, and its
\* traffic stays with the instance it is bound to.
LEMMA WorkerMoves ==
  ASSUME NEW k \in Jobs, JobInv(k),
         SameStore(k), SameRelease(k), SameRun(k),
         Quiet(k) => Quiet(k)', Untried(k) => Untried(k)', BindingInv(k)',
         seen[k] <= instance', k \in marked => k \in marked',
         k \in dirs' => k \in dirs \/ k \in attempted \/ k \in Legacy,
         k \in dirs => k \in dirs'
  PROVE  JobInv(k)'
  BY ZenonT(30) DEF JobInv, JournalInv, EndInv, LegacyInv, ReleaseInv,
     SameRecord, SameStore, SameRelease, SameRun, Keeps

\* What a call of reconcile(k) does to the release of k.
Joins(k) ==
  \/ rel'[k] = rel[k] /\ asked'[k] = asked[k]
  \/ /\ rel[k] = "idle" /\ Releasable(k) /\ asked'[k] = boundTo[k]
     /\ rel'[k] = IF k \in attempted THEN "cancel" ELSE "remove"

\* reconcile(k) is such a call.
LEMMA Reconciling ==
  ASSUME TypeOK, NEW k \in Jobs, Reconcile(k)
  PROVE  Joins(k)
  BY ReleaseDomains DEF Reconcile, Joins, releaseVars

\* A release starts only for a job that has ended; if the worker was never
\* asked to do anything for the job, it is quiet already.
LEMMA ReleaseStarts ==
  ASSUME TypeOK, NEW k \in Jobs, JobInv(k), SameWorker(k), SameStore(k), Joins(k)
  PROVE  ReleaseInv(k)' /\ (journal'[k] = "none" => rel'[k] = "idle")
<1>1. CASE rel'[k] = rel[k] /\ asked'[k] = asked[k]
  BY <1>1, WorkerFrame DEF JobInv, JournalInv, ReleaseInv, SameServer, SameWorker, SameStore,
     SameRecord
<1>2. CASE /\ rel[k] = "idle" /\ Releasable(k) /\ asked'[k] = boundTo[k]
           /\ rel'[k] = IF k \in attempted THEN "cancel" ELSE "remove"
  <2>1. state[k] \in Terminal /\ journal[k] \in {"pending", "blocked"}
    BY <1>2, StoreDomains DEF Releasable, JobInv, EndInv, JobStates, Waiting,
       Terminal
  <2>2. k \notin attempted => Quiet(k)
    BY <2>1 DEF JobInv, JournalInv, LegacyInv, Untried, Quiet
  <2> QED
    BY <1>2, <2>1, <2>2, WorkerFrame DEF ReleaseInv, SameServer, SameWorker, SameStore, SameRecord
<1> QED
  BY <1>1, <1>2 DEF Joins

-----------------------------------------------------------------------------
(* The other jobs *)

\* A step for one job leaves the others alone.
LEMMA Others ==
  ASSUME TypeOK, NEW j \in Jobs, NEW k \in Jobs, j # k, JobStep(j)
  PROVE  SameJob(k)
<1> USE Unchanged DEF SameJob, SameStore, SameRun, cleanupVars
<1>1. ASSUME NEW from, NEW to, Moves(j, from, to) PROVE SameJob(k)
  BY <1>1, RunDomains DEF Moves, Goto
<1>2. ASSUME \/ ReturnsEarly(j) \/ Throws(j) \/ PassesGate(j) \/ ReportsStages(j)
             \/ IsAuthorized(j) \/ GetsOutput(j) \/ BeginsImport(j) \/ Imports(j)
      PROVE  SameJob(k)
  BY <1>1, <1>2 DEF ReturnsEarly, Throws, PassesGate, ReportsStages,
     IsAuthorized, GetsOutput, BeginsImport, Imports
<1>3. ASSUME OwnsDirectory(j) \/ MarksAttempt(j) PROVE SameJob(k)
  BY <1>3, StoreDomains, RunDomains DEF OwnsDirectory, Own, MarksAttempt,
     MarkWorkerAttempt, Goto, SameRecord
<1>4. ASSUME ReadsHealth(j) \/ TaskEnds(j) PROVE SameJob(k)
  BY <1>4, RunDomains DEF ReadsHealth, TaskEnds, Goto, Keeps
<1>5. ASSUME MakesDirectory(j) \/ BuildsDataset(j) PROVE SameJob(k)
  BY <1>5, RunDomains DEF MakesDirectory, BuildsDataset, Goto, SameWorker
<1>6. ASSUME Begins(j) \/ Completes(j) \/ Catches(j) PROVE SameJob(k)
  BY <1>6, StoreDomains, RunDomains DEF Begins, Completes, Catches, PatchJob, Goto
<1>7. ASSUME Submits(j) PROVE SameJob(k)
  BY <1>7, RunDomains, CallDomains DEF Submits, Goto, SameServer, SameWorker, Keeps
<1>8. ASSUME ReconcilesAtEnd(j) \/ SweepNext(j) \/ AwaitQuiescent(j) PROVE SameJob(k)
  <2>1. Reconcile(j) => SameRelease(k)
    BY ReleaseDomains DEF Reconcile, SameRelease
  <2> QED
    BY <1>8, <2>1, RunDomains, CallDomains DEF ReconcilesAtEnd, SweepNext,
       AwaitQuiescent, Goto, Keeps, callVars
<1>9. ASSUME Cancel(j) \/ AskQuiescent(j) PROVE SameJob(k)
  BY <1>9, StoreDomains, CallDomains DEF Cancel, AskQuiescent, CancelJob, Keeps
<1>10. ASSUME GrantQuiescent(j) PROVE SameJob(k)
  BY <1>10, CallDomains DEF GrantQuiescent, Keeps
<1>11. ASSUME CancelArrives(j) \/ CancelFails(j), UNCHANGED runVars PROVE SameJob(k)
  BY <1>11, ReleaseDomains DEF CancelArrives, CancelFails, Advance, runVars,
     SameServer, SameWorker, SameRelease
<1>12. ASSUME Receipt(j) \/ RemoveOwnedWorkDirectory(j) \/ RemovalFails(j),
              UNCHANGED runVars
       PROVE  SameJob(k)
  BY <1>12, ReleaseDomains DEF Receipt, RemoveOwnedWorkDirectory, RemovalFails,
     Advance, runVars, SameWorker, SameRelease
<1>13. ASSUME RecordComplete(j) \/ RecordBlocked(j), UNCHANGED runVars
       PROVE  SameJob(k)
  BY <1>13, StoreDomains, ReleaseDomains DEF RecordComplete, RecordBlocked,
     Record, runVars, SameRecord, SameRelease
<1> QED
  BY <1>2, <1>3, <1>4, <1>5, <1>6, <1>7, <1>8, <1>9, <1>10, <1>11, <1>12, <1>13
     DEF JobStep, TaskStep, ReleaseStep, QuiesceStep

-----------------------------------------------------------------------------
(* The steps of run() *)

\* run() keeps the invariant of its job, at each of its steps.
LEMMA TaskKeeps ==
  ASSUME TypeOK, NEW k \in Jobs, JobInv(k), TaskStep(k)
  PROVE  JobInv(k)'
<1>0. seen[k] <= instance /\ instance <= instance /\ 0 <= instance
  BY CallDomains, InstancesAssumption, SMT DEF JobInv, JournalInv, Instances
<1>1. ASSUME NEW from, NEW to, Moves(k, from, to), Course(from, to)
      PROVE  JobInv(k)'
  <2>1. /\ task[k] = from /\ task'[k] = to /\ state' = state
        /\ SameWorker(k) /\ SameRecord(k) /\ SameRelease(k) /\ Keeps(k)
    BY <1>1, RunDomains, Unchanged DEF Moves, Goto, cleanupVars
  <2> QED
    BY <1>0, <1>1, <2>1, RunMoves DEF SameWorker, Keeps
<1>2. ASSUME \/ ReturnsEarly(k) \/ Throws(k) \/ PassesGate(k) \/ ReportsStages(k)
             \/ IsAuthorized(k) \/ GetsOutput(k) \/ BeginsImport(k) \/ Imports(k)
      PROVE  JobInv(k)'
  BY <1>1, <1>2, Courses DEF ReturnsEarly, Throws, PassesGate,
     ReportsStages, IsAuthorized, GetsOutput, BeginsImport, Imports
<1>3. ASSUME OwnsDirectory(k) PROVE JobInv(k)'
  <2>1. /\ task[k] = "own" /\ journal[k] = "none"
        /\ task'[k] = "health" /\ journal'[k] = "pending"
        /\ state' = state /\ boundTo' = boundTo /\ attempted' = attempted
        /\ SameWorker(k) /\ SameRelease(k) /\ Keeps(k)
    BY <1>3, StoreDomains, RunDomains, Unchanged DEF OwnsDirectory, Own, Goto
  <2>2. k \notin attempted /\ rel[k] = "idle" /\ k \notin Legacy
    BY <2>1 DEF JobInv, JournalInv, LegacyInv
  <2>3. JournalInv(k)'
    BY <2>1, <2>2, WorkerFrame DEF JobInv, JournalInv, SameServer, SameWorker,
       Keeps, Owned, Handed
  <2>4. EndInv(k)' /\ LegacyInv(k)'
    BY <2>1, <2>2 DEF JobInv, EndInv, LegacyInv, Keeps, Working, Owned
  <2> QED
    BY <2>1, <2>2, <2>3, <2>4, WorkerFrame DEF JobInv, ReleaseInv, SameWorker,
       SameRelease
<1>4. ASSUME ReadsHealth(k) PROVE JobInv(k)'
  <2>1. /\ task[k] = "health" /\ task'[k] = "mkdir" /\ seen'[k] = instance
        /\ quiesce'[k] = quiesce[k] /\ submits'[k] = submits[k]
        /\ state' = state /\ SameWorker(k) /\ SameRecord(k) /\ SameRelease(k)
    BY <1>4, RunDomains, Unchanged DEF ReadsHealth, Goto, cleanupVars
  <2> QED
    BY <1>0, <2>1, Courses, RunMoves DEF SameWorker
<1>5. ASSUME MakesDirectory(k) PROVE JobInv(k)'
  <2>1. /\ task[k] = "mkdir" /\ task'[k] = "begin" /\ state' = state
        /\ SameServer(k) /\ SameRecord(k) /\ SameRelease(k) /\ Keeps(k)
    BY <1>5, RunDomains, Unchanged DEF MakesDirectory, Goto, cleanupVars
  <2> QED
    BY <1>0, <2>1, Courses, RunMoves DEF Keeps, Owned
<1>6. ASSUME BuildsDataset(k) PROVE JobInv(k)'
  <2>1. /\ task[k] = "dataset" /\ task'[k] \in {"stages", "catch"} /\ state' = state
        /\ SameServer(k) /\ SameRecord(k) /\ SameRelease(k) /\ Keeps(k)
    BY <1>6, RunDomains, Unchanged DEF BuildsDataset, Goto, cleanupVars
  <2> QED
    BY <1>0, <2>1, Courses, RunMoves DEF Keeps, Owned
<1>7. ASSUME Begins(k) PROVE JobInv(k)'
  <2>1. /\ task[k] = "begin" /\ task'[k] \in {"stages", "dataset"}
        /\ state[k] # "cancelled" /\ state'[k] = "running"
        /\ SameWorker(k) /\ SameRecord(k) /\ SameRelease(k) /\ Keeps(k)
    BY <1>7, StoreDomains, RunDomains, Unchanged DEF Begins, PatchJob, Goto
  <2>2. Patches(k)
    BY <2>1 DEF Patches, Terminal, Working, Owned
  <2> QED
    BY <1>0, <2>1, <2>2, Courses, RunMoves DEF SameWorker, Keeps
<1>8. ASSUME Completes(k) PROVE JobInv(k)'
  <2>1. /\ task[k] = "finish" /\ task'[k] = "final"
        /\ state[k] # "cancelled" /\ state'[k] = "completed"
        /\ SameWorker(k) /\ SameRecord(k) /\ SameRelease(k) /\ Keeps(k)
    BY <1>8, StoreDomains, RunDomains, Unchanged DEF Completes, PatchJob, Goto
  <2>2. Patches(k)
    BY <2>1 DEF Patches, Working, Owned, Handed
  <2> QED
    BY <1>0, <2>1, <2>2, Courses, RunMoves DEF SameWorker, Keeps
<1>9. ASSUME Catches(k) PROVE JobInv(k)'
  <2>1. /\ task[k] = "catch" /\ task'[k] = "final"
        /\ \/ state'[k] = state[k]
           \/ state[k] # "cancelled" /\ state'[k] \in {"cancelled", "failed"}
        /\ SameWorker(k) /\ SameRecord(k) /\ SameRelease(k) /\ Keeps(k)
    BY <1>9, StoreDomains, RunDomains, Unchanged DEF Catches, PatchJob, Goto
  <2>2. state'[k] = state[k] \/ Patches(k)
    BY <2>1 DEF Patches, Working, Owned, Handed
  <2> QED
    BY <1>0, <2>1, <2>2, Courses, RunMoves DEF SameWorker, Keeps
<1>10. ASSUME MarksAttempt(k) PROVE JobInv(k)'
  <2>1. /\ task[k] = "mark" /\ journal[k] # "none"
        /\ task'[k] = "post" /\ journal' = journal
        /\ k \in attempted' /\ boundTo'[k] = seen[k]
        /\ state' = state /\ started' = started
        /\ SameWorker(k) /\ SameRelease(k) /\ Keeps(k)
    BY <1>10, StoreDomains, RunDomains, Unchanged DEF MarksAttempt,
       MarkWorkerAttempt, Goto
  <2>2. /\ rel[k] \notin {"cancel", "quiesce"} /\ submits[k] = 0
        /\ submits[k] <= 1 /\ k \notin Legacy /\ Untried(k)
    BY <2>1 DEF JobInv, JournalInv, ReleaseInv, LegacyInv, Owned
  <2>3. Untried(k)' /\ (Quiet(k)' <=> Quiet(k))
    BY <2>1, <2>2, WorkerFrame DEF SameWorker
  <2>4. BindingInv(k)'
    BY <2>3 DEF BindingInv, Untried
  <2>5. JournalInv(k)'
    BY <1>0, <2>1, <2>2 DEF JournalInv, SameWorker, SameServer, Keeps, Owned
  <2>6. EndInv(k)' /\ LegacyInv(k)'
    BY <2>1, <2>2 DEF JobInv, EndInv, LegacyInv, Keeps, Working, Owned
  <2>7. ReleaseInv(k)'
    BY <2>1, <2>2, <2>3 DEF JobInv, ReleaseInv, SameRelease, SameServer, SameWorker
  <2> QED
    BY <2>4, <2>5, <2>6, <2>7 DEF JobInv
<1>11. ASSUME Submits(k) PROVE JobInv(k)'
  <2>1. /\ task[k] = "post" /\ state[k] # "cancelled"
        /\ task'[k] = "await" /\ submits'[k] = submits[k] + 1
        /\ seen' = seen /\ quiesce' = quiesce
        /\ SameStore(k) /\ SameRelease(k)
    BY <1>11, RunDomains, CallDomains, Unchanged DEF Submits, Goto, Stopped,
       cleanupVars, SameStore
  <2>2. /\ instance' = instance /\ marked' = marked /\ active' = active
        /\ inbox' = inbox \cup {<<k, seen[k]>>} /\ dirs' = dirs
    BY <1>11 DEF Submits
  <2>3. /\ k \in attempted /\ journal[k] # "none" /\ state[k] \notin Terminal
        /\ k \notin Legacy /\ submits[k] = 0 /\ boundTo[k] = seen[k]
    BY <2>1 DEF JobInv, JournalInv, EndInv, LegacyInv, Working, Handed
  <2>4. BindingInv(k)'
    BY <1>0, <2>1, <2>2, <2>3 DEF JobInv, BindingInv, SameStore, SameRecord
  <2>5. submits'[k] <= 1
    BY <2>1, <2>3, SMT
  <2>6. JournalInv(k)'
    BY <1>0, <2>1, <2>2, <2>3, <2>5 DEF JournalInv, SameStore, SameRecord, Owned, Handed
  <2>7. EndInv(k)' /\ LegacyInv(k)'
    BY <2>1, <2>3 DEF JobInv, EndInv, LegacyInv, SameStore, SameRecord
  <2>8. ReleaseInv(k)'
    BY <2>1, <2>3 DEF JobInv, ReleaseInv, SameStore, SameRecord, SameRelease
  <2> QED
    BY <2>4, <2>6, <2>7, <2>8 DEF JobInv
<1>12. ASSUME ReconcilesAtEnd(k) PROVE JobInv(k)'
  <2>1. /\ task[k] = "final" /\ task'[k] = "joined"
        /\ Joins(k) /\ SameWorker(k) /\ SameStore(k) /\ Keeps(k)
    BY <1>12, Reconciling, RunDomains, Unchanged DEF ReconcilesAtEnd, Goto, SameStore
  <2>2. ReleaseInv(k)' /\ (journal'[k] = "none" => rel'[k] = "idle")
    BY <2>1, ReleaseStarts
  <2>3. JournalInv(k)'
    BY <2>1, <2>2, WorkerFrame DEF JobInv, JournalInv, Owned, Handed, SameServer,
       SameWorker, SameRecord, SameStore, Keeps
  <2>4. EndInv(k)' /\ LegacyInv(k)'
    BY <2>1 DEF JobInv, EndInv, LegacyInv, SameRecord, SameStore, Keeps, Working,
       Owned, Handed
  <2> QED
    BY <2>1, <2>2, <2>3, <2>4, WorkerFrame DEF JobInv, SameWorker, SameStore, SameRecord
<1>13. ASSUME TaskEnds(k) PROVE JobInv(k)'
  <2>1. /\ task[k] = "joined" /\ task'[k] = "none" /\ seen'[k] = 0
        /\ quiesce'[k] = quiesce[k] /\ submits'[k] = submits[k]
        /\ state' = state /\ SameWorker(k) /\ SameRecord(k) /\ SameRelease(k)
    BY <1>13, RunDomains, Unchanged DEF TaskEnds, Goto, cleanupVars
  <2> QED
    BY <1>0, <2>1, Courses, RunMoves DEF SameWorker
<1> QED
  BY <1>2, <1>3, <1>4, <1>5, <1>6, <1>7, <1>8, <1>9, <1>10, <1>11, <1>12, <1>13
     DEF TaskStep

-----------------------------------------------------------------------------
(* The inductive invariant *)

\* The invariant holds when the node is started for the first time.
LEMMA InvInit == Init => Inv
<1> SUFFICES ASSUME Init, NEW j \in Jobs
             PROVE JobInv(j)
  BY DEF Inv
<1> USE LegacyAssumption, InstancesAssumption DEF Init, Instances, Terminal
<1>1. JournalInv(j)
  BY SMT DEF JournalInv, Untried, Owned, Handed
<1>2. BindingInv(j)
  BY DEF BindingInv
<1>3. EndInv(j)
  BY DEF EndInv, Working
<1>4. ReleaseInv(j) /\ LegacyInv(j)
  BY DEF ReleaseInv, LegacyInv
<1> QED
  BY <1>1, <1>2, <1>3, <1>4 DEF JobInv

\* The steps of a release change the journal, the worker and the directory of
\* a job that has ended; what is left to show is where the release stands.
LEMMA ReleaseMoves ==
  ASSUME NEW k \in Jobs, JobInv(k), rel[k] # "idle",
         state' = state, attempted' = attempted, boundTo' = boundTo,
         UNCHANGED runVars, instance' = instance, active' = active, inbox' = inbox,
         journal'[k] # "none", k \in dirs' => k \in dirs, ReleaseInv(k)'
  PROVE  JobInv(k)'
<1>1. /\ state[k] \in Terminal /\ journal[k] \in {"pending", "blocked"}
      /\ k \notin Legacy /\ quiesce[k] # "granted"
  BY DEF JobInv, ReleaseInv, LegacyInv, EndInv
<1>2. UNCHANGED <<started, task, seen, quiesce, submits>>
  BY DEF runVars, callVars
<1>3. JournalInv(k)' /\ BindingInv(k)'
  BY <1>1, <1>2 DEF JobInv, JournalInv, BindingInv, Untried
<1>4. EndInv(k)' /\ LegacyInv(k)'
  BY <1>1, <1>2 DEF JobInv, EndInv, LegacyInv, Terminal
<1> QED
  BY <1>3, <1>4 DEF JobInv

\* The release of a job keeps it.
LEMMA ReleaseKeeps ==
  ASSUME TypeOK, NEW k \in Jobs, JobInv(k), ReleaseStep(k), UNCHANGED runVars
  PROVE  JobInv(k)'
<1>0. ReleaseInv(k)
  BY DEF JobInv
<1>1. ASSUME CancelArrives(k) PROVE JobInv(k)'
  <2>1. /\ rel[k] = "cancel" /\ rel'[k] = "quiesce" /\ k \in marked'
        /\ UNCHANGED <<instance, active, inbox, dirs, state, journal, attempted,
                       boundTo, asked>>
    BY <1>1, ReleaseDomains DEF CancelArrives, Advance, recordVars
  <2>2. ReleaseInv(k)'
    BY <1>0, <2>1 DEF ReleaseInv
  <2> QED
    BY <1>0, <2>1, <2>2, ReleaseMoves DEF ReleaseInv
<1>2. ASSUME Receipt(k) PROVE JobInv(k)'
  <2>1. /\ rel[k] = "quiesce" /\ rel'[k] = "remove"
        /\ asked[k] = instance /\ <<k, instance>> \notin active
        /\ UNCHANGED <<instance, marked, active, inbox, dirs, state, journal,
                       attempted, boundTo, asked>>
    BY <1>2, ReleaseDomains DEF Receipt, Advance, recordVars, workerVars, serverVars
  <2>2. k \in marked /\ boundTo[k] = instance /\ k \notin Legacy
    BY <1>0, <2>1 DEF ReleaseInv, JobInv, LegacyInv
  <2>3. Quiet(k)'
    BY <2>1, <2>2 DEF JobInv, BindingInv, Quiet
  <2>4. ReleaseInv(k)'
    BY <1>0, <2>1, <2>3 DEF ReleaseInv
  <2> QED
    BY <1>0, <2>1, <2>4, ReleaseMoves DEF ReleaseInv
<1>3. ASSUME CancelFails(k) PROVE JobInv(k)'
  <2>1. /\ rel[k] \in {"cancel", "quiesce"} /\ rel'[k] = "block"
        /\ UNCHANGED <<instance, active, inbox, dirs, state, journal, attempted,
                       boundTo, asked>>
    BY <1>3, ReleaseDomains DEF CancelFails, Advance, recordVars
  <2>2. ReleaseInv(k)'
    BY <1>0, <2>1 DEF ReleaseInv
  <2> QED
    BY <1>0, <2>1, <2>2, ReleaseMoves DEF ReleaseInv
<1>4. ASSUME RemoveOwnedWorkDirectory(k) PROVE JobInv(k)'
  <2>1. /\ rel[k] = "remove" /\ rel'[k] = "complete" /\ dirs' = dirs \ {k}
        /\ UNCHANGED <<instance, marked, active, inbox, state, journal,
                       attempted, boundTo, asked>>
    BY <1>4, ReleaseDomains DEF RemoveOwnedWorkDirectory, Advance, recordVars, serverVars
  <2>2. ReleaseInv(k)'
    BY <1>0, <2>1 DEF ReleaseInv, Quiet
  <2> QED
    BY <1>0, <2>1, <2>2, ReleaseMoves DEF ReleaseInv
<1>5. ASSUME RemovalFails(k) PROVE JobInv(k)'
  <2>1. /\ rel[k] \in {"remove", "complete"} /\ rel'[k] = "block"
        /\ UNCHANGED <<instance, active, inbox, dirs, state, journal, attempted,
                       boundTo, asked>>
    BY <1>5, ReleaseDomains DEF RemovalFails, Advance, recordVars, workerVars, serverVars
  <2>2. ReleaseInv(k)'
    BY <1>0, <2>1 DEF ReleaseInv
  <2> QED
    BY <1>0, <2>1, <2>2, ReleaseMoves DEF ReleaseInv
<1>6. ASSUME RecordComplete(k) PROVE JobInv(k)'
  <2>1. /\ rel[k] = "complete" /\ rel'[k] = "idle" /\ journal'[k] = "complete"
        /\ UNCHANGED <<instance, marked, active, inbox, dirs, state, attempted, boundTo>>
    BY <1>6, StoreDomains, ReleaseDomains DEF RecordComplete, Record, workerVars,
       serverVars
  <2>2. ReleaseInv(k)'
    BY <1>0, <2>1 DEF ReleaseInv, Quiet
  <2> QED
    BY <1>0, <2>1, <2>2, ReleaseMoves DEF ReleaseInv
<1>7. ASSUME RecordBlocked(k) PROVE JobInv(k)'
  <2>1. /\ rel[k] = "block" /\ rel'[k] = "idle" /\ journal'[k] \in {"blocked", journal[k]}
        /\ UNCHANGED <<instance, active, inbox, dirs, state, attempted, boundTo>>
    BY <1>7, StoreDomains, ReleaseDomains DEF RecordBlocked, Record, workerVars,
       serverVars
  <2>2. journal[k] \in {"pending", "blocked"} /\ journal'[k] \in {"pending", "blocked"}
    BY <1>0, <2>1 DEF ReleaseInv
  <2>3. ReleaseInv(k)'
    BY <1>0, <2>1, <2>2 DEF ReleaseInv
  <2> QED
    BY <2>1, <2>2, <2>3, ReleaseMoves
<1> QED
  BY <1>1, <1>2, <1>3, <1>4, <1>5, <1>6, <1>7 DEF ReleaseStep

\* So does the worker.
LEMMA WorkerKeeps ==
  ASSUME TypeOK, NEW k \in Jobs, JobInv(k),
         WorkerStep, UNCHANGED <<cleanupVars, runVars>>
  PROVE  JobInv(k)'
<1>0. /\ UNCHANGED <<state, journal, attempted, boundTo, rel, asked, started, task>>
      /\ SameStore(k) /\ SameRelease(k) /\ SameRun(k)
  BY Unchanged DEF cleanupVars, recordVars, releaseVars, runVars, callVars,
     SameStore, SameRun
<1>1. seen[k] <= instance /\ BindingInv(k)
  BY DEF JobInv, JournalInv
<1>2. ASSUME NEW j \in Jobs, j # k, Process(j) \/ WorkerWrites(j) \/ ProcessEnds(j)
      PROVE  JobInv(k)'
  <2>1. SameWorker(k)
    BY <1>2, Unchanged DEF Process, WorkerWrites, ProcessEnds, SameWorker, SameServer
  <2> QED
    BY <1>0, <2>1, Frame DEF SameJob
<1>3. ASSUME Process(k) PROVE JobInv(k)'
  <2>1. PICK i \in Instances :
          /\ <<k, i>> \in inbox /\ inbox' = inbox \ {<<k, i>>}
          /\ \/ active' = active
             \/ i = instance /\ k \notin marked /\ active' = active \cup {<<k, i>>}
    BY <1>3 DEF Process
  <2>2. UNCHANGED <<instance, marked, dirs>>
    BY <1>3 DEF Process
  <2>3. Quiet(k) => Quiet(k)'
    BY <2>1, <2>2 DEF Quiet
  <2>4. ~Untried(k)
    BY <2>1 DEF Untried
  <2>5. BindingInv(k)'
    BY <1>0, <1>1, <2>1, <2>2 DEF BindingInv
  <2> QED
    BY <1>0, <1>1, <2>2, <2>3, <2>4, <2>5, WorkerMoves
<1>4. ASSUME WorkerWrites(k) PROVE JobInv(k)'
  <2>1. dirs' = dirs \cup {k} /\ UNCHANGED <<instance, marked, active, inbox>>
    BY <1>4 DEF WorkerWrites, serverVars
  <2>2. k \in attempted \/ k \in Legacy
    BY <1>4 DEF WorkerWrites, JobInv, JournalInv, Untried
  <2>3. (Quiet(k)' <=> Quiet(k)) /\ (Untried(k)' <=> Untried(k)) /\ BindingInv(k)'
    BY <1>0, <1>1, <2>1 DEF Quiet, Untried, BindingInv
  <2> QED
    BY <1>0, <1>1, <2>1, <2>2, <2>3, WorkerMoves
<1>5. ASSUME ProcessEnds(k) PROVE JobInv(k)'
  <2>1. active' \subseteq active /\ UNCHANGED <<instance, marked, inbox, dirs>>
    BY <1>5 DEF ProcessEnds
  <2>2. (Quiet(k) => Quiet(k)') /\ (Untried(k) => Untried(k)') /\ BindingInv(k)'
    BY <1>0, <1>1, <2>1 DEF Quiet, Untried, BindingInv
  <2> QED
    BY <1>0, <1>1, <2>1, <2>2, WorkerMoves
<1>6. ASSUME WorkerRestarts PROVE JobInv(k)'
  <2>1. /\ active' \subseteq active /\ instance' = instance + 1
        /\ UNCHANGED <<marked, inbox, dirs>>
    BY <1>6 DEF WorkerRestarts
  <2>2. /\ seen[k] <= instance'
        /\ \A i \in Instances : i <= instance => i # instance' /\ i <= instance'
    BY <1>1, <2>1, CallDomains, RunDomains, InstancesAssumption, SMT DEF Instances
  <2>3. (Quiet(k) => Quiet(k)') /\ (Untried(k) => Untried(k)') /\ BindingInv(k)'
    BY <1>0, <1>1, <2>1, <2>2 DEF Quiet, Untried, BindingInv
  <2> QED
    BY <1>0, <2>1, <2>2, <2>3, WorkerMoves
<1> QED
  BY <1>2, <1>3, <1>4, <1>5, <1>6 DEF WorkerStep

\* So do the sweep over the jobs, cancel and ensureJobQuiescent.
LEMMA CallsKeep ==
  ASSUME TypeOK, NEW k \in Jobs, JobInv(k),
         SweepNext(k) \/ Cancel(k) \/ AskQuiescent(k) \/ QuiesceStep(k)
  PROVE  JobInv(k)'
<1>1. ASSUME Joins(k), SameWorker(k), SameStore(k), EndInv(k)',
             task' = task, seen' = seen, submits' = submits
      PROVE  JobInv(k)'
  <2>1. ReleaseInv(k)' /\ (journal'[k] = "none" => rel'[k] = "idle")
    BY <1>1, ReleaseStarts
  <2>2. JournalInv(k)' /\ BindingInv(k)'
    BY <1>1, <2>1, WorkerFrame DEF JobInv, JournalInv, SameServer, SameWorker,
       SameRecord, SameStore
  <2>3. LegacyInv(k)'
    BY <1>1 DEF JobInv, LegacyInv, SameWorker, SameRecord, SameStore
  <2> QED
    BY <1>1, <2>1, <2>2, <2>3 DEF JobInv
<1>2. ASSUME SweepNext(k) PROVE JobInv(k)'
  <2>1. Joins(k) /\ SameWorker(k) /\ SameStore(k) /\ UNCHANGED <<task, seen, submits, quiesce>>
    BY <1>2, Reconciling, Unchanged DEF SweepNext, SameStore, callVars
  <2>2. EndInv(k)'
    BY <2>1 DEF JobInv, EndInv, SameStore, SameRecord
  <2> QED
    BY <1>1, <2>1, <2>2
<1>3. ASSUME Cancel(k) \/ AskQuiescent(k) PROVE JobInv(k)'
  <2>1. /\ \/ state[k] \in Waiting /\ state'[k] = "cancelled"
           \/ state[k] \in Terminal /\ state' = state
        /\ UNCHANGED <<started, task, seen, submits>>
        /\ quiesce'[k] = quiesce[k] \/ quiesce'[k] = "wait"
        /\ SameWorker(k) /\ SameRecord(k) /\ SameRelease(k)
    BY <1>3, StoreDomains, CallDomains, Unchanged DEF Cancel, AskQuiescent,
       CancelJob, callVars
  <2>2. state'[k] \in Terminal /\ (state[k] \in Terminal => state'[k] = state[k])
    BY <2>1 DEF Waiting, Terminal
  <2>3. JournalInv(k)' /\ BindingInv(k)'
    BY <2>1, WorkerFrame DEF JobInv, JournalInv, SameServer, SameWorker, SameRecord,
       SameRelease
  <2>4. EndInv(k)'
    BY <2>1, <2>2 DEF JobInv, EndInv, SameRecord, Terminal
  <2>5. ReleaseInv(k)' /\ LegacyInv(k)'
    BY <2>1, <2>2, WorkerFrame DEF JobInv, ReleaseInv, LegacyInv, SameServer,
       SameWorker, SameRecord, SameRelease
  <2> QED
    BY <2>3, <2>4, <2>5 DEF JobInv
<1>4. ASSUME AwaitQuiescent(k) PROVE JobInv(k)'
  <2>1. /\ quiesce[k] = "wait" /\ quiesce'[k] = "settle" /\ task[k] = "none"
        /\ Joins(k) /\ SameWorker(k) /\ SameStore(k) /\ UNCHANGED <<task, seen, submits>>
    BY <1>4, CallDomains, Reconciling, Unchanged DEF AwaitQuiescent, SameStore
  <2>2. EndInv(k)'
    BY <2>1 DEF JobInv, EndInv, SameStore, SameRecord
  <2> QED
    BY <1>1, <2>1, <2>2
<1>5. ASSUME GrantQuiescent(k) PROVE JobInv(k)'
  <2>1. /\ quiesce[k] = "settle"
        /\ \/ quiesce'[k] = "no"
           \/ /\ quiesce'[k] = "granted"
              /\ journal[k] = "complete" \/ (journal[k] = "none" /\ k \notin started)
        /\ Joins(k) /\ SameWorker(k) /\ SameStore(k) /\ UNCHANGED <<task, seen, submits>>
    BY <1>5, CallDomains, Unchanged DEF GrantQuiescent, cleanupVars, SameStore,
       SameRelease, Joins
  <2>2. EndInv(k)'
    BY <2>1 DEF JobInv, EndInv, SameStore, SameRecord
  <2> QED
    BY <1>1, <2>1, <2>2
<1> QED
  BY <1>2, <1>3, <1>4, <1>5 DEF QuiesceStep

\* A job that is not being run may be inserted, or dispatched.
LEMMA JobBegins ==
  ASSUME NEW k \in Jobs, JobInv(k), task[k] = "none",
         SameWorker(k), SameRecord(k), SameRelease(k), Keeps(k), started' = started,
         \/ state[k] = "absent" /\ state'[k] = "queued" /\ task' = task
         \/ state[k] = "queued" /\ state' = state /\ task'[k] = "gate"
  PROVE  JobInv(k)'
<1>1. k \notin Legacy /\ quiesce[k] = "no" /\ journal[k] # "complete" /\ rel[k] = "idle"
  BY DEF JobInv, LegacyInv, EndInv, ReleaseInv, Terminal
<1>2. JournalInv(k)' /\ BindingInv(k)'
  BY WorkerFrame DEF JobInv, JournalInv, SameServer, SameWorker, SameRecord,
     SameRelease, Keeps, Owned, Handed
<1>3. EndInv(k)' /\ LegacyInv(k)'
  BY <1>1 DEF JobInv, EndInv, LegacyInv, SameRecord, Keeps, Terminal, Working, Owned,
     Handed
<1>4. ReleaseInv(k)'
  BY <1>1 DEF ReleaseInv, SameRecord, SameRelease
<1> QED
  BY <1>2, <1>3, <1>4 DEF JobInv

\* The requests for a job keep it.
LEMMA RequestKeeps ==
  ASSUME TypeOK, NEW k \in Jobs, JobInv(k), NEW r \in Requests, RequestStep(r)
  PROVE  JobInv(k)'
<1> USE Unchanged
<1>1. ASSUME Create(r) \/ EnterExclusive(r) \/ Inspected(r) \/ RequestFails(r)
      PROVE  JobInv(k)'
  <2>1. SameJob(k)
    BY <1>1 DEF Create, EnterExclusive, Inspected, RequestFails, cleanupVars,
       SameJob, SameStore, SameRun
  <2> QED
    BY <2>1, Frame
<1>2. ASSUME Insert(r) PROVE JobInv(k)'
  <2>1. /\ state'[k] = state[k] \/ (state[k] = "absent" /\ state'[k] = "queued")
        /\ SameWorker(k) /\ SameRecord(k) /\ SameRelease(k) /\ Keeps(k)
        /\ UNCHANGED <<started, task>>
    BY <1>2, StoreDomains DEF Insert
  <2>2. CASE state'[k] = state[k]
    BY <2>1, <2>2, Frame DEF SameJob, SameStore, SameRun
  <2>3. CASE state[k] = "absent" /\ state'[k] = "queued"
    BY <2>1, <2>3, JobBegins DEF JobInv, EndInv
  <2> QED
    BY <2>1, <2>2, <2>3
<1> QED
  BY <1>1, <1>2 DEF RequestStep

\* Every step keeps the invariant of every job.
LEMMA InvStep ==
  ASSUME TypeOK, NodeInv, [Next]_vars, NEW k \in Jobs, JobInv(k)
  PROVE  JobInv(k)'
<1> USE Unchanged
<1>1. ASSUME Dispatch PROVE JobInv(k)'
  <2>1. /\ \/ task'[k] = task[k]
           \/ state[k] = "queued" /\ task[k] = "none" /\ task'[k] = "gate"
        /\ SameWorker(k) /\ SameStore(k) /\ SameRelease(k) /\ Keeps(k)
        /\ UNCHANGED <<state, started>>
    BY <1>1, RunDomains DEF Dispatch, cleanupVars, SameStore
  <2>2. CASE task'[k] = task[k]
    BY <2>1, <2>2, Frame DEF SameJob, SameRun
  <2>3. CASE state[k] = "queued" /\ task[k] = "none" /\ task'[k] = "gate"
    BY <2>1, <2>3, JobBegins DEF SameStore
  <2> QED
    BY <2>1, <2>2, <2>3
<1>2. ASSUME Start PROVE JobInv(k)'
  <2>1. /\ \/ state'[k] = state[k]
           \/ state[k] \in Waiting /\ state'[k] = "failed"
        /\ UNCHANGED <<started, task>>
        /\ SameWorker(k) /\ SameRecord(k) /\ SameRelease(k) /\ Keeps(k)
    BY <1>2, StoreDomains DEF Start, Waiting
  <2>2. task[k] = "none" /\ quiesce[k] = "no"
    BY <1>2 DEF Start, NodeInv
  <2>3. /\ state[k] \in Terminal => state'[k] = state[k]
        /\ state'[k] = "absent" => state[k] = "absent"
        /\ state[k] = "running" => state'[k] \in Terminal \cup {"running"}
    BY <2>1 DEF Waiting, Terminal
  <2>4. JournalInv(k)' /\ BindingInv(k)'
    BY <2>1, WorkerFrame DEF JobInv, JournalInv, SameServer, SameWorker, SameRecord,
       SameRelease, Keeps
  <2>5. EndInv(k)' /\ LegacyInv(k)'
    BY <2>1, <2>2, <2>3 DEF JobInv, EndInv, LegacyInv, SameWorker, SameRecord, Keeps,
       Working, Owned, Handed
  <2>6. ReleaseInv(k)'
    BY <2>1, <2>3, WorkerFrame DEF JobInv, ReleaseInv, SameServer, SameWorker,
       SameRecord, SameRelease
  <2> QED
    BY <2>4, <2>5, <2>6 DEF JobInv
<1>3. ASSUME Started \/ ReconcileCleanup \/ UNCHANGED vars PROVE JobInv(k)'
  <2>1. SameJob(k)
    BY <1>3 DEF Started, ReconcileCleanup, vars, cleanupVars, runVars, SameJob,
       SameStore, SameRun
  <2> QED
    BY <2>1, Frame
<1>4. ASSUME Crash PROVE JobInv(k)'
  <2>1. /\ task'[k] = "none" /\ seen'[k] = 0 /\ quiesce'[k] = "no"
        /\ rel'[k] = "idle" /\ submits'[k] = submits[k]
        /\ SameWorker(k) /\ SameStore(k)
    BY <1>4 DEF Crash, SameStore
  <2>2. 0 <= instance
    BY CallDomains, InstancesAssumption, SMT DEF Instances
  <2>3. JournalInv(k)' /\ BindingInv(k)'
    BY <2>1, <2>2, WorkerFrame DEF JobInv, JournalInv, SameServer, SameWorker,
       SameStore, SameRecord, Owned, Handed
  <2>4. EndInv(k)' /\ LegacyInv(k)'
    BY <2>1 DEF JobInv, EndInv, LegacyInv, SameWorker, SameStore, SameRecord, Working,
       Owned, Handed
  <2>5. ReleaseInv(k)'
    BY <2>1, WorkerFrame DEF JobInv, ReleaseInv, SameServer, SameWorker, SameStore,
       SameRecord
  <2> QED
    BY <2>3, <2>4, <2>5 DEF JobInv
<1>5. ASSUME NEW j \in Jobs, JobStep(j) PROVE JobInv(k)'
  <2>1. CASE j # k
    BY <1>5, <2>1, Others, Frame
  <2>2. CASE j = k
    BY <1>5, <2>2, TaskKeeps, ReleaseKeeps, CallsKeep DEF JobStep
  <2> QED
    BY <2>1, <2>2
<1> QED
  BY <1>1, <1>2, <1>3, <1>4, <1>5, WorkerKeeps, RequestKeeps DEF Next

-----------------------------------------------------------------------------
(* How the state of a job goes on *)

\* A job that waits goes on waiting or comes to an end.
GoesOn(k) ==
  \/ state'[k] = state[k]
  \/ state[k] \in Waiting /\ state'[k] \in Waiting \cup Terminal

\* run() patches no job but its own, and that only while it waits.
LEMMA TaskGoesOn ==
  ASSUME TypeOK, NEW j \in Jobs, NEW k \in Jobs, JobInv(k), TaskStep(j)
  PROVE  GoesOn(k) /\ captureOf'[k] = captureOf[k]
<1>0. state \in [Jobs -> JobStates]
  BY StoreDomains
<1>1. CASE Begins(j) \/ Completes(j) \/ Catches(j)
  <2>1. captureOf'[k] = captureOf[k] /\ task[j] \in Working
    BY <1>1 DEF Begins, Completes, Catches, nodeVars, Working, Owned, Handed
  <2>2. CASE state'[k] = state[k]
    BY <2>1, <2>2 DEF GoesOn
  <2>3. CASE state'[k] # state[k]
    <3>1. j = k /\ state[k] # "cancelled" /\ state'[k] \in Waiting \cup Terminal
      BY <1>0, <1>1, <2>3 DEF Begins, Completes, Catches, PatchJob, Waiting, Terminal
    <3>2. state[k] \in Waiting
      BY <1>0, <2>1, <3>1 DEF JobInv, EndInv, JobStates, Waiting, Terminal, Working, Owned, Handed
    <3> QED BY <2>1, <3>1, <3>2 DEF GoesOn
  <2> QED BY <2>2, <2>3
<1>2. CASE ReturnsEarly(j) \/ Throws(j) \/ PassesGate(j) \/ ReportsStages(j) \/ IsAuthorized(j)
           \/ GetsOutput(j) \/ BeginsImport(j) \/ Imports(j)
  BY <1>2 DEF ReturnsEarly, Throws, PassesGate, ReportsStages, IsAuthorized, GetsOutput,
     BeginsImport, Imports, Moves, cleanupVars, nodeVars, GoesOn
<1>3. CASE OwnsDirectory(j) \/ MarksAttempt(j) \/ ReconcilesAtEnd(j)
  BY <1>3 DEF OwnsDirectory, Own, MarksAttempt, MarkWorkerAttempt, ReconcilesAtEnd, nodeVars, GoesOn
<1>4. CASE ReadsHealth(j) \/ MakesDirectory(j) \/ BuildsDataset(j) \/ Submits(j) \/ TaskEnds(j)
  BY <1>4 DEF ReadsHealth, MakesDirectory, BuildsDataset, Submits, TaskEnds, cleanupVars, nodeVars,
     GoesOn
<1> QED BY <1>1, <1>2, <1>3, <1>4 DEF TaskStep

\* A cancellation ends a job that waits; a release, a visit of
\* reconcileCleanup() and the later part of ensureJobQuiescent() change no
\* state of a job.
LEMMA JobGoesOn ==
  ASSUME TypeOK, NEW j \in Jobs, NEW k \in Jobs, JobInv(k), JobStep(j)
  PROVE  GoesOn(k) /\ captureOf'[k] = captureOf[k]
<1>0. state \in [Jobs -> JobStates]
  BY StoreDomains
<1>1. CASE TaskStep(j)
  BY <1>1, TaskGoesOn
<1>2. CASE Cancel(j) \/ AskQuiescent(j)
  BY <1>0, <1>2 DEF Cancel, AskQuiescent, CancelJob, nodeVars, GoesOn, Waiting, Terminal
<1>3. CASE SweepNext(j) \/ QuiesceStep(j)
  BY <1>3 DEF SweepNext, QuiesceStep, AwaitQuiescent, GrantQuiescent, cleanupVars, nodeVars, GoesOn
<1>4. CASE ReleaseStep(j) /\ UNCHANGED runVars
  BY <1>4 DEF ReleaseStep, CancelArrives, Receipt, CancelFails, RemoveOwnedWorkDirectory,
     RemovalFails, RecordComplete, RecordBlocked, Advance, Record, runVars, nodeVars, GoesOn
<1> QED BY <1>1, <1>2, <1>3, <1>4 DEF JobStep

\* Only the insertion of a request gives a job its first state and its capture.
LEMMA StateGoesOn ==
  ASSUME TypeOK, Inv, [Next]_vars, ~\E r \in Requests : Insert(r), NEW k \in Jobs
  PROVE  GoesOn(k) /\ captureOf'[k] = captureOf[k]
<1>0. JobInv(k) /\ state \in [Jobs -> JobStates]
  BY StoreDomains DEF Inv
<1>1. ASSUME NEW j \in Jobs, JobStep(j) PROVE GoesOn(k) /\ captureOf'[k] = captureOf[k]
  BY <1>0, <1>1, JobGoesOn
<1>2. ASSUME NEW r \in Requests, RequestStep(r) PROVE GoesOn(k) /\ captureOf'[k] = captureOf[k]
  BY <1>2 DEF RequestStep, Create, EnterExclusive, Inspected, RequestFails, cleanupVars, GoesOn
<1>3. CASE Start
  BY <1>0, <1>3 DEF Start, GoesOn, Waiting, Terminal
<1>4. CASE Dispatch \/ Started \/ ReconcileCleanup \/ Crash
  BY <1>4 DEF Dispatch, Started, ReconcileCleanup, Crash, cleanupVars, GoesOn
<1>5. CASE UNCHANGED <<cleanupVars, runVars>> \/ UNCHANGED vars
  BY <1>5 DEF vars, cleanupVars, runVars, nodeVars, GoesOn
<1> QED BY <1>1, <1>2, <1>3, <1>4, <1>5 DEF Next

\* An insertion makes one job wait, and not for a capture that a job is waiting
\* for already.
LEMMA InsertReserves ==
  ASSUME TypeOK, NEW r \in Requests, Insert(r)
  PROVE  \/ UNCHANGED <<state, captureOf>>
         \/ \E n \in Jobs :
              /\ state[n] = "absent" /\ state'[n] = "queued"
              /\ captureOf'[n] = NoCapture \/ ~ActiveReconstruction(captureOf'[n])
              /\ \A k \in Jobs \ {n} : state'[k] = state[k] /\ captureOf'[k] = captureOf[k]
<1>0. state \in [Jobs -> JobStates] /\ captureOf \in [Jobs -> Captures \cup {NoCapture}]
  BY StoreDomains DEF TypeOK
<1>1. CASE UNCHANGED <<state, captureOf>>
  BY <1>1
<1>2. CASE ~UNCHANGED <<state, captureOf>>
  <2>1. PICK c : c = request[r].capture
    OBVIOUS
  <2>2. PICK n \in Jobs :
          /\ c = NoCapture \/ ~ActiveReconstruction(c)
          /\ state[n] = "absent" /\ state' = [state EXCEPT ![n] = "queued"]
          /\ captureOf' = [captureOf EXCEPT ![n] = c]
    BY <1>2, <2>1 DEF Insert
  <2> QED BY <1>0, <2>2
<1> QED BY <1>1, <1>2

\* One attempt per capture is kept by every step.
LEMMA OneActiveStep ==
  ASSUME TypeOK, Inv, OneActiveReconstruction, [Next]_vars
  PROVE  OneActiveReconstruction'
<1>0. state \in [Jobs -> JobStates]
  BY StoreDomains
<1>1. CASE ~\E r \in Requests : Insert(r)
  <2>1. \A k \in Jobs : (state'[k] \in Waiting => state[k] \in Waiting) /\ captureOf'[k] = captureOf[k]
    BY <1>1, StateGoesOn DEF GoesOn
  <2> QED BY <2>1 DEF OneActiveReconstruction
<1>2. ASSUME NEW r \in Requests, Insert(r) PROVE OneActiveReconstruction'
  <2>1. CASE UNCHANGED <<state, captureOf>>
    BY <2>1 DEF OneActiveReconstruction
  <2>2. ASSUME NEW n \in Jobs, state[n] = "absent",
               captureOf'[n] = NoCapture \/ ~ActiveReconstruction(captureOf'[n]),
               \A k \in Jobs \ {n} : state'[k] = state[k] /\ captureOf'[k] = captureOf[k]
        PROVE OneActiveReconstruction'
    <3> SUFFICES ASSUME NEW j \in Jobs, NEW k \in Jobs,
                        captureOf'[j] # NoCapture, captureOf'[j] = captureOf'[k],
                        state'[j] \in Waiting, state'[k] \in Waiting, j # k
                 PROVE FALSE
      BY DEF OneActiveReconstruction
    <3>1. CASE j # n /\ k # n
      BY <2>2, <3>1 DEF OneActiveReconstruction
    <3>2. CASE j = n \/ k = n
      BY <2>2, <3>2 DEF ActiveReconstruction
    <3> QED BY <3>1, <3>2
  <2> QED BY <1>2, <2>1, <2>2, InsertReserves
<1> QED BY <1>1, <1>2

-----------------------------------------------------------------------------
(* The theorems *)

\* The inductive invariant holds in every reachable state.
LEMMA InvCorrect == Spec => [](TypeOK /\ Inv)
<1>1. Init => TypeOK /\ NodeInv /\ Inv
  BY TypeInit, NodeInit, InvInit
<1>2. TypeOK /\ NodeInv /\ Inv /\ [Next]_vars => (TypeOK /\ NodeInv /\ Inv)'
  BY TypeStep, NodeStep, InvStep DEF Inv
<1> QED
  BY <1>1, <1>2, PTL DEF Spec

\* A completed cleanup record means that the worker is not working on the job
\* and will refuse what may still be on its way to it.
THEOREM CompletedCleanupIsQuiet == Spec => []CompleteMeansQuiet
<1>1. Inv => CompleteMeansQuiet
  BY DEF Inv, JobInv, ReleaseInv, CompleteMeansQuiet
<1> QED
  BY <1>1, InvCorrect, PTL

\* A caller to whom ensureJobQuiescent() has returned finds the job terminal,
\* without a task in the node and quiet in the worker.
THEOREM GrantedQuiescenceHolds == Spec => []GrantMeansQuiet
<1>1. TypeOK /\ Inv => GrantMeansQuiet
  <2> SUFFICES ASSUME TypeOK, Inv, NEW j \in Jobs, quiesce[j] = "granted"
               PROVE state[j] \in Terminal /\ task[j] = "none" /\ Quiet(j)
    BY DEF GrantMeansQuiet
  <2>1. state[j] \in Terminal /\ task[j] = "none"
    BY DEF Inv, JobInv, EndInv
  <2>2. CASE journal[j] = "complete"
    BY <2>1, <2>2 DEF Inv, JobInv, ReleaseInv
  <2>3. CASE journal[j] = "none" /\ j \notin started
    BY <2>1, <2>3 DEF Inv, JobInv, JournalInv, LegacyInv, Untried, Quiet
  <2> QED
    BY <2>1, <2>2, <2>3 DEF Inv, JobInv, EndInv
<1> QED
  BY <1>1, InvCorrect, PTL

\* No job is handed to a worker twice.
THEOREM JobsAreSubmittedOnce == Spec => []NeverResubmitted
<1>1. Inv => NeverResubmitted
  BY DEF Inv, JobInv, JournalInv, NeverResubmitted
<1> QED
  BY <1>1, InvCorrect, PTL

\* A job's directory exists only when the journal owns it, unless an older
\* release left it behind.
THEOREM DirectoriesHaveOwners == Spec => []DirectoriesAreJournaled
<1>1. TypeOK /\ Inv => DirectoriesAreJournaled
  BY DEF Inv, JobInv, JournalInv, DirectoriesAreJournaled, TypeOK, WorkerTypeOK
<1> QED
  BY <1>1, InvCorrect, PTL

\* Directories that the journal does not own are never removed.
THEOREM LegacyDirectoriesStay == Spec => []LegacyUntouched
<1>1. Inv => LegacyUntouched
  BY LegacyAssumption DEF Inv, JobInv, LegacyInv, LegacyUntouched
<1> QED
  BY <1>1, InvCorrect, PTL

\* Two requests for one capture, in any interleaving with each other and with
\* the jobs that are under way, never have two jobs waiting or running for it
\* (create, exclusiveForCapture and the insertion in jobRuntime.ts).
THEOREM OneReconstructionAtATime == Spec => []OneActiveReconstruction
<1>1. Init => OneActiveReconstruction
  BY ZenonT(30) DEF Init, OneActiveReconstruction
<1>2. TypeOK /\ Inv /\ OneActiveReconstruction /\ [Next]_vars => OneActiveReconstruction'
  BY OneActiveStep
<1> QED
  BY <1>1, <1>2, InvCorrect, PTL DEF Spec

\* The state in which a job ended is never changed: not by the catch of a run
\* that was cancelled meanwhile, not by an answer of the worker that comes late,
\* not by a restart of the node.
THEOREM TerminalStatesAreFinal == Spec => TerminalIsFinal
<1>1. TypeOK /\ Inv /\ [Next]_vars =>
        [\A j \in Jobs : state[j] \in Terminal => state'[j] = state[j]]_vars
  <2> SUFFICES ASSUME TypeOK, Inv, [Next]_vars, NEW j \in Jobs, state[j] \in Terminal
               PROVE state'[j] = state[j]
    OBVIOUS
  <2>1. state[j] \notin Waiting /\ state[j] # "absent"
    BY DEF Terminal, Waiting
  <2>2. CASE \E r \in Requests : Insert(r)
    BY <2>1, <2>2, InsertReserves
  <2>3. CASE ~\E r \in Requests : Insert(r)
    BY <2>1, <2>3, StateGoesOn DEF GoesOn
  <2> QED BY <2>2, <2>3
<1> QED
  BY <1>1, InvCorrect, PTL DEF Spec, TerminalIsFinal
=============================================================================
