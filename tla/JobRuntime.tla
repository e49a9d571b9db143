----------------------------- MODULE JobRuntime -----------------------------
(***************************************************************************)
(* The job runtime of the node (src/jobs/jobRuntime.ts) with its cleanup   *)
(* journal and the spatial worker, for JOB_CONCURRENCY = 1: creation,      *)
(* dispatch, the run of a job up to its terminal state and cleanup,        *)
(* cancellation, the quiescence that remote compute asks for, crash and    *)
(* restart.                                                                *)
(*                                                                         *)
(* task[j] is the await at which the run of job j stands.  Between two     *)
(* awaits the run is one atomic step, as it is in the single-threaded      *)
(* node.  An update of the store takes effect or throws.                   *)
(***************************************************************************)
EXTENDS JobCleanup

CONSTANTS
  Captures,     \* captures that jobs can be created for
  NoCapture,    \* the job is not a reconstruction
  Requests,     \* POST /jobs requests that can be in progress at once
  Legacy,       \* jobs left running, without a journal, by an older release
  MaxCrashes    \* bound: crashes of the node over a behaviour

ASSUME LegacyAssumption == Legacy \subseteq Jobs
ASSUME CrashAssumption == MaxCrashes \in Nat
ASSUME CaptureAssumption == NoCapture \notin Captures

VARIABLES
  captureOf,   \* the capture a reconstruction job reads
  started,     \* jobs with a startedAt
  node,        \* "down", "boot" (in JobRuntime.start) or "up"
  crashes,     \* crashes so far
  wake,        \* a dispatch is scheduled (`dispatching`)
  task,        \* what the run of each job awaits; "none": no task
  seen,        \* the workerInstanceId the run got from /health
  aborted,     \* jobs whose AbortController fired
  sweep,       \* jobs that reconcileCleanup() has still to visit
  quiesce,     \* ensureJobQuiescent(j): "no", "wait", "settle", "granted"
  request,     \* [pc, capture] of each POST /jobs
  submits      \* history: times /v1/process was sent for each job

nodeVars == <<captureOf, node, crashes, wake, sweep, request>>
callVars == <<seen, quiesce, submits>>
runVars == <<nodeVars, started, task, aborted, callVars>>
vars == <<workerVars, cleanupVars, runVars>>

\* The awaits of run(), in order; the last three are its catch and finally.
Preparing == {"gate", "own", "health", "mkdir", "begin", "dataset", "stages",
              "auth", "mark", "post"}
TaskPcs == {"none"} \cup Preparing
           \cup {"await", "importing", "import", "finish", "catch", "final", "joined"}
\* Where run() looks at the abort signal and at the job's state.
Checks == {"gate", "health", "auth", "post"}
\* Where run() holds on to the worker instance that /health named.
KnowsInstance == {"mkdir", "begin", "dataset", "stages", "auth", "mark", "post"}
\* The awaits that can throw.
Fallible == (TaskPcs \ {"none", "post", "catch", "final", "joined"})

RequestPcs == {"idle", "lock", "inspect", "insert"}
NoRequest == [pc |-> "idle", capture |-> NoCapture]

\* Every variable of the composition has its type, and a run that is about to
\* name a worker instance knows one.
TypeOK ==
  /\ WorkerTypeOK
  /\ CleanupTypeOK
  /\ captureOf \in [Jobs -> Captures \cup {NoCapture}]
  /\ started \in SUBSET Jobs
  /\ node \in {"down", "boot", "up"}
  /\ crashes \in 0..MaxCrashes
  /\ wake \in BOOLEAN
  /\ task \in [Jobs -> TaskPcs]
  /\ seen \in [Jobs -> Instances \cup {0}]
  /\ \A j \in Jobs : task[j] \in KnowsInstance => seen[j] # 0
  /\ aborted \in SUBSET Jobs
  /\ sweep \in SUBSET Jobs
  /\ quiesce \in [Jobs -> {"no", "wait", "settle", "granted"}]
  /\ request \in [Requests -> [pc: RequestPcs, capture: Captures \cup {NoCapture}]]
  /\ submits \in [Jobs -> Nat]

\* A node about to start.  A legacy job was interrupted while the worker may
\* have been training it.
Init ==
  /\ instance = 1
  /\ marked = {}
  /\ active \in SUBSET (Legacy \X {1})
  /\ inbox = {}
  /\ reply = [j \in Jobs |-> "none"]
  /\ dirs = Legacy
  /\ state = [j \in Jobs |-> IF j \in Legacy THEN "running" ELSE "absent"]
  /\ journal = [j \in Jobs |-> "none"]
  /\ attempted = {}
  /\ boundTo = [j \in Jobs |-> 0]
  /\ rel = [j \in Jobs |-> "idle"]
  /\ asked = [j \in Jobs |-> 0]
  /\ captureOf = [j \in Jobs |-> NoCapture]
  /\ started = Legacy
  /\ node = "down"
  /\ crashes = 0
  /\ wake = FALSE
  /\ task = [j \in Jobs |-> "none"]
  /\ seen = [j \in Jobs |-> 0]
  /\ aborted = {}
  /\ sweep = {}
  /\ quiesce = [j \in Jobs |-> "no"]
  /\ request = [r \in Requests |-> NoRequest]
  /\ submits = [j \in Jobs |-> 0]

-----------------------------------------------------------------------------
(* start, and the crash that makes it necessary *)

Unfinished == {j \in Jobs : journal[j] \in {"pending", "blocked"}}

\* Fault: jobs that were running are left as they are.
Start_QueuedOnly ==
  /\ node = "down"
  /\ state' = [j \in Jobs |-> IF state[j] = "queued" /\ journal[j] # "none"
                               THEN "failed" ELSE state[j]]
  /\ sweep' = Unfinished
  /\ node' = "boot"
  /\ UNCHANGED <<workerVars, recordVars, releaseVars, captureOf, crashes, wake,
                 request, started, task, aborted, callVars>>

\* Fault: the journal is not reconciled at startup.
Start_NoReconcile ==
  /\ node = "down"
  /\ state' = [j \in Jobs |->
                 IF \/ state[j] = "running"
                    \/ state[j] = "queued" /\ journal[j] # "none"
                 THEN "failed" ELSE state[j]]
  /\ sweep' = {}
  /\ node' = "boot"
  /\ UNCHANGED <<workerVars, recordVars, releaseVars, captureOf, crashes, wake,
                 request, started, task, aborted, callVars>>

\* start() fails what was interrupted and begins to reconcile the journal.
Start ==
  /\ node = "down"
  /\ state' = [j \in Jobs |->
                 IF \/ state[j] = "running"
                    \/ state[j] = "queued" /\ journal[j] # "none"
                 THEN "failed" ELSE state[j]]
  /\ sweep' = Unfinished
  /\ node' = "boot"
  /\ UNCHANGED <<workerVars, recordVars, releaseVars, captureOf, crashes, wake,
                 request, started, task, aborted, callVars>>

\* Only when that is over does start() schedule, and does the API open.
Started ==
  /\ node = "boot"
  /\ sweep = {}
  /\ \A j \in Jobs : rel[j] = "idle"
  /\ node' = "up"
  /\ wake' = TRUE
  /\ UNCHANGED <<workerVars, cleanupVars, captureOf, crashes, sweep, request,
                 started, task, aborted, callVars>>

\* POST /jobs/cleanup runs reconcileCleanup() again, at any time.
ReconcileCleanup ==
  /\ node = "up"
  /\ sweep' = sweep \cup Unfinished
  /\ UNCHANGED <<workerVars, cleanupVars, captureOf, node, crashes, wake,
                 request, started, task, aborted, callVars>>

SweepNext(j) ==
  /\ j \in sweep
  /\ sweep' = sweep \ {j}
  /\ Reconcile(j)
  /\ UNCHANGED <<workerVars, state, recordVars, captureOf, node, crashes, wake,
                 request, started, task, aborted, callVars>>

\* The node dies: what is not in the store is gone.  A request already sent
\* to the worker may still arrive.
Crash ==
  /\ node # "down"
  /\ crashes < MaxCrashes
  /\ crashes' = crashes + 1
  /\ node' = "down"
  /\ wake' = FALSE
  /\ task' = [j \in Jobs |-> "none"]
  /\ seen' = [j \in Jobs |-> 0]
  /\ aborted' = {}
  /\ sweep' = {}
  /\ quiesce' = [j \in Jobs |-> "no"]
  /\ request' = [r \in Requests |-> NoRequest]
  /\ rel' = [j \in Jobs |-> "idle"]
  /\ asked' = [j \in Jobs |-> 0]
  /\ UNCHANGED <<workerVars, state, recordVars, captureOf, started, submits>>

-----------------------------------------------------------------------------
(* create *)

\* Fault: a queued job does not count as an attempt in flight.
ActiveReconstruction_RunningOnly(c) ==
  \E j \in Jobs : captureOf[j] = c /\ state[j] = "running"

ActiveReconstruction(c) ==
  \E j \in Jobs : captureOf[j] = c /\ state[j] \in Waiting

RequestTo(r, pc, c) == request' = [request EXCEPT ![r] = [pc |-> pc, capture |-> c]]

\* The check for blocked cleanups is made once, here.
Create(r) ==
  /\ node = "up"
  /\ request[r] = NoRequest
  /\ \A j \in Jobs : journal[j] # "blocked"
  /\ \E j \in Jobs : state[j] = "absent"
  /\ \E c \in Captures \cup {NoCapture} :
       RequestTo(r, IF c = NoCapture THEN "insert" ELSE "lock", c)
  /\ UNCHANGED <<workerVars, cleanupVars, captureOf, node, crashes, wake,
                 sweep, started, task, aborted, callVars>>

\* exclusiveForCapture lets one request per capture in; an attempt in flight
\* is its answer.
EnterExclusive(r) ==
  /\ request[r].pc = "lock"
  /\ ~\E q \in Requests : /\ request[q].capture = request[r].capture
                          /\ request[q].pc \in {"inspect", "insert"}
  /\ IF ActiveReconstruction(request[r].capture)
     THEN RequestTo(r, "idle", NoCapture)
     ELSE RequestTo(r, "inspect", request[r].capture)
  /\ UNCHANGED <<workerVars, cleanupVars, captureOf, node, crashes, wake,
                 sweep, started, task, aborted, callVars>>

Inspected(r) ==
  /\ request[r].pc = "inspect"
  /\ RequestTo(r, "insert", request[r].capture)
  /\ UNCHANGED <<workerVars, cleanupVars, captureOf, node, crashes, wake,
                 sweep, started, task, aborted, callVars>>

\* The package is not complete, or the store rejects the insertion.
RequestFails(r) ==
  /\ request[r].pc \in {"inspect", "insert"}
  /\ RequestTo(r, "idle", NoCapture)
  /\ UNCHANGED <<workerVars, cleanupVars, captureOf, node, crashes, wake,
                 sweep, started, task, aborted, callVars>>

Insert(r) ==
  /\ request[r].pc = "insert"
  /\ LET c == request[r].capture IN
       \/ /\ c # NoCapture
          /\ ActiveReconstruction(c)
          /\ UNCHANGED <<state, captureOf, wake>>
       \/ /\ c = NoCapture \/ ~ActiveReconstruction(c)
          /\ \E j \in Jobs :
               /\ state[j] = "absent"
               /\ state' = [state EXCEPT ![j] = "queued"]
               /\ captureOf' = [captureOf EXCEPT ![j] = c]
          /\ wake' = TRUE
  /\ RequestTo(r, "idle", NoCapture)
  /\ UNCHANGED <<workerVars, recordVars, releaseVars, node, crashes, sweep,
                 started, task, aborted, callVars>>

RequestStep(r) ==
  Create(r) \/ EnterExclusive(r) \/ Inspected(r) \/ RequestFails(r) \/ Insert(r)

-----------------------------------------------------------------------------
(* dispatch and run *)

\* One task at a time.  Which queued job is the oldest is left open.
Dispatch ==
  /\ wake
  /\ wake' = FALSE
  /\ \/ /\ \A j \in Jobs : task[j] = "none"
        /\ \E j \in Jobs : state[j] = "queued" /\ task' = [task EXCEPT ![j] = "gate"]
     \/ /\ \/ \E j \in Jobs : task[j] # "none"
           \/ \A j \in Jobs : state[j] # "queued"
        /\ UNCHANGED task
  /\ UNCHANGED <<workerVars, cleanupVars, captureOf, node, crashes, sweep,
                 request, started, aborted, callVars>>

Stopped(j) == j \in aborted \/ state[j] = "cancelled"
Goto(j, pc) == task' = [task EXCEPT ![j] = pc]

\* A step of run() that changes nothing but where it stands.
Moves(j, from, to) ==
  /\ task[j] = from
  /\ Goto(j, to)
  /\ UNCHANGED <<workerVars, cleanupVars, nodeVars, started, aborted,
                 callVars>>

\* run() returns early, into its finally, when it finds the job stopped.
ReturnsEarly(j) ==
  \E check \in Checks : Stopped(j) /\ Moves(j, check, "final")

\* An await of run() throws.
Throws(j) == \E pc \in Fallible : Moves(j, pc, "catch")

\* Participation, worker health and the capture are in order.
PassesGate(j) == ~Stopped(j) /\ Moves(j, "gate", "own")

OwnsDirectory(j) ==
  /\ task[j] = "own"
  /\ Own(j)
  /\ Goto(j, "health")
  /\ UNCHANGED <<workerVars, nodeVars, started, aborted, callVars>>

\* The worker's /health names its instance.
ReadsHealth(j) ==
  /\ task[j] = "health"
  /\ ~Stopped(j)
  /\ seen' = [seen EXCEPT ![j] = instance]
  /\ Goto(j, "mkdir")
  /\ UNCHANGED <<workerVars, cleanupVars, nodeVars, started, aborted, quiesce,
                 submits>>

MakesDirectory(j) ==
  /\ task[j] = "mkdir"
  /\ dirs' = dirs \cup {j}
  /\ Goto(j, "begin")
  /\ UNCHANGED <<serverVars, cleanupVars, nodeVars, started, aborted,
                 callVars>>

\* Fault: a patch overwrites the state of a cancelled job.
PatchJob_Cancelled(j, new) ==
  state' = [state EXCEPT ![j] = new]

\* patchJob throws on a cancelled job.
PatchJob(j, new) ==
  /\ state[j] # "cancelled"
  /\ state' = [state EXCEPT ![j] = new]

Begins(j) ==
  /\ task[j] = "begin"
  /\ PatchJob(j, "running")
  /\ started' = started \cup {j}
  /\ Goto(j, IF captureOf[j] = NoCapture THEN "stages" ELSE "dataset")
  /\ UNCHANGED <<workerVars, recordVars, releaseVars, nodeVars, aborted,
                 callVars>>

\* buildNerfstudioDataset creates the directories it needs; it can fail after
\* it has done so.
BuildsDataset(j) ==
  /\ task[j] = "dataset"
  /\ dirs' = dirs \cup {j}
  /\ Goto(j, "stages") \/ Goto(j, "catch")
  /\ UNCHANGED <<serverVars, cleanupVars, nodeVars, started, aborted,
                 callVars>>

\* The patches that record the stages before training.
ReportsStages(j) == state[j] # "cancelled" /\ Moves(j, "stages", "auth")

\* workerAuth.issue has signed the request.
IsAuthorized(j) == ~Stopped(j) /\ Moves(j, "auth", "mark")

MarksAttempt(j) ==
  /\ task[j] = "mark"
  /\ MarkWorkerAttempt(j, seen[j])
  /\ Goto(j, "post")
  /\ UNCHANGED <<workerVars, nodeVars, started, aborted, callVars>>

\* POST /v1/process.
Submits(j) ==
  /\ task[j] = "post"
  /\ ~Stopped(j)
  /\ inbox' = inbox \cup {<<j, seen[j]>>}
  /\ reply' = [reply EXCEPT ![j] = "none"]
  /\ submits' = [submits EXCEPT ![j] = @ + 1]
  /\ Goto(j, "await")
  /\ UNCHANGED <<instance, marked, active, dirs, cleanupVars, nodeVars,
                 started, aborted, seen, quiesce>>

GetsOutput(j) == reply[j] = "ok" /\ Moves(j, "await", "importing")

\* The patch to stage 'importing', and importOutputs.
BeginsImport(j) == state[j] # "cancelled" /\ Moves(j, "importing", "import")
Imports(j) == Moves(j, "import", "finish")

Completes(j) ==
  /\ task[j] = "finish"
  /\ PatchJob(j, "completed")
  /\ Goto(j, "final")
  /\ UNCHANGED <<workerVars, recordVars, releaseVars, nodeVars, started,
                 aborted, callVars>>

\* run()'s catch records the failure; when the job was cancelled meanwhile,
\* or the store rejects the patch, the job keeps its state.
Catches(j) ==
  /\ task[j] = "catch"
  /\ \/ PatchJob(j, IF j \in aborted THEN "cancelled" ELSE "failed")
     \/ (state[j] = "cancelled" \/ StoreMayFail) /\ UNCHANGED state
  /\ Goto(j, "final")
  /\ UNCHANGED <<workerVars, recordVars, releaseVars, nodeVars, started,
                 aborted, callVars>>

\* run()'s finally joins or starts the release of the job ...
ReconcilesAtEnd(j) ==
  /\ task[j] = "final"
  /\ Reconcile(j)
  /\ Goto(j, "joined")
  /\ UNCHANGED <<workerVars, state, recordVars, nodeVars, started, aborted,
                 callVars>>

\* ... and the task is over when that is.
TaskEnds(j) ==
  /\ task[j] = "joined"
  /\ rel[j] = "idle"
  /\ Goto(j, "none")
  /\ seen' = [seen EXCEPT ![j] = 0]
  /\ aborted' = aborted \ {j}
  /\ wake' = TRUE
  /\ UNCHANGED <<workerVars, cleanupVars, captureOf, node, crashes, sweep,
                 request, started, quiesce, submits>>

TaskStep(j) ==
  \/ ReturnsEarly(j) \/ Throws(j)
  \/ PassesGate(j) \/ OwnsDirectory(j) \/ ReadsHealth(j) \/ MakesDirectory(j)
  \/ Begins(j) \/ BuildsDataset(j) \/ ReportsStages(j) \/ IsAuthorized(j)
  \/ MarksAttempt(j) \/ Submits(j) \/ GetsOutput(j) \/ BeginsImport(j)
  \/ Imports(j) \/ Completes(j) \/ Catches(j) \/ ReconcilesAtEnd(j) \/ TaskEnds(j)

-----------------------------------------------------------------------------
(* cancel and ensureJobQuiescent *)

\* The terminal state is durable before the abort reaches run().
CancelJob(j) ==
  /\ state' = [state EXCEPT ![j] = "cancelled"]
  /\ aborted' = IF task[j] = "none" THEN aborted ELSE aborted \cup {j}

Cancel(j) ==
  /\ node = "up"
  /\ state[j] \in Waiting
  /\ CancelJob(j)
  /\ UNCHANGED <<workerVars, recordVars, releaseVars, nodeVars, started, task,
                 callVars>>

\* ensureJobQuiescent cancels the job first and waits for its task.
AskQuiescent(j) ==
  /\ node = "up"
  /\ quiesce[j] = "no"
  /\ \/ state[j] \in Waiting /\ CancelJob(j)
     \/ state[j] \in Terminal /\ UNCHANGED <<state, aborted>>
  /\ quiesce' = [quiesce EXCEPT ![j] = "wait"]
  /\ UNCHANGED <<workerVars, recordVars, releaseVars, nodeVars, started, task,
                 seen, submits>>

\* Then it joins or starts the release of a journaled job ...
AwaitQuiescent(j) ==
  /\ quiesce[j] = "wait"
  /\ task[j] = "none"
  /\ Reconcile(j)
  /\ quiesce' = [quiesce EXCEPT ![j] = "settle"]
  /\ UNCHANGED <<workerVars, state, recordVars, nodeVars, started, task,
                 aborted, seen, submits>>

\* ... and returns, or throws worker_quiescence_unverified.
GrantQuiescent(j) ==
  /\ quiesce[j] = "settle"
  /\ rel[j] = "idle"
  /\ quiesce' = [quiesce EXCEPT ![j] =
       IF \/ journal[j] = "complete"
          \/ journal[j] = "none" /\ j \notin started
       THEN "granted" ELSE "no"]
  /\ UNCHANGED <<workerVars, cleanupVars, nodeVars, started, task, aborted,
                 seen, submits>>

QuiesceStep(j) == AwaitQuiescent(j) \/ GrantQuiescent(j)

-----------------------------------------------------------------------------
JobStep(j) ==
  \/ TaskStep(j)
  \/ SweepNext(j)
  \/ ReleaseStep(j) /\ UNCHANGED runVars
  \/ Cancel(j) \/ AskQuiescent(j) \/ QuiesceStep(j)

Next ==
  \/ \E j \in Jobs : JobStep(j)
  \/ \E r \in Requests : RequestStep(r)
  \/ Dispatch \/ Start \/ Started \/ ReconcileCleanup \/ Crash
  \/ WorkerStep /\ UNCHANGED <<cleanupVars, runVars>>

Spec == Init /\ [][Next]_vars

\* No reconcileCleanup() visits a job whose task is still at work.  The code
\* does not ensure this: POST /jobs/cleanup may come at any time.
SweepsApart == \A j \in sweep : task[j] = "none"

ApartSpec == Init /\ [][Next /\ SweepsApart']_vars

-----------------------------------------------------------------------------
(* What the runtime promises *)

\* A journal record says 'complete' only when the worker is not working on the
\* job and never will again, whatever is still on its way to it and however
\* often worker and node have been restarted.
CompleteMeansQuiet == \A j \in Jobs : journal[j] = "complete" => Quiet(j)

\* When ensureJobQuiescent() has returned, the job is terminal, the node has no
\* task for it and the worker is quiet: its source may be deleted.
GrantMeansQuiet ==
  \A j \in Jobs : quiesce[j] = "granted" =>
                    state[j] \in Terminal /\ task[j] = "none" /\ Quiet(j)

\* A job is handed to a worker at most once, over all restarts of the node:
\* an interrupted training is never silently started again.
NeverResubmitted == \A j \in Jobs : submits[j] <= 1

\* Two requests never reserve two reconstructions of one capture.
OneActiveReconstruction ==
  \A j, k \in Jobs :
    /\ captureOf[j] # NoCapture /\ captureOf[j] = captureOf[k]
    /\ state[j] \in Waiting /\ state[k] \in Waiting
    => j = k

\* The directory of a job exists only after the journal has taken ownership of
\* it, so that a restart can find every directory it has to remove.
DirectoriesAreJournaled == \A j \in dirs : journal[j] # "none" \/ j \in Legacy

\* A terminal state is never left: no late answer of the worker, no failing
\* task and no restart changes what was decided.
TerminalIsFinal ==
  [][\A j \in Jobs : state[j] \in Terminal => state'[j] = state[j]]_vars

\* The runtime never touches a directory it did not journal.
LegacyUntouched == Legacy \subseteq dirs

\* When a job is over and its cleanup is recorded as complete, its directory
\* is gone.
CompleteMeansRemoved ==
  \A j \in Jobs : journal[j] = "complete" /\ task[j] = "none" => j \notin dirs

\* Every job that was created comes to an end ...
JobsEnd == \A j \in Jobs : state[j] \in Waiting ~> state[j] \in Terminal

\* ... and every directory the journal owns is either cleaned up or reported
\* as blocked, which stops the creation of new jobs.
CleanupSettles ==
  \A j \in Jobs : journal[j] = "pending" ~> journal[j] \in {"complete", "blocked"}

\* The event loop runs what is runnable; the worker serves its requests and its
\* handlers end (training has a timeout); the node is started again.
Fairness ==
  /\ WF_vars(Start) /\ WF_vars(Started) /\ WF_vars(Dispatch)
  /\ \A j \in Jobs :
       /\ WF_vars(TaskStep(j)) /\ WF_vars(SweepNext(j))
       /\ WF_vars(ReleaseStep(j) /\ UNCHANGED runVars)
       /\ WF_vars(/\ Process(j) \/ ProcessEnds(j)
                  /\ UNCHANGED <<cleanupVars, runVars>>)

FairSpec == Spec /\ Fairness
=============================================================================
