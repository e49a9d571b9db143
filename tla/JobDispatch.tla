---------------------------- MODULE JobDispatch ----------------------------
(***************************************************************************)
(* How JobRuntime starts the runs of queued jobs (src/jobs/jobRuntime.ts): *)
(* schedule() and the loop of dispatch(), one iteration per step, for any  *)
(* JOB_CONCURRENCY.  JobRuntime.tla has the runs themselves, with the      *)
(* default of one at a time; here a run is only the patches of its job's   *)
(* state and the handler that ends it.                                     *)
(*                                                                         *)
(* The loop awaits nothing, so no other code of the node runs while it     *)
(* does: every other action waits for it.                                  *)
(***************************************************************************)
EXTENDS Naturals, Sequences, FiniteSets, Functions

CONSTANTS
  Jobs,
  Concurrency,   \* JOB_CONCURRENCY
  StoreMayFail,  \* whether the store can reject the patch of a run's catch
  MaxClock,      \* bound: milliseconds in which jobs are created
  MaxCalls        \* bound: calls of run() that are alive for one job

ASSUME ConcurrencyAssumption == Concurrency \in Nat \ {0}
ASSUME StoreAssumption == StoreMayFail \in BOOLEAN

VARIABLES
  state,        \* the job's durable state; "absent" before it is inserted
  inserted,     \* the jobs of the store, in the order of their insertion
  createdAt,    \* the millisecond each job was created in
  clock,
  created,      \* jobs that insert() has stored, and not yet scheduled for
  dispatching,  \* "no", "queued" (its microtask is) or "looping"
  running,      \* the keys of `running`
  runs,         \* calls of run() that have not yet patched the last state
  ending        \* calls of run() that are in their finally

storeVars == <<state, inserted, createdAt, clock>>
dispatchVars == <<storeVars, created, dispatching, running, runs, ending>>

States == {"absent", "queued", "running", "completed", "failed", "cancelled"}

DispatchTypeOK ==
  /\ state \in [Jobs -> States]
  /\ inserted \in Seq(Jobs)
  /\ createdAt \in [Jobs -> 0..MaxClock]
  /\ clock \in 0..MaxClock
  /\ created \in SUBSET Jobs
  /\ dispatching \in {"no", "queued", "looping"}
  /\ running \in SUBSET Jobs
  /\ runs \in [Jobs -> 0..MaxCalls]
  /\ ending \in [Jobs -> 0..MaxCalls]

\* start() has failed what was interrupted and calls schedule(); jobs that no
\* run had touched are still queued.
DispatchInit ==
  /\ inserted \in UNION {Injection(1..n, Jobs) : n \in 0..Cardinality(Jobs)}
  /\ state = [j \in Jobs |-> IF j \in Range(inserted) THEN "queued" ELSE "absent"]
  /\ createdAt = [j \in Jobs |-> 0]
  /\ clock = 0
  /\ created = {}
  /\ dispatching = "queued"
  /\ running = {}
  /\ runs = [j \in Jobs |-> 0]
  /\ ending = [j \in Jobs |-> 0]

-----------------------------------------------------------------------------
NotLooping == dispatching # "looping"

Tick ==
  /\ NotLooping
  /\ clock < MaxClock
  /\ clock' = clock + 1
  /\ UNCHANGED <<state, inserted, createdAt, created, dispatching, running,
                 runs, ending>>

\* insert() stores the job ...
Insert(j) ==
  /\ NotLooping
  /\ state[j] = "absent"
  /\ state' = [state EXCEPT ![j] = "queued"]
  /\ inserted' = Append(inserted, j)
  /\ createdAt' = [createdAt EXCEPT ![j] = clock]
  /\ created' = created \cup {j}
  /\ UNCHANGED <<clock, dispatching, running, runs, ending>>

\* A dispatch that is queued or under way is not queued again.
Schedule == dispatching' = IF dispatching = "no" THEN "queued" ELSE dispatching

\* ... and then schedules.
InsertReturns(j) ==
  /\ NotLooping
  /\ j \in created
  /\ created' = created \ {j}
  /\ Schedule
  /\ UNCHANGED <<storeVars, running, runs, ending>>

\* list() sorts by createdAt, the newest first, and keeps the order of the
\* store among jobs of one millisecond; dispatch() looks at it from the end.
IndexOf(j) == CHOOSE i \in DOMAIN inserted : inserted[i] = j

Before(j, k) ==
  \/ createdAt[j] < createdAt[k]
  \/ createdAt[j] = createdAt[k] /\ IndexOf(j) > IndexOf(k)

Queued == {j \in Jobs : state[j] = "queued"}
NextJob == CHOOSE j \in Queued : \A k \in Queued \ {j} : Before(j, k)

DispatchStarts ==
  /\ dispatching = "queued"
  /\ dispatching' = "looping"
  /\ UNCHANGED <<storeVars, created, running, runs, ending>>

\* Fault: the bound is off by one.
MayStart_OneMore == Cardinality(running) <= Concurrency

\* Whether the loop goes on.
MayStart == Cardinality(running) < Concurrency

\* One iteration: run() is called and returns at its first await, before it
\* has changed the job.
Dispatch ==
  /\ dispatching = "looping"
  /\ MayStart
  /\ Queued # {}
  /\ runs[NextJob] < MaxCalls
  /\ running' = running \cup {NextJob}
  /\ runs' = [runs EXCEPT ![NextJob] = @ + 1]
  /\ UNCHANGED <<storeVars, created, dispatching, ending>>

DispatchEnds ==
  /\ dispatching = "looping"
  /\ ~MayStart \/ Queued = {}
  /\ dispatching' = "no"
  /\ UNCHANGED <<storeVars, created, running, runs, ending>>

-----------------------------------------------------------------------------
(* run, as far as dispatch is concerned *)

RunStarts(j) ==
  /\ NotLooping
  /\ runs[j] > 0
  /\ state[j] = "queued"
  /\ state' = [state EXCEPT ![j] = "running"]
  /\ UNCHANGED <<inserted, createdAt, clock, created, dispatching, running,
                 runs, ending>>

Outcome(j, new) ==
  /\ runs[j] > 0
  /\ state' = [state EXCEPT ![j] = new]
  /\ runs' = [runs EXCEPT ![j] = @ - 1]
  /\ ending' = [ending EXCEPT ![j] = @ + 1]

\* The job is completed, has failed, or is found cancelled (or, by a second
\* run of the same job, at its end already); or the store rejects the patch,
\* and the job keeps its state.
RunFinishes(j) ==
  /\ NotLooping
  /\ \/ state[j] = "running" /\ Outcome(j, "completed")
     \/ state[j] \in {"queued", "running"} /\ Outcome(j, "failed")
     \/ /\ state[j] \notin {"queued", "running"} \/ StoreMayFail
        /\ Outcome(j, state[j])
  /\ UNCHANGED <<inserted, createdAt, clock, created, dispatching, running>>

\* Fault: nothing is scheduled when a run ends.
RunEnds_Silently(j) ==
  /\ NotLooping
  /\ ending[j] > 0
  /\ ending' = [ending EXCEPT ![j] = @ - 1]
  /\ running' = running \ {j}
  /\ UNCHANGED <<storeVars, created, dispatching, runs>>

\* The handler that dispatch() put on the task.
RunEnds(j) ==
  /\ NotLooping
  /\ ending[j] > 0
  /\ ending' = [ending EXCEPT ![j] = @ - 1]
  /\ running' = running \ {j}
  /\ Schedule
  /\ UNCHANGED <<storeVars, created, runs>>

CancelJob(j) ==
  /\ NotLooping
  /\ state[j] \in {"queued", "running"}
  /\ state' = [state EXCEPT ![j] = "cancelled"]
  /\ UNCHANGED <<inserted, createdAt, clock, created, dispatching, running,
                 runs, ending>>

-----------------------------------------------------------------------------
RunProgress(j) == RunStarts(j) \/ RunFinishes(j) \/ RunEnds(j)

DispatchStep == DispatchStarts \/ Dispatch \/ DispatchEnds

DispatchNext ==
  \/ Tick
  \/ DispatchStep
  \/ \E j \in Jobs : Insert(j) \/ InsertReturns(j) \/ RunProgress(j) \/ CancelJob(j)

DispatchSpec == DispatchInit /\ [][DispatchNext]_dispatchVars

\* Microtasks run, and a run ends: its requests have timeouts.  The store does not
\* reject every one of infinitely many patches that would take a job off the queue.
DispatchFairness ==
  /\ WF_dispatchVars(DispatchStep)
  /\ \A j \in Jobs :
       /\ WF_dispatchVars(InsertReturns(j))
       /\ WF_dispatchVars(RunFinishes(j)) /\ WF_dispatchVars(RunEnds(j))
       /\ SF_dispatchVars(RunFinishes(j) /\ state'[j] # "queued")

FairDispatchSpec == DispatchSpec /\ DispatchFairness

-----------------------------------------------------------------------------
\* The calls of run() that are alive, those that await their cleanup included.
AliveRuns == UNION {{j} \X (1..(runs[j] + ending[j])) : j \in Jobs}

\* No more runs are alive than JOB_CONCURRENCY allows: what the loop of
\* dispatch() is there to bound.
BoundedRuns == Cardinality(AliveRuns) <= Concurrency

\* A job that is created leaves the queue: schedule() and the end of each run
\* between them lose no wake-up.
QueuedIsServed == \A j \in Jobs : state[j] = "queued" ~> state[j] # "queued"

=============================================================================
