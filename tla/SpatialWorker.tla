--------------------------- MODULE SpatialWorker ---------------------------
(***************************************************************************)
(* The spatial worker as the node's job runtime sees it: job admission and *)
(* cancellation (spatial-worker/job_control.py and the two endpoints of    *)
(* spatial-worker/server.py), and the job directories on the volume that   *)
(* the worker shares with the node.                                        *)
(*                                                                         *)
(* A worker process is identified by the instance it was started as.  A    *)
(* restart is a new instance; the cancellation markers survive it, and so  *)
(* may the training processes of the old instance, which run in sessions   *)
(* of their own.                                                           *)
(***************************************************************************)
EXTENDS Naturals, FiniteSets

CONSTANTS
  Jobs,          \* job identifiers
  MaxInstances   \* bound: worker processes started over a behaviour

ASSUME InstancesAssumption == MaxInstances \in Nat \ {0}

VARIABLES
  instance,   \* WORKER_INSTANCE_ID of the running worker
  marked,     \* jobs with a cancellation marker on the volume
  active,     \* <<j, i>>: instance i's handler or processes for j are alive
  inbox,      \* <<j, i>>: /v1/process of j, addressed to i, on its way
  reply,      \* the answer to /v1/process of each job
  dirs        \* jobs whose directory private/jobs/<id> exists

serverVars == <<instance, marked, active, inbox, reply>>
workerVars == <<serverVars, dirs>>

Instances == 1..MaxInstances
Attempts == Jobs \X Instances

WorkerTypeOK ==
  /\ instance \in Instances
  /\ marked \in SUBSET Jobs
  /\ active \in SUBSET Attempts
  /\ inbox \in SUBSET Attempts
  /\ reply \in [Jobs -> {"none", "ok", "error"}]
  /\ dirs \in SUBSET Jobs

\* A job the worker is not working on and will not start to work on: an
\* undelivered request for it is addressed to a process that is gone, or the
\* job's marker is there to refuse it.
Quiet(j) ==
  /\ \A i \in Instances : <<j, i>> \notin active
  /\ \A i \in Instances : <<j, i>> \in inbox => j \in marked \/ i # instance

\* Fault: admission does not look for the cancellation marker.
Process_NoMarker(j) ==
  /\ \E i \in Instances :
       /\ <<j, i>> \in inbox
       /\ inbox' = inbox \ {<<j, i>>}
       /\ IF i = instance
          THEN active' = active \cup {<<j, i>>} /\ UNCHANGED reply
          ELSE reply' = [reply EXCEPT ![j] = "error"] /\ UNCHANGED active
  /\ UNCHANGED <<instance, marked, dirs>>

\* POST /v1/process arrives: it is admitted, or answered with a 409.
Process(j) ==
  /\ \E i \in Instances :
       /\ <<j, i>> \in inbox
       /\ inbox' = inbox \ {<<j, i>>}
       /\ IF i = instance /\ j \notin marked /\ <<j, i>> \notin active
          THEN active' = active \cup {<<j, i>>} /\ UNCHANGED reply
          ELSE reply' = [reply EXCEPT ![j] = "error"] /\ UNCHANGED active
  /\ UNCHANGED <<instance, marked, dirs>>

\* The handler and its processes write under the job's directory.
WorkerWrites(j) ==
  /\ \E i \in Instances : <<j, i>> \in active
  /\ dirs' = dirs \cup {j}
  /\ UNCHANGED serverVars

\* The handler leaves control.job: it answers, if its worker is still there.
\* A job that was marked meanwhile does not succeed (JobCancelled).
ProcessEnds(j) ==
  /\ \E i \in Instances :
       /\ <<j, i>> \in active
       /\ active' = active \ {<<j, i>>}
       /\ \/ i # instance /\ UNCHANGED reply
          \/ i = instance /\ reply' = [reply EXCEPT ![j] = "error"]
          \/ /\ i = instance /\ j \notin marked
             /\ reply' = [reply EXCEPT ![j] = "ok"]
  /\ UNCHANGED <<instance, marked, inbox, dirs>>

\* The worker dies and is started again.  Some of its processes may live on.
WorkerRestarts ==
  /\ instance < MaxInstances
  /\ instance' = instance + 1
  /\ active' \in SUBSET active
  /\ UNCHANGED <<marked, inbox, reply, dirs>>

WorkerStep ==
  \/ \E j \in Jobs : Process(j) \/ WorkerWrites(j) \/ ProcessEnds(j)
  \/ WorkerRestarts
=============================================================================
