----------------------------- MODULE JobCleanup -----------------------------
(***************************************************************************)
(* The cleanup journal (src/jobs/jobCleanup.ts): which job directories the *)
(* node owns, which jobs were handed to which worker instance, and the     *)
(* release that makes the worker quiescent before it removes a directory.  *)
(*                                                                         *)
(* state, journal, attempted and boundTo are in the durable store.  At     *)
(* most one release runs per job (`locks`); rel[j] is where it stands.     *)
(***************************************************************************)
EXTENDS SpatialWorker

CONSTANT StoreMayFail   \* whether LocalStore.update can reject

ASSUME StoreAssumption == StoreMayFail \in BOOLEAN

VARIABLES
  state,       \* jobs[j].state; "absent": no such job
  journal,     \* jobCleanup[j].state; "none": no record
  attempted,   \* jobs whose record says workerAttempted
  boundTo,     \* workerInstanceId of the record, 0 when there is none
  rel,         \* what the release of j awaits; "idle": none is running
  asked        \* the instance that the running release read from the record

recordVars == <<journal, attempted, boundTo>>
releaseVars == <<rel, asked>>
cleanupVars == <<state, recordVars, releaseVars>>

Waiting == {"queued", "running"}
Terminal == {"completed", "failed", "cancelled"}
JobStates == {"absent"} \cup Waiting \cup Terminal
JournalStates == {"none", "pending", "blocked", "complete"}
ReleasePcs == {"idle", "cancel", "quiesce", "remove", "complete", "block"}

CleanupTypeOK ==
  /\ state \in [Jobs -> JobStates]
  /\ journal \in [Jobs -> JournalStates]
  /\ attempted \in SUBSET Jobs
  /\ boundTo \in [Jobs -> Nat]
  /\ rel \in [Jobs -> ReleasePcs]
  /\ asked \in [Jobs -> Nat]

-----------------------------------------------------------------------------
Own(j) ==
  /\ journal[j] = "none"
  /\ journal' = [journal EXCEPT ![j] = "pending"]
  /\ UNCHANGED <<state, attempted, boundTo, releaseVars>>

MarkWorkerAttempt(j, i) ==
  /\ journal[j] \notin {"none", "complete"}
  /\ attempted' = attempted \cup {j}
  /\ boundTo' = [boundTo EXCEPT ![j] = i]
  /\ UNCHANGED <<state, journal, releaseVars>>

\* Whether release() has something to do for j.
Releasable(j) == journal[j] \in {"pending", "blocked"} /\ state[j] \notin Waiting

\* reconcile(j): joins the release that is running, or starts one.  A release
\* with nothing to do returns at once.
Reconcile(j) ==
  IF rel[j] = "idle" /\ Releasable(j)
  THEN /\ rel' = [rel EXCEPT ![j] = IF j \in attempted THEN "cancel" ELSE "remove"]
       /\ asked' = [asked EXCEPT ![j] = boundTo[j]]
  ELSE UNCHANGED releaseVars

Advance(j, pc) ==
  /\ rel' = [rel EXCEPT ![j] = pc]
  /\ UNCHANGED <<state, recordVars, asked>>

\* The release records its outcome and is over.
Record(j, outcome) ==
  /\ journal' = [journal EXCEPT ![j] = outcome]
  /\ rel' = [rel EXCEPT ![j] = "idle"]
  /\ asked' = [asked EXCEPT ![j] = 0]
  /\ UNCHANGED <<state, attempted, boundTo>>

\* POST /v1/jobs/cancel reaches the instance it names, which makes the job's
\* marker durable before anything else.
CancelArrives(j) ==
  /\ rel[j] = "cancel"
  /\ asked[j] = instance
  /\ marked' = marked \cup {j}
  /\ Advance(j, "quiesce")
  /\ UNCHANGED <<instance, active, inbox, reply, dirs>>

\* Fault: the receipt does not wait for the handler to finish.
Receipt_Early(j) ==
  /\ rel[j] = "quiesce"
  /\ Advance(j, "remove")
  /\ UNCHANGED workerVars

\* The worker's receipt: the handler is done and its processes are gone.
Receipt(j) ==
  /\ rel[j] = "quiesce"
  /\ asked[j] = instance
  /\ <<j, instance>> \notin active
  /\ Advance(j, "remove")
  /\ UNCHANGED workerVars

\* No valid receipt: 409 from another instance, 503 when the job does not
\* stop in time, a timeout.  The request may have reached the worker.
CancelFails(j) ==
  /\ rel[j] \in {"cancel", "quiesce"}
  /\ \/ UNCHANGED marked
     \/ rel[j] = "cancel" /\ asked[j] = instance /\ marked' = marked \cup {j}
  /\ Advance(j, "block")
  /\ UNCHANGED <<instance, active, inbox, reply, dirs>>

RemoveOwnedWorkDirectory(j) ==
  /\ rel[j] = "remove"
  /\ dirs' = dirs \ {j}
  /\ Advance(j, "complete")
  /\ UNCHANGED serverVars

\* The removal throws, or the update that records it does.
RemovalFails(j) ==
  /\ rel[j] \in {"remove", "complete"}
  /\ Advance(j, "block")
  /\ UNCHANGED workerVars

RecordComplete(j) ==
  /\ rel[j] = "complete"
  /\ Record(j, "complete")
  /\ UNCHANGED workerVars

\* The handler's own update can fail too; the record then stays as it was.
RecordBlocked(j) ==
  /\ rel[j] = "block"
  /\ Record(j, "blocked") \/ (StoreMayFail /\ Record(j, journal[j]))
  /\ UNCHANGED workerVars

ReleaseStep(j) ==
  \/ CancelArrives(j) \/ Receipt(j) \/ CancelFails(j)
  \/ RemoveOwnedWorkDirectory(j) \/ RemovalFails(j)
  \/ RecordComplete(j) \/ RecordBlocked(j)
=============================================================================
