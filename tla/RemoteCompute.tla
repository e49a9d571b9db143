--------------------------- MODULE RemoteCompute ---------------------------
(***************************************************************************)
(* A node that offers compute (src/compute/remoteComputeRuntime.ts): its   *)
(* poll of the backend, what it does with each assignment the poll lists,  *)
(* and the verdict that stops the polling of a credential the backend has  *)
(* refused.                                                                *)
(*                                                                         *)
(* One poll runs at a time (`polling`) and handles the jobs of its listing *)
(* one after the other; poll.pc is the await it is at, poll.seen the state *)
(* that the listing gave for each job, which may be stale.  The release of *)
(* inputs and its timer are ProviderCleanup's and run concurrently.        *)
(***************************************************************************)
EXTENDS ProviderCleanup

CONSTANTS
  Capacity,     \* maxConcurrency + maxQueueDepth
  MaxOthers,    \* bound: the active assignments of the node that are not in Jobs
  Credentials,  \* operator tokens
  MaxRestarts   \* bound

ASSUME RestartsAssumption == MaxRestarts \in Nat

VARIABLES
  backend,    \* the state of each job in the backend
  poll,       \* the poll in progress
  offering,   \* computeProviderSettings: enabled and not paused
  verdict,    \* computeAuthorization: the refused credential, or "none"
  token,      \* the operator token of this process
  stopped,    \* `stopped`: no next poll is scheduled
  restarts

runtimeVars == <<backend, poll, offering, verdict, token, stopped, restarts>>
vars == <<cleanupVars, runtimeVars>>

Terminal == {"CANCELLED", "FAILED", "EXPIRED", "DECLINED", "COMPLETED"}
Listed == {"MATCHED", "ACCEPTED", "INPUT_READY", "RUNNING", "OUTPUT_READY"} \cup Terminal
BackendStates == Listed \cup {"REQUESTED"}
Nobody == "nobody"
NoPoll == [pc |-> "idle", job |-> Nobody, todo |-> {}, then |-> "done",
           seen |-> [j \in Jobs |-> "REQUESTED"]]
PrepareSteps == {"acquire", "cat", "decrypt", "register", "create", "save"}
PollSteps == {"idle", "fetch", "next", "decline", "accept", "adopt", "own", "report",
              "running", "submit", "fail", "request", "await", "saveState"} \cup PrepareSteps

Poll == [pc: PollSteps, job: Jobs \cup {Nobody}, todo: SUBSET Jobs,
         then: {"done", "OUTPUT_READY", "FAILED", "pollFails"}, seen: [Jobs -> BackendStates]]
JobSteps == PollSteps \ {"idle", "fetch", "next"}

TypeOK ==
  /\ CleanupTypeOK
  /\ backend \in [Jobs -> BackendStates]
  /\ poll \in Poll /\ (poll.pc \in JobSteps => poll.job \in Jobs)
  /\ poll.pc = "saveState" => poll.then \in {"OUTPUT_READY", "FAILED"}
  /\ offering \in BOOLEAN /\ stopped \in BOOLEAN
  /\ token \in Credentials /\ verdict \in Credentials \cup {"none"}
  /\ restarts \in 0..MaxRestarts

Init ==
  /\ CleanupInit
  /\ backend = [j \in Jobs |-> "REQUESTED"]
  /\ poll = NoPoll
  /\ offering \in BOOLEAN
  /\ verdict = "none"
  /\ token \in Credentials
  /\ stopped = FALSE
  /\ restarts = 0

-----------------------------------------------------------------------------
(* The backend, as the runtime sees it: it enforces the transitions. *)

Legal(from, to) ==
  CASE to \in {"ACCEPTED", "DECLINED"} -> from = "MATCHED"
    [] to = "INPUT_READY" -> from = "ACCEPTED"
    [] to = "RUNNING" -> from = "INPUT_READY"
    [] to = "OUTPUT_READY" -> from = "RUNNING"
    [] to \in {"FAILED", "CANCELLED", "EXPIRED"} -> from \notin Terminal
    [] to = "COMPLETED" -> from = "OUTPUT_READY"
    [] OTHER -> from = "REQUESTED"

\* The requester, the matching and the clock of the backend.
BackendMoves(j) ==
  /\ \E to \in {"MATCHED", "CANCELLED", "EXPIRED", "COMPLETED"} :
       Legal(backend[j], to) /\ backend' = [backend EXCEPT ![j] = to]
  /\ UNCHANGED <<cleanupVars, poll, offering, verdict, token, stopped, restarts>>

\* A transition the provider asks for: taken and answered, taken with the
\* answer lost, or refused.
Asked(j, to) == Legal(backend[j], to) /\ backend' = [backend EXCEPT ![j] = to] /\ NoFault
Throws(j, to) ==
  /\ Fault \/ (~Legal(backend[j], to) /\ NoFault)
  /\ \/ UNCHANGED backend
     \/ Legal(backend[j], to) /\ backend' = [backend EXCEPT ![j] = to]

-----------------------------------------------------------------------------
(* The poll *)

J == poll.job
Seen == poll.seen[poll.job]
At(pc) == poll.pc = pc
Goto(pc) == poll' = [poll EXCEPT !.pc = pc]
Then(pc, next) == poll' = [poll EXCEPT !.pc = pc, !.then = next]
Done == poll' = [poll EXCEPT !.pc = "next", !.job = Nobody, !.then = "done"]
Sees(pc, state) == poll' = [poll EXCEPT !.pc = pc, !.seen[poll.job] = state]
PollEnds == poll' = NoPoll
OwnsPlaintext == \E j \in Jobs : Owned(j) /\ ~Complete(j)

idle == <<cleanupVars, backend, offering, verdict, token, stopped, restarts>>

PollStarts ==
  /\ ~stopped
  /\ At("idle")
  /\ offering \/ OwnsPlaintext
  /\ Goto("fetch")
  /\ UNCHANGED idle

StopsPolling == stopped' = TRUE

\* blockOnAuthorizationFailure: the verdict names the credential it is about.
BlockOnAuthorizationFailure == verdict' = token /\ StopsPolling

\* onPollFailed: after a 401 or 403 the verdict is saved and polling stops;
\* after another error, or when the store cannot keep the verdict, the loop
\* goes on, later.
OnPollFailed ==
  /\ PollEnds /\ Fault
  /\ UNCHANGED <<verdict, stopped>> \/ (At("fetch") /\ BlockOnAuthorizationFailure)

\* The listing.
PollFetches ==
  /\ At("fetch")
  /\ poll' = [NoPoll EXCEPT !.pc = "next", !.seen = backend,
                            !.todo = {j \in Jobs : backend[j] \in Listed}]
  /\ UNCHANGED idle

\* The listing, or the record that the credential worked, fails.
PollFails ==
  /\ At("fetch") \/ (At("next") /\ poll.todo = {})
  /\ OnPollFailed
  /\ UNCHANGED <<record, captures, local, created, plaintext, pins, expired, preparing,
                 release, backend, offering, token, restarts>>

\* The next job of the listing, up to the first await of handleProviderJob.
PollHandles(j) ==
  LET seen == poll.seen[j]
      at(pc, next) == poll' = [poll EXCEPT !.pc = pc, !.job = j, !.todo = @ \ {j}, !.then = next]
      skip == poll' = [poll EXCEPT !.todo = @ \ {j}]
      idling == ~offering /\ ~record[j].localJobId
  IN
  /\ At("next") /\ j \in poll.todo
  /\ CASE seen \in Terminal -> IF Owned(j) THEN at("request", "done") ELSE skip
       [] seen = "OUTPUT_READY" /\ Owned(j) -> at("request", "OUTPUT_READY")
       [] idling -> IF Owned(j) THEN at("request", "done") ELSE skip
       [] record[j].requested ->
            at("request", IF seen \in {"ACCEPTED", "INPUT_READY", "RUNNING"} THEN "FAILED" ELSE "done")
       [] seen = "MATCHED" ->
            IF \E k \in Jobs : record[k].plaintext = "blocked" THEN at("decline", "done")
            ELSE at("accept", "done")
       [] OTHER -> at("adopt", "done")
  /\ UNCHANGED idle

\* The participation gate has answered; then size and capacity are asked for.
AtCapacity(others) == Cardinality({j \in Jobs : record[j].state \in Active}) + others >= Capacity

Accept ==
  /\ At("accept")
  /\ \E others \in 0..MaxOthers :
       \/ AtCapacity(others) /\ Goto("decline") /\ NoFault /\ UNCHANGED backend
       \/ ~AtCapacity(others) /\ Asked(J, "ACCEPTED") /\ Sees("adopt", "ACCEPTED")
       \/ Throws(J, "ACCEPTED") /\ Goto("fail")
  /\ UNCHANGED <<record, captures, local, created, plaintext, pins, expired, preparing,
                 release, offering, verdict, token, stopped, restarts>>

Decline ==
  /\ At("decline")
  /\ \/ Asked(J, "DECLINED") /\ Done
     \/ Throws(J, "DECLINED") /\ Goto("fail")
  /\ UNCHANGED <<record, captures, local, created, plaintext, pins, expired, preparing,
                 release, offering, verdict, token, stopped, restarts>>

\* Fault: a local job whose id was not saved is not looked for.
Child_Ignored(j) == FALSE

\* A local job that was inserted for j before its id was saved.
Child(j) == Owned(j) /\ local[j] # "none"

\* The id of such a job is saved; then preparation, or what is left to report.
Adopt ==
  /\ At("adopt")
  /\ record' = IF Child(J) THEN [record EXCEPT ![J].localJobId = TRUE] ELSE record
  /\ Goto(IF Seen \in {"ACCEPTED", "INPUT_READY"} /\ ~record'[J].localJobId THEN "own" ELSE "report")
  /\ UNCHANGED <<captures, local, created, plaintext, pins, expired, preparing, release,
                 faults, backend, offering, verdict, token, stopped, restarts>>

-----------------------------------------------------------------------------
(* The preparation of an input: each effect, and the check that follows it. *)

\* What remains in the map `preparing` when this step leaves the poll at pc.
Prepares(pc) == preparing' = IF pc \in PrepareSteps THEN preparing \cup {J} ELSE preparing \ {J}

\* The step succeeds and is followed by assertPreparing, or it throws.
Continue(ok, next) ==
  LET to == IF ok THEN next ELSE "fail" IN Goto(to) /\ Prepares(to)

Own ==
  /\ At("own")
  /\ \/ /\ Reusable(J) \/ ~Owned(J)
        /\ record' = [record EXCEPT ![J] = OwnedRecord(J)]
        /\ Continue(J \notin expired, "acquire") /\ NoFault
     \/ Owned(J) /\ ~Reusable(J) /\ Goto("fail") /\ NoFault /\ UNCHANGED <<record, preparing>>
     \/ Goto("fail") /\ Fault /\ UNCHANGED <<record, preparing>>
  /\ UNCHANGED <<captures, local, created, plaintext, pins, expired, release, backend,
                 offering, verdict, token, stopped, restarts>>

AcquireInput ==
  /\ At("acquire")
  /\ \/ pins' = pins \cup {J} /\ Continue(MayPrepare(J), "cat") /\ NoFault
     \/ Continue(FALSE, "cat") /\ Fault /\ UNCHANGED pins
  /\ UNCHANGED <<record, captures, local, created, plaintext, expired, release, backend,
                 offering, verdict, token, stopped, restarts>>

ReadInput ==
  /\ At("cat")
  /\ \/ Continue(MayPrepare(J), "decrypt") /\ NoFault
     \/ Continue(FALSE, "decrypt") /\ Fault
  /\ UNCHANGED <<record, captures, local, created, plaintext, pins, expired, release, backend,
                 offering, verdict, token, stopped, restarts>>

\* decryptToDirectory; a failure after the first file removes the directory.
Decrypt ==
  /\ At("decrypt")
  /\ \/ plaintext' = plaintext \cup {J} /\ Continue(MayPrepare(J), "register") /\ NoFault
     \/ Continue(FALSE, "register") /\ Fault /\ plaintext' = plaintext \ {J}
  /\ UNCHANGED <<record, captures, local, created, pins, expired, release, backend,
                 offering, verdict, token, stopped, restarts>>

\* readRemoteCapture and registerRemote.
Register ==
  /\ At("register")
  /\ \/ captures' = captures \cup {J} /\ Continue(MayPrepare(J), "create") /\ NoFault
     \/ Continue(FALSE, "create") /\ Fault /\ UNCHANGED captures
  /\ UNCHANGED <<record, local, created, plaintext, pins, expired, release, backend,
                 offering, verdict, token, stopped, restarts>>

\* JobRuntime.create answers with a reconstruction that is already active.
CreateLocal ==
  /\ At("create")
  /\ \/ /\ local' = [local EXCEPT ![J] = "active"]
        /\ created' = IF local[J] = "active" THEN created ELSE [created EXCEPT ![J] = @ + 1]
        /\ Goto("save") /\ NoFault /\ UNCHANGED preparing
     \/ Continue(FALSE, "save") /\ Fault /\ UNCHANGED <<local, created>>
  /\ UNCHANGED <<record, captures, plaintext, pins, expired, release, backend,
                 offering, verdict, token, stopped, restarts>>

SaveLocal ==
  /\ At("save")
  /\ \/ /\ record' = [record EXCEPT ![J].localJobId = TRUE, ![J].state = "RUNNING"]
        /\ Continue(TRUE, "report") /\ NoFault
     \/ Continue(FALSE, "report") /\ Fault /\ UNCHANGED record
  /\ UNCHANGED <<captures, local, created, plaintext, pins, expired, release, backend,
                 offering, verdict, token, stopped, restarts>>

-----------------------------------------------------------------------------
(* Reporting, output and failure *)

Following(state) == IF state = "ACCEPTED" THEN "INPUT_READY" ELSE "RUNNING"

\* INPUT_READY, then RUNNING.
Report ==
  /\ At("report")
  /\ IF record[J].localJobId /\ Seen \in {"ACCEPTED", "INPUT_READY"}
     THEN \/ Asked(J, Following(Seen)) /\ Sees("report", Following(Seen))
          \/ Throws(J, Following(Seen)) /\ Goto("fail")
     ELSE Goto("running") /\ NoFault /\ UNCHANGED backend
  /\ UNCHANGED <<record, captures, local, created, plaintext, pins, expired, preparing,
                 release, offering, verdict, token, stopped, restarts>>

LooksAtLocal ==
  /\ At("running")
  /\ IF Seen # "RUNNING" \/ ~record[J].localJobId \/ local[J] \in {"none", "active"} THEN Done
     ELSE Goto(IF local[J] = "failed" THEN "fail" ELSE "submit")
  /\ UNCHANGED idle

\* submitProviderOutput: the receipt, then the release, then the state.
Submit ==
  /\ At("submit")
  /\ \/ Asked(J, "OUTPUT_READY") /\ Then("request", "OUTPUT_READY")
     \/ Throws(J, "OUTPUT_READY") /\ Goto("fail")
  /\ UNCHANGED <<record, captures, local, created, plaintext, pins, expired, preparing,
                 release, offering, verdict, token, stopped, restarts>>

\* failProviderJob: the backend is told, if it can be, and the input released.
FailJob ==
  /\ At("fail")
  /\ \/ Seen \in Terminal \ {"COMPLETED"} /\ NoFault /\ UNCHANGED backend
     \/ Seen \notin Terminal \ {"COMPLETED"} /\ (Asked(J, "FAILED") \/ Throws(J, "FAILED"))
  /\ IF Owned(J) THEN Then("request", "pollFails") ELSE Done
  /\ UNCHANGED <<record, captures, local, created, plaintext, pins, expired, preparing,
                 release, offering, verdict, token, stopped, restarts>>

\* An exception goes to failProviderJob, and from there ends the poll.
ThrowFromRequest == IF poll.then = "pollFails" THEN PollEnds ELSE Goto("fail")

RequestRelease ==
  /\ At("request")
  /\ \/ Request(J) /\ Goto("await") /\ NoFault
     \/ ThrowFromRequest /\ Fault /\ UNCHANGED <<record, release>>
  /\ UNCHANGED <<captures, local, created, plaintext, pins, expired, preparing, backend,
                 offering, verdict, token, stopped, restarts>>

AwaitRelease ==
  /\ At("await")
  /\ ~InFlight(J)
  /\ IF release[J] = "error" THEN ThrowFromRequest
     ELSE IF poll.then \in {"OUTPUT_READY", "FAILED"} THEN Goto("saveState") ELSE Done
  /\ UNCHANGED idle

\* updateRecord, after telling the backend of an input that was released.
SaveState ==
  /\ At("saveState")
  /\ \/ /\ poll.then = "OUTPUT_READY" \/ Legal(backend[J], "FAILED")
        /\ backend' = IF poll.then = "FAILED" THEN [backend EXCEPT ![J] = "FAILED"] ELSE backend
        /\ record' = [record EXCEPT ![J].state = poll.then]
        /\ Done /\ NoFault
     \/ poll.then = "FAILED" /\ Throws(J, "FAILED") /\ Goto("fail") /\ UNCHANGED record
  /\ UNCHANGED <<captures, local, created, plaintext, pins, expired, preparing, release,
                 offering, verdict, token, stopped, restarts>>

\* The credential worked: a verdict, of this or of an earlier one, is cleared.
RecordAuthorized == verdict' = "none"

PollSucceeds ==
  /\ At("next") /\ poll.todo = {}
  /\ PollEnds
  /\ RecordAuthorized
  /\ UNCHANGED <<cleanupVars, backend, offering, token, stopped, restarts>>

-----------------------------------------------------------------------------
(* Settings, authorization and restarts *)

\* What the operator is told is still to be released.
CleanupDiagnostics ==
  [plaintextPending |-> Cardinality({j \in Jobs : Owned(j) /\ ~Complete(j)}),
   plaintextBlocked |-> Cardinality({j \in Jobs : record[j].plaintext = "blocked"}),
   inputPinReleasesPending |-> Cardinality({j \in Jobs : Owned(j) /\ record[j].pinPending})]

UpdateSettings ==
  /\ offering' = ~offering
  /\ UNCHANGED <<cleanupVars, backend, poll, verdict, token, stopped, restarts>>

\* isAuthorizationBlocked: a verdict holds for the credential it was given on.
Blocked(refused, credential) == refused = credential

\* retryAuthorization clears the verdict and starts polling.
RetryAuthorization ==
  /\ verdict' = "none"
  /\ stopped' = IF offering THEN FALSE ELSE stopped
  /\ UNCHANGED <<cleanupVars, backend, poll, offering, token, restarts>>

\* A crash, or a stop, and a start() with a token that may be a new one.
Restart ==
  /\ restarts < MaxRestarts
  /\ restarts' = restarts + 1
  /\ CleanupRestart
  /\ poll' = NoPoll
  /\ token' \in Credentials
  /\ stopped' = Blocked(verdict, token')
  /\ UNCHANGED <<backend, offering, verdict>>

-----------------------------------------------------------------------------
PrepareStep ==
  Own \/ AcquireInput \/ ReadInput \/ Decrypt \/ Register \/ CreateLocal \/ SaveLocal

PollStep ==
  \/ PollStarts \/ PollFetches \/ PollFails \/ (\E j \in Jobs : PollHandles(j))
  \/ Accept \/ Decline \/ Adopt \/ PrepareStep \/ Report \/ LooksAtLocal \/ Submit
  \/ FailJob \/ RequestRelease \/ AwaitRelease \/ SaveState \/ PollSucceeds

CleanupStep(j) == (ReleaseStep(j) \/ ReconcilePending(j)) /\ UNCHANGED runtimeVars
LocalStep(j) == (LocalEnds(j) \/ Expire(j)) /\ UNCHANGED runtimeVars

Next ==
  \/ PollStep
  \/ \E j \in Jobs : CleanupStep(j) \/ LocalStep(j) \/ BackendMoves(j)
  \/ UpdateSettings \/ RetryAuthorization \/ Restart

Spec == Init /\ [][Next]_vars

\* The poll and the cleanup timer go on, and every assignment's clock runs
\* out.  Nothing is assumed of the backend, the requester or the operator.
Fairness ==
  /\ WF_vars(PollStep)
  /\ \A j \in Jobs : /\ WF_vars(ReleaseStep(j) /\ UNCHANGED runtimeVars)
                     /\ WF_vars(ReconcilePending(j) /\ UNCHANGED runtimeVars)
                     /\ WF_vars(Expire(j) /\ UNCHANGED runtimeVars)

FairSpec == Spec /\ Fairness

-----------------------------------------------------------------------------
(* Properties *)

\* A cleanup recorded as complete is complete: no decrypted file, registered
\* capture or running job of the assignment is left, and none comes back.
CompleteMeansGone ==
  \A j \in Jobs : Complete(j) => j \notin plaintext \cup captures /\ local[j] # "active"

\* An assignment is given to the worker once, whatever restarts or lost
\* answers come between the insertion of its job and the saving of its id.
OneLocalJob == \A j \in Jobs : created[j] <= 1

\* What a provider holds of an input is always journaled: a crash leaves no
\* plaintext and no pin that no record asks to be released, and the counts the
\* operator is shown leave out nothing that is held.
HoldingsAreJournaled ==
  /\ \A j \in plaintext \cup captures : Owned(j) /\ ~Complete(j)
  /\ \A j \in pins : Owned(j) /\ record[j].pinPending
  /\ Cardinality(plaintext \cup captures) <= CleanupDiagnostics.plaintextPending
  /\ Cardinality(pins) <= CleanupDiagnostics.inputPinReleasesPending

\* Every input that was taken is given back: plaintext, capture and pin, also
\* when the backend has refused the node or sharing has been switched off.
InputsAreReleased ==
  \A j \in Jobs : Owned(j) ~> (Complete(j) /\ j \notin pins /\ ~record[j].pinPending)

=============================================================================
