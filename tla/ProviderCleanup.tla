-------------------------- MODULE ProviderCleanup --------------------------
(***************************************************************************)
(* What a compute provider owes for each private input it has accepted     *)
(* (src/compute/providerCleanup.ts): the plaintext directory, the capture  *)
(* record and the pin of the encrypted input are journaled before they     *)
(* exist and taken away again, whatever becomes of the job.                *)
(*                                                                         *)
(* release(id) is a sequence of awaits, shared by everyone who asks for it *)
(* (`inFlight`); release[j] is where it stands.  The local job behind an   *)
(* assignment is JobRuntime's: ensureJobQuiescent returns when it has      *)
(* ended and its worker is known to be gone, or throws (JobRuntime.tla).   *)
(***************************************************************************)
EXTENDS Naturals, FiniteSets

CONSTANTS
  Jobs,       \* backend ids of the assignments
  MaxFaults   \* bound: failures of the network, the disk, the store, a worker

ASSUME JobsAssumption == IsFiniteSet(Jobs)
ASSUME FaultsAssumption == MaxFaults \in Nat

VARIABLES
  record,     \* remoteJobs: the provider's durable record per assignment
  captures,   \* the assignments whose capture is registered
  local,      \* the local job of each assignment
  created,    \* how many local jobs each assignment has had
  plaintext,  \* the assignments whose directory holds decrypted files
  pins,       \* the assignments whose input this provider has pinned
  expired,    \* the assignments whose expiresAt has passed
  preparing,  \* `preparing`: the assignments whose preparation is running
  release,    \* where the release in flight stands; "ok", "error": its result
  faults

cleanupVars == <<record, captures, local, created, plaintext, pins, expired,
                 preparing, release, faults>>

Active == {"PREPARING", "ACCEPTED", "INPUT_READY", "RUNNING"}
NoRecord == [state |-> "none", requested |-> FALSE, plaintext |-> "pending",
             pinPending |-> FALSE, localJobId |-> FALSE]
Owned(j) == record[j].state # "none"
Complete(j) == record[j].plaintext = "complete"
ReleaseSteps == {"wait", "quiesce", "remove", "complete", "block", "pin", "pinned"}
InFlight(j) == release[j] \in ReleaseSteps

Record == [state: Active \cup {"none", "OUTPUT_READY", "FAILED"}, requested: BOOLEAN,
           plaintext: {"pending", "blocked", "complete"}, pinPending: BOOLEAN, localJobId: BOOLEAN]

CleanupTypeOK ==
  /\ record \in [Jobs -> Record]
  /\ captures \in SUBSET Jobs /\ plaintext \in SUBSET Jobs
  /\ pins \in SUBSET Jobs /\ expired \in SUBSET Jobs /\ preparing \in SUBSET Jobs
  /\ local \in [Jobs -> {"none", "active", "completed", "failed"}]
  /\ created \in [Jobs -> Nat]
  /\ release \in [Jobs -> ReleaseSteps \cup {"ok", "error"}]
  /\ faults \in 0..MaxFaults

CleanupInit ==
  /\ record = [j \in Jobs |-> NoRecord]
  /\ captures = {} /\ plaintext = {} /\ pins = {} /\ expired = {} /\ preparing = {}
  /\ local = [j \in Jobs |-> "none"]
  /\ created = [j \in Jobs |-> 0]
  /\ release = [j \in Jobs |-> "ok"]
  /\ faults = 0

Fault == faults < MaxFaults /\ faults' = faults + 1
NoFault == UNCHANGED faults

-----------------------------------------------------------------------------
(* Ownership *)

\* own(): the journal entry comes before the pin and the plaintext; a record
\* whose release was requested is never used again.
Reusable(j) == ~record[j].requested /\ ~Complete(j)

OwnedRecord(j) ==
  IF Owned(j) THEN record[j]
  ELSE [NoRecord EXCEPT !.state = "PREPARING", !.pinPending = TRUE]

\* assertPreparing().
MayPrepare(j) == Owned(j) /\ Reusable(j) /\ j \notin expired

-----------------------------------------------------------------------------
(* request, reconcile and release *)

\* The request is durable before anything is released ...
Requested(j) == [record EXCEPT ![j].requested = TRUE]
\* ... and joins a release in flight, or starts one.
Reconcile(j) ==
  release' = IF InFlight(j) THEN release
             ELSE [release EXCEPT ![j] = IF Complete(j) THEN "pin" ELSE "wait"]

Request(j) ==
  /\ Owned(j)
  /\ record' = Requested(j)
  /\ Reconcile(j)

Step(j, from, to) == release[j] = from /\ release' = [release EXCEPT ![j] = to]

\* Fault: the directory is removed under a preparation that is still writing.
PreparationSettled_Unawaited(j) == TRUE

PreparationSettled(j) == j \notin preparing

ReleaseWaits(j) ==
  /\ PreparationSettled(j)
  /\ Step(j, "wait", "quiesce")
  /\ UNCHANGED <<record, captures, local, created, plaintext, pins, expired, preparing, faults>>

\* ensureJobQuiescent for every local job of the assignment.
ReleaseQuiesces(j) ==
  /\ \/ /\ Step(j, "quiesce", "remove") /\ NoFault
        /\ local' = [local EXCEPT ![j] = IF @ = "active" THEN "failed" ELSE @]
     \/ Step(j, "quiesce", "block") /\ Fault /\ UNCHANGED local
  /\ UNCHANGED <<record, captures, created, plaintext, pins, expired, preparing>>

ReleaseRemoves(j) ==
  /\ \/ Step(j, "remove", "complete") /\ NoFault /\ plaintext' = plaintext \ {j}
     \/ Step(j, "remove", "block") /\ Fault /\ UNCHANGED plaintext
  /\ UNCHANGED <<record, captures, local, created, pins, expired, preparing>>

ReleaseCompletes(j) ==
  /\ \/ /\ Step(j, "complete", "pin") /\ NoFault
        /\ record' = [record EXCEPT ![j].plaintext = "complete"]
        /\ captures' = captures \ {j}
     \/ Step(j, "complete", "block") /\ Fault /\ UNCHANGED <<record, captures>>
  /\ UNCHANGED <<local, created, plaintext, pins, expired, preparing>>

\* The failure is recorded, if the store takes it, and thrown.
ReleaseBlocks(j) ==
  /\ Step(j, "block", "error")
  /\ \/ record' = [record EXCEPT ![j].plaintext = "blocked"] /\ NoFault
     \/ UNCHANGED record /\ Fault
  /\ UNCHANGED <<captures, local, created, plaintext, pins, expired, preparing>>

\* releasePin(): ManagedPins.release, then the journal.
ReleasesPin(j) ==
  /\ \/ Step(j, "pin", "ok") /\ ~record[j].pinPending /\ NoFault /\ UNCHANGED pins
     \/ Step(j, "pin", "pinned") /\ record[j].pinPending /\ NoFault /\ pins' = pins \ {j}
     \/ Step(j, "pin", "error") /\ record[j].pinPending /\ Fault /\ UNCHANGED pins
  /\ UNCHANGED <<record, captures, local, created, plaintext, expired, preparing>>

PinReleaseSaved(j) ==
  /\ \/ /\ Step(j, "pinned", "ok") /\ NoFault
        /\ record' = [record EXCEPT ![j].pinPending = FALSE]
     \/ Step(j, "pinned", "error") /\ Fault /\ UNCHANGED record
  /\ UNCHANGED <<captures, local, created, plaintext, pins, expired, preparing>>

ReleaseStep(j) ==
  \/ ReleaseWaits(j) \/ ReleaseQuiesces(j) \/ ReleaseRemoves(j) \/ ReleaseCompletes(j)
  \/ ReleaseBlocks(j) \/ ReleasesPin(j) \/ PinReleaseSaved(j)

\* Fault: an input whose plaintext has gone is not looked at again.
Outstanding_PlaintextOnly(j) == Owned(j) /\ ~Complete(j)

Outstanding(j) == Owned(j) /\ (~Complete(j) \/ record[j].pinPending)

\* reconcilePending(), from its timer: no backend is needed.
ReconcilePending(j) ==
  /\ Outstanding(j)
  /\ record[j].requested \/ j \in expired
  /\ ~InFlight(j)
  /\ Request(j)
  /\ UNCHANGED <<captures, local, created, plaintext, pins, expired, preparing, faults>>

\* The local job ends by itself.
LocalEnds(j) ==
  /\ local[j] = "active"
  /\ \E result \in {"completed", "failed"} : local' = [local EXCEPT ![j] = result]
  /\ UNCHANGED <<record, captures, created, plaintext, pins, expired, preparing, release, faults>>

Expire(j) ==
  /\ Owned(j) /\ j \notin expired
  /\ expired' = expired \cup {j}
  /\ UNCHANGED <<record, captures, local, created, plaintext, pins, preparing, release, faults>>

\* A restart loses the maps of this class.
CleanupRestart ==
  /\ preparing' = {}
  /\ release' = [j \in Jobs |-> "ok"]
  /\ UNCHANGED <<record, captures, local, created, plaintext, pins, expired, faults>>

=============================================================================
