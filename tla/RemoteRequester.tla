-------------------------- MODULE RemoteRequester --------------------------
(***************************************************************************)
(* A node that sends its own captures to be computed elsewhere: the        *)
(* requester's half of src/compute/remoteComputeRuntime.ts and the         *)
(* encryption of src/compute/privatePayloadTransport.ts.                   *)
(*                                                                         *)
(* Every submission encrypts the capture anew, so it has its own cid.      *)
(* step[x] is where the submission of input x stands; the provider reads   *)
(* the input from this node for as long as the backend's job is open.      *)
(***************************************************************************)
EXTENDS Naturals, FiniteSets

CONSTANT Inputs   \* cids of encrypted captures

VARIABLES
  step,     \* the await at which each submission is; "" when it is over
  journal,  \* privateComputeCids: none, prepared, submitted, unconfirmed, released
  pinned,   \* the inputs this node keeps pinned
  job       \* the job of each input at the backend: none, open, ended

requesterVars == <<step, journal, pinned, job>>

RequesterTypeOK ==
  /\ step \in [Inputs -> {"", "pin", "submit", "record", "unconfirm", "release", "released"}]
  /\ journal \in [Inputs -> {"none", "prepared", "submitted", "unconfirmed", "released"}]
  /\ pinned \subseteq Inputs
  /\ job \in [Inputs -> {"none", "open", "ended"}]

RequesterInit ==
  /\ step = [x \in Inputs |-> ""]
  /\ journal = [x \in Inputs |-> "none"]
  /\ pinned = {}
  /\ job = [x \in Inputs |-> "none"]

At(x, pc) == step[x] = pc
Goto(x, pc) == step' = [step EXCEPT ![x] = pc]

\* encryptCapture(): the ciphertext is added unpinned, and journaled.
Encrypt(x) ==
  /\ journal[x] = "none"
  /\ journal' = [journal EXCEPT ![x] = "prepared"]
  /\ Goto(x, "pin")
  /\ UNCHANGED <<pinned, job>>

\* ... and pinned before anyone is told of it, or the submission fails.
PinInput(x, ok) ==
  /\ At(x, "pin")
  /\ IF ok THEN pinned' = pinned \cup {x} /\ Goto(x, "submit")
     ELSE UNCHANGED pinned /\ Goto(x, "")
  /\ UNCHANGED <<journal, job>>

\* createRemoteComputeJob: committed and answered, committed with the answer
\* lost, or refused.
SubmitJob(x, committed, answered) ==
  /\ At(x, "submit")
  /\ job' = IF committed THEN [job EXCEPT ![x] = "open"] ELSE job
  /\ Goto(x, IF committed /\ answered THEN "record" ELSE "unconfirm")
  /\ UNCHANGED <<journal, pinned>>

\* The record of the job; a store that fails makes the submission fail.
RecordJob(x, ok) ==
  /\ At(x, "record")
  /\ IF ok THEN journal' = [journal EXCEPT ![x] = "submitted"] /\ Goto(x, "")
     ELSE UNCHANGED journal /\ Goto(x, "unconfirm")
  /\ UNCHANGED <<pinned, job>>

\* Fault: the input of a submission that failed is unpinned.
Retained_Dropped(x) == pinned \ {x}

\* A submission that failed may have been committed: its input is kept.
Retained(x) == pinned

UnconfirmJob(x, ok) ==
  /\ At(x, "unconfirm")
  /\ journal' = IF ok THEN [journal EXCEPT ![x] = "unconfirmed"] ELSE journal
  /\ pinned' = Retained(x)
  /\ Goto(x, "")
  /\ UNCHANGED job

-----------------------------------------------------------------------------
(* What the user does with a job afterwards *)

\* The backend's own ends of a job (failed, expired, completed elsewhere).
JobEnds(x) ==
  /\ job[x] = "open"
  /\ job' = [job EXCEPT ![x] = "ended"]
  /\ UNCHANGED <<step, journal, pinned>>

\* cancelRequesterJob and acknowledgeRequesterOutput: the backend answers with
\* the job; an answer that is lost, or a job still open, releases nothing.
EndJob(x, ends, answered) ==
  /\ At(x, "") /\ job[x] # "none"
  /\ job' = IF ends THEN [job EXCEPT ![x] = "ended"] ELSE job
  /\ Goto(x, IF answered /\ job'[x] = "ended" THEN "release" ELSE "")
  /\ UNCHANGED <<journal, pinned>>

\* releaseRequesterInput: the pin, then the journal.
ReleaseInput(x, ok) ==
  /\ At(x, "release")
  /\ IF ok THEN pinned' = pinned \ {x} /\ Goto(x, "released")
     ELSE UNCHANGED pinned /\ Goto(x, "")
  /\ UNCHANGED <<journal, job>>

RecordRelease(x, ok) ==
  /\ At(x, "released")
  /\ journal' = IF ok THEN [journal EXCEPT ![x] = "released"] ELSE journal
  /\ Goto(x, "")
  /\ UNCHANGED <<pinned, job>>

RequesterRestart ==
  /\ step' = [x \in Inputs |-> ""]
  /\ UNCHANGED <<journal, pinned, job>>

=============================================================================
