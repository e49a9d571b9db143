---------------------------- MODULE CaptureStore ----------------------------
(***************************************************************************)
(* The private captures of a node (src/captures/captureStore.ts): streamed *)
(* uploads into drafts, their commit into durable records, the repair of a *)
(* damaged replica, discard, deletion and the sweep for directories that   *)
(* belong to nothing; and what decides that a package is complete          *)
(* (src/captures/capturePackage.ts).                                       *)
(*                                                                         *)
(* An upload stands for the random id that a draft, its directory and      *)
(* later its record share; ids are never used again.  What the code does   *)
(* between two awaits is one step.  The promise chains entry.lock and      *)
(* commitLock are the sequences `lock` and `commits`: their heads run.     *)
(***************************************************************************)
EXTENDS Integers, Sequences, FiniteSets, FiniteSetsExt

CONSTANTS
  Uploads,         \* ids of drafts, directories and captures
  Images,          \* the files that frames refer to
  Keys, NoKey,     \* metadata.localCaptureId, NoKey standing for its absence
  Documents,       \* the frames that a frames.json can declare
  FrameCounts,     \* metadata.frameCount, 0 standing for its absence
  Readers,         \* getDraft() calls that can be active at the same time
  MaxFiles,        \* MAX_CAPTURE_FILES
  MaxBytes,        \* MAX_CAPTURE_BYTES
  MaxFileBytes,    \* bound: the size of one file
  MaxWrites,       \* bound: operations that a write is queued behind
  MaxCommits,      \* bound: commits that are queued
  MaxLosses,       \* bound: files that something outside the node removes
  MaxCrashes,      \* bound
  DraftsLoseFiles  \* whether drafts, too, lose files to the outside

ASSUME BoundsAssumption ==
  MaxFiles \in Nat /\ MaxBytes \in Nat /\ MaxFileBytes \in Nat

VARIABLES
  draft,    \* the entry of each upload: its payload and its accounting
  lock,     \* entry.lock: the operations queued on each draft
  commits,  \* commitLock: the drafts whose commit is queued
  disk,     \* the capture directories
  records,  \* state.captures: the key of each stored capture
  job,      \* per capture, a reconstruction that is created or active
  calls,    \* what else is under way on each id: create, discard, delete
  orphan,   \* the directory that sweepOnce has found without an owner
  reader,   \* the reconcile() that each getDraft and the commit is running
  taken,    \* uploads that a user or the outside has taken files from, or that
            \* a user has written to after their draft had gone
  faults    \* losses and crashes so far

captureVars == <<draft, lock, commits, disk, records, job, calls, orphan, reader, taken, faults>>

Nothing == "nothing"
Manifest == "frames.json"
Files == Images \cup {Manifest}

ASSUME PackageAssumption == IsFiniteSet(Images) /\ Documents \subseteq SUBSET Images
ASSUME UploadsAssumption == Nothing \notin Uploads

Committer == "commit"
Reconcilers == Readers \cup {Committer}

NoFiles == [f \in Files |-> 0]
NoDraft == [state |-> "new", key |-> NoKey, expected |-> 0, files |-> NoFiles, size |-> 0]
NoDirectory == [there |-> FALSE, files |-> {}, frames |-> {}, declared |-> {}, marker |-> "none"]
NotReading == [of |-> Nothing, left |-> NoFiles, gone |-> Nothing]
Closed == [NoDraft EXCEPT !.state = "gone"]

Live(d) == draft[d].state = "live"
Accounted(d) == {f \in Files : draft[d].files[f] > 0}
\* The bytes of some files, one for each file and position, and their number.
Bytes(files) == {b \in Files \X (1..MaxFileBytes) : b[2] <= files[b[1]]}
Total(files) == Cardinality(Bytes(files))
Ids == DOMAIN records
WriteSteps == {"queued", "open"}
CommitSteps == {"commit", "existing", "inspect", "reconcile", "manifest",
                "install", "forget", "redundant", "retire"}
At(d, pc) == lock[d] # <<>> /\ Head(lock[d]).pc = pc
Turn(pc, f, was, c) == [pc |-> pc, file |-> f, was |-> was, existing |-> c]
Becomes(d, turn) == lock' = [lock EXCEPT ![d][1] = turn]
Proceed(d, pc) == Becomes(d, [Head(lock[d]) EXCEPT !.pc = pc])
Return(d) == lock' = [lock EXCEPT ![d] = Tail(@)]
\* A commit that settles lets the next one in commitLock run.
Answer(d) == Return(d) /\ commits' = Tail(commits)
Fresh(d) == draft[d] = NoDraft /\ disk[d] = NoDirectory /\ d \notin Ids \cup taken

Entries == [state : {"new", "live", "gone"}, key : Keys \cup {NoKey},
            expected : FrameCounts \cup {0}, files : [Files -> 0..MaxFileBytes], size : Int]
Directories == [there : BOOLEAN, files : SUBSET Files, frames : SUBSET Images,
                declared : SUBSET Files, marker : {"none", "fresh", "stale"}]
Turns == [pc : WriteSteps \cup CommitSteps, file : Files, was : 0..MaxFileBytes,
          existing : Uploads \cup {Nothing}]
Readings == [of : Uploads \cup {Nothing}, left : [Files -> 0..MaxFileBytes],
             gone : Files \cup {Nothing}]

CapturesTypeOK ==
  /\ draft \in [Uploads -> Entries]
  /\ lock \in [Uploads -> Seq(Turns)]
  /\ commits \in Seq(Uploads)
  /\ disk \in [Uploads -> Directories]
  /\ Ids \subseteq Uploads /\ records \in [Ids -> Keys \cup {NoKey}]
  /\ job \in [Uploads -> {"none", "inspected", "active"}]
  /\ calls \in [Uploads -> SUBSET {"create", "discard", "delete", "forget"}]
  /\ orphan \in Uploads \cup {Nothing}
  /\ reader \in [Reconcilers -> Readings]
  /\ taken \subseteq Uploads

CapturesInit ==
  /\ draft = [d \in Uploads |-> NoDraft]
  /\ lock = [d \in Uploads |-> <<>>]
  /\ commits = <<>>
  /\ disk = [d \in Uploads |-> NoDirectory]
  /\ records = <<>>
  /\ job = [d \in Uploads |-> "none"]
  /\ calls = [d \in Uploads |-> {}]
  /\ orphan = Nothing
  /\ reader = [r \in Reconcilers |-> NotReading]
  /\ taken = {}
  /\ faults = [losses |-> 0, crashes |-> 0]

-----------------------------------------------------------------------------
(* capturePackage: what a directory holds, against what was declared. *)

\* Fault: the accounting is believed; the files are not looked for.
Problem_Trusting(dir, declared, expected) ==
  CASE Manifest \notin declared -> "capture_frames_missing"
    [] dir.frames = {} -> "capture_frames_invalid"
    [] expected > 0 /\ expected # Cardinality(dir.frames) -> "capture_frames_invalid"
    [] OTHER -> "ok"

\* A document that does not parse, has the wrong schema or no frames, or has a
\* frame without a usable path, is one whose set of frames is empty.
Problem(dir, declared, expected) ==
  CASE ~ (declared \subseteq dir.files) -> "capture_package_incomplete"
    [] Manifest \notin dir.files -> "capture_frames_missing"
    [] dir.frames = {} -> "capture_frames_invalid"
    [] ~ (dir.frames \subseteq dir.files) -> "capture_frame_file_missing"
    [] expected > 0 /\ expected # Cardinality(dir.frames) -> "capture_frames_invalid"
    [] OTHER -> "ok"

\* inspect(): a stored capture against its own capture.json.
Healthy(c) == Problem(disk[c], disk[c].declared, 0) = "ok"

RemoveDirectory(d) == disk' = [disk EXCEPT ![d] = NoDirectory]
Touched(dir) == [dir EXCEPT !.there = TRUE, !.marker = "fresh"]
\* A file replaces the one of its name; frames.json brings its frames.
Landed(dir, f, frames) ==
  Touched([dir EXCEPT !.files = @ \cup {f}, !.frames = IF f = Manifest THEN frames ELSE @])
\* The accounting of one file.
Booked(entry, f, bytes, size) == [entry EXCEPT !.files[f] = bytes, !.size = size]
\* The entry leaves `drafts`; an operation queued on it still holds it ...
Forgotten(d) == [draft EXCEPT ![d].state = "gone"]
\* ... and nobody does in the end.
Close(d) == draft' = [draft EXCEPT ![d] = Closed]

-----------------------------------------------------------------------------
(* Drafts *)

\* The entry is registered, the directory is made and marked.
BeginDraft(d, k, expected) ==
  /\ Fresh(d)
  /\ draft' = [draft EXCEPT ![d] = [NoDraft EXCEPT !.state = "live", !.key = k,
                                                   !.expected = expected]]
  /\ disk' = [disk EXCEPT ![d] = Touched(@)]
  /\ UNCHANGED <<lock, commits, records, job, calls, orphan, reader, taken, faults>>

\* writeDraftFileStream: queued behind the draft's other operations.
WriteDraftFile(d, f) ==
  /\ Live(d)
  /\ Len(lock[d]) <= MaxWrites
  /\ lock' = [lock EXCEPT ![d] = Append(@, Turn("queued", f, 0, Nothing))]
  /\ UNCHANGED <<draft, commits, disk, records, job, calls, orphan, reader, taken, faults>>

TooManyFiles(d, f) == draft[d].files[f] = 0 /\ Cardinality(Accounted(d)) >= MaxFiles

\* Fault: what the file that is replaced has been accounted for is not read.
WriteOpens_AsNew(d) ==
  LET f == Head(lock[d]).file IN
  /\ At(d, "queued")
  /\ IF TooManyFiles(d, f)
     THEN Return(d) /\ UNCHANGED disk
     ELSE /\ Becomes(d, Turn("open", f, 0, Nothing))
          /\ disk' = [disk EXCEPT ![d].there = TRUE]
  /\ UNCHANGED <<draft, commits, records, job, calls, orphan, reader, taken, faults>>

\* The limit on files, then the temporary file.  `existing` is read here.
WriteOpens(d) ==
  LET f == Head(lock[d]).file IN
  /\ At(d, "queued")
  /\ IF TooManyFiles(d, f)
     THEN Return(d) /\ UNCHANGED disk
     ELSE /\ Becomes(d, Turn("open", f, draft[d].files[f], Nothing))
          /\ disk' = [disk EXCEPT ![d].there = TRUE]
  /\ UNCHANGED <<draft, commits, records, job, calls, orphan, reader, taken, faults>>

\* The last chunk has passed the ceilings: the file is renamed, accounted for
\* and the marker rewritten.  Whether the draft is still there is not asked
\* again: a file sent while the commit ran lands in the stored capture.
WriteLands(d, bytes, frames) ==
  LET f == Head(lock[d]).file
      size == draft[d].size - Head(lock[d]).was + bytes
  IN
  /\ At(d, "open")
  /\ size <= MaxBytes
  /\ disk[d].there
  /\ draft' = [draft EXCEPT ![d] = Booked(@, f, bytes, size)]
  /\ disk' = [disk EXCEPT ![d] = Landed(@, f, frames)]
  /\ Return(d)
  /\ taken' = IF Live(d) THEN taken ELSE taken \cup {d}
  /\ UNCHANGED <<commits, records, job, calls, orphan, reader, faults>>

\* The stream breaks off, is empty or too large, or its directory has gone:
\* the temporary file is removed.
WriteFails(d) ==
  /\ At(d, "open")
  /\ Return(d)
  /\ UNCHANGED <<draft, commits, disk, records, job, calls, orphan, reader, taken, faults>>

\* getDraft(): reconciles, unless something is writing, and answers.
GetDraft(r, d) ==
  /\ reader[r] = NotReading
  /\ Live(d)
  /\ \A i \in DOMAIN lock[d] : lock[d][i].pc \notin WriteSteps
  /\ reader' = [reader EXCEPT ![r] = [NotReading EXCEPT !.of = d, !.left = draft[d].files]]
  /\ UNCHANGED <<draft, lock, commits, disk, records, job, calls, orphan, taken, faults>>

\* One file of reconcile(): its stat ...
ReconcileNext(r, f) ==
  LET rd == reader[r] IN
  /\ rd.gone = Nothing
  /\ rd.left[f] > 0
  /\ reader' = [reader EXCEPT ![r] = IF f \in disk[rd.of].files
                                     THEN [@ EXCEPT !.left[f] = 0]
                                     ELSE [@ EXCEPT !.gone = f]]
  /\ UNCHANGED <<draft, lock, commits, disk, records, job, calls, orphan, taken, faults>>

\* ... and, when it is not there, the end of its accounting, with the size
\* that reconcile() read when it began.
ReconcileDrops(r) ==
  LET rd == reader[r] IN
  /\ rd.gone # Nothing
  /\ draft' = [draft EXCEPT ![rd.of] =
                  Booked(@, rd.gone, 0, Max({0, @.size - rd.left[rd.gone]}))]
  /\ reader' = [reader EXCEPT ![r].left[rd.gone] = 0, ![r].gone = Nothing]
  /\ UNCHANGED <<lock, commits, disk, records, job, calls, orphan, taken, faults>>

GetDraftReturns(r) ==
  /\ reader[r].of # Nothing /\ reader[r].left = NoFiles
  /\ reader' = [reader EXCEPT ![r] = NotReading]
  /\ UNCHANGED <<draft, lock, commits, disk, records, job, calls, orphan, taken, faults>>

-----------------------------------------------------------------------------
(* commitDraft *)

CommitDraft(d) ==
  /\ Live(d)
  /\ Len(commits) < MaxCommits
  /\ commits' = Append(commits, d)
  /\ UNCHANGED <<draft, lock, disk, records, job, calls, orphan, reader, taken, faults>>

Committing(d) == \E i \in DOMAIN lock[d] : lock[d][i].pc \in CommitSteps

\* Fault: commits of different drafts are not serialized.
NextCommits_All ==
  {commits[i] : i \in {i \in DOMAIN commits : Cardinality({d \in Uploads : Committing(d)}) < Len(commits)}}

NextCommits == {commits[1] : i \in DOMAIN commits}

\* commitLock is free: the commit queues behind the draft's own writes.
CommitEnters(d) ==
  /\ d \in NextCommits
  /\ ~Committing(d)
  /\ IF Live(d)
     THEN /\ lock' = [lock EXCEPT ![d] = Append(@, Turn("commit", Manifest, 0, Nothing))]
          /\ UNCHANGED commits
     ELSE commits' = Tail(commits) /\ UNCHANGED lock
  /\ UNCHANGED <<draft, disk, records, job, calls, orphan, reader, taken, faults>>

\* The queue has drained.  A record with the same localCaptureId is looked up.
CommitChecks(d) ==
  LET same == {c \in Ids : draft[d].key # NoKey /\ records[c] = draft[d].key} IN
  /\ At(d, "commit")
  /\ IF ~Live(d) \/ Accounted(d) = {}
     THEN Answer(d)
     ELSE /\ \/ same = {} /\ Proceed(d, "inspect")
             \/ \E c \in same : Becomes(d, Turn("existing", Manifest, 0, c))
          /\ UNCHANGED commits
  /\ UNCHANGED <<draft, disk, records, job, calls, orphan, reader, taken, faults>>

\* A healthy replica answers the commit, and the upload is redundant.
CommitLooksAtExisting(d) ==
  /\ At(d, "existing")
  /\ IF Healthy(Head(lock[d]).existing)
     THEN Proceed(d, "redundant") /\ draft' = Forgotten(d)
     ELSE Proceed(d, "inspect") /\ UNCHANGED draft
  /\ UNCHANGED <<commits, disk, records, job, calls, orphan, reader, taken, faults>>

CommitIsRedundant(d) ==
  /\ At(d, "redundant")
  /\ RemoveDirectory(d)
  /\ Close(d)
  /\ Answer(d)
  /\ UNCHANGED <<records, job, calls, orphan, reader, taken, faults>>

\* The package is inspected; a refusal reconciles the accounting and keeps
\* the draft, and so does a job that reads the replica to be replaced.
CommitInspects(d) ==
  /\ At(d, "inspect")
  /\ IF Problem(disk[d], Accounted(d), draft[d].expected) # "ok"
     THEN /\ Proceed(d, "reconcile")
          /\ reader' = [reader EXCEPT ![Committer] =
                          [NotReading EXCEPT !.of = d, !.left = draft[d].files]]
          /\ UNCHANGED commits
     ELSE /\ IF Head(lock[d]).existing # Nothing /\ job[Head(lock[d]).existing] = "active"
             THEN Answer(d)
             ELSE Proceed(d, "manifest") /\ UNCHANGED commits
          /\ UNCHANGED reader
  /\ UNCHANGED <<draft, disk, records, job, calls, orphan, taken, faults>>

CommitRefuses(d) ==
  /\ At(d, "reconcile")
  /\ reader[Committer] = NotReading
  /\ Answer(d)
  /\ UNCHANGED <<draft, disk, records, job, calls, orphan, reader, taken, faults>>

\* capture.json is written; without a directory the commit fails.
CommitWritesManifest(d) ==
  /\ At(d, "manifest")
  /\ IF disk[d].there
     THEN /\ disk' = [disk EXCEPT ![d].declared = Accounted(d)]
          /\ Proceed(d, "install") /\ UNCHANGED commits
     ELSE Answer(d) /\ UNCHANGED disk
  /\ UNCHANGED <<draft, records, job, calls, orphan, reader, taken, faults>>

\* Fault: a job created since the first question is not asked about again.
InUse_NotAskedAgain(c) == FALSE

\* activeJobOn, inside the mutation.
InUse(c) == c # Nothing /\ job[c] = "active"

\* One state write installs the record and retires the one it replaces.  It
\* may also fail, or be refused from inside; then the draft stays.
CommitInstalls(d) ==
  LET old == Head(lock[d]).existing IN
  /\ At(d, "install")
  /\ \/ /\ ~InUse(old)
        /\ records' = [c \in (Ids \ {old}) \cup {d} |->
                         IF c = d THEN draft[d].key ELSE records[c]]
        /\ Proceed(d, "forget") /\ UNCHANGED commits
     \/ Answer(d) /\ UNCHANGED records
  /\ UNCHANGED <<draft, disk, job, calls, orphan, reader, taken, faults>>

CommitForgets(d) ==
  /\ At(d, "forget")
  /\ draft' = Forgotten(d)
  /\ Proceed(d, "retire")
  /\ UNCHANGED <<commits, disk, records, job, calls, orphan, reader, taken, faults>>

\* The marker goes, and the directory of the replaced record with it.
CommitRetires(d) ==
  LET old == Head(lock[d]).existing IN
  /\ At(d, "retire")
  /\ disk' = [c \in Uploads |-> IF c = old THEN NoDirectory
                                ELSE IF c = d THEN [disk[d] EXCEPT !.marker = "none"]
                                ELSE disk[c]]
  /\ Close(d)
  /\ Answer(d)
  /\ UNCHANGED <<records, job, calls, orphan, reader, taken, faults>>

-----------------------------------------------------------------------------
(* discardDraft, create, delete *)

Begin(d, call) == calls' = [calls EXCEPT ![d] = @ \cup {call}]
End(d, call) == calls' = [calls EXCEPT ![d] = @ \ {call}]

\* The draft is forgotten first ...
DiscardDraft(d) ==
  /\ Live(d)
  /\ draft' = Forgotten(d)
  /\ Begin(d, "discard")
  /\ taken' = taken \cup {d}
  /\ UNCHANGED <<lock, commits, disk, records, job, orphan, reader, faults>>

\* ... and its directory removed when its queue has drained, unless a commit
\* in that queue has won.
DiscardEnds(d) ==
  /\ "discard" \in calls[d]
  /\ lock[d] = <<>>
  /\ IF d \in Ids THEN UNCHANGED disk ELSE RemoveDirectory(d)
  /\ Close(d)
  /\ End(d, "discard")
  /\ UNCHANGED <<lock, commits, records, job, orphan, reader, taken, faults>>

\* The whole-package route: no draft and no marker, only `creating`.
CreateBegins(d) ==
  /\ Fresh(d)
  /\ "create" \notin calls[d]
  /\ Begin(d, "create")
  /\ disk' = [disk EXCEPT ![d].there = TRUE]
  /\ UNCHANGED <<draft, lock, commits, records, job, orphan, reader, taken, faults>>

CreateEnds(d, files) ==
  /\ "create" \in calls[d]
  /\ \/ /\ disk' = [disk EXCEPT ![d].files = files, ![d].declared = files,
                                ![d].frames = IF Manifest \in files THEN Images ELSE {}]
        /\ records' = [c \in Ids \cup {d} |-> IF c = d THEN NoKey ELSE records[c]]
     \/ RemoveDirectory(d) /\ UNCHANGED records
  /\ End(d, "create")
  /\ taken' = taken \cup {d}
  /\ UNCHANGED <<draft, lock, commits, job, orphan, reader, faults>>

\* delete() asks about jobs, then removes the directory, then the record.
Delete(c) ==
  /\ c \in Ids
  /\ calls[c] \cap {"delete", "forget"} = {}
  /\ job[c] # "active"
  /\ Begin(c, "delete")
  /\ taken' = taken \cup {c}
  /\ UNCHANGED <<draft, lock, commits, disk, records, job, orphan, reader, faults>>

DeleteRemoves(c) ==
  /\ "delete" \in calls[c]
  /\ RemoveDirectory(c)
  /\ calls' = [calls EXCEPT ![c] = (@ \ {"delete"}) \cup {"forget"}]
  /\ UNCHANGED <<draft, lock, commits, records, job, orphan, reader, taken, faults>>

DeleteForgets(c) ==
  /\ "forget" \in calls[c]
  /\ records' = [x \in Ids \ {c} |-> records[x]]
  /\ End(c, "forget")
  /\ UNCHANGED <<draft, lock, commits, disk, job, orphan, reader, taken, faults>>

-----------------------------------------------------------------------------
(* Jobs that read a capture: JobRuntime.create inspects it, then inserts. *)

JobInspects(c) ==
  /\ c \in Ids
  /\ job[c] = "none"
  /\ Healthy(c)
  /\ job' = [job EXCEPT ![c] = "inspected"]
  /\ UNCHANGED <<draft, lock, commits, disk, records, calls, orphan, reader, taken, faults>>

JobInserted(c) ==
  /\ job[c] = "inspected"
  /\ job' = [job EXCEPT ![c] = "active"]
  /\ UNCHANGED <<draft, lock, commits, disk, records, calls, orphan, reader, taken, faults>>

JobEnds(c) ==
  /\ job[c] = "active"
  /\ job' = [job EXCEPT ![c] = "none"]
  /\ UNCHANGED <<draft, lock, commits, disk, records, calls, orphan, reader, taken, faults>>

-----------------------------------------------------------------------------
(* The orphan sweep *)

\* Fault: the claim of a draft is not seen, as in a process that has no drafts.
OwnsDirectory_StoredOnly(d) == "create" \in calls[d] \/ d \in Ids

OwnsDirectory(d) == Live(d) \/ "create" \in calls[d] \/ d \in Ids

\* Fault: a marker protects its directory for ever.
SweepLooks_SparesMarked(d) ==
  /\ orphan = Nothing
  /\ disk[d].there /\ disk[d].marker = "none"
  /\ ~OwnsDirectory(d)
  /\ orphan' = d
  /\ UNCHANGED <<draft, lock, commits, disk, records, job, calls, reader, taken, faults>>

\* A directory of the listing: it is a candidate when it has no owner and no
\* fresh marker.
SweepLooks(d) ==
  /\ orphan = Nothing
  /\ disk[d].there /\ disk[d].marker # "fresh"
  /\ ~OwnsDirectory(d)
  /\ orphan' = d
  /\ UNCHANGED <<draft, lock, commits, disk, records, job, calls, reader, taken, faults>>

\* The owner is asked for again, immediately before the removal.
SweepRemoves ==
  /\ orphan # Nothing
  /\ IF OwnsDirectory(orphan) THEN UNCHANGED disk ELSE RemoveDirectory(orphan)
  /\ orphan' = Nothing
  /\ UNCHANGED <<draft, lock, commits, records, job, calls, reader, taken, faults>>

-----------------------------------------------------------------------------
(* Time, loss and restart *)

\* DRAFT_IDLE_GRACE_MS passes without a write.
MarkerAges(d) ==
  /\ disk[d].marker = "fresh"
  /\ disk' = [disk EXCEPT ![d].marker = "stale"]
  /\ UNCHANGED <<draft, lock, commits, records, job, calls, orphan, reader, taken, faults>>

LoseFile(d, f) ==
  /\ f \in disk[d].files
  /\ d \in Ids \/ (DraftsLoseFiles /\ Live(d))
  /\ faults.losses < MaxLosses
  /\ faults' = [faults EXCEPT !.losses = @ + 1]
  /\ taken' = taken \cup {d}
  /\ disk' = [disk EXCEPT ![d].files = @ \ {f}]
  /\ UNCHANGED <<draft, lock, commits, records, job, calls, orphan, reader>>

\* A restart keeps the directories and the state file, and nothing else.
Restart ==
  /\ faults.crashes < MaxCrashes
  /\ faults' = [faults EXCEPT !.crashes = @ + 1]
  /\ draft' = [d \in Uploads |-> IF draft[d] = NoDraft THEN NoDraft ELSE Closed]
  /\ lock' = [d \in Uploads |-> <<>>]
  /\ commits' = <<>>
  /\ calls' = [d \in Uploads |-> {}]
  /\ job' = [d \in Uploads |-> IF job[d] = "inspected" THEN "none" ELSE job[d]]
  /\ orphan' = Nothing
  /\ reader' = [r \in Reconcilers |-> NotReading]
  /\ UNCHANGED <<disk, records, taken>>

-----------------------------------------------------------------------------
CommitStep(d) ==
  \/ CommitEnters(d) \/ CommitChecks(d) \/ CommitLooksAtExisting(d)
  \/ CommitIsRedundant(d) \/ CommitInspects(d) \/ CommitRefuses(d)
  \/ CommitWritesManifest(d) \/ CommitInstalls(d) \/ CommitForgets(d)
  \/ CommitRetires(d)

WriteStep(d) ==
  \/ WriteOpens(d)
  \/ \E bytes \in 1..MaxFileBytes, frames \in Documents : WriteLands(d, bytes, frames)
  \/ WriteFails(d)

ReconcileStep(r) ==
  \/ \E f \in Files : ReconcileNext(r, f)
  \/ ReconcileDrops(r)
  \/ GetDraftReturns(r)

SweepStep == (\E d \in Uploads : SweepLooks(d)) \/ SweepRemoves

ClientStep(d) ==
  \/ \E k \in Keys, n \in FrameCounts : BeginDraft(d, k, n)
  \/ \E f \in Files : WriteDraftFile(d, f)
  \/ \E r \in Readers : GetDraft(r, d)
  \/ CommitDraft(d) \/ DiscardDraft(d) \/ Delete(d)
  \/ CreateBegins(d)
  \/ \E files \in {Files, Images} : CreateEnds(d, files)
  \/ JobInspects(d) \/ JobInserted(d) \/ JobEnds(d)

EndStep(d) == DiscardEnds(d) \/ DeleteRemoves(d) \/ DeleteForgets(d)

CapturesNext ==
  \/ \E d \in Uploads : ClientStep(d) \/ WriteStep(d) \/ CommitStep(d) \/ EndStep(d)
  \/ \E r \in Reconcilers : ReconcileStep(r)
  \/ SweepStep
  \/ \E d \in Uploads : MarkerAges(d) \/ \E f \in Files : LoseFile(d, f)
  \/ Restart

CapturesSpec == CapturesInit /\ [][CapturesNext]_captureVars

\* The steps of the node itself, the sweep timer and the clock go on.
CapturesFairness ==
  /\ \A d \in Uploads : WF_captureVars(WriteStep(d)) /\ WF_captureVars(CommitStep(d))
                        /\ WF_captureVars(EndStep(d)) /\ WF_captureVars(MarkerAges(d))
  /\ \A r \in Reconcilers : WF_captureVars(ReconcileStep(r))
  /\ WF_captureVars(SweepStep)

FairCapturesSpec == CapturesSpec /\ CapturesFairness

-----------------------------------------------------------------------------
(* Properties *)

\* A local capture has at most one durable replica, however often and however
\* concurrently its commits are repeated.
OneReplica ==
  \A c, e \in Ids : records[c] = records[e] /\ records[c] # NoKey => c = e

CompletePackage(dir) ==
  /\ Manifest \in dir.files /\ dir.frames # {}
  /\ dir.frames \cup dir.declared \subseteq dir.files

\* A capture committed from a draft is a complete package until a user deletes
\* or discards it, sends a file that lands after the commit, or something
\* outside the node removes a file: no commit, repair or sweep damages it.
StoredIsComplete == \A c \in Ids \ taken : CompletePackage(disk[c])

\* What a live draft accounts for is in its directory, so that a resume asks
\* for everything that is missing: no sweep empties a transfer in progress.
ClaimedIsOnDisk == \A d \in Uploads \ taken : Live(d) => Accounted(d) \subseteq disk[d].files

\* A draft is within both ceilings, whatever writes, reconciliations and losses
\* happen to it at the same time.
WithinCeilings ==
  \A d \in Uploads : draft[d].size <= MaxBytes /\ Cardinality(Accounted(d)) <= MaxFiles

\* Every draft is within both ceilings, and the size of a live one is the sum
\* over its files while nothing takes files from under it.
AccountingIsExact ==
  /\ WithinCeilings
  /\ \A d \in Uploads \ taken : Live(d) => draft[d].size = Total(draft[d].files)

\* No step but the end of a user's delete takes the record from under a job
\* that reads the capture: a repair does not retire a replica in use.
JobsKeepTheirCapture ==
  [][\A c \in Ids \ DOMAIN records' : job[c] = "active" => "forget" \in calls[c]]_captureVars

\* A directory that nothing claims is eventually reclaimed.
OrphansReclaimed ==
  \A d \in Uploads : (disk[d].there /\ ~OwnsDirectory(d)) ~> (~disk[d].there \/ OwnsDirectory(d))

=============================================================================
