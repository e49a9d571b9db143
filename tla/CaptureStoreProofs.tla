------------------------- MODULE CaptureStoreProofs -------------------------
(***************************************************************************)
(* The private captures, for any uploads, images, documents, readers,      *)
(* ceilings and bounds.                                                    *)
(*                                                                         *)
(* An upload's invariant (UploadInv) relates its queue, the step its       *)
(* commit is at, and its directory.  A step of something else only leaves  *)
(* it less, in the ways that Kept lists, and KeptKeeps shows that those    *)
(* keep the invariant; so each action is shown to be Kept for every upload *)
(* but the one whose turn it is.                                           *)
(***************************************************************************)
EXTENDS CaptureStore, TLAPS

\* A leaf is first-order reasoning unless it says otherwise.
USE Zenon

Steps == WriteSteps \cup CommitSteps

\* What is at the head of a queue, and what is left when it has gone.
LEMMA QueueFact ==
  ASSUME NEW q \in Seq(Turns), q # <<>>
  PROVE /\ Head(q) \in Turns /\ Head(q) = q[1] /\ 1 \in 1..Len(q)
        /\ Tail(q) \in Seq(Turns) /\ Len(Tail(q)) = Len(q) - 1
        /\ \A i \in 1..Len(q) - 1 : Tail(q)[i] = q[i + 1] /\ i + 1 \in 1..Len(q)
  BY SMT

\* The first turn of a queue is replaced.
First(q, t) == [q EXCEPT ![1] = t]

\* A queue whose first turn is replaced is as long as before.
LEMMA FirstFact ==
  ASSUME NEW q \in Seq(Turns), q # <<>>, NEW t \in Turns
  PROVE /\ First(q, t) \in Seq(Turns) /\ First(q, t) # <<>> /\ Head(First(q, t)) = t
        /\ Len(First(q, t)) = Len(q)
        /\ \A i \in 1..Len(q) : i # 1 => First(q, t)[i] = q[i]
  BY SMT DEF First

\* What the steps of the first turn of a queue change.
Turned(d, pc) ==
  /\ lock' \in [Uploads -> Seq(Turns)]
  /\ \A e \in Uploads \ {d} : lock'[e] = lock[e]
  /\ lock[d] # <<>> /\ lock'[d] # <<>> /\ Len(lock'[d]) = Len(lock[d])
  /\ \A i \in 1..Len(lock[d]) : i # 1 => lock'[d][i] = lock[d][i]
  /\ Head(lock'[d]).pc = pc

\* What replacing the running turn of a draft changes.
LEMMA BecomesFact ==
  ASSUME lock \in [Uploads -> Seq(Turns)], NEW d \in Uploads, lock[d] # <<>>,
         NEW t \in Turns, Becomes(d, t)
  PROVE Turned(d, t.pc) /\ Head(lock'[d]) = t
<1>1. lock[d] \in Seq(Turns)
  OBVIOUS
<1>2. lock' = [lock EXCEPT ![d] = First(lock[d], t)]
  BY DEF Becomes, First
<1>3. /\ First(lock[d], t) \in Seq(Turns) /\ First(lock[d], t) # <<>>
      /\ Head(First(lock[d], t)) = t /\ Len(First(lock[d], t)) = Len(lock[d])
      /\ \A i \in 1..Len(lock[d]) : i # 1 => First(lock[d], t)[i] = lock[d][i]
  BY <1>1, FirstFact
<1>4. /\ lock' \in [Uploads -> Seq(Turns)] /\ lock'[d] = First(lock[d], t)
      /\ \A e \in Uploads \ {d} : lock'[e] = lock[e]
  BY <1>2, <1>3
<1> QED BY <1>3, <1>4 DEF Turned

\* The turns of the model.
LEMMA TurnFact ==
  ASSUME NEW pc \in Steps, NEW f \in Files, NEW w \in 0..MaxFileBytes,
         NEW c \in Uploads \cup {Nothing}
  PROVE /\ Turn(pc, f, w, c) \in Turns /\ Turn(pc, f, w, c).pc = pc
        /\ Turn(pc, f, w, c).file = f /\ Turn(pc, f, w, c).was = w
        /\ Turn(pc, f, w, c).existing = c
  BY DEF Turn, Turns, Steps

\* A turn at its next step.
LEMMA NextTurn ==
  ASSUME NEW t \in Turns, NEW pc \in Steps
  PROVE LET u == [t EXCEPT !.pc = pc]
        IN u \in Turns /\ u.pc = pc /\ u.file = t.file /\ u.existing = t.existing
<1> DEFINE B == 0..MaxFileBytes
           U == Uploads \cup {Nothing}
<1>1. Turns = [pc : Steps, file : Files, was : B, existing : U]
  BY DEF Turns, Steps
<1> HIDE DEF B, U
<1> QED BY <1>1, SMT

\* What moving the running turn to its next step changes.
LEMMA ProceedFact ==
  ASSUME lock \in [Uploads -> Seq(Turns)], NEW d \in Uploads, lock[d] # <<>>,
         NEW pc \in Steps, Proceed(d, pc)
  PROVE Turned(d, pc) /\ Head(lock'[d]).existing = Head(lock[d]).existing
<1> DEFINE t == [Head(lock[d]) EXCEPT !.pc = pc]
<1>1. Head(lock[d]) \in Turns
  BY QueueFact
<1>2. t \in Turns /\ t.pc = pc /\ t.file = Head(lock[d]).file
      /\ t.existing = Head(lock[d]).existing
  BY <1>1, NextTurn
<1>3. Becomes(d, t)
  BY DEF Proceed
<1> HIDE DEF t
<1> QED BY <1>2, <1>3, BecomesFact

\* The first turn of a queue is over.
LEMMA ReturnFact ==
  ASSUME lock \in [Uploads -> Seq(Turns)], NEW d \in Uploads, lock[d] # <<>>, Return(d)
  PROVE /\ lock' \in [Uploads -> Seq(Turns)] /\ lock'[d] = Tail(lock[d])
        /\ \A e \in Uploads \ {d} : lock'[e] = lock[e]
<1>1. lock[d] \in Seq(Turns)
  OBVIOUS
<1>2. Tail(lock[d]) \in Seq(Turns)
  BY <1>1, QueueFact
<1> QED BY <1>2 DEF Return

\* A turn is queued.
Queued(d, t) ==
  /\ lock' \in [Uploads -> Seq(Turns)]
  /\ \A e \in Uploads \ {d} : lock'[e] = lock[e]
  /\ lock'[d] # <<>> /\ Len(lock'[d]) = Len(lock[d]) + 1
  /\ \A i \in 1..Len(lock[d]) : lock'[d][i] = lock[d][i]
  /\ lock'[d][Len(lock[d]) + 1] = t

\* A queue with a turn appended.
LEMMA AppendTurn ==
  ASSUME NEW s \in Seq(Turns), NEW t \in Turns
  PROVE LET q == Append(s, t)
        IN /\ q \in Seq(Turns) /\ q # <<>> /\ Len(q) = Len(s) + 1
           /\ \A i \in 1..Len(s) : q[i] = s[i]
           /\ q[Len(s) + 1] = t
  BY SMT

\* What queueing a turn on a draft changes.
LEMMA AppendFact ==
  ASSUME lock \in [Uploads -> Seq(Turns)], NEW d \in Uploads,
         NEW t \in Turns, lock' = [lock EXCEPT ![d] = Append(@, t)]
  PROVE Queued(d, t)
<1>1. lock[d] \in Seq(Turns)
  OBVIOUS
<1>2. LET q == Append(lock[d], t)
      IN /\ q \in Seq(Turns) /\ q # <<>> /\ Len(q) = Len(lock[d]) + 1
         /\ \A i \in 1..Len(lock[d]) : q[i] = lock[d][i]
         /\ q[Len(lock[d]) + 1] = t
  BY <1>1, AppendTurn
<1>3. lock'[d] = Append(lock[d], t) /\ \A e \in Uploads \ {d} : lock'[e] = lock[e]
  BY <1>1
<1> QED BY <1>2, <1>3 DEF Queued

-----------------------------------------------------------------------------
\* Two directories hold the same package.
Same(x, y) == x.files = y.files /\ x.frames = y.frames /\ x.declared = y.declared

\* What the updates of a directory keep: its type, and its package.
LEMMA DirectoryFact ==
  ASSUME NEW x \in Directories
  PROVE /\ NoDirectory \in Directories
        /\ Touched(x) \in Directories /\ Same(Touched(x), x)
        /\ [x EXCEPT !.there = TRUE] \in Directories /\ Same([x EXCEPT !.there = TRUE], x)
        /\ \A m \in {"none", "stale"} : /\ [x EXCEPT !.marker = m] \in Directories
                                        /\ Same([x EXCEPT !.marker = m], x)
        /\ \A s \in SUBSET Files : [x EXCEPT !.files = s] \in Directories
        /\ \A s \in SUBSET Files : /\ [x EXCEPT !.declared = s] \in Directories
                                   /\ [x EXCEPT !.declared = s].files = x.files
                                   /\ [x EXCEPT !.declared = s].frames = x.frames
                                   /\ [x EXCEPT !.declared = s].declared = s
<1>1. NoDirectory \in Directories
  BY DEF NoDirectory, Directories
<1>2. Touched(x) \in Directories /\ Same(Touched(x), x)
  BY DEF Touched, Same, Directories
<1>3. [x EXCEPT !.there = TRUE] \in Directories /\ Same([x EXCEPT !.there = TRUE], x)
  BY DEF Same, Directories
<1>4. ASSUME NEW m \in {"none", "stale"}
      PROVE [x EXCEPT !.marker = m] \in Directories /\ Same([x EXCEPT !.marker = m], x)
  BY DEF Same, Directories
<1>5. ASSUME NEW s \in SUBSET Files PROVE [x EXCEPT !.files = s] \in Directories
  BY DEF Directories
<1>6. ASSUME NEW s \in SUBSET Files
      PROVE /\ [x EXCEPT !.declared = s] \in Directories
            /\ [x EXCEPT !.declared = s].files = x.files
            /\ [x EXCEPT !.declared = s].frames = x.frames
            /\ [x EXCEPT !.declared = s].declared = s
  BY DEF Directories
<1> QED BY <1>1, <1>2, <1>3, <1>4, <1>5, <1>6

\* What landing a file makes of its directory.
LEMMA LandedFact ==
  ASSUME NEW x \in Directories, NEW f \in Files, NEW frames \in SUBSET Images
  PROVE Landed(x, f, frames) \in Directories /\ Landed(x, f, frames).files = x.files \cup {f}
<1> DEFINE g == IF f = Manifest THEN frames ELSE x.frames
           y == [x EXCEPT !.files = x.files \cup {f}, !.frames = g]
<1>1. x.files \cup {f} \in SUBSET Files /\ g \in SUBSET Images
  BY DEF Directories
<1>2. Landed(x, f, frames) = Touched(y)
  BY DEF Landed
<1> HIDE DEF g
<1>3. y \in Directories /\ y.files = x.files \cup {f}
  BY <1>1 DEF Directories
<1> HIDE DEF y
<1> QED BY <1>2, <1>3, DirectoryFact, ZenonT(30) DEF Same

\* What the accounting of a file makes of an entry.
LEMMA EntryFact ==
  ASSUME NEW x \in Entries
  PROVE /\ NoDraft \in Entries /\ Closed \in Entries /\ Closed.state = "gone"
        /\ [x EXCEPT !.state = "gone"] \in Entries /\ [x EXCEPT !.state = "gone"].state = "gone"
        /\ [x EXCEPT !.state = "gone"].key = x.key /\ [x EXCEPT !.state = "gone"].files = x.files
        /\ [x EXCEPT !.state = "gone"].size = x.size
<1>0. 0 \in 0..MaxFileBytes /\ 0 \in Int
  BY BoundsAssumption, SMT
<1>1. NoDraft \in Entries /\ Closed \in Entries /\ Closed.state = "gone"
  BY <1>0 DEF NoDraft, Closed, NoFiles, Entries
<1> QED BY <1>1 DEF Entries

\* What booking a file changes in an entry.
LEMMA BookedFact ==
  ASSUME NEW x \in Entries, NEW f \in Files, NEW b \in 0..MaxFileBytes, NEW s \in Int
  PROVE /\ Booked(x, f, b, s) \in Entries
        /\ Booked(x, f, b, s).state = x.state /\ Booked(x, f, b, s).key = x.key
        /\ \A h \in Files : Booked(x, f, b, s).files[h] = IF h = f THEN b ELSE x.files[h]
        /\ Booked(x, f, b, s).size = s
<1> DEFINE g == [x.files EXCEPT ![f] = b]
<1>1. g \in [Files -> 0..MaxFileBytes]
  BY DEF Entries
<1>2. Booked(x, f, b, s) = [x EXCEPT !.files = g, !.size = s]
  BY DEF Booked
<1> HIDE DEF g
<1>3. Booked(x, f, b, s) \in Entries /\ Booked(x, f, b, s).files = g
  BY <1>1, <1>2 DEF Entries
<1>4. /\ Booked(x, f, b, s).state = x.state /\ Booked(x, f, b, s).key = x.key
      /\ Booked(x, f, b, s).size = s
  BY <1>2 DEF Entries
<1>5. \A h \in Files : g[h] = IF h = f THEN b ELSE x.files[h]
  BY DEF g, Entries
<1> QED BY <1>3, <1>4, <1>5

\* The updates of a reconciliation keep its type.
LEMMA ReadingFact ==
  ASSUME NEW x \in Readings
  PROVE /\ NotReading \in Readings
        /\ \A d \in Uploads : \A l \in [Files -> 0..MaxFileBytes] :
             [NotReading EXCEPT !.of = d, !.left = l] \in Readings
        /\ \A f \in Files : /\ [x EXCEPT !.left[f] = 0] \in Readings
                            /\ [x EXCEPT !.gone = f] \in Readings
                            /\ [x EXCEPT !.left[f] = 0, !.gone = Nothing] \in Readings
<1>0. 0 \in 0..MaxFileBytes
  BY BoundsAssumption, SMT
<1>1. NotReading \in Readings
  BY <1>0 DEF NotReading, NoFiles, Readings
<1>2. ASSUME NEW d \in Uploads, NEW l \in [Files -> 0..MaxFileBytes]
      PROVE [NotReading EXCEPT !.of = d, !.left = l] \in Readings
  BY <1>1 DEF Readings
<1>3. ASSUME NEW f \in Files
      PROVE [x EXCEPT !.gone = f] \in Readings
  BY DEF Readings
<1>4. ASSUME NEW f \in Files
      PROVE [x EXCEPT !.left[f] = 0] \in Readings /\ [x EXCEPT !.left[f] = 0, !.gone = Nothing] \in Readings
  <2> DEFINE g == [x.left EXCEPT ![f] = 0]
  <2>1. g \in [Files -> 0..MaxFileBytes]
    BY <1>0 DEF Readings
  <2>2. /\ [x EXCEPT !.left[f] = 0] = [x EXCEPT !.left = g]
        /\ [x EXCEPT !.left[f] = 0, !.gone = Nothing] = [x EXCEPT !.left = g, !.gone = Nothing]
    OBVIOUS
  <2> HIDE DEF g
  <2> QED BY <2>1, <2>2 DEF Readings
<1> QED BY <1>1, <1>2, <1>3, <1>4

-----------------------------------------------------------------------------
Busy(d, steps) == lock[d] # <<>> /\ Head(lock[d]).pc \in steps
Old(d) == Head(lock[d]).existing

\* A draft has one commit in its queue at most; only the head of commitLock is
\* in one, and only the first turn of a queue is past its beginning.
QueueInv(d) ==
  /\ \A i \in 1..Len(lock[d]) : i # 1 => lock[d][i].pc \in {"queued", "commit"}
  /\ \A i, j \in 1..Len(lock[d]) :
       lock[d][i].pc \in CommitSteps /\ lock[d][j].pc \in CommitSteps => i = j
  /\ \A i \in 1..Len(lock[d]) : lock[d][i].pc = "commit" => lock[d][i].existing = Nothing
  /\ Committing(d) => commits # <<>> /\ Head(commits) = d
  /\ lock[d] # <<>> => draft[d].state # "new"

\* What a commit has found out is still so when it is used.
CommitInv(d) ==
  /\ Busy(d, {"existing", "inspect", "manifest", "install"}) =>
       /\ d \in taken \/ Live(d)
       /\ \A c \in Ids : records[c] = draft[d].key /\ records[c] # NoKey => c = Old(d)
  /\ Busy(d, {"existing", "inspect", "manifest", "install", "forget", "retire"}) =>
       /\ Old(d) = d => d \in taken
       /\ Old(d) \in Uploads => Old(d) \in taken \/ draft[Old(d)].state = "gone"
  /\ Busy(d, {"manifest"}) =>
       d \in taken \/ (/\ Manifest \in disk[d].files /\ disk[d].frames # {}
                       /\ disk[d].frames \subseteq disk[d].files)
  /\ Busy(d, {"install"}) => d \in taken \/ CompletePackage(disk[d])
  /\ Busy(d, {"forget", "retire"}) => (Old(d) \in Ids => Old(d) \in taken)
  /\ Busy(d, {"redundant"}) => (d \in Ids => d \in taken)

\* Stored captures and live drafts have their files.
StoredInv(d) ==
  /\ d \in Ids => \/ d \in taken
                  \/ /\ draft[d].state # "new" /\ CompletePackage(disk[d])
                     /\ Live(d) => Busy(d, {"forget"})
  /\ Live(d) => d \in taken \/ Accounted(d) \subseteq disk[d].files
  /\ "delete" \in calls[d] \/ "discard" \in calls[d] => d \in taken

UploadInv(d) == QueueInv(d) /\ CommitInv(d) /\ StoredInv(d)
CapturesInv == \A d \in Uploads : UploadInv(d)

\* What a step that is not a turn of e may do to it.
Kept(e) ==
  /\ lock'[e] = lock[e]
  /\ Committing(e) => /\ commits' # <<>> /\ Head(commits') = e
                      /\ \A c \in Ids' : \/ c \in Ids /\ records'[c] = records[c]
                                         \/ c \in taken' /\ records'[c] = NoKey
  /\ taken \subseteq taken'
  /\ \A x \in Uploads : draft[x].state = "gone" => draft'[x].state = "gone"
  /\ draft[e].state # "new" => draft'[e].state # "new"
  /\ lock[e] # <<>> => draft'[e].key = draft[e].key
  /\ Live(e) => Live(e)' \/ e \in taken'
  /\ Live(e)' => \/ Live(e) /\ Accounted(e)' \subseteq Accounted(e)
                 \/ e \notin Ids' /\ Accounted(e)' = {}
  /\ e \in Ids' \/ Live(e)' => e \in taken' \/ Same(disk'[e], disk[e])
  /\ e \in Ids' => e \in taken' \/ e \in Ids
  /\ "delete" \in calls'[e] => e \in taken' \/ "delete" \in calls[e]
  /\ "discard" \in calls'[e] => e \in taken' \/ "discard" \in calls[e]

\* A commit past its first step is one of those that the queue counts.
LEMMA BusyCommits ==
  ASSUME CapturesTypeOK, NEW d \in Uploads, Busy(d, CommitSteps)
  PROVE Committing(d)
<1>1. lock[d] \in Seq(Turns) /\ lock[d] # <<>>
  BY DEF CapturesTypeOK, Busy
<1>2. 1 \in DOMAIN lock[d] /\ Head(lock[d]) = lock[d][1]
  BY <1>1, SMT
<1> QED BY <1>2 DEF Committing, Busy

\* An upload that a step leaves what it needs keeps its invariant.
LEMMA KeptKeeps ==
  ASSUME CapturesTypeOK, NEW e \in Uploads, UploadInv(e), Kept(e)
  PROVE UploadInv(e)'
<1>1. QueueInv(e)'
  BY DEF UploadInv, QueueInv, Kept, Committing
<1>b. \A steps : Busy(e, steps)' <=> Busy(e, steps)
  BY DEF Kept, Busy
<1>o. Old(e)' = Old(e)
  BY DEF Kept, Old
<1>2. CommitInv(e)'
  <2>1. ASSUME NEW steps \in SUBSET CommitSteps, Busy(e, steps)'
        PROVE /\ Busy(e, steps) /\ lock[e] # <<>> /\ draft'[e].key = draft[e].key
              /\ \A c \in Ids' : \/ c \in Ids /\ records'[c] = records[c]
                                 \/ c \in taken' /\ records'[c] = NoKey
    <3>1. Busy(e, steps) /\ Busy(e, CommitSteps)
      BY <2>1, <1>b DEF Busy
    <3> QED BY <3>1, BusyCommits DEF Kept, Busy
  <2>2. ASSUME Busy(e, {"existing", "inspect", "manifest", "install"})'
        PROVE /\ e \in taken' \/ Live(e)'
              /\ \A c \in Ids' : records'[c] = draft'[e].key /\ records'[c] # NoKey => c = Old(e)'
    <3>1. {"existing", "inspect", "manifest", "install"} \subseteq CommitSteps
      BY DEF CommitSteps
    <3> QED BY <2>2, <2>1, <3>1, <1>o DEF UploadInv, CommitInv, Kept
  <2>3. ASSUME Busy(e, {"existing", "inspect", "manifest", "install", "forget", "retire"})'
        PROVE /\ Old(e)' = e => e \in taken'
              /\ Old(e)' \in Uploads => Old(e)' \in taken' \/ draft'[Old(e)'].state = "gone"
    BY <2>3, <1>b, <1>o DEF UploadInv, CommitInv, Kept
  <2>4. ASSUME Busy(e, {"manifest"})'
        PROVE e \in taken' \/ (/\ Manifest \in disk'[e].files /\ disk'[e].frames # {}
                               /\ disk'[e].frames \subseteq disk'[e].files)
    <3>1. Busy(e, {"existing", "inspect", "manifest", "install"})'
      BY <2>4 DEF Busy
    <3>2. e \in taken' \/ Same(disk'[e], disk[e])
      BY <3>1, <2>2 DEF Kept
    <3> QED BY <2>4, <3>2, <1>b DEF UploadInv, CommitInv, Kept, Same
  <2>5. ASSUME Busy(e, {"install"})'
        PROVE e \in taken' \/ CompletePackage(disk'[e])
    <3>1. Busy(e, {"existing", "inspect", "manifest", "install"})'
      BY <2>5 DEF Busy
    <3>2. e \in taken' \/ Same(disk'[e], disk[e])
      BY <3>1, <2>2 DEF Kept
    <3> QED BY <2>5, <3>2, <1>b DEF UploadInv, CommitInv, Kept, Same, CompletePackage
  <2>6. ASSUME Busy(e, {"forget", "retire"})', Old(e)' \in Ids'
        PROVE Old(e)' \in taken'
    <3>1. {"forget", "retire"} \subseteq CommitSteps
      BY DEF CommitSteps
    <3> QED BY <2>6, <2>1, <3>1, <1>o DEF UploadInv, CommitInv, Kept
  <2>7. ASSUME Busy(e, {"redundant"})', e \in Ids'
        PROVE e \in taken'
    BY <2>7, <1>b DEF UploadInv, CommitInv, Kept
  <2> QED BY <2>2, <2>3, <2>4, <2>5, <2>6, <2>7 DEF CommitInv
<1>3. StoredInv(e)'
  <2>1. ASSUME e \in Ids', e \notin taken'
        PROVE /\ draft'[e].state # "new" /\ CompletePackage(disk'[e])
              /\ Live(e)' => Busy(e, {"forget"})'
    BY <2>1, <1>b DEF UploadInv, StoredInv, Kept, Same, CompletePackage
  <2>2. Live(e)' => e \in taken' \/ Accounted(e)' \subseteq disk'[e].files
    BY DEF UploadInv, StoredInv, Kept, Same
  <2>3. "delete" \in calls'[e] \/ "discard" \in calls'[e] => e \in taken'
    BY DEF UploadInv, StoredInv, Kept
  <2> QED BY <2>1, <2>2, <2>3 DEF StoredInv
<1> QED BY <1>1, <1>2, <1>3 DEF UploadInv

-----------------------------------------------------------------------------
\* The initial states have the right type.
LEMMA CapturesTypeInit == CapturesInit => CapturesTypeOK
<1> SUFFICES ASSUME CapturesInit PROVE CapturesTypeOK
  OBVIOUS
<1>1. Ids = {} /\ records \in [Ids -> Keys \cup {NoKey}]
  BY SMT DEF CapturesInit, Ids
<1>3. NoDraft \in Entries
  <2>1. 0 \in 0..MaxFileBytes /\ 0 \in Int
    BY BoundsAssumption, SMT
  <2> QED BY <2>1 DEF NoDraft, NoFiles, Entries
<1>4. NoDirectory \in Directories
  BY DEF NoDirectory, Directories
<1>5. NotReading \in Readings
  <2>1. 0 \in 0..MaxFileBytes
    BY BoundsAssumption, SMT
  <2> QED BY <2>1 DEF NotReading, NoFiles, Readings
<1>6. <<>> \in Seq(Turns) /\ <<>> \in Seq(Uploads)
  BY SMT
<1> QED BY <1>1, <1>3, <1>4, <1>5, <1>6 DEF CapturesInit, CapturesTypeOK

\* The typing of what a step changes.
LEMMA DraftTypes ==
  ASSUME draft \in [Uploads -> Entries], NEW d, NEW x, d \in Uploads => x \in Entries
  PROVE [draft EXCEPT ![d] = x] \in [Uploads -> Entries]
  OBVIOUS

\* A directory is replaced by a directory.
LEMMA DiskTypes ==
  ASSUME disk \in [Uploads -> Directories], NEW d, NEW x, d \in Uploads => x \in Directories
  PROVE [disk EXCEPT ![d] = x] \in [Uploads -> Directories]
  OBVIOUS

\* A reconciliation is replaced by a reconciliation.
LEMMA ReaderTypes ==
  ASSUME reader \in [Reconcilers -> Readings], NEW r \in Reconcilers, NEW x \in Readings
  PROVE [reader EXCEPT ![r] = x] \in [Reconcilers -> Readings]
  OBVIOUS

\* What queueing and ending a commit does to commitLock.
LEMMA CommitsTypes ==
  ASSUME NEW q \in Seq(Uploads), NEW d \in Uploads
  PROVE /\ Append(q, d) \in Seq(Uploads) /\ Append(q, d) # <<>>
        /\ q # <<>> => Tail(q) \in Seq(Uploads) /\ Head(Append(q, d)) = Head(q)
<1>1. Append(q, d) \in Seq(Uploads)
  BY SMT
<1>2. Append(q, d) # <<>>
  <2>1. Len(Append(q, d)) = Len(q) + 1 /\ Len(q) \in Nat
    BY SMT
  <2> QED BY <2>1, SMT
<1>3. ASSUME q # <<>> PROVE Tail(q) \in Seq(Uploads)
  BY <1>3, SMT
<1>4. ASSUME q # <<>> PROVE Head(Append(q, d)) = Head(q)
  BY <1>4, SMT
<1> QED BY <1>1, <1>2, <1>3, <1>4

\* The next commit is that of the head of commitLock.
LEMMA NextCommitsFact ==
  ASSUME commits \in Seq(Uploads), NEW d \in NextCommits
  PROVE commits # <<>> /\ Head(commits) = d
  BY SMT DEF NextCommits

\* The size that a reconciliation leaves.
LEMMA MaxFact ==
  ASSUME NEW x \in Int
  PROVE Max({0, x}) \in Int /\ (Max({0, x}) = 0 \/ Max({0, x}) = x)
<1>1. \E m \in {0, x} : \A n \in {0, x} : m >= n
  BY SMT
<1> QED BY <1>1, SMT DEF Max

\* A turn at some step of a commit or a write is the first of its queue.
LEMMA AtFact ==
  ASSUME NEW d \in Uploads, NEW pc, At(d, pc)
  PROVE /\ lock[d] # <<>> /\ Head(lock[d]).pc = pc
        /\ \A steps : Busy(d, steps) <=> pc \in steps
  BY DEF At, Busy

\* The turn that is running.
LEMMA HeadTypes ==
  ASSUME CapturesTypeOK, NEW d \in Uploads, lock[d] # <<>>
  PROVE /\ Head(lock[d]) \in Turns /\ Head(lock[d]).file \in Files
        /\ Head(lock[d]).pc \in Steps /\ Head(lock[d]).was \in 0..MaxFileBytes
        /\ Old(d) \in Uploads \cup {Nothing}
<1>1. lock[d] \in Seq(Turns)
  BY DEF CapturesTypeOK
<1>2. Head(lock[d]) \in Turns
  BY <1>1, QueueFact
<1> QED BY <1>2 DEF Turns, Old, Steps

\* A commit holds commitLock, so that no other draft is in one.
LEMMA Alone ==
  ASSUME CapturesTypeOK, CapturesInv, NEW d \in Uploads, Busy(d, CommitSteps)
  PROVE /\ Committing(d) /\ commits # <<>> /\ Head(commits) = d
        /\ \A e \in Uploads : e # d => ~Committing(e)
<1>1. Committing(d)
  BY BusyCommits
<1> QED BY <1>1 DEF CapturesInv, UploadInv, QueueInv

\* A commit that settles leaves two queues.
LEMMA AnswerTypes ==
  ASSUME CapturesTypeOK, CapturesInv, NEW d \in Uploads, Busy(d, CommitSteps), Answer(d)
  PROVE lock' \in [Uploads -> Seq(Turns)] /\ commits' \in Seq(Uploads)
<1>1. lock' \in [Uploads -> Seq(Turns)]
  BY ReturnFact DEF Answer, Busy, CapturesTypeOK
<1>2. commits' \in Seq(Uploads)
  BY Alone, CommitsTypes DEF Answer, CapturesTypeOK
<1> QED BY <1>1, <1>2

\* What is accounted for are files.
LEMMA AccountedFact ==
  ASSUME NEW d \in Uploads
  PROVE Accounted(d) \in SUBSET Files
  BY DEF Accounted

-----------------------------------------------------------------------------
\* Drafts and their writes keep the types.
LEMMA DraftStepTypes ==
  ASSUME CapturesTypeOK, CapturesInv, NEW d \in Uploads
  PROVE /\ \A k \in Keys, n \in FrameCounts : BeginDraft(d, k, n) => CapturesTypeOK'
        /\ \A f \in Files : WriteDraftFile(d, f) => CapturesTypeOK'
        /\ WriteStep(d) => CapturesTypeOK'
        /\ \A r \in Readers : GetDraft(r, d) => CapturesTypeOK'
<1>e. draft[d] \in Entries /\ disk[d] \in Directories
  BY DEF CapturesTypeOK
<1>0. 0 \in 0..MaxFileBytes /\ 0 \in Int
  BY BoundsAssumption, SMT
<1>1. ASSUME NEW k \in Keys, NEW n \in FrameCounts, BeginDraft(d, k, n) PROVE CapturesTypeOK'
  <2>1. [NoDraft EXCEPT !.state = "live", !.key = k, !.expected = n] \in Entries
    BY <1>0 DEF NoDraft, NoFiles, Entries
  <2>2. draft' \in [Uploads -> Entries]
    BY <1>1, <2>1, DraftTypes DEF BeginDraft, CapturesTypeOK
  <2>3. disk' \in [Uploads -> Directories]
    BY <1>1, <1>e, DirectoryFact, DiskTypes DEF BeginDraft, CapturesTypeOK
  <2> QED BY <1>1, <2>2, <2>3 DEF BeginDraft, CapturesTypeOK, Ids
<1>2. ASSUME NEW f \in Files, WriteDraftFile(d, f) PROVE CapturesTypeOK'
  <2>1. Turn("queued", f, 0, Nothing) \in Turns
    BY <1>0, TurnFact DEF Steps, WriteSteps
  <2>2. lock' \in [Uploads -> Seq(Turns)]
    BY <1>2, <2>1, AppendFact DEF WriteDraftFile, CapturesTypeOK, Queued
  <2> QED BY <1>2, <2>2 DEF WriteDraftFile, CapturesTypeOK, Ids
<1>3. ASSUME WriteOpens(d) PROVE CapturesTypeOK'
  <2> DEFINE f == Head(lock[d]).file
  <2>1. lock[d] # <<>> /\ f \in Files
    BY <1>3, AtFact, HeadTypes DEF WriteOpens
  <2>2. draft[d].files[f] \in 0..MaxFileBytes
    BY <1>e, <2>1 DEF Entries
  <2>3. Turn("open", f, draft[d].files[f], Nothing) \in Turns
        /\ Turn("open", f, draft[d].files[f], Nothing).file = f
    <3>1. "open" \in Steps
      BY DEF Steps, WriteSteps
    <3> HIDE DEF f
    <3>2. PICK w \in 0..MaxFileBytes : w = draft[d].files[f]
      BY <2>2
    <3>3. Turn("open", f, w, Nothing) \in Turns /\ Turn("open", f, w, Nothing).file = f
      BY <2>1, <3>1, TurnFact, SMT
    <3> QED BY <3>2, <3>3
  <2>4. lock' \in [Uploads -> Seq(Turns)]
    <3>1. CASE Return(d)
      BY <3>1, <2>1, ReturnFact DEF CapturesTypeOK
    <3>2. CASE Becomes(d, Turn("open", f, draft[d].files[f], Nothing))
      BY <3>2, <2>1, <2>3, BecomesFact DEF CapturesTypeOK, Turned
    <3> QED BY <1>3, <3>1, <3>2 DEF WriteOpens
  <2>5. disk' \in [Uploads -> Directories]
    <3>1. disk' = disk \/ disk' = [disk EXCEPT ![d] = [disk[d] EXCEPT !.there = TRUE]]
      BY <1>3 DEF WriteOpens
    <3>2. [disk[d] EXCEPT !.there = TRUE] \in Directories
      BY <1>e, DirectoryFact
    <3> QED BY <3>1, <3>2, DiskTypes DEF CapturesTypeOK
  <2> QED BY <1>3, <2>4, <2>5 DEF WriteOpens, CapturesTypeOK, Ids
<1>4. ASSUME NEW bytes \in 1..MaxFileBytes, NEW frames \in Documents, WriteLands(d, bytes, frames)
      PROVE CapturesTypeOK'
  <2> DEFINE f == Head(lock[d]).file
             size == draft[d].size - Head(lock[d]).was + bytes
  <2>1. lock[d] # <<>> /\ f \in Files /\ Head(lock[d]).was \in 0..MaxFileBytes
    BY <1>4, AtFact, HeadTypes DEF WriteLands
  <2>2. draft[d].size \in Int
    BY <1>e DEF Entries
  <2>3. size \in Int /\ bytes \in 0..MaxFileBytes
    BY <2>1, <2>2, BoundsAssumption, SMT
  <2>4. frames \in SUBSET Images
    BY PackageAssumption
  <2>5. draft' = [draft EXCEPT ![d] = Booked(draft[d], f, bytes, size)]
    BY <1>4 DEF WriteLands
  <2>6. disk' = [disk EXCEPT ![d] = Landed(disk[d], f, frames)]
    BY <1>4 DEF WriteLands
  <2> HIDE DEF f, size
  <2>7. draft' \in [Uploads -> Entries]
    BY <1>e, <2>1, <2>3, <2>5, BookedFact, DraftTypes DEF CapturesTypeOK
  <2>8. disk' \in [Uploads -> Directories]
    BY <1>e, <2>1, <2>4, <2>6, LandedFact, DiskTypes DEF CapturesTypeOK
  <2>9. lock' \in [Uploads -> Seq(Turns)]
    BY <1>4, <2>1, ReturnFact DEF WriteLands, CapturesTypeOK
  <2> QED BY <1>4, <2>7, <2>8, <2>9 DEF WriteLands, CapturesTypeOK, Ids
<1>5. ASSUME WriteFails(d) PROVE CapturesTypeOK'
  <2>1. lock' \in [Uploads -> Seq(Turns)]
    BY <1>5, AtFact, ReturnFact DEF WriteFails, CapturesTypeOK
  <2> QED BY <1>5, <2>1 DEF WriteFails, CapturesTypeOK, Ids
<1>6. ASSUME NEW r \in Readers, GetDraft(r, d) PROVE CapturesTypeOK'
  <2>1. draft[d].files \in [Files -> 0..MaxFileBytes]
    BY <1>e DEF Entries
  <2>2. r \in Reconcilers /\ reader[r] \in Readings
    BY DEF Reconcilers, CapturesTypeOK
  <2>3. reader' \in [Reconcilers -> Readings]
    BY <1>6, <2>1, <2>2, ReadingFact, ReaderTypes DEF GetDraft, CapturesTypeOK
  <2> QED BY <1>6, <2>3 DEF GetDraft, CapturesTypeOK, Ids
<1> QED BY <1>1, <1>2, <1>3, <1>4, <1>5, <1>6 DEF WriteStep

\* What a commit's step does to the two queues.
LEMMA ProceedTypes ==
  ASSUME CapturesTypeOK, NEW d \in Uploads, lock[d] # <<>>, NEW pc \in CommitSteps, Proceed(d, pc)
  PROVE lock' \in [Uploads -> Seq(Turns)]
<1>1. pc \in Steps
  BY DEF Steps
<1> QED BY <1>1, ProceedFact DEF CapturesTypeOK, Turned

\* A turn at a step of a commit is a commit's.
LEMMA StepsFact ==
  ASSUME NEW d \in Uploads, NEW pc \in CommitSteps, At(d, pc)
  PROVE lock[d] # <<>> /\ Busy(d, CommitSteps)
  BY DEF At, Busy

\* Every step of a commit keeps the types; that the answer finds commitLock taken is the invariant's.
LEMMA CommitStepTypes ==
  ASSUME CapturesTypeOK, CapturesInv, NEW d \in Uploads, CommitStep(d)
  PROVE CapturesTypeOK'
<1>e. draft[d] \in Entries /\ disk[d] \in Directories
  BY DEF CapturesTypeOK
<1>0. 0 \in 0..MaxFileBytes /\ Manifest \in Files
  BY BoundsAssumption, SMT DEF Files
<1>f. [draft[d] EXCEPT !.state = "gone"] \in Entries /\ Closed \in Entries
  BY <1>e, EntryFact
<1>1. ASSUME CommitEnters(d) PROVE CapturesTypeOK'
  <2>1. CASE Live(d)
    <3>1. Turn("commit", Manifest, 0, Nothing) \in Turns
      BY <1>0, TurnFact DEF Steps, CommitSteps
    <3>2. lock' \in [Uploads -> Seq(Turns)]
      BY <1>1, <2>1, <3>1, AppendFact DEF CommitEnters, CapturesTypeOK, Queued
    <3> QED BY <1>1, <2>1, <3>2 DEF CommitEnters, CapturesTypeOK, Ids
  <2>2. CASE ~Live(d)
    <3>1. commits # <<>>
      BY <1>1, NextCommitsFact DEF CommitEnters, CapturesTypeOK
    <3>2. commits' \in Seq(Uploads)
      BY <1>1, <2>2, <3>1, CommitsTypes DEF CommitEnters, CapturesTypeOK
    <3> QED BY <1>1, <2>2, <3>2 DEF CommitEnters, CapturesTypeOK, Ids
  <2> QED BY <2>1, <2>2
<1>2. ASSUME CommitChecks(d) PROVE CapturesTypeOK'
  <2> DEFINE same == {c \in Ids : draft[d].key # NoKey /\ records[c] = draft[d].key}
  <2>1. lock[d] # <<>> /\ Busy(d, CommitSteps)
    BY <1>2, StepsFact DEF CommitChecks, CommitSteps
  <2>2. CASE Answer(d)
    BY <1>2, <2>1, <2>2, AnswerTypes DEF CommitChecks, CapturesTypeOK, Ids
  <2>3. CASE Proceed(d, "inspect") /\ UNCHANGED commits
    <3>1. lock' \in [Uploads -> Seq(Turns)]
      BY <2>1, <2>3, ProceedTypes DEF CommitSteps
    <3> QED BY <1>2, <2>3, <3>1 DEF CommitChecks, CapturesTypeOK, Ids
  <2>4. ASSUME NEW c \in Ids, Becomes(d, Turn("existing", Manifest, 0, c)), UNCHANGED commits
        PROVE CapturesTypeOK'
    <3>1. c \in Uploads \cup {Nothing}
      BY DEF CapturesTypeOK
    <3>2. Turn("existing", Manifest, 0, c) \in Turns
      <4>1. "existing" \in Steps
        BY DEF Steps, CommitSteps
      <4> QED BY <1>0, <3>1, <4>1, TurnFact
    <3>3. lock' \in [Uploads -> Seq(Turns)]
      BY <2>1, <2>4, <3>2, BecomesFact DEF CapturesTypeOK, Turned
    <3> QED BY <1>2, <2>4, <3>3 DEF CommitChecks, CapturesTypeOK, Ids
  <2> QED BY <1>2, <2>2, <2>3, <2>4 DEF CommitChecks
<1>3. ASSUME CommitLooksAtExisting(d) PROVE CapturesTypeOK'
  <2>1. lock[d] # <<>>
    BY <1>3, AtFact DEF CommitLooksAtExisting
  <2>2. lock' \in [Uploads -> Seq(Turns)]
    BY <1>3, <2>1, ProceedTypes DEF CommitLooksAtExisting, CommitSteps
  <2>3. draft' \in [Uploads -> Entries]
    BY <1>3, <1>f, DraftTypes, ZenonT(30) DEF CommitLooksAtExisting, CapturesTypeOK, Forgotten
  <2> QED BY <1>3, <2>2, <2>3 DEF CommitLooksAtExisting, CapturesTypeOK, Ids
<1>4. ASSUME CommitIsRedundant(d) PROVE CapturesTypeOK'
  <2>1. lock' \in [Uploads -> Seq(Turns)] /\ commits' \in Seq(Uploads)
    BY <1>4, StepsFact, AnswerTypes DEF CommitIsRedundant, CommitSteps
  <2>2. draft' \in [Uploads -> Entries]
    BY <1>4, <1>f, DraftTypes DEF CommitIsRedundant, CapturesTypeOK, Close
  <2>3. disk' \in [Uploads -> Directories]
    BY <1>4, <1>e, DirectoryFact, DiskTypes DEF CommitIsRedundant, CapturesTypeOK, RemoveDirectory
  <2> QED BY <1>4, <2>1, <2>2, <2>3 DEF CommitIsRedundant, CapturesTypeOK, Ids
<1>5. ASSUME CommitInspects(d) PROVE CapturesTypeOK'
  <2>1. lock[d] # <<>> /\ Busy(d, CommitSteps)
    BY <1>5, StepsFact DEF CommitInspects, CommitSteps
  <2>2. CASE Answer(d) /\ UNCHANGED reader
    BY <1>5, <2>1, <2>2, AnswerTypes DEF CommitInspects, CapturesTypeOK, Ids
  <2>3. CASE Proceed(d, "manifest") /\ UNCHANGED <<commits, reader>>
    <3>1. lock' \in [Uploads -> Seq(Turns)]
      BY <2>1, <2>3, ProceedTypes DEF CommitSteps
    <3> QED BY <1>5, <2>3, <3>1 DEF CommitInspects, CapturesTypeOK, Ids
  <2>4. CASE /\ Proceed(d, "reconcile") /\ UNCHANGED commits
             /\ reader' = [reader EXCEPT ![Committer] =
                             [NotReading EXCEPT !.of = d, !.left = draft[d].files]]
    <3>1. lock' \in [Uploads -> Seq(Turns)]
      BY <2>1, <2>4, ProceedTypes DEF CommitSteps
    <3>2. draft[d].files \in [Files -> 0..MaxFileBytes]
      BY <1>e DEF Entries
    <3>3. Committer \in Reconcilers /\ reader[Committer] \in Readings
      BY DEF Reconcilers, CapturesTypeOK
    <3>4. [NotReading EXCEPT !.of = d, !.left = draft[d].files] \in Readings
      BY <3>2, <3>3, ReadingFact
    <3>5. reader' \in [Reconcilers -> Readings]
      BY <2>4, <3>3, <3>4, ReaderTypes DEF CapturesTypeOK
    <3> QED BY <1>5, <2>4, <3>1, <3>5 DEF CommitInspects, CapturesTypeOK, Ids
  <2> QED BY <1>5, <2>2, <2>3, <2>4 DEF CommitInspects
<1>6. ASSUME CommitRefuses(d) PROVE CapturesTypeOK'
  <2>1. lock' \in [Uploads -> Seq(Turns)] /\ commits' \in Seq(Uploads)
    BY <1>6, StepsFact, AnswerTypes DEF CommitRefuses, CommitSteps
  <2> QED BY <1>6, <2>1 DEF CommitRefuses, CapturesTypeOK, Ids
<1>7. ASSUME CommitWritesManifest(d) PROVE CapturesTypeOK'
  <2>1. lock[d] # <<>> /\ Busy(d, CommitSteps)
    BY <1>7, StepsFact DEF CommitWritesManifest, CommitSteps
  <2>2. CASE Answer(d) /\ UNCHANGED disk
    BY <1>7, <2>1, <2>2, AnswerTypes DEF CommitWritesManifest, CapturesTypeOK, Ids
  <2>3. CASE /\ disk' = [disk EXCEPT ![d].declared = Accounted(d)]
             /\ Proceed(d, "install") /\ UNCHANGED commits
    <3>1. lock' \in [Uploads -> Seq(Turns)]
      BY <2>1, <2>3, ProceedTypes DEF CommitSteps
    <3>2. [disk[d] EXCEPT !.declared = Accounted(d)] \in Directories
      BY <1>e, AccountedFact, DirectoryFact
    <3>3. disk' = [disk EXCEPT ![d] = [disk[d] EXCEPT !.declared = Accounted(d)]]
      BY <2>3
    <3>4. disk' \in [Uploads -> Directories]
      BY <3>2, <3>3, DiskTypes DEF CapturesTypeOK
    <3> QED BY <1>7, <2>3, <3>1, <3>4 DEF CommitWritesManifest, CapturesTypeOK, Ids
  <2> QED BY <1>7, <2>2, <2>3 DEF CommitWritesManifest
<1>8. ASSUME CommitInstalls(d) PROVE CapturesTypeOK'
  <2>1. lock[d] # <<>> /\ Busy(d, CommitSteps)
    BY <1>8, StepsFact DEF CommitInstalls, CommitSteps
  <2>2. CASE Answer(d) /\ UNCHANGED records
    BY <1>8, <2>1, <2>2, AnswerTypes DEF CommitInstalls, CapturesTypeOK, Ids
  <2>3. CASE /\ records' = [c \in (Ids \ {Head(lock[d]).existing}) \cup {d} |->
                              IF c = d THEN draft[d].key ELSE records[c]]
             /\ Proceed(d, "forget") /\ UNCHANGED commits
    <3>1. lock' \in [Uploads -> Seq(Turns)]
      BY <2>1, <2>3, ProceedTypes DEF CommitSteps
    <3>2. draft[d].key \in Keys \cup {NoKey}
      BY <1>e DEF Entries
    <3>3. Ids' \subseteq Uploads /\ records' \in [Ids' -> Keys \cup {NoKey}]
      BY <2>3, <3>2 DEF CapturesTypeOK, Ids
    <3> QED BY <1>8, <2>3, <3>1, <3>3 DEF CommitInstalls, CapturesTypeOK
  <2> QED BY <1>8, <2>2, <2>3 DEF CommitInstalls
<1>9. ASSUME CommitForgets(d) PROVE CapturesTypeOK'
  <2>1. lock[d] # <<>>
    BY <1>9, AtFact DEF CommitForgets
  <2>2. lock' \in [Uploads -> Seq(Turns)]
    BY <1>9, <2>1, ProceedTypes DEF CommitForgets, CommitSteps
  <2>3. draft' \in [Uploads -> Entries]
    BY <1>9, <1>f, DraftTypes DEF CommitForgets, CapturesTypeOK, Forgotten
  <2> QED BY <1>9, <2>2, <2>3 DEF CommitForgets, CapturesTypeOK, Ids
<1>10. ASSUME CommitRetires(d) PROVE CapturesTypeOK'
  <2>1. lock' \in [Uploads -> Seq(Turns)] /\ commits' \in Seq(Uploads)
    BY <1>10, StepsFact, AnswerTypes DEF CommitRetires, CommitSteps
  <2>2. draft' \in [Uploads -> Entries]
    BY <1>10, <1>f, DraftTypes DEF CommitRetires, CapturesTypeOK, Close
  <2>3. NoDirectory \in Directories /\ [disk[d] EXCEPT !.marker = "none"] \in Directories
    BY <1>e, DirectoryFact
  <2>4. disk' \in [Uploads -> Directories]
    BY <1>10, <2>3 DEF CommitRetires, CapturesTypeOK
  <2> QED BY <1>10, <2>1, <2>2, <2>4 DEF CommitRetires, CapturesTypeOK, Ids
<1> QED BY <1>1, <1>2, <1>3, <1>4, <1>5, <1>6, <1>7, <1>8, <1>9, <1>10 DEF CommitStep

\* Every other step on an upload keeps the types.
LEMMA OtherStepTypes ==
  ASSUME CapturesTypeOK, CapturesInv, NEW d \in Uploads
  PROVE /\ CommitDraft(d) \/ DiscardDraft(d) \/ Delete(d) \/ CreateBegins(d) => CapturesTypeOK'
        /\ \A files \in {Files, Images} : CreateEnds(d, files) => CapturesTypeOK'
        /\ JobInspects(d) \/ JobInserted(d) \/ JobEnds(d) => CapturesTypeOK'
        /\ EndStep(d) => CapturesTypeOK'
        /\ SweepLooks(d) \/ MarkerAges(d) => CapturesTypeOK'
        /\ \A f \in Files : LoseFile(d, f) => CapturesTypeOK'
<1>e. draft[d] \in Entries /\ disk[d] \in Directories
  BY DEF CapturesTypeOK
<1>f. [draft[d] EXCEPT !.state = "gone"] \in Entries /\ Closed \in Entries
  BY <1>e, EntryFact
<1>1. ASSUME CommitDraft(d) PROVE CapturesTypeOK'
  <2>1. commits' \in Seq(Uploads)
    BY <1>1, CommitsTypes DEF CommitDraft, CapturesTypeOK
  <2> QED BY <1>1, <2>1 DEF CommitDraft, CapturesTypeOK, Ids
<1>2. ASSUME DiscardDraft(d) PROVE CapturesTypeOK'
  <2>1. draft' \in [Uploads -> Entries]
    BY <1>2, <1>f, DraftTypes DEF DiscardDraft, CapturesTypeOK, Forgotten
  <2>2. calls' \in [Uploads -> SUBSET {"create", "discard", "delete", "forget"}]
    BY <1>2 DEF DiscardDraft, CapturesTypeOK, Begin
  <2> QED BY <1>2, <2>1, <2>2 DEF DiscardDraft, CapturesTypeOK, Ids
<1>3. ASSUME Delete(d) PROVE CapturesTypeOK'
  <2>1. calls' \in [Uploads -> SUBSET {"create", "discard", "delete", "forget"}]
    BY <1>3 DEF Delete, CapturesTypeOK, Begin
  <2> QED BY <1>3, <2>1 DEF Delete, CapturesTypeOK, Ids
<1>4. ASSUME CreateBegins(d) PROVE CapturesTypeOK'
  <2>1. calls' \in [Uploads -> SUBSET {"create", "discard", "delete", "forget"}]
    BY <1>4 DEF CreateBegins, CapturesTypeOK, Begin
  <2>2. disk' = [disk EXCEPT ![d] = [disk[d] EXCEPT !.there = TRUE]]
    BY <1>4 DEF CreateBegins
  <2>3. [disk[d] EXCEPT !.there = TRUE] \in Directories
    BY <1>e, DirectoryFact
  <2>4. disk' \in [Uploads -> Directories]
    BY <2>2, <2>3, DiskTypes DEF CapturesTypeOK
  <2> QED BY <1>4, <2>1, <2>4 DEF CreateBegins, CapturesTypeOK, Ids
<1>5. ASSUME NEW files \in {Files, Images}, CreateEnds(d, files) PROVE CapturesTypeOK'
  <2>1. calls' \in [Uploads -> SUBSET {"create", "discard", "delete", "forget"}]
    BY <1>5 DEF CreateEnds, CapturesTypeOK, End
  <2>2. disk' \in [Uploads -> Directories]
    <3>1. CASE RemoveDirectory(d)
      BY <1>e, <3>1, DirectoryFact, DiskTypes DEF CapturesTypeOK, RemoveDirectory
    <3>2. CASE disk' = [disk EXCEPT ![d].files = files, ![d].declared = files,
                                    ![d].frames = IF Manifest \in files THEN Images ELSE {}]
      <4> DEFINE g == IF Manifest \in files THEN Images ELSE {}
                 x == [[[disk[d] EXCEPT !.files = files] EXCEPT !.declared = files] EXCEPT !.frames = g]
      <4>1. g \in SUBSET Images /\ files \in SUBSET Files
        BY DEF Files
      <4>2. disk' = [disk EXCEPT ![d] = x]
        BY <3>2 DEF CapturesTypeOK
      <4> HIDE DEF g
      <4>3. x \in Directories
        BY <1>e, <4>1 DEF Directories
      <4> QED BY <4>2, <4>3, DiskTypes DEF CapturesTypeOK
    <3> QED BY <1>5, <3>1, <3>2 DEF CreateEnds
  <2>3. Ids' \subseteq Uploads /\ records' \in [Ids' -> Keys \cup {NoKey}]
    BY <1>5, ZenonT(30) DEF CreateEnds, CapturesTypeOK, Ids
  <2> QED BY <1>5, <2>1, <2>2, <2>3 DEF CreateEnds, CapturesTypeOK
<1>6. ASSUME JobInspects(d) \/ JobInserted(d) \/ JobEnds(d) PROVE CapturesTypeOK'
  <2>1. job' \in [Uploads -> {"none", "inspected", "active"}]
    BY <1>6 DEF JobInspects, JobInserted, JobEnds, CapturesTypeOK
  <2>2. UNCHANGED <<draft, lock, commits, disk, records, calls, orphan, reader, taken>>
    BY <1>6, SMT DEF JobInspects, JobInserted, JobEnds
  <2> QED BY <2>1, <2>2 DEF CapturesTypeOK, Ids
<1>7. ASSUME DiscardEnds(d) PROVE CapturesTypeOK'
  <2>1. draft' \in [Uploads -> Entries]
    BY <1>7, <1>f, DraftTypes DEF DiscardEnds, CapturesTypeOK, Close
  <2>2. disk' \in [Uploads -> Directories]
    <3>1. disk' = disk \/ disk' = [disk EXCEPT ![d] = NoDirectory]
      BY <1>7 DEF DiscardEnds, RemoveDirectory
    <3>2. NoDirectory \in Directories
      BY <1>e, DirectoryFact
    <3> QED BY <3>1, <3>2, DiskTypes DEF CapturesTypeOK
  <2>3. calls' \in [Uploads -> SUBSET {"create", "discard", "delete", "forget"}]
    BY <1>7 DEF DiscardEnds, CapturesTypeOK, End
  <2> QED BY <1>7, <2>1, <2>2, <2>3 DEF DiscardEnds, CapturesTypeOK, Ids
<1>8. ASSUME DeleteRemoves(d) PROVE CapturesTypeOK'
  <2>1. disk' \in [Uploads -> Directories]
    BY <1>8, <1>e, DirectoryFact, DiskTypes DEF DeleteRemoves, CapturesTypeOK, RemoveDirectory
  <2>2. calls' \in [Uploads -> SUBSET {"create", "discard", "delete", "forget"}]
    BY <1>8 DEF DeleteRemoves, CapturesTypeOK
  <2> QED BY <1>8, <2>1, <2>2 DEF DeleteRemoves, CapturesTypeOK, Ids
<1>9. ASSUME DeleteForgets(d) PROVE CapturesTypeOK'
  <2>1. calls' \in [Uploads -> SUBSET {"create", "discard", "delete", "forget"}]
    BY <1>9 DEF DeleteForgets, CapturesTypeOK, End
  <2>2. Ids' \subseteq Uploads /\ records' \in [Ids' -> Keys \cup {NoKey}]
    BY <1>9 DEF DeleteForgets, CapturesTypeOK, Ids
  <2> QED BY <1>9, <2>1, <2>2 DEF DeleteForgets, CapturesTypeOK
<1>10. ASSUME SweepLooks(d) PROVE CapturesTypeOK'
  BY <1>10 DEF SweepLooks, CapturesTypeOK, Ids
<1>11. ASSUME MarkerAges(d) PROVE CapturesTypeOK'
  <2>1. disk' = [disk EXCEPT ![d] = [disk[d] EXCEPT !.marker = "stale"]]
    BY <1>11 DEF MarkerAges
  <2>2. [disk[d] EXCEPT !.marker = "stale"] \in Directories
    BY <1>e, DirectoryFact
  <2>3. disk' \in [Uploads -> Directories]
    BY <2>1, <2>2, DiskTypes DEF CapturesTypeOK
  <2> QED BY <1>11, <2>3 DEF MarkerAges, CapturesTypeOK, Ids
<1>12. ASSUME NEW f \in Files, LoseFile(d, f) PROVE CapturesTypeOK'
  <2>1. disk' = [disk EXCEPT ![d] = [disk[d] EXCEPT !.files = disk[d].files \ {f}]]
    BY <1>12 DEF LoseFile
  <2>2. disk[d].files \ {f} \in SUBSET Files
    BY <1>e DEF Directories
  <2>3. [disk[d] EXCEPT !.files = disk[d].files \ {f}] \in Directories
    BY <1>e, <2>2, DirectoryFact
  <2>4. disk' \in [Uploads -> Directories]
    BY <2>1, <2>3, DiskTypes DEF CapturesTypeOK
  <2> QED BY <1>12, <2>4 DEF LoseFile, CapturesTypeOK, Ids
<1> QED BY <1>1, <1>2, <1>3, <1>4, <1>5, <1>6, <1>7, <1>8, <1>9, <1>10, <1>11, <1>12, ZenonT(30) DEF EndStep

\* A reconciliation keeps the types, whatever it still reads.
LEMMA ReconcileStepTypes ==
  ASSUME CapturesTypeOK, CapturesInv, NEW r \in Reconcilers, ReconcileStep(r)
  PROVE CapturesTypeOK'
<1>e. reader[r] \in Readings
  BY DEF CapturesTypeOK
<1>1. ASSUME NEW f \in Files, ReconcileNext(r, f) PROVE CapturesTypeOK'
  <2>1. \/ reader' = [reader EXCEPT ![r] = [reader[r] EXCEPT !.left[f] = 0]]
        \/ reader' = [reader EXCEPT ![r] = [reader[r] EXCEPT !.gone = f]]
    BY <1>1 DEF ReconcileNext
  <2>2. /\ [reader[r] EXCEPT !.left[f] = 0] \in Readings
        /\ [reader[r] EXCEPT !.gone = f] \in Readings
    BY <1>e, ReadingFact
  <2>3. reader' \in [Reconcilers -> Readings]
    BY <2>1, <2>2, ReaderTypes DEF CapturesTypeOK
  <2> QED BY <1>1, <2>3 DEF ReconcileNext, CapturesTypeOK, Ids
<1>2. ASSUME ReconcileDrops(r) PROVE CapturesTypeOK'
  <2> DEFINE d == reader[r].of
             f == reader[r].gone
             s == Max({0, draft[d].size - reader[r].left[f]})
  <2>1. f \in Files /\ reader[r].left[f] \in 0..MaxFileBytes /\ 0 \in 0..MaxFileBytes
    <3>1. f \in Files
      BY <1>2, <1>e DEF ReconcileDrops, Readings
    <3>2. 0 \in 0..MaxFileBytes
      BY BoundsAssumption, SMT
    <3> QED BY <1>e, <3>1, <3>2 DEF Readings
  <2>2. draft' = [draft EXCEPT ![d] = Booked(draft[d], f, 0, s)]
    BY <1>2 DEF ReconcileDrops
  <2>3. reader' = [reader EXCEPT ![r] = [reader[r] EXCEPT !.left[f] = 0, !.gone = Nothing]]
    BY <1>2 DEF ReconcileDrops, CapturesTypeOK
  <2>4. ASSUME d \in Uploads PROVE draft[d] \in Entries /\ s \in Int
    <3>1. draft[d] \in Entries
      BY <2>4 DEF CapturesTypeOK
    <3>2. draft[d].size \in Int
      BY <3>1 DEF Entries
    <3>3. draft[d].size - reader[r].left[f] \in Int
      BY <2>1, <3>2, SMT
    <3> QED BY <3>1, <3>3, MaxFact
  <2> HIDE DEF d, f, s
  <2>5. draft' \in [Uploads -> Entries]
    BY <2>1, <2>2, <2>4, BookedFact, DraftTypes DEF CapturesTypeOK
  <2>6. reader' \in [Reconcilers -> Readings]
    BY <1>e, <2>1, <2>3, ReadingFact, ReaderTypes DEF CapturesTypeOK
  <2> QED BY <1>2, <2>5, <2>6 DEF ReconcileDrops, CapturesTypeOK, Ids
<1>3. ASSUME GetDraftReturns(r) PROVE CapturesTypeOK'
  <2>1. reader' \in [Reconcilers -> Readings]
    BY <1>3, <1>e, ReadingFact, ReaderTypes DEF GetDraftReturns, CapturesTypeOK
  <2> QED BY <1>3, <2>1 DEF GetDraftReturns, CapturesTypeOK, Ids
<1> QED BY <1>1, <1>2, <1>3 DEF ReconcileStep

\* Every step keeps the types.
LEMMA CapturesTypeStep ==
  ASSUME CapturesTypeOK, CapturesInv, [CapturesNext]_captureVars
  PROVE CapturesTypeOK'
<1>1. ASSUME NEW d \in Uploads, ClientStep(d) \/ WriteStep(d) \/ CommitStep(d) \/ EndStep(d)
      PROVE CapturesTypeOK'
  BY <1>1, DraftStepTypes, CommitStepTypes, OtherStepTypes DEF ClientStep
<1>2. ASSUME NEW r \in Reconcilers, ReconcileStep(r) PROVE CapturesTypeOK'
  BY <1>2, ReconcileStepTypes
<1>3. ASSUME SweepStep PROVE CapturesTypeOK'
  <2>1. ASSUME SweepRemoves PROVE CapturesTypeOK'
    <3>1. disk' = disk \/ disk' = [disk EXCEPT ![orphan] = NoDirectory]
      BY <2>1 DEF SweepRemoves, RemoveDirectory
    <3>2. NoDirectory \in Directories
      BY DEF NoDirectory, Directories
    <3>3. disk' \in [Uploads -> Directories]
      BY <3>1, <3>2, DiskTypes DEF CapturesTypeOK
    <3> QED BY <2>1, <3>3 DEF SweepRemoves, CapturesTypeOK, Ids
  <2> QED BY <1>3, <2>1, OtherStepTypes DEF SweepStep
<1>4. ASSUME NEW d \in Uploads, MarkerAges(d) \/ \E f \in Files : LoseFile(d, f)
      PROVE CapturesTypeOK'
  BY <1>4, OtherStepTypes
<1>5. ASSUME Restart PROVE CapturesTypeOK'
  <2>1. 0 \in 0..MaxFileBytes /\ 0 \in Int
    BY BoundsAssumption, SMT
  <2>2. NoDraft \in Entries /\ Closed \in Entries
    BY <2>1 DEF NoDraft, Closed, NoFiles, Entries
  <2>3. NotReading \in Readings
    BY <2>1 DEF NotReading, NoFiles, Readings
  <2>4. <<>> \in Seq(Turns) /\ <<>> \in Seq(Uploads)
    BY SMT
  <2>5. draft' \in [Uploads -> Entries] /\ lock' \in [Uploads -> Seq(Turns)] /\ commits' \in Seq(Uploads)
    BY <1>5, <2>2, <2>4 DEF Restart
  <2>6. reader' \in [Reconcilers -> Readings] /\ orphan' \in Uploads \cup {Nothing}
    BY <1>5, <2>3 DEF Restart
  <2>7. /\ job' \in [Uploads -> {"none", "inspected", "active"}]
        /\ calls' \in [Uploads -> SUBSET {"create", "discard", "delete", "forget"}]
    BY <1>5 DEF Restart, CapturesTypeOK
  <2> QED BY <1>5, <2>5, <2>6, <2>7 DEF Restart, CapturesTypeOK, Ids
<1>6. ASSUME UNCHANGED captureVars PROVE CapturesTypeOK'
  BY <1>6 DEF captureVars, CapturesTypeOK, Ids
<1> QED BY <1>1, <1>2, <1>3, <1>4, <1>5, <1>6 DEF CapturesNext

-----------------------------------------------------------------------------
\* The queue of a draft after each kind of step of its own.

\* The first turn is over: what follows it has not begun.
LEMMA ReturnHead ==
  ASSUME CapturesTypeOK, NEW d \in Uploads, QueueInv(d), lock[d] # <<>>, Return(d)
  PROVE /\ lock'[d] = Tail(lock[d])
        /\ \A i \in 1..Len(lock'[d]) : /\ lock'[d][i] = lock[d][i + 1] /\ i + 1 \in 1..Len(lock[d])
                                       /\ i + 1 # 1 /\ lock'[d][i].pc \in {"queued", "commit"}
        /\ \A steps : Busy(d, steps)' => "queued" \in steps \/ "commit" \in steps
<1>1. lock[d] \in Seq(Turns)
  BY DEF CapturesTypeOK
<1>2. lock'[d] = Tail(lock[d])
  BY ReturnFact DEF CapturesTypeOK
<1>3. /\ Tail(lock[d]) \in Seq(Turns) /\ Len(Tail(lock[d])) = Len(lock[d]) - 1 /\ Len(lock[d]) \in Nat
      /\ \A i \in 1..Len(lock[d]) - 1 : Tail(lock[d])[i] = lock[d][i + 1] /\ i + 1 \in 1..Len(lock[d])
  BY <1>1, QueueFact, SMT
<1>4. \A i \in 1..Len(lock'[d]) : /\ lock'[d][i] = lock[d][i + 1] /\ i + 1 \in 1..Len(lock[d])
                                  /\ i + 1 # 1
  BY <1>2, <1>3, SMT
<1>5. \A i \in 1..Len(lock'[d]) : lock'[d][i].pc \in {"queued", "commit"}
  BY <1>4 DEF QueueInv
<1>6. lock'[d] # <<>> => Head(lock'[d]) = lock'[d][1] /\ 1 \in 1..Len(lock'[d])
  BY <1>2, <1>3, QueueFact
<1>7. \A steps : Busy(d, steps)' => "queued" \in steps \/ "commit" \in steps
  BY <1>5, <1>6 DEF Busy
<1> QED BY <1>2, <1>4, <1>5, <1>7

\* A turn that ends leaves the queue's invariant.
LEMMA ReturnKeeps ==
  ASSUME CapturesTypeOK, NEW d \in Uploads, QueueInv(d), lock[d] # <<>>, Return(d),
         draft'[d].state # "new",
         Head(lock[d]).pc \in CommitSteps \/ commits' = commits
  PROVE QueueInv(d)' /\ CommitInv(d)'
<1>1. lock[d] \in Seq(Turns)
  BY DEF CapturesTypeOK
<1>2. /\ lock'[d] = Tail(lock[d])
      /\ \A i \in 1..Len(lock'[d]) : /\ lock'[d][i] = lock[d][i + 1] /\ i + 1 \in 1..Len(lock[d])
                                     /\ i + 1 # 1 /\ lock'[d][i].pc \in {"queued", "commit"}
      /\ \A steps : Busy(d, steps)' => "queued" \in steps \/ "commit" \in steps
  BY ReturnHead
<1>3. /\ Tail(lock[d]) \in Seq(Turns) /\ Len(Tail(lock[d])) = Len(lock[d]) - 1
      /\ Head(lock[d]) = lock[d][1] /\ 1 \in 1..Len(lock[d]) /\ Len(lock[d]) \in Nat
  BY <1>1, QueueFact, SMT
<1>4. \A i, j \in 1..Len(lock'[d]) : i + 1 = j + 1 => i = j
  BY <1>2, <1>3, SMT
<1>5. \A i, j \in 1..Len(lock'[d]) :
         lock'[d][i].pc \in CommitSteps /\ lock'[d][j].pc \in CommitSteps => i = j
  BY <1>2, <1>4, ZenonT(30) DEF QueueInv
<1>6. \A i \in 1..Len(lock'[d]) : lock'[d][i].pc = "commit" => lock'[d][i].existing = Nothing
  BY <1>2 DEF QueueInv
<1>7. DOMAIN lock[d] = 1..Len(lock[d]) /\ DOMAIN lock'[d] = 1..Len(lock'[d])
  BY <1>1, <1>2, <1>3, SMT
<1>8. ASSUME Committing(d)' PROVE Committing(d) /\ Head(lock[d]).pc \notin CommitSteps
  <2>1. PICK i \in 1..Len(lock'[d]) : lock'[d][i].pc \in CommitSteps
    BY <1>7, <1>8 DEF Committing
  <2>2. i + 1 \in 1..Len(lock[d]) /\ lock[d][i + 1].pc \in CommitSteps /\ i + 1 # 1
    BY <1>2, <2>1
  <2> QED BY <1>3, <1>7, <2>2 DEF Committing, QueueInv
<1>9. QueueInv(d)'
  BY <1>2, <1>5, <1>6, <1>8 DEF QueueInv
<1> QED BY <1>2, <1>9 DEF CommitInv

\* The first turn goes on.
LEMMA TurnKeeps ==
  ASSUME CapturesTypeOK, NEW d \in Uploads, QueueInv(d), NEW pc \in Steps \ {"commit"}, Turned(d, pc),
         draft'[d].state # "new", commits' = commits,
         pc \in CommitSteps => Head(lock[d]).pc \in CommitSteps
  PROVE QueueInv(d)' /\ \A steps : Busy(d, steps)' <=> pc \in steps
<1>1. lock[d] \in Seq(Turns) /\ lock'[d] \in Seq(Turns)
  BY DEF CapturesTypeOK, Turned
<1>2. /\ Head(lock[d]) = lock[d][1] /\ 1 \in 1..Len(lock[d])
      /\ Head(lock'[d]) = lock'[d][1] /\ Len(lock'[d]) = Len(lock[d])
      /\ DOMAIN lock[d] = 1..Len(lock[d]) /\ DOMAIN lock'[d] = 1..Len(lock'[d])
  <2>1. lock[d] # <<>> /\ lock'[d] # <<>> /\ Len(lock'[d]) = Len(lock[d])
    BY DEF Turned
  <2> QED BY <1>1, <2>1, SMT
<1>3. lock'[d][1].pc = pc /\ \A i \in 1..Len(lock[d]) : i # 1 => lock'[d][i] = lock[d][i]
  BY <1>2 DEF Turned
<1>4. \A i \in 1..Len(lock[d]) : lock'[d][i].pc \in CommitSteps => lock[d][i].pc \in CommitSteps
  BY <1>2, <1>3
<1>5. Committing(d)' => Committing(d)
  BY <1>2, <1>4 DEF Committing
<1>6. QueueInv(d)'
  BY <1>2, <1>3, <1>4, <1>5 DEF QueueInv
<1>7. \A steps : Busy(d, steps)' <=> pc \in steps
  BY DEF Busy, Turned
<1> QED BY <1>6, <1>7

\* A turn joins the queue.
LEMMA QueuedKeeps ==
  ASSUME CapturesTypeOK, NEW d \in Uploads, UploadInv(d), NEW t \in Turns, Queued(d, t),
         Live(d), UNCHANGED <<draft, commits, disk, records, calls, taken>>,
         \/ t.pc = "queued"
         \/ t.pc = "commit" /\ t.existing = Nothing /\ ~Committing(d) /\ commits # <<>> /\ Head(commits) = d
  PROVE UploadInv(d)'
<1> DEFINE n == Len(lock[d])
<1>1. lock[d] \in Seq(Turns) /\ lock'[d] \in Seq(Turns)
  BY DEF CapturesTypeOK, Queued
<1>2. /\ Len(lock'[d]) = n + 1 /\ n \in Nat /\ n + 1 \notin 1..n
      /\ \A i \in 1..Len(lock'[d]) : i \in 1..n \/ i = n + 1
      /\ DOMAIN lock[d] = 1..n /\ DOMAIN lock'[d] = 1..Len(lock'[d])
  <2>1. Len(lock'[d]) = n + 1
    BY DEF Queued
  <2> QED BY <1>1, <2>1, SMT
<1>3. lock'[d][n + 1] = t /\ \A i \in 1..n : lock'[d][i] = lock[d][i]
  BY DEF Queued
<1>4. lock[d] = <<>> => n + 1 = 1
  BY <1>1, SMT
<1>5. /\ lock[d] # <<>> => lock'[d][1] = lock[d][1] /\ Head(lock[d]) = lock[d][1]
      /\ lock'[d] # <<>> /\ Head(lock'[d]) = lock'[d][1]
  <2>1. lock'[d] # <<>>
    BY DEF Queued
  <2>2. Head(lock'[d]) = lock'[d][1]
    BY <1>1, <2>1, QueueFact
  <2>3. lock[d] # <<>> => 1 \in 1..n /\ Head(lock[d]) = lock[d][1]
    BY <1>1, QueueFact
  <2> QED BY <1>3, <2>1, <2>2, <2>3
<1> HIDE DEF n
<1>6. "queued" \notin CommitSteps
  BY DEF CommitSteps
<1>7. \A i \in 1..Len(lock'[d]) : i # 1 => lock'[d][i].pc \in {"queued", "commit"}
  BY <1>2, <1>3 DEF UploadInv, QueueInv, n
<1>8. \A i, j \in 1..Len(lock'[d]) :
         lock'[d][i].pc \in CommitSteps /\ lock'[d][j].pc \in CommitSteps => i = j
  <2>1. CASE t.pc = "queued"
    BY <1>2, <1>3, <1>6, <2>1, ZenonT(30) DEF UploadInv, QueueInv, n
  <2>2. CASE ~Committing(d)
    BY <1>2, <1>3, <2>2 DEF Committing
  <2> QED BY <2>1, <2>2
<1>9. \A i \in 1..Len(lock'[d]) : lock'[d][i].pc = "commit" => lock'[d][i].existing = Nothing
  BY <1>2, <1>3 DEF UploadInv, QueueInv, n
<1>10. Committing(d)' => commits' # <<>> /\ Head(commits') = d
  BY <1>2, <1>3, <1>6 DEF UploadInv, QueueInv, Committing
<1>11. QueueInv(d)'
  BY <1>7, <1>8, <1>9, <1>10 DEF QueueInv, Live
<1>12. /\ \A steps : Busy(d, steps)' => \/ Busy(d, steps) /\ Old(d)' = Old(d)
                                        \/ "queued" \in steps \/ "commit" \in steps
       /\ \A steps : Busy(d, steps) => Busy(d, steps)'
  BY <1>3, <1>4, <1>5 DEF Busy, Old
<1>13. CommitInv(d)'
  BY <1>12 DEF UploadInv, CommitInv, Live, Ids
<1>14. StoredInv(d)'
  BY <1>12 DEF UploadInv, StoredInv, Live, Ids, Accounted
<1> QED BY <1>11, <1>13, <1>14 DEF UploadInv

-----------------------------------------------------------------------------
\* Every action leaves to every other upload what its invariant needs.

\* A step that keeps all uploads keeps the invariant.
LEMMA AllKept ==
  ASSUME CapturesTypeOK, CapturesInv, \A e \in Uploads : Kept(e)
  PROVE CapturesInv'
  BY KeptKeeps DEF CapturesInv

\* One upload is treated on its own.
LEMMA OthersKept ==
  ASSUME CapturesTypeOK, CapturesInv, NEW d \in Uploads, UploadInv(d)',
         \A e \in Uploads \ {d} : Kept(e)
  PROVE CapturesInv'
  BY KeptKeeps DEF CapturesInv

\* Nothing but jobs, readers, markers of orphans and faults changes.
LEMMA NothingKept ==
  ASSUME CapturesTypeOK, CapturesInv,
         UNCHANGED <<draft, lock, commits, disk, records, calls, taken>>
  PROVE CapturesInv'
<1> SUFFICES ASSUME NEW e \in Uploads PROVE Kept(e)
  BY AllKept
<1> QED BY DEF Kept, Live, Accounted, Ids, Same, CapturesInv, UploadInv, QueueInv

\* A new draft disturbs nothing.
LEMMA BeginDraftKeeps ==
  ASSUME CapturesTypeOK, CapturesInv, NEW d \in Uploads, NEW k \in Keys, NEW n \in FrameCounts,
         BeginDraft(d, k, n)
  PROVE CapturesInv'
<1> SUFFICES ASSUME NEW e \in Uploads PROVE Kept(e)
  BY AllKept
<1>0. NoDraft.state = "new"
  BY DEF NoDraft
<1>1. /\ draft[d] = NoDraft /\ disk[d] = NoDirectory /\ d \notin Ids
      /\ draft[d].state = "new"
  BY <1>0 DEF BeginDraft, Fresh
<1>2. lock[d] = <<>>
  BY <1>1 DEF CapturesInv, UploadInv, QueueInv
<1>3. disk[d] \in Directories
  BY DEF CapturesTypeOK
<1>4. \A x \in Uploads \ {d} : draft'[x] = draft[x] /\ disk'[x] = disk[x]
  BY DEF BeginDraft, CapturesTypeOK
<1>5. draft'[d] = [NoDraft EXCEPT !.state = "live", !.key = k, !.expected = n]
      /\ disk'[d] = Touched(disk[d])
  BY DEF BeginDraft, CapturesTypeOK
<1>6. draft'[d].state = "live" /\ draft'[d].files = NoFiles
  BY <1>5 DEF NoDraft
<1>7. Same(disk'[d], disk[d])
  BY <1>3, <1>5, DirectoryFact
<1>8. Accounted(d)' = {}
  <2>1. \A f \in Files : ~(NoFiles[f] > 0)
    BY SMT DEF NoFiles
  <2> QED BY <1>6, <2>1 DEF Accounted
<1>9. UNCHANGED <<lock, commits, records, calls, taken>> /\ Ids' = Ids
  BY DEF BeginDraft, Ids
<1>10. CASE e = d
  BY <1>1, <1>2, <1>4, <1>6, <1>7, <1>8, <1>9, <1>10
     DEF Kept, Live, CapturesInv, UploadInv, QueueInv
<1>11. CASE e # d
  BY <1>1, <1>4, <1>9, <1>11 DEF Kept, Live, Accounted, Same, CapturesInv, UploadInv, QueueInv
<1> QED BY <1>10, <1>11

\* A draft that goes, and calls and records that a user takes.
LEMMA UserKeeps ==
  ASSUME CapturesTypeOK, CapturesInv, NEW d \in Uploads
  PROVE /\ CommitDraft(d) \/ DiscardDraft(d) \/ Delete(d) \/ CreateBegins(d) => CapturesInv'
        /\ \A files \in {Files, Images} : CreateEnds(d, files) => CapturesInv'
        /\ EndStep(d) => CapturesInv'
<1>e. draft[d] \in Entries /\ disk[d] \in Directories
  BY DEF CapturesTypeOK
<1>g. [draft[d] EXCEPT !.state = "gone"].state = "gone" /\ Closed.state = "gone"
      /\ [draft[d] EXCEPT !.state = "gone"].key = draft[d].key
  BY <1>e, EntryFact
<1>q. \A e \in Uploads : Committing(e) => commits # <<>> /\ Head(commits) = e
  BY DEF CapturesInv, UploadInv, QueueInv
<1>1. ASSUME CommitDraft(d) PROVE CapturesInv'
  <2> SUFFICES ASSUME NEW e \in Uploads PROVE Kept(e)
    BY AllKept
  <2>1. commits' = Append(commits, d) /\ UNCHANGED <<draft, lock, disk, records, calls, taken>>
    BY <1>1 DEF CommitDraft
  <2>2. Committing(e) => commits' # <<>> /\ Head(commits') = e
    BY <1>q, <2>1, CommitsTypes DEF CapturesTypeOK
  <2> QED BY <2>1, <2>2 DEF Kept, Live, Accounted, Ids, Same
<1>2. ASSUME DiscardDraft(d) PROVE CapturesInv'
  <2> SUFFICES ASSUME NEW e \in Uploads PROVE Kept(e)
    BY AllKept
  <2>1. /\ draft'[d].state = "gone" /\ draft'[d].key = draft[d].key
        /\ \A x \in Uploads \ {d} : draft'[x] = draft[x]
    BY <1>2, <1>g DEF DiscardDraft, Forgotten, CapturesTypeOK
  <2>2. \A x \in Uploads \ {d} : calls'[x] = calls[x]
    BY <1>2 DEF DiscardDraft, Begin, CapturesTypeOK
  <2>3. UNCHANGED <<lock, commits, disk, records>> /\ taken' = taken \cup {d}
    BY <1>2 DEF DiscardDraft
  <2>4. CASE e = d
    BY <1>q, <2>1, <2>3, <2>4 DEF Kept, Live, Ids
  <2>5. CASE e # d
    BY <1>q, <2>1, <2>2, <2>3, <2>5 DEF Kept, Live, Ids, Accounted, Same
  <2> QED BY <2>4, <2>5
<1>3. ASSUME Delete(d) PROVE CapturesInv'
  <2> SUFFICES ASSUME NEW e \in Uploads PROVE Kept(e)
    BY AllKept
  <2>1. \A x \in Uploads \ {d} : calls'[x] = calls[x]
    BY <1>3 DEF Delete, Begin, CapturesTypeOK
  <2>2. UNCHANGED <<draft, lock, commits, disk, records>> /\ taken' = taken \cup {d}
    BY <1>3 DEF Delete
  <2> QED BY <1>q, <2>1, <2>2 DEF Kept, Live, Ids, Accounted, Same
<1>4. ASSUME CreateBegins(d) PROVE CapturesInv'
  <2> SUFFICES ASSUME NEW e \in Uploads PROVE Kept(e)
    BY AllKept
  <2>1. /\ \A x \in Uploads \ {d} : calls'[x] = calls[x]
        /\ \A c : c \in calls'[d] => c \in calls[d] \/ c = "create"
    BY <1>4 DEF CreateBegins, Begin, CapturesTypeOK
  <2>2. \A x \in Uploads : Same(disk'[x], disk[x])
    <3>1. disk' = [disk EXCEPT ![d] = [disk[d] EXCEPT !.there = TRUE]]
      BY <1>4 DEF CreateBegins
    <3>2. Same([disk[d] EXCEPT !.there = TRUE], disk[d])
      BY <1>e, DirectoryFact
    <3> QED BY <3>1, <3>2 DEF Same, CapturesTypeOK
  <2>3. UNCHANGED <<draft, lock, commits, records, taken>>
    BY <1>4 DEF CreateBegins
  <2>4. ("delete" \in calls'[e] => "delete" \in calls[e]) /\ ("discard" \in calls'[e] => "discard" \in calls[e])
    <3>1. CASE e = d
      BY <2>1, <3>1
    <3>2. CASE e # d
      BY <2>1, <3>2
    <3> QED BY <3>1, <3>2
  <2> QED BY <1>q, <2>2, <2>3, <2>4 DEF Kept, Live, Ids, Accounted
<1>5. ASSUME NEW files \in {Files, Images}, CreateEnds(d, files) PROVE CapturesInv'
  <2> SUFFICES ASSUME NEW e \in Uploads PROVE Kept(e)
    BY AllKept
  <2>1. \A x \in Uploads : calls'[x] \subseteq calls[x]
    BY <1>5 DEF CreateEnds, End, CapturesTypeOK
  <2>2. \A x \in Uploads \ {d} : Same(disk'[x], disk[x])
    BY <1>5 DEF CreateEnds, RemoveDirectory, Same, CapturesTypeOK
  <2>3. UNCHANGED <<draft, lock, commits>> /\ taken' = taken \cup {d}
    BY <1>5 DEF CreateEnds
  <2>4. \A c \in Ids' : \/ c \in Ids /\ records'[c] = records[c]
                        \/ c = d /\ records'[c] = NoKey
    BY <1>5 DEF CreateEnds, Ids
  <2> QED BY <1>q, <2>1, <2>2, <2>3, <2>4 DEF Kept, Live, Accounted
<1>6. ASSUME DiscardEnds(d) PROVE CapturesInv'
  <2> SUFFICES ASSUME NEW e \in Uploads PROVE Kept(e)
    BY AllKept
  <2>1. /\ draft'[d].state = "gone"
        /\ \A x \in Uploads \ {d} : draft'[x] = draft[x]
    BY <1>6, <1>g DEF DiscardEnds, Close, CapturesTypeOK
  <2>2. \A x \in Uploads : calls'[x] \subseteq calls[x]
    BY <1>6 DEF DiscardEnds, End, CapturesTypeOK
  <2>3. \A x \in Uploads \ {d} : disk'[x] = disk[x]
    BY <1>6 DEF DiscardEnds, RemoveDirectory, CapturesTypeOK
  <2>4. UNCHANGED <<lock, commits, records, taken>> /\ lock[d] = <<>>
    BY <1>6 DEF DiscardEnds
  <2>5. d \in taken
    BY <1>6 DEF DiscardEnds, CapturesInv, UploadInv, StoredInv
  <2>6. CASE e = d
    BY <1>q, <2>1, <2>2, <2>4, <2>5, <2>6 DEF Kept, Live, Ids
  <2>7. CASE e # d
    BY <1>q, <2>1, <2>2, <2>3, <2>4, <2>7 DEF Kept, Live, Ids, Accounted, Same
  <2> QED BY <2>6, <2>7
<1>7. ASSUME DeleteRemoves(d) PROVE CapturesInv'
  <2> SUFFICES ASSUME NEW e \in Uploads PROVE Kept(e)
    BY AllKept
  <2>1. \A x \in Uploads : \A c : c \in calls'[x] => c \in calls[x] \/ c = "forget"
    BY <1>7 DEF DeleteRemoves, CapturesTypeOK
  <2>2. \A x \in Uploads \ {d} : disk'[x] = disk[x]
    BY <1>7 DEF DeleteRemoves, RemoveDirectory, CapturesTypeOK
  <2>3. UNCHANGED <<draft, lock, commits, records, taken>>
    BY <1>7 DEF DeleteRemoves
  <2>4. d \in taken
    BY <1>7 DEF DeleteRemoves, CapturesInv, UploadInv, StoredInv
  <2> QED BY <1>q, <2>1, <2>2, <2>3, <2>4 DEF Kept, Live, Ids, Accounted, Same
<1>8. ASSUME DeleteForgets(d) PROVE CapturesInv'
  <2> SUFFICES ASSUME NEW e \in Uploads PROVE Kept(e)
    BY AllKept
  <2>1. \A x \in Uploads : calls'[x] \subseteq calls[x]
    BY <1>8 DEF DeleteForgets, End, CapturesTypeOK
  <2>2. \A c \in Ids' : c \in Ids /\ records'[c] = records[c]
    BY <1>8 DEF DeleteForgets, Ids
  <2>3. UNCHANGED <<draft, lock, commits, disk, taken>>
    BY <1>8 DEF DeleteForgets
  <2> QED BY <1>q, <2>1, <2>2, <2>3 DEF Kept, Live, Accounted, Same
<1> QED BY <1>1, <1>2, <1>3, <1>4, <1>5, <1>6, <1>7, <1>8 DEF EndStep

\* A file whose accounting ends.
LEMMA DropFact ==
  ASSUME CapturesTypeOK, NEW x \in Uploads, NEW f \in Files, NEW s \in Int,
         draft'[x] = Booked(draft[x], f, 0, s)
  PROVE /\ draft'[x].state = draft[x].state /\ draft'[x].key = draft[x].key
        /\ Accounted(x)' \subseteq Accounted(x) /\ draft'[x].size = s
<1>1. draft[x] \in Entries /\ 0 \in 0..MaxFileBytes
  <2>1. draft[x] \in Entries
    BY DEF CapturesTypeOK
  <2> QED BY <2>1, BoundsAssumption, SMT
<1>2. /\ draft'[x].state = draft[x].state /\ draft'[x].key = draft[x].key /\ draft'[x].size = s
      /\ \A g \in Files : draft'[x].files[g] = IF g = f THEN 0 ELSE draft[x].files[g]
  BY <1>1, BookedFact, SMT
<1>4. ~(0 > 0)
  BY SMT
<1>6. Accounted(x)' \subseteq Accounted(x)
  BY <1>2, <1>4 DEF Accounted
<1> QED BY <1>2, <1>6

\* The reconciliation of the accounting, the sweep, the clock and losses.
LEMMA ReconcileKeeps ==
  ASSUME CapturesTypeOK, CapturesInv, NEW r \in Reconcilers, ReconcileStep(r)
  PROVE CapturesInv'
<1>1. ASSUME NEW f \in Files, ReconcileNext(r, f) PROVE CapturesInv'
  BY <1>1, NothingKept DEF ReconcileNext
<1>2. ASSUME GetDraftReturns(r) PROVE CapturesInv'
  BY <1>2, NothingKept DEF GetDraftReturns
<1>3. ASSUME ReconcileDrops(r) PROVE CapturesInv'
  <2> DEFINE d == reader[r].of
             f == reader[r].gone
             s == Max({0, draft[d].size - reader[r].left[f]})
  <2> SUFFICES ASSUME NEW e \in Uploads PROVE Kept(e)
    BY AllKept
  <2>1. draft' = [draft EXCEPT ![d] = Booked(draft[d], f, 0, s)]
    BY <1>3 DEF ReconcileDrops
  <2>2. UNCHANGED <<lock, commits, disk, records, calls, taken>>
    BY <1>3 DEF ReconcileDrops
  <2>3. reader[r] \in Readings /\ f \in Files
    BY <1>3 DEF ReconcileDrops, Readings, CapturesTypeOK
  <2>4. d \in Uploads => s \in Int
    <3> SUFFICES ASSUME d \in Uploads PROVE s \in Int
      OBVIOUS
    <3>1. draft[d].size \in Int
      BY DEF CapturesTypeOK, Entries
    <3>2. reader[r].left[f] \in 0..MaxFileBytes
      BY <2>3 DEF Readings
    <3>3. draft[d].size - reader[r].left[f] \in Int
      BY <3>1, <3>2, SMT
    <3> QED BY <3>3, MaxFact
  <2> HIDE DEF d, f, s
  <2>5. ASSUME NEW x \in Uploads
        PROVE /\ draft'[x].state = draft[x].state /\ draft'[x].key = draft[x].key
              /\ Accounted(x)' \subseteq Accounted(x)
    <3>1. CASE x = d
      <4>1. draft'[x] = Booked(draft[x], f, 0, s) /\ s \in Int
        BY <2>1, <2>4, <3>1 DEF CapturesTypeOK
      <4> QED BY <2>3, <4>1, DropFact
    <3>2. CASE x # d
      <4>1. draft'[x] = draft[x]
        BY <2>1, <3>2 DEF CapturesTypeOK
      <4> QED BY <4>1 DEF Accounted
    <3> QED BY <3>1, <3>2
  <2> QED BY <2>2, <2>5 DEF Kept, Live, Ids, Same, CapturesInv, UploadInv, QueueInv
<1> QED BY <1>1, <1>2, <1>3 DEF ReconcileStep

\* The sweep removes what nothing owns, at the moment of the removal.
LEMMA SweepKeeps ==
  ASSUME CapturesTypeOK, CapturesInv, SweepStep
  PROVE CapturesInv'
<1>1. ASSUME NEW d \in Uploads, SweepLooks(d) PROVE CapturesInv'
  BY <1>1, NothingKept DEF SweepLooks
<1>2. ASSUME SweepRemoves PROVE CapturesInv'
  <2> SUFFICES ASSUME NEW e \in Uploads PROVE Kept(e)
    BY AllKept
  <2>1. UNCHANGED <<draft, lock, commits, records, calls, taken>>
    BY <1>2 DEF SweepRemoves
  <2>2. e \in Ids \/ Live(e) => disk'[e] = disk[e]
    BY <1>2 DEF SweepRemoves, OwnsDirectory, RemoveDirectory, CapturesTypeOK
  <2> QED BY <2>1, <2>2 DEF Kept, Live, Accounted, Ids, Same, CapturesInv, UploadInv, QueueInv
<1> QED BY <1>1, <1>2 DEF SweepStep

\* Markers age, and what loses a file is marked as taken.
LEMMA OutsideKeeps ==
  ASSUME CapturesTypeOK, CapturesInv, NEW d \in Uploads
  PROVE /\ MarkerAges(d) => CapturesInv'
        /\ \A f \in Files : LoseFile(d, f) => CapturesInv'
<1>1. ASSUME MarkerAges(d) PROVE CapturesInv'
  <2> SUFFICES ASSUME NEW e \in Uploads PROVE Kept(e)
    BY AllKept
  <2>1. UNCHANGED <<draft, lock, commits, records, calls, taken>>
    BY <1>1 DEF MarkerAges
  <2>2. Same(disk'[e], disk[e])
    <3>1. disk' = [disk EXCEPT ![d] = [disk[d] EXCEPT !.marker = "stale"]]
      BY <1>1 DEF MarkerAges
    <3>2. Same([disk[d] EXCEPT !.marker = "stale"], disk[d])
      BY DirectoryFact DEF CapturesTypeOK
    <3> QED BY <3>1, <3>2 DEF Same, CapturesTypeOK
  <2> QED BY <2>1, <2>2 DEF Kept, Live, Accounted, Ids, CapturesInv, UploadInv, QueueInv
<1>2. ASSUME NEW f \in Files, LoseFile(d, f) PROVE CapturesInv'
  <2> SUFFICES ASSUME NEW e \in Uploads PROVE Kept(e)
    BY AllKept
  <2>1. UNCHANGED <<draft, lock, commits, records, calls>> /\ taken' = taken \cup {d}
    BY <1>2 DEF LoseFile
  <2>2. e # d => disk'[e] = disk[e]
    BY <1>2 DEF LoseFile, CapturesTypeOK
  <2> QED BY <2>1, <2>2 DEF Kept, Live, Accounted, Ids, Same, CapturesInv, UploadInv, QueueInv
<1> QED BY <1>1, <1>2

\* A restart leaves records and directories, and no draft and no turn.
LEMMA RestartKeeps ==
  ASSUME CapturesTypeOK, CapturesInv, Restart
  PROVE CapturesInv'
<1> SUFFICES ASSUME NEW e \in Uploads PROVE UploadInv(e)'
  BY DEF CapturesInv
<1>1. /\ lock'[e] = <<>> /\ calls'[e] = {} /\ UNCHANGED <<disk, records, taken>>
      /\ draft'[e] = IF draft[e] = NoDraft THEN NoDraft ELSE Closed
  BY DEF Restart
<1>2. NoDraft.state = "new" /\ Closed.state = "gone"
  <2>1. NoDraft.state = "new"
    BY DEF NoDraft
  <2> QED BY <2>1, EntryFact DEF CapturesTypeOK
<1>3. ~Live(e)' /\ (draft[e].state # "new" => draft'[e].state # "new")
  BY <1>1, <1>2 DEF Live
<1>4. \A i \in 1..Len(lock'[e]) : FALSE
  BY <1>1, SMT
<1>5. \A i \in DOMAIN lock'[e] : FALSE
  BY <1>1, SMT
<1>6. QueueInv(e)'
  BY <1>1, <1>4, <1>5 DEF QueueInv, Committing
<1>7. CommitInv(e)'
  BY <1>1 DEF CommitInv, Busy
<1>8. StoredInv(e)'
  BY <1>1, <1>3 DEF StoredInv, CapturesInv, UploadInv, Ids
<1> QED BY <1>6, <1>7, <1>8 DEF UploadInv

-----------------------------------------------------------------------------
\* The steps of a draft's own turns.

\* A draft that is not in a commit's last steps is not the owner of a stored
\* capture that nobody has touched.
LEMMA NotStored ==
  ASSUME CapturesTypeOK, CapturesInv, NEW d \in Uploads, Live(d), ~Busy(d, {"forget"}), d \in Ids
  PROVE d \in taken
  BY DEF CapturesInv, UploadInv, StoredInv

\* Queues apart, a step that changes one draft and its directory.
LEMMA OwnStep ==
  ASSUME CapturesTypeOK, CapturesInv, NEW d \in Uploads, UploadInv(d)',
         \A e \in Uploads \ {d} : lock'[e] = lock[e] /\ draft'[e] = draft[e] /\ Same(disk'[e], disk[e]),
         draft[d].state = "gone" => draft'[d].state = "gone",
         UNCHANGED <<records, calls>>, taken \subseteq taken',
         commits' = commits \/ Busy(d, CommitSteps)
  PROVE CapturesInv'
<1> SUFFICES ASSUME NEW e \in Uploads, e # d PROVE Kept(e)
  BY OthersKept
<1>1. Committing(e) => commits' = commits /\ commits # <<>> /\ Head(commits) = e
  BY Alone DEF CapturesInv, UploadInv, QueueInv
<1>2. \A x \in Uploads : draft[x].state = "gone" => draft'[x].state = "gone"
  OBVIOUS
<1> QED BY <1>1, <1>2 DEF Kept, Live, Accounted, Ids

\* Writes keep the invariant, of whatever turn follows them in the queue.
LEMMA WriteKeeps ==
  ASSUME CapturesTypeOK, CapturesInv, NEW d \in Uploads
  PROVE /\ \A f \in Files : WriteDraftFile(d, f) => CapturesInv'
        /\ WriteStep(d) => CapturesInv'
<1>e. draft[d] \in Entries /\ disk[d] \in Directories /\ lock \in [Uploads -> Seq(Turns)]
  BY DEF CapturesTypeOK
<1>i. UploadInv(d) /\ QueueInv(d) /\ StoredInv(d)
  BY DEF CapturesInv, UploadInv
<1>1. ASSUME NEW f \in Files, WriteDraftFile(d, f) PROVE CapturesInv'
  <2> DEFINE t == Turn("queued", f, 0, Nothing)
  <2>1. t \in Turns /\ t.pc = "queued"
    <3>1. 0 \in 0..MaxFileBytes
      BY BoundsAssumption, SMT
    <3>2. "queued" \in Steps
      BY DEF Steps, WriteSteps
    <3> QED BY <3>1, <3>2, TurnFact, SMT
  <2>2. lock' = [lock EXCEPT ![d] = Append(@, t)] /\ Live(d)
        /\ UNCHANGED <<draft, commits, disk, records, calls, taken>>
    BY <1>1 DEF WriteDraftFile
  <2> HIDE DEF t
  <2>3. Queued(d, t)
    BY <1>e, <2>1, <2>2, AppendFact
  <2>4. UploadInv(d)'
    BY <1>i, <2>1, <2>2, <2>3, QueuedKeeps
  <2> QED BY <2>2, <2>3, <2>4, OwnStep DEF Queued, Same
<1>2. ASSUME WriteOpens(d) PROVE CapturesInv'
  <2> DEFINE f == Head(lock[d]).file
             t == Turn("open", f, draft[d].files[f], Nothing)
  <2>1. /\ lock[d] # <<>> /\ Head(lock[d]).pc = "queued" /\ ~Busy(d, {"forget"})
        /\ Head(lock[d]).pc \notin CommitSteps
    BY <1>2 DEF WriteOpens, CommitSteps, At, Busy
  <2>2. UNCHANGED <<draft, commits, records, calls, taken>>
    BY <1>2 DEF WriteOpens
  <2>3. \A x \in Uploads : Same(disk'[x], disk[x])
    <3>1. disk' = disk \/ disk' = [disk EXCEPT ![d] = [disk[d] EXCEPT !.there = TRUE]]
      BY <1>2 DEF WriteOpens
    <3>2. Same([disk[d] EXCEPT !.there = TRUE], disk[d])
      BY <1>e, DirectoryFact
    <3> QED BY <3>1, <3>2 DEF Same, CapturesTypeOK
  <2>4. draft'[d].state # "new"
    BY <1>i, <2>1, <2>2 DEF QueueInv
  <2>5. StoredInv(d)'
    <3>1. d \in Ids /\ Live(d) => d \in taken
      BY <2>1, NotStored
    <3> QED BY <1>i, <2>2, <2>3, <3>1 DEF StoredInv, Live, Ids, Accounted, Same, CompletePackage
  <2>6. \A x \in Uploads \ {d} : lock'[x] = lock[x]
    <3>1. CASE Return(d)
      BY <1>e, <2>1, <3>1, ReturnFact
    <3>2. CASE Becomes(d, t)
      BY <3>2 DEF Becomes, CapturesTypeOK
    <3> QED BY <1>2, <3>1, <3>2 DEF WriteOpens
  <2>7. QueueInv(d)' /\ CommitInv(d)'
    <3>1. CASE Return(d)
      BY <1>i, <2>1, <2>2, <2>4, <3>1, ReturnKeeps
    <3>2. CASE Becomes(d, t)
      <4>1. t \in Turns /\ t.pc = "open" /\ "open" \in Steps \ {"commit"} /\ "open" \notin CommitSteps
        <5>1. f \in Files
          BY <2>1, HeadTypes
        <5>2. PICK w \in 0..MaxFileBytes : w = draft[d].files[f]
          BY <1>e, <5>1 DEF Entries
        <5>3. "open" \in Steps \ {"commit"} /\ "open" \notin CommitSteps
          BY DEF Steps, WriteSteps, CommitSteps
        <5> HIDE DEF f
        <5>4. Turn("open", f, w, Nothing) \in Turns /\ Turn("open", f, w, Nothing).pc = "open"
          BY <5>1, <5>3, TurnFact, SMT
        <5> QED BY <5>2, <5>3, <5>4
      <4> HIDE DEF t
      <4>2. Turned(d, "open")
        BY <1>e, <2>1, <3>2, <4>1, BecomesFact
      <4>3. QueueInv(d)' /\ \A steps : Busy(d, steps)' <=> "open" \in steps
        BY <1>i, <2>2, <2>4, <4>1, <4>2, TurnKeeps
      <4> QED BY <4>3 DEF CommitInv
    <3> QED BY <1>2, <3>1, <3>2 DEF WriteOpens
  <2>8. UploadInv(d)'
    BY <2>5, <2>7 DEF UploadInv
  <2> QED BY <2>2, <2>3, <2>6, <2>8, OwnStep
<1>3. ASSUME NEW bytes \in 1..MaxFileBytes, NEW frames \in Documents, WriteLands(d, bytes, frames)
      PROVE CapturesInv'
  <2> DEFINE f == Head(lock[d]).file
             size == draft[d].size - Head(lock[d]).was + bytes
  <2>1. /\ lock[d] # <<>> /\ Head(lock[d]).pc = "open" /\ ~Busy(d, {"forget"})
    BY <1>3 DEF WriteLands, At, Busy
  <2>2. f \in Files /\ Head(lock[d]).was \in 0..MaxFileBytes
    BY <2>1, HeadTypes
  <2>3. draft' = [draft EXCEPT ![d] = Booked(draft[d], f, bytes, size)]
        /\ disk' = [disk EXCEPT ![d] = Landed(disk[d], f, frames)]
    BY <1>3 DEF WriteLands
  <2>4. UNCHANGED <<commits, records, calls>> /\ Return(d)
        /\ taken' = IF Live(d) THEN taken ELSE taken \cup {d}
    BY <1>3 DEF WriteLands
  <2>5. size \in Int /\ bytes \in 0..MaxFileBytes
    <3>1. draft[d].size \in Int
      BY <1>e DEF Entries
    <3> QED BY <2>2, <3>1, BoundsAssumption, SMT
  <2> HIDE DEF size
  <2>6. /\ draft'[d].state = draft[d].state
        /\ \A g \in Files : draft'[d].files[g] = IF g = f THEN bytes ELSE draft[d].files[g]
    <3>1. draft'[d] = Booked(draft[d], f, bytes, size)
      BY <2>3 DEF CapturesTypeOK
    <3> HIDE DEF f
    <3>2. draft[d] \in Entries /\ f \in Files
      BY <1>e, <2>2
    <3> QED BY <2>5, <3>1, <3>2, BookedFact, SMT
  <2>7. disk'[d].files = disk[d].files \cup {f}
    <3>1. disk'[d] = Landed(disk[d], f, frames)
      BY <2>3 DEF CapturesTypeOK
    <3>2. frames \in SUBSET Images
      BY PackageAssumption
    <3> HIDE DEF f
    <3>3. disk[d] \in Directories /\ f \in Files
      BY <1>e, <2>2
    <3> QED BY <3>1, <3>2, <3>3, LandedFact, SMT
  <2>8. \A x \in Uploads \ {d} : lock'[x] = lock[x] /\ draft'[x] = draft[x] /\ Same(disk'[x], disk[x])
    <3>1. \A x \in Uploads \ {d} : lock'[x] = lock[x]
      BY <1>e, <2>1, <2>4, ReturnFact
    <3> QED BY <2>3, <3>1 DEF Same, CapturesTypeOK
  <2> HIDE DEF f
  <2>9. draft'[d].state # "new"
    BY <1>i, <2>1, <2>6 DEF QueueInv
  <2>10. QueueInv(d)' /\ CommitInv(d)'
    BY <1>i, <2>1, <2>4, <2>9, ReturnKeeps
  <2>11. StoredInv(d)'
    <3>1. CASE ~Live(d)
      BY <2>4, <3>1 DEF StoredInv
    <3>2. CASE Live(d)
      <4>1. Accounted(d)' \subseteq Accounted(d) \cup {f}
        BY <2>6 DEF Accounted
      <4>2. d \in Ids => d \in taken
        BY <2>1, <3>2, NotStored
      <4> QED BY <1>i, <2>4, <2>7, <3>2, <4>1, <4>2, ZenonT(30) DEF StoredInv, Ids
    <3> QED BY <3>1, <3>2
  <2>12. UploadInv(d)'
    BY <2>10, <2>11 DEF UploadInv
  <2> QED BY <2>4, <2>6, <2>8, <2>12, OwnStep
<1>4. ASSUME WriteFails(d) PROVE CapturesInv'
  <2>1. lock[d] # <<>> /\ Head(lock[d]).pc = "open" /\ ~Busy(d, {"forget"})
    BY <1>4 DEF WriteFails, At, Busy
  <2>2. UNCHANGED <<draft, commits, disk, records, calls, taken>> /\ Return(d)
    BY <1>4 DEF WriteFails
  <2>3. draft'[d].state # "new"
    BY <1>i, <2>1, <2>2 DEF QueueInv
  <2>4. QueueInv(d)' /\ CommitInv(d)'
    BY <1>i, <2>1, <2>2, <2>3, ReturnKeeps
  <2>5. StoredInv(d)'
    <3>1. d \in Ids /\ Live(d) => d \in taken
      BY <2>1, NotStored
    <3> QED BY <1>i, <2>2, <3>1 DEF StoredInv, Live, Ids, Accounted
  <2>6. \A x \in Uploads \ {d} : lock'[x] = lock[x]
    BY <1>e, <2>1, <2>2, ReturnFact
  <2>7. UploadInv(d)'
    BY <2>4, <2>5 DEF UploadInv
  <2> QED BY <2>2, <2>6, <2>7, OwnStep DEF Same
<1> QED BY <1>1, <1>2, <1>3, <1>4 DEF WriteStep

\* A commit goes on to its next step.
LEMMA ProceedKeeps ==
  ASSUME CapturesTypeOK, NEW d \in Uploads, QueueInv(d), Busy(d, CommitSteps),
         NEW pc \in CommitSteps \ {"commit"}, Proceed(d, pc), commits' = commits,
         draft'[d].state # "new"
  PROVE /\ QueueInv(d)' /\ Old(d)' = Old(d)
        /\ \A steps : Busy(d, steps)' <=> pc \in steps
        /\ \A e \in Uploads \ {d} : lock'[e] = lock[e]
<1>1. pc \in Steps /\ pc \in Steps \ {"commit"}
  BY DEF Steps
<1>2. lock \in [Uploads -> Seq(Turns)] /\ lock[d] # <<>> /\ Head(lock[d]).pc \in CommitSteps
  BY DEF CapturesTypeOK, Busy
<1>3. Turned(d, pc) /\ Head(lock'[d]).existing = Head(lock[d]).existing
  BY <1>1, <1>2, ProceedFact
<1>4. QueueInv(d)' /\ \A steps : Busy(d, steps)' <=> pc \in steps
  BY <1>1, <1>2, <1>3, TurnKeeps
<1> QED BY <1>3, <1>4 DEF Old, Turned

\* A commit ends; `what it leaves' is up to the caller.
LEMMA AnswerKeeps ==
  ASSUME CapturesTypeOK, NEW d \in Uploads, QueueInv(d), Busy(d, CommitSteps), Answer(d),
         draft'[d].state # "new"
  PROVE /\ QueueInv(d)' /\ CommitInv(d)'
        /\ \A e \in Uploads \ {d} : lock'[e] = lock[e]
<1>1. /\ lock \in [Uploads -> Seq(Turns)] /\ lock[d] # <<>> /\ Head(lock[d]).pc \in CommitSteps
      /\ Return(d)
  BY DEF CapturesTypeOK, Busy, Answer
<1>2. QueueInv(d)' /\ CommitInv(d)'
  BY <1>1, ReturnKeeps
<1>3. \A e \in Uploads \ {d} : lock'[e] = lock[e]
  BY <1>1, ReturnFact
<1> QED BY <1>2, <1>3

\* A commit that ends without having done anything.
LEMMA RefusalKeeps ==
  ASSUME CapturesTypeOK, CapturesInv, NEW d \in Uploads, Busy(d, CommitSteps), ~Busy(d, {"forget"}),
         Answer(d), UNCHANGED <<draft, disk, records, calls, taken>>
  PROVE CapturesInv'
<1>i. UploadInv(d) /\ QueueInv(d) /\ StoredInv(d)
  BY DEF CapturesInv, UploadInv
<1>1. draft'[d].state # "new"
  BY <1>i DEF QueueInv, Busy
<1>2. /\ QueueInv(d)' /\ CommitInv(d)'
      /\ \A e \in Uploads \ {d} : lock'[e] = lock[e]
  BY <1>i, <1>1, AnswerKeeps
<1>3. StoredInv(d)'
  <2>1. d \in Ids /\ Live(d) => d \in taken
    BY NotStored
  <2> QED BY <1>i, <2>1 DEF StoredInv, Live, Ids, Accounted
<1>4. UploadInv(d)'
  BY <1>2, <1>3 DEF UploadInv
<1> QED BY <1>2, <1>4, OwnStep DEF Same

\* A commit enters one at a time.
LEMMA CommitEntersKeeps ==
  ASSUME CapturesTypeOK, CapturesInv, NEW d \in Uploads, CommitEnters(d)
  PROVE CapturesInv'
<1>e. lock \in [Uploads -> Seq(Turns)]
  BY DEF CapturesTypeOK
<1>i. UploadInv(d)
  BY DEF CapturesInv
<1>1. commits # <<>> /\ Head(commits) = d /\ ~Committing(d)
  BY NextCommitsFact DEF CommitEnters, CapturesTypeOK
<1>2. UNCHANGED <<draft, disk, records, calls, taken>>
  BY DEF CommitEnters
<1>3. CASE Live(d)
  <2> DEFINE t == Turn("commit", Manifest, 0, Nothing)
  <2>1. t \in Turns /\ t.pc = "commit" /\ t.existing = Nothing
    <3>1. 0 \in 0..MaxFileBytes
      BY BoundsAssumption, SMT
    <3>2. "commit" \in Steps /\ Manifest \in Files
      BY DEF Steps, CommitSteps, Files
    <3> QED BY <3>1, <3>2, TurnFact, SMT
  <2>2. lock' = [lock EXCEPT ![d] = Append(@, t)] /\ commits' = commits
    BY <1>3 DEF CommitEnters
  <2> HIDE DEF t
  <2>3. Queued(d, t)
    BY <1>e, <2>1, <2>2, AppendFact
  <2>4. UploadInv(d)'
    BY <1>i, <1>1, <1>2, <1>3, <2>1, <2>2, <2>3, QueuedKeeps, ZenonT(30)
  <2> QED BY <1>2, <2>2, <2>3, <2>4, OwnStep DEF Queued, Same
<1>4. CASE ~Live(d)
  <2> SUFFICES ASSUME NEW e \in Uploads PROVE Kept(e)
    BY AllKept
  <2>1. ~Committing(e)
    BY <1>1 DEF CapturesInv, UploadInv, QueueInv
  <2>2. lock' = lock
    BY <1>4 DEF CommitEnters
  <2> QED BY <1>2, <2>1, <2>2 DEF Kept, Live, Accounted, Ids, Same
<1> QED BY <1>3, <1>4

\* A record found is not that of the draft, nor of another one in progress.
LEMMA CommitChecksKeeps ==
  ASSUME CapturesTypeOK, CapturesInv, OneReplica, NEW d \in Uploads, CommitChecks(d)
  PROVE CapturesInv'
<1> DEFINE same == {c \in Ids : draft[d].key # NoKey /\ records[c] = draft[d].key}
<1>e. lock \in [Uploads -> Seq(Turns)] /\ Ids \subseteq Uploads
  BY DEF CapturesTypeOK
<1>i. UploadInv(d) /\ QueueInv(d) /\ StoredInv(d) /\ CommitInv(d)
  BY DEF CapturesInv, UploadInv
<1>1. /\ Busy(d, CommitSteps) /\ ~Busy(d, {"forget"}) /\ lock[d] # <<>>
      /\ Head(lock[d]).pc = "commit" /\ Head(lock[d]).pc \in CommitSteps
  BY DEF CommitChecks, At, Busy, CommitSteps
<1>2. UNCHANGED <<draft, disk, records, calls, taken>>
  BY DEF CommitChecks
<1>3. draft'[d].state # "new"
  BY <1>i, <1>1, <1>2 DEF QueueInv
<1>4. CASE Answer(d)
  BY <1>1, <1>2, <1>4, RefusalKeeps
<1>5. ASSUME ~Answer(d) PROVE Live(d) /\ commits' = commits
  BY <1>5 DEF CommitChecks
<1>s. StoredInv(d)' \/ ~Live(d)
  <2>1. d \in Ids /\ Live(d) => d \in taken
    BY <1>1, NotStored
  <2> QED BY <1>i, <1>2, <2>1 DEF StoredInv, Live, Ids, Accounted
<1>6. ASSUME ~Answer(d), same = {}, Proceed(d, "inspect") PROVE CapturesInv'
  <2>1. "inspect" \in CommitSteps \ {"commit"}
    BY DEF CommitSteps
  <2>2. /\ QueueInv(d)' /\ Old(d)' = Old(d)
        /\ \A steps : Busy(d, steps)' <=> "inspect" \in steps
        /\ \A e \in Uploads \ {d} : lock'[e] = lock[e]
    BY <1>i, <1>1, <1>3, <1>5, <1>6, <2>1, ProceedKeeps, ZenonT(30)
  <2>3. Old(d) = Nothing
    <3>1. lock[d] \in Seq(Turns)
      BY <1>e
    <3>2. Head(lock[d]) = lock[d][1] /\ 1 \in 1..Len(lock[d])
      BY <1>1, <3>1, QueueFact
    <3> QED BY <1>i, <1>1, <3>2 DEF QueueInv, Old
  <2>4. \A c \in Ids' : records'[c] = draft'[d].key /\ records'[c] # NoKey => FALSE
    BY <1>2, <1>6 DEF Ids
  <2>5. CommitInv(d)'
    BY <1>2, <1>5, <1>6, <2>2, <2>3, <2>4, UploadsAssumption, ZenonT(30) DEF CommitInv, Live
  <2>6. UploadInv(d)'
    BY <1>5, <1>6, <1>s, <2>2, <2>5 DEF UploadInv
  <2> QED BY <1>2, <1>5, <1>6, <2>2, <2>6, OwnStep, ZenonT(30) DEF Same
<1>7. ASSUME ~Answer(d), NEW c \in same, Becomes(d, Turn("existing", Manifest, 0, c))
      PROVE CapturesInv'
  <2> DEFINE t == Turn("existing", Manifest, 0, c)
  <2>0. c \in Ids /\ c \in Uploads /\ records[c] = draft[d].key /\ draft[d].key # NoKey
    BY <1>7, <1>e
  <2>1. t \in Turns /\ t.pc = "existing" /\ t.existing = c
    <3>1. 0 \in 0..MaxFileBytes
      BY BoundsAssumption, SMT
    <3>2. "existing" \in Steps /\ Manifest \in Files
      BY DEF Steps, CommitSteps, Files
    <3> HIDE DEF same
    <3> QED BY <2>0, <3>1, <3>2, TurnFact, SMT
  <2>t. Becomes(d, t)
    BY <1>7
  <2> HIDE DEF t
  <2>2. Turned(d, "existing") /\ Head(lock'[d]) = t
    BY <1>e, <1>1, <2>1, <2>t, BecomesFact
  <2>3. "existing" \in Steps \ {"commit"}
    BY DEF Steps, CommitSteps
  <2>4. QueueInv(d)' /\ \A steps : Busy(d, steps)' <=> "existing" \in steps
    BY <1>i, <1>1, <1>3, <1>5, <1>7, <2>2, <2>3, TurnKeeps, ZenonT(30)
  <2>5. Old(d)' = c
    BY <2>1, <2>2 DEF Old
  <2>6. c = d => d \in taken
    BY <1>1, <1>5, <1>7, <2>0, NotStored
  <2>7. c \in taken \/ draft[c].state = "gone"
    <3>1. CASE c = d
      BY <2>6, <3>1
    <3>2. CASE c # d
      <4>1. ~Committing(c)
        BY <1>1, <2>0, <3>2, Alone
      <4>2. ~Busy(c, {"forget"})
        <5>1. Busy(c, {"forget"}) => Busy(c, CommitSteps)
          BY DEF Busy, CommitSteps
        <5> QED BY <2>0, <4>1, <5>1, BusyCommits
      <4>3. c \in taken \/ (draft[c].state # "new" /\ ~Live(c))
        BY <2>0, <4>2 DEF CapturesInv, UploadInv, StoredInv
      <4>4. draft[c].state \in {"new", "live", "gone"}
        BY <2>0 DEF CapturesTypeOK, Entries
      <4> QED BY <4>3, <4>4 DEF Live
    <3> QED BY <3>1, <3>2
  <2>8. \A x \in Ids : records[x] = draft[d].key /\ records[x] # NoKey => x = c
    BY <2>0 DEF OneReplica
  <2>9. CommitInv(d)'
    BY <1>2, <1>5, <1>7, <2>4, <2>5, <2>6, <2>7, <2>8, ZenonT(30) DEF CommitInv, Live, Ids
  <2>10. UploadInv(d)'
    BY <1>5, <1>7, <1>s, <2>4, <2>9 DEF UploadInv
  <2> QED BY <1>2, <1>5, <1>7, <2>2, <2>10, OwnStep DEF Same, Turned
<1> QED BY <1>4, <1>6, <1>7 DEF CommitChecks

\* A healthy replica makes the draft redundant, a damaged one leaves it.
LEMMA ExistingKeeps ==
  ASSUME CapturesTypeOK, CapturesInv, NEW d \in Uploads, CommitLooksAtExisting(d)
  PROVE CapturesInv'
<1>e. draft[d] \in Entries
  BY DEF CapturesTypeOK
<1>i. UploadInv(d) /\ QueueInv(d) /\ StoredInv(d) /\ CommitInv(d)
  BY DEF CapturesInv, UploadInv
<1>1. /\ Busy(d, CommitSteps) /\ ~Busy(d, {"forget"})
      /\ Busy(d, {"existing", "inspect", "manifest", "install"})
      /\ Busy(d, {"existing", "inspect", "manifest", "install", "forget", "retire"})
  BY DEF CommitLooksAtExisting, At, Busy, CommitSteps
<1>2. UNCHANGED <<commits, disk, records, calls, taken>>
  BY DEF CommitLooksAtExisting
<1>3. draft[d].state # "new"
  BY <1>i, <1>1 DEF QueueInv, Busy
<1>4. d \in Ids => d \in taken
  BY <1>i, <1>1, NotStored DEF CommitInv
<1>5. CASE Proceed(d, "redundant") /\ draft' = Forgotten(d)
  <2>1. draft'[d].state = "gone" /\ \A x \in Uploads \ {d} : draft'[x] = draft[x]
    BY <1>e, <1>5, EntryFact DEF Forgotten, CapturesTypeOK
  <2>2. "redundant" \in CommitSteps \ {"commit"}
    BY DEF CommitSteps
  <2>3. /\ QueueInv(d)' /\ \A steps : Busy(d, steps)' <=> "redundant" \in steps
        /\ \A e \in Uploads \ {d} : lock'[e] = lock[e]
    BY <1>i, <1>1, <1>2, <1>5, <2>1, <2>2, ProceedKeeps, ZenonT(30)
  <2>4. CommitInv(d)'
    BY <1>2, <1>4, <2>3 DEF CommitInv, Ids
  <2>5. StoredInv(d)'
    BY <1>i, <1>2, <1>4, <2>1 DEF StoredInv, Ids, Live
  <2>6. UploadInv(d)'
    BY <2>3, <2>4, <2>5 DEF UploadInv
  <2> QED BY <1>2, <2>1, <2>3, <2>6, OwnStep DEF Same
<1>6. CASE Proceed(d, "inspect") /\ UNCHANGED draft
  <2>1. "inspect" \in CommitSteps \ {"commit"}
    BY DEF CommitSteps
  <2>2. /\ QueueInv(d)' /\ \A steps : Busy(d, steps)' <=> "inspect" \in steps
        /\ \A e \in Uploads \ {d} : lock'[e] = lock[e]
        /\ Old(d)' = Old(d)
    BY <1>i, <1>1, <1>2, <1>3, <1>6, <2>1, ProceedKeeps, ZenonT(30)
  <2>3. CommitInv(d)'
    BY <1>i, <1>1, <1>2, <1>6, <2>2 DEF CommitInv, Ids, Live
  <2>4. StoredInv(d)'
    BY <1>i, <1>2, <1>4, <1>6 DEF StoredInv, Ids, Live, Accounted
  <2>5. UploadInv(d)'
    BY <2>2, <2>3, <2>4 DEF UploadInv
  <2> QED BY <1>2, <1>6, <2>2, <2>5, OwnStep DEF Same
<1> QED BY <1>5, <1>6 DEF CommitLooksAtExisting

\* The directory of a redundant draft is no stored capture's.
LEMMA RedundantKeeps ==
  ASSUME CapturesTypeOK, CapturesInv, NEW d \in Uploads, CommitIsRedundant(d)
  PROVE CapturesInv'
<1>e. draft[d] \in Entries
  BY DEF CapturesTypeOK
<1>i. UploadInv(d) /\ QueueInv(d) /\ StoredInv(d) /\ CommitInv(d)
  BY DEF CapturesInv, UploadInv
<1>1. Busy(d, CommitSteps) /\ Busy(d, {"redundant"})
  BY DEF CommitIsRedundant, At, Busy, CommitSteps
<1>2. UNCHANGED <<records, calls, taken>> /\ Answer(d)
  BY DEF CommitIsRedundant
<1>3. draft'[d].state = "gone" /\ \A x \in Uploads \ {d} : draft'[x] = draft[x]
  BY <1>e, EntryFact DEF CommitIsRedundant, Close, CapturesTypeOK
<1>4. \A x \in Uploads \ {d} : disk'[x] = disk[x]
  BY DEF CommitIsRedundant, RemoveDirectory, CapturesTypeOK
<1>5. d \in Ids => d \in taken
  BY <1>i, <1>1 DEF CommitInv
<1>6. /\ QueueInv(d)' /\ CommitInv(d)'
      /\ \A e \in Uploads \ {d} : lock'[e] = lock[e]
  BY <1>i, <1>1, <1>2, <1>3, AnswerKeeps
<1>7. StoredInv(d)'
  BY <1>i, <1>2, <1>3, <1>5 DEF StoredInv, Ids, Live
<1>8. UploadInv(d)'
  BY <1>6, <1>7 DEF UploadInv
<1> QED BY <1>1, <1>2, <1>3, <1>4, <1>6, <1>8, OwnStep, ZenonT(30) DEF Same

\* What an inspection without a problem has seen.
LEMMA ProblemFact ==
  ASSUME NEW dir, NEW declared, NEW expected, Problem(dir, declared, expected) = "ok"
  PROVE /\ Manifest \in dir.files /\ dir.frames # {}
        /\ dir.frames \subseteq dir.files /\ declared \subseteq dir.files
  BY DEF Problem

\* An inspection without a problem has seen the frames on disk.
LEMMA InspectsKeeps ==
  ASSUME CapturesTypeOK, CapturesInv, NEW d \in Uploads, CommitInspects(d)
  PROVE CapturesInv'
<1>i. UploadInv(d) /\ QueueInv(d) /\ StoredInv(d) /\ CommitInv(d)
  BY DEF CapturesInv, UploadInv
<1>1. /\ Busy(d, CommitSteps) /\ ~Busy(d, {"forget"})
      /\ Busy(d, {"existing", "inspect", "manifest", "install"})
      /\ Busy(d, {"existing", "inspect", "manifest", "install", "forget", "retire"})
  BY DEF CommitInspects, At, Busy, CommitSteps
<1>c. /\ d \in taken \/ Live(d)
      /\ \A c \in Ids : records[c] = draft[d].key /\ records[c] # NoKey => c = Old(d)
      /\ Old(d) = d => d \in taken
      /\ Old(d) \in Uploads => Old(d) \in taken \/ draft[Old(d)].state = "gone"
  BY <1>i, <1>1 DEF CommitInv
<1>2. UNCHANGED <<draft, disk, records, calls, taken>>
  BY DEF CommitInspects
<1>3. draft'[d].state # "new"
  BY <1>i, <1>1, <1>2 DEF QueueInv, Busy
<1>4. StoredInv(d)'
  <2>1. d \in Ids => d \in taken
    BY <1>i, <1>1, NotStored DEF CommitInv
  <2> QED BY <1>i, <1>2, <2>1, ZenonT(30) DEF StoredInv, Ids, Live, Accounted
<1>5. CASE Answer(d)
  BY <1>1, <1>2, <1>5, RefusalKeeps
<1>6. CASE Proceed(d, "reconcile") /\ commits' = commits
  <2>1. "reconcile" \in CommitSteps \ {"commit"}
    BY DEF CommitSteps
  <2>2. /\ QueueInv(d)' /\ \A steps : Busy(d, steps)' <=> "reconcile" \in steps
        /\ \A e \in Uploads \ {d} : lock'[e] = lock[e]
    BY <1>i, <1>1, <1>3, <1>6, <2>1, ProceedKeeps
  <2>3. CommitInv(d)'
    BY <2>2 DEF CommitInv
  <2>4. UploadInv(d)'
    BY <1>4, <2>2, <2>3 DEF UploadInv
  <2> QED BY <1>2, <1>6, <2>2, <2>4, OwnStep DEF Same
<1>7. CASE /\ Proceed(d, "manifest") /\ commits' = commits
           /\ Problem(disk[d], Accounted(d), draft[d].expected) = "ok"
  <2>1. "manifest" \in CommitSteps \ {"commit"}
    BY DEF CommitSteps
  <2>2. /\ QueueInv(d)' /\ \A steps : Busy(d, steps)' <=> "manifest" \in steps
        /\ \A e \in Uploads \ {d} : lock'[e] = lock[e]
        /\ Old(d)' = Old(d)
    BY <1>i, <1>1, <1>3, <1>7, <2>1, ProceedKeeps, ZenonT(30)
  <2>p. /\ Manifest \in disk[d].files /\ disk[d].frames # {}
        /\ disk[d].frames \subseteq disk[d].files
    BY <1>7, ProblemFact
  <2>3. CommitInv(d)'
    BY <1>c, <1>2, <2>2, <2>p DEF CommitInv, Ids, Live
  <2>4. UploadInv(d)'
    BY <1>4, <2>2, <2>3 DEF UploadInv
  <2> QED BY <1>2, <1>7, <2>2, <2>4, OwnStep DEF Same
<1> QED BY <1>5, <1>6, <1>7 DEF CommitInspects

\* capture.json declares what is accounted for, all of which is there.
LEMMA ManifestKeeps ==
  ASSUME CapturesTypeOK, CapturesInv, NEW d \in Uploads, CommitWritesManifest(d)
  PROVE CapturesInv'
<1>i. UploadInv(d) /\ QueueInv(d) /\ StoredInv(d) /\ CommitInv(d)
  BY DEF CapturesInv, UploadInv
<1>1. /\ Busy(d, CommitSteps) /\ ~Busy(d, {"forget"}) /\ Busy(d, {"manifest"})
      /\ Busy(d, {"existing", "inspect", "manifest", "install"})
      /\ Busy(d, {"existing", "inspect", "manifest", "install", "forget", "retire"})
  BY DEF CommitWritesManifest, At, Busy, CommitSteps
<1>c. /\ d \in taken \/ Live(d)
      /\ \A c \in Ids : records[c] = draft[d].key /\ records[c] # NoKey => c = Old(d)
      /\ Old(d) = d => d \in taken
      /\ Old(d) \in Uploads => Old(d) \in taken \/ draft[Old(d)].state = "gone"
  BY <1>i, <1>1 DEF CommitInv
<1>2. UNCHANGED <<draft, records, calls, taken>>
  BY DEF CommitWritesManifest
<1>3. draft'[d].state # "new"
  BY <1>i, <1>1, <1>2 DEF QueueInv, Busy
<1>4. CASE Answer(d) /\ UNCHANGED disk
  BY <1>1, <1>2, <1>4, RefusalKeeps
<1>5. CASE /\ disk' = [disk EXCEPT ![d].declared = Accounted(d)]
           /\ Proceed(d, "install") /\ commits' = commits
  <2>1. "install" \in CommitSteps \ {"commit"}
    BY DEF CommitSteps
  <2>2. /\ QueueInv(d)' /\ \A steps : Busy(d, steps)' <=> "install" \in steps
        /\ \A e \in Uploads \ {d} : lock'[e] = lock[e]
        /\ Old(d)' = Old(d)
    BY <1>i, <1>1, <1>3, <1>5, <2>1, ProceedKeeps
  <2>3. /\ disk'[d].files = disk[d].files /\ disk'[d].frames = disk[d].frames
        /\ disk'[d].declared = Accounted(d)
    <3>1. disk'[d] = [disk[d] EXCEPT !.declared = Accounted(d)] /\ disk[d] \in Directories
      BY <1>5 DEF CapturesTypeOK
    <3> QED BY <3>1 DEF Directories
  <2>4. \A e \in Uploads \ {d} : disk'[e] = disk[e]
    BY <1>5 DEF CapturesTypeOK
  <2>5. d \in taken \/ CompletePackage(disk'[d])
    <3>1. d \in taken \/ Accounted(d) \subseteq disk[d].files
      BY <1>i, <1>1 DEF CommitInv, StoredInv
    <3>2. d \in taken \/ (/\ Manifest \in disk[d].files /\ disk[d].frames # {}
                          /\ disk[d].frames \subseteq disk[d].files)
      BY <1>i, <1>1 DEF CommitInv
    <3> QED BY <2>3, <3>1, <3>2 DEF CompletePackage
  <2>6. CommitInv(d)'
    BY <1>c, <1>2, <2>2, <2>5 DEF CommitInv, Ids, Live
  <2>7. StoredInv(d)'
    <3>1. d \in Ids => d \in taken
      BY <1>i, <1>1, NotStored DEF CommitInv
    <3> QED BY <1>i, <1>2, <2>3, <3>1 DEF StoredInv, Ids, Live, Accounted
  <2>8. UploadInv(d)'
    BY <2>2, <2>6, <2>7 DEF UploadInv
  <2> QED BY <1>2, <1>5, <2>2, <2>4, <2>8, OwnStep, ZenonT(30) DEF Same
<1> QED BY <1>4, <1>5 DEF CommitWritesManifest

\* The record is installed over a complete package.
LEMMA InstallsKeeps ==
  ASSUME CapturesTypeOK, CapturesInv, NEW d \in Uploads, CommitInstalls(d)
  PROVE CapturesInv'
<1>i. UploadInv(d) /\ QueueInv(d) /\ StoredInv(d) /\ CommitInv(d)
  BY DEF CapturesInv, UploadInv
<1>1. /\ Busy(d, CommitSteps) /\ ~Busy(d, {"forget"}) /\ Busy(d, {"install"})
      /\ Busy(d, {"existing", "inspect", "manifest", "install"})
      /\ Busy(d, {"existing", "inspect", "manifest", "install", "forget", "retire"})
  BY DEF CommitInstalls, At, Busy, CommitSteps
<1>2. UNCHANGED <<draft, disk, calls, taken>>
  BY DEF CommitInstalls
<1>3. draft'[d].state # "new"
  BY <1>i, <1>1, <1>2 DEF QueueInv, Busy
<1>4. CASE Answer(d) /\ UNCHANGED records
  BY <1>1, <1>2, <1>4, RefusalKeeps
<1>5. CASE /\ records' = [c \in (Ids \ {Old(d)}) \cup {d} |->
                            IF c = d THEN draft[d].key ELSE records[c]]
           /\ Proceed(d, "forget") /\ commits' = commits
  <2>1. "forget" \in CommitSteps \ {"commit"}
    BY DEF CommitSteps
  <2>2. /\ QueueInv(d)' /\ \A steps : Busy(d, steps)' <=> "forget" \in steps
        /\ \A e \in Uploads \ {d} : lock'[e] = lock[e]
        /\ Old(d)' = Old(d)
    BY <1>i, <1>1, <1>3, <1>5, <2>1, ProceedKeeps, ZenonT(30)
  <2>3. Ids' = (Ids \ {Old(d)}) \cup {d}
    BY <1>5 DEF Ids
  <2>4. CommitInv(d)'
    BY <1>i, <1>1, <1>2, <2>2, <2>3 DEF CommitInv
  <2>5. StoredInv(d)'
    <3>1. d \in taken \/ CompletePackage(disk[d])
      BY <1>i, <1>1 DEF CommitInv
    <3> QED BY <1>i, <1>2, <1>3, <2>2, <3>1 DEF StoredInv, Live, Accounted
  <2>6. UploadInv(d)'
    BY <2>2, <2>4, <2>5 DEF UploadInv
  <2>7. ASSUME NEW e \in Uploads, e # d PROVE Kept(e)
    <3>1. ~Committing(e)
      BY <1>1, <2>7, Alone
    <3> QED BY <1>2, <2>2, <2>3, <2>7, <3>1 DEF Kept, Live, Accounted, Same
  <2> QED BY <2>6, <2>7, OthersKept
<1> QED BY <1>4, <1>5 DEF CommitInstalls, Old

\* The draft is forgotten after its record is stored.
LEMMA ForgetsKeeps ==
  ASSUME CapturesTypeOK, CapturesInv, NEW d \in Uploads, CommitForgets(d)
  PROVE CapturesInv'
<1>e. draft[d] \in Entries
  BY DEF CapturesTypeOK
<1>i. UploadInv(d) /\ QueueInv(d) /\ StoredInv(d) /\ CommitInv(d)
  BY DEF CapturesInv, UploadInv
<1>1. /\ Busy(d, CommitSteps) /\ Busy(d, {"forget", "retire"})
      /\ Busy(d, {"existing", "inspect", "manifest", "install", "forget", "retire"})
  BY DEF CommitForgets, At, Busy, CommitSteps
<1>2. UNCHANGED <<commits, disk, records, calls, taken>> /\ Proceed(d, "retire")
  BY DEF CommitForgets
<1>3. draft'[d].state = "gone" /\ \A x \in Uploads \ {d} : draft'[x] = draft[x]
  BY <1>e, EntryFact DEF CommitForgets, Forgotten, CapturesTypeOK
<1>4. "retire" \in CommitSteps \ {"commit"}
  BY DEF CommitSteps
<1>5. /\ QueueInv(d)' /\ \A steps : Busy(d, steps)' <=> "retire" \in steps
      /\ \A e \in Uploads \ {d} : lock'[e] = lock[e]
      /\ Old(d)' = Old(d)
  BY <1>i, <1>1, <1>2, <1>3, <1>4, ProceedKeeps
<1>6. CommitInv(d)'
  BY <1>i, <1>1, <1>2, <1>3, <1>5 DEF CommitInv, Ids
<1>7. StoredInv(d)'
  BY <1>i, <1>2, <1>3 DEF StoredInv, Ids, Live
<1>8. UploadInv(d)'
  BY <1>5, <1>6, <1>7 DEF UploadInv
<1> QED BY <1>2, <1>3, <1>5, <1>8, OwnStep DEF Same

\* The replaced replica is nobody's by now.
LEMMA RetiresKeeps ==
  ASSUME CapturesTypeOK, CapturesInv, NEW d \in Uploads, CommitRetires(d)
  PROVE CapturesInv'
<1>e. draft[d] \in Entries /\ disk[d] \in Directories
  BY DEF CapturesTypeOK
<1>i. UploadInv(d) /\ QueueInv(d) /\ StoredInv(d) /\ CommitInv(d)
  BY DEF CapturesInv, UploadInv
<1>1. /\ Busy(d, CommitSteps) /\ Busy(d, {"forget", "retire"})
      /\ Busy(d, {"existing", "inspect", "manifest", "install", "forget", "retire"})
  BY DEF CommitRetires, At, Busy, CommitSteps
<1>2. UNCHANGED <<records, calls, taken>> /\ Answer(d)
  BY DEF CommitRetires
<1>3. draft'[d].state = "gone" /\ \A x \in Uploads \ {d} : draft'[x] = draft[x]
  BY <1>e, EntryFact DEF CommitRetires, Close, CapturesTypeOK
<1>4. /\ \A x \in Uploads \ {d} : x # Old(d) => disk'[x] = disk[x]
      /\ d # Old(d) => Same(disk'[d], disk[d])
  <2>1. Same([disk[d] EXCEPT !.marker = "none"], disk[d])
    BY <1>e, DirectoryFact
  <2> QED BY <2>1 DEF CommitRetires, Old
<1>5. /\ QueueInv(d)' /\ CommitInv(d)'
      /\ \A e \in Uploads \ {d} : lock'[e] = lock[e]
  BY <1>i, <1>1, <1>2, <1>3, AnswerKeeps
<1>6. StoredInv(d)'
  BY <1>i, <1>1, <1>2, <1>3, <1>4, ZenonT(30) DEF StoredInv, CommitInv, Ids, Live, Same, CompletePackage
<1>7. UploadInv(d)'
  BY <1>5, <1>6 DEF UploadInv
<1>8. ASSUME NEW e \in Uploads, e # d PROVE Kept(e)
  <2>1. ~Committing(e)
    BY <1>1, <1>8, Alone
  <2>2. e \in Ids \/ Live(e) => e \in taken \/ disk'[e] = disk[e]
    BY <1>i, <1>1, <1>4, <1>8 DEF CommitInv, Live
  <2>3. \A x \in Uploads : draft[x].state = "gone" => draft'[x].state = "gone"
    BY <1>3
  <2> QED BY <1>2, <1>3, <1>5, <1>8, <2>1, <2>2, <2>3, ZenonT(30) DEF Kept, Live, Accounted, Ids, Same
<1> QED BY <1>7, <1>8, OthersKept

\* Every step of a commit keeps the invariant.
LEMMA CommitKeeps ==
  ASSUME CapturesTypeOK, CapturesInv, OneReplica, NEW d \in Uploads, CommitStep(d)
  PROVE CapturesInv'
<1>1. ASSUME CommitRefuses(d) PROVE CapturesInv'
  <2>1. Busy(d, CommitSteps) /\ ~Busy(d, {"forget"})
    BY <1>1 DEF CommitRefuses, At, Busy, CommitSteps
  <2> QED BY <1>1, <2>1, RefusalKeeps DEF CommitRefuses
<1> QED BY <1>1, CommitEntersKeeps, CommitChecksKeeps, ExistingKeeps, RedundantKeeps,
           InspectsKeeps, ManifestKeeps, InstallsKeeps, ForgetsKeeps, RetiresKeeps, ZenonT(30) DEF CommitStep

-----------------------------------------------------------------------------
\* The three steps that write state.captures.
LEMMA RecordsStep ==
  ASSUME [CapturesNext]_captureVars
  PROVE \/ UNCHANGED records
        \/ \E d \in Uploads : \/ CommitInstalls(d) \/ DeleteForgets(d)
                              \/ \E files \in {Files, Images} : CreateEnds(d, files)
<1> DEFINE Written == \E d \in Uploads : \/ CommitInstalls(d) \/ DeleteForgets(d)
                                         \/ \E files \in {Files, Images} : CreateEnds(d, files)
<1>1. ASSUME NEW d \in Uploads, ClientStep(d) PROVE UNCHANGED records \/ Written
  <2>1. ASSUME NEW k \in Keys, NEW n \in FrameCounts, BeginDraft(d, k, n) PROVE UNCHANGED records
    BY <2>1 DEF BeginDraft
  <2>2. ASSUME NEW f \in Files, WriteDraftFile(d, f) PROVE UNCHANGED records
    BY <2>2 DEF WriteDraftFile
  <2>3. ASSUME NEW r \in Readers, GetDraft(r, d) PROVE UNCHANGED records
    BY <2>3 DEF GetDraft
  <2>4. CommitDraft(d) \/ DiscardDraft(d) \/ Delete(d) \/ CreateBegins(d) => UNCHANGED records
    BY DEF CommitDraft, DiscardDraft, Delete, CreateBegins
  <2>5. JobInspects(d) \/ JobInserted(d) \/ JobEnds(d) => UNCHANGED records
    BY DEF JobInspects, JobInserted, JobEnds
  <2> QED BY <1>1, <2>1, <2>2, <2>3, <2>4, <2>5 DEF ClientStep
<1>2. ASSUME NEW d \in Uploads, WriteStep(d) PROVE UNCHANGED records
  BY <1>2 DEF WriteStep, WriteOpens, WriteLands, WriteFails
<1>3. ASSUME NEW d \in Uploads, CommitStep(d) PROVE UNCHANGED records \/ Written
  <2>1. CommitEnters(d) \/ CommitChecks(d) \/ CommitLooksAtExisting(d) => UNCHANGED records
    BY DEF CommitEnters, CommitChecks, CommitLooksAtExisting
  <2>2. CommitIsRedundant(d) \/ CommitInspects(d) \/ CommitRefuses(d) => UNCHANGED records
    BY DEF CommitIsRedundant, CommitInspects, CommitRefuses
  <2>3. CommitWritesManifest(d) \/ CommitForgets(d) \/ CommitRetires(d) => UNCHANGED records
    BY DEF CommitWritesManifest, CommitForgets, CommitRetires
  <2> QED BY <1>3, <2>1, <2>2, <2>3 DEF CommitStep
<1>4. ASSUME NEW d \in Uploads, EndStep(d) PROVE UNCHANGED records \/ Written
  BY <1>4 DEF EndStep, DiscardEnds, DeleteRemoves
<1>5. ASSUME NEW r \in Reconcilers, ReconcileStep(r) PROVE UNCHANGED records
  BY <1>5 DEF ReconcileStep, ReconcileNext, ReconcileDrops, GetDraftReturns
<1>6. ASSUME SweepStep PROVE UNCHANGED records
  BY <1>6 DEF SweepStep, SweepLooks, SweepRemoves
<1>7. ASSUME NEW d \in Uploads, MarkerAges(d) \/ \E f \in Files : LoseFile(d, f)
      PROVE UNCHANGED records
  BY <1>7 DEF MarkerAges, LoseFile
<1>8. ASSUME Restart PROVE UNCHANGED records
  BY <1>8 DEF Restart
<1>9. ASSUME UNCHANGED captureVars PROVE UNCHANGED records
  BY <1>9 DEF captureVars
<1> HIDE DEF Written
<1>10. UNCHANGED records \/ Written
  BY <1>1, <1>2, <1>3, <1>4, <1>5, <1>6, <1>7, <1>8, <1>9, ZenonT(30) DEF CapturesNext
<1> QED BY <1>10 DEF Written

\* A commit installs the only record of its local capture.
LEMMA OneReplicaStep ==
  ASSUME CapturesTypeOK, CapturesInv, OneReplica, [CapturesNext]_captureVars
  PROVE OneReplica'
<1>1. CASE UNCHANGED records
  BY <1>1 DEF OneReplica, Ids
<1>2. ASSUME NEW d \in Uploads, DeleteForgets(d) PROVE OneReplica'
  BY <1>2 DEF DeleteForgets, OneReplica, Ids
<1>3. ASSUME NEW d \in Uploads, NEW files, CreateEnds(d, files) PROVE OneReplica'
  <2>1. \A c \in Ids' : (c \in Ids /\ records'[c] = records[c]) \/ records'[c] = NoKey
    BY <1>3 DEF CreateEnds, Ids
  <2> QED BY <2>1 DEF OneReplica
<1>4. ASSUME NEW d \in Uploads, CommitInstalls(d) PROVE OneReplica'
  <2>1. CASE UNCHANGED records
    BY <2>1 DEF OneReplica, Ids
  <2>2. CASE records' = [c \in (Ids \ {Old(d)}) \cup {d} |->
                           IF c = d THEN draft[d].key ELSE records[c]]
    <3>1. Busy(d, {"existing", "inspect", "manifest", "install"})
      BY <1>4 DEF CommitInstalls, At, Busy
    <3>2. \A c \in Ids : records[c] = draft[d].key /\ records[c] # NoKey => c = Old(d)
      BY <3>1 DEF CapturesInv, UploadInv, CommitInv
    <3>3. \A c \in Ids' : \/ c = d /\ records'[c] = draft[d].key
                          \/ c # d /\ c \in Ids /\ c # Old(d) /\ records'[c] = records[c]
      BY <2>2 DEF Ids
    <3> QED BY <3>2, <3>3 DEF OneReplica
  <2> QED BY <1>4, <2>1, <2>2 DEF CommitInstalls, Old
<1> QED BY <1>1, <1>2, <1>3, <1>4, RecordsStep

\* The initial states satisfy the invariant.
LEMMA CapturesInvInit == CapturesInit => CapturesInv /\ OneReplica
<1> SUFFICES ASSUME CapturesInit PROVE CapturesInv /\ OneReplica
  OBVIOUS
<1>1. Ids = {}
  BY SMT DEF CapturesInit, Ids
<1>2. OneReplica
  BY <1>1 DEF OneReplica
<1>3. ASSUME NEW e \in Uploads PROVE UploadInv(e)
  <2>1. lock[e] = <<>> /\ calls[e] = {} /\ draft[e] = NoDraft
    BY DEF CapturesInit
  <2>2. \A i \in 1..Len(lock[e]) : FALSE
    BY <2>1, SMT
  <2>3. \A i \in DOMAIN lock[e] : FALSE
    BY <2>1, SMT
  <2>4. QueueInv(e)
    BY <2>1, <2>2, <2>3 DEF QueueInv, Committing
  <2>5. CommitInv(e)
    BY <2>1 DEF CommitInv, Busy
  <2>6. StoredInv(e)
    <3>1. NoDraft.state = "new"
      BY DEF NoDraft
    <3>2. ~Live(e)
      BY <2>1, <3>1 DEF Live
    <3> QED BY <1>1, <2>1, <3>2 DEF StoredInv
  <2> QED BY <2>4, <2>5, <2>6 DEF UploadInv
<1> QED BY <1>2, <1>3 DEF CapturesInv

\* Every step keeps the invariant.
LEMMA CapturesInvStep ==
  ASSUME CapturesTypeOK, CapturesInv, OneReplica, [CapturesNext]_captureVars
  PROVE CapturesInv'
<1>1. ASSUME NEW d \in Uploads, ClientStep(d) PROVE CapturesInv'
  <2>1. ASSUME NEW r \in Readers, GetDraft(r, d) PROVE CapturesInv'
    BY <2>1, NothingKept DEF GetDraft
  <2>2. ASSUME JobInspects(d) \/ JobInserted(d) \/ JobEnds(d) PROVE CapturesInv'
    <3>1. UNCHANGED <<draft, lock, commits, disk, records, calls, taken>>
      BY <2>2, SMT DEF JobInspects, JobInserted, JobEnds
    <3> QED BY <3>1, NothingKept
  <2> QED BY <1>1, <2>1, <2>2, BeginDraftKeeps, WriteKeeps, UserKeeps DEF ClientStep
<1>2. ASSUME NEW d \in Uploads, WriteStep(d) \/ CommitStep(d) \/ EndStep(d) PROVE CapturesInv'
  BY <1>2, WriteKeeps, CommitKeeps, UserKeeps
<1>3. ASSUME NEW d \in Uploads, MarkerAges(d) \/ \E f \in Files : LoseFile(d, f)
      PROVE CapturesInv'
  BY <1>3, OutsideKeeps
<1>4. ASSUME UNCHANGED captureVars PROVE CapturesInv'
  BY <1>4, NothingKept DEF captureVars
<1> QED BY <1>1, <1>2, <1>3, <1>4, ReconcileKeeps, SweepKeeps, RestartKeeps DEF CapturesNext

\* The inductive invariant of the captures: types, one replica per local
\* capture, and per upload what its queue, its commit and its files are.
THEOREM CapturesInductive == CapturesSpec => [](CapturesTypeOK /\ OneReplica /\ CapturesInv)
<1>1. CapturesInit => CapturesTypeOK /\ OneReplica /\ CapturesInv
  BY CapturesTypeInit, CapturesInvInit
<1>2. CapturesTypeOK /\ OneReplica /\ CapturesInv /\ [CapturesNext]_captureVars
      => (CapturesTypeOK /\ OneReplica /\ CapturesInv)'
  BY CapturesTypeStep, OneReplicaStep, CapturesInvStep
<1> QED BY <1>1, <1>2, PTL DEF CapturesSpec

\* The captures keep their types, for any uploads, images, readers and bounds.
THEOREM CapturesTypeCorrect == CapturesSpec => []CapturesTypeOK
  BY CapturesInductive, PTL

\* However commits, repairs, deletions and restarts interleave, no local
\* capture has two durable records (commitLock in captureStore.ts).
THEOREM OneReplicaHolds == CapturesSpec => []OneReplica
  BY CapturesInductive, PTL

\* A capture that was committed from a draft holds frames.json, its frames and
\* what its capture.json declares, until a user or the outside takes from it or
\* writes to it, through every race of commit, repair, discard, sweep and restart.
THEOREM StoredCapturesAreComplete == CapturesSpec => []StoredIsComplete
<1>1. CapturesTypeOK /\ OneReplica /\ CapturesInv => StoredIsComplete
  BY DEF CapturesTypeOK, CapturesInv, UploadInv, StoredInv, StoredIsComplete
<1> QED BY <1>1, CapturesInductive, PTL

\* What a live draft accounts for is in its directory: no sweep, repair or other
\* commit removes a file of a transfer in progress.
THEOREM ClaimedFilesAreOnDisk == CapturesSpec => []ClaimedIsOnDisk
<1>1. CapturesTypeOK /\ OneReplica /\ CapturesInv => ClaimedIsOnDisk
  BY DEF CapturesInv, UploadInv, StoredInv, ClaimedIsOnDisk
<1> QED BY <1>1, CapturesInductive, PTL

\* A record is not taken from under an active job, save by the end of a delete
\* that a user had begun: the repair asks again inside its mutation.
THEOREM JobsKeepTheirCaptureHolds == CapturesSpec => JobsKeepTheirCapture
<1> DEFINE Kept1 == \A c \in Ids \ DOMAIN records' : job[c] = "active" => "forget" \in calls[c]
<1>1. CapturesTypeOK /\ [CapturesNext]_captureVars => [Kept1]_captureVars
  <2> SUFFICES ASSUME CapturesTypeOK, [CapturesNext]_captureVars,
                      NEW c \in Ids, c \notin DOMAIN records', job[c] = "active"
               PROVE "forget" \in calls[c]
    OBVIOUS
  <2>1. CASE UNCHANGED records
    BY <2>1 DEF Ids
  <2>2. ASSUME NEW d \in Uploads, DeleteForgets(d) PROVE "forget" \in calls[c]
    BY <2>2 DEF DeleteForgets, Ids
  <2>3. ASSUME NEW d \in Uploads, NEW files, CreateEnds(d, files) PROVE FALSE
    BY <2>3 DEF CreateEnds, Ids
  <2>4. ASSUME NEW d \in Uploads, CommitInstalls(d) PROVE FALSE
    <3>1. c # Nothing
      BY UploadsAssumption DEF CapturesTypeOK
    <3> QED BY <2>4, <3>1 DEF CommitInstalls, InUse, Ids
  <2> QED BY <2>1, <2>2, <2>3, <2>4, RecordsStep
<1> QED BY <1>1, CapturesTypeCorrect, PTL DEF CapturesSpec, JobsKeepTheirCapture

=============================================================================
