-------------------------- MODULE CaptureSizeProofs --------------------------
(***************************************************************************)
(* The accounting of private captures: a draft stays within its ceilings,  *)
(* and its size is the sum of the sizes of its files.                      *)
(***************************************************************************)
EXTENDS CaptureStoreProofs, FiniteSetTheorems, TLAPS

\* A leaf is first-order reasoning unless it says otherwise.
USE Zenon

-----------------------------------------------------------------------------
\* The ceilings.

\* A write that is open has room for its file.
CeilingInv(d) ==
  /\ draft[d].size <= MaxBytes /\ Cardinality(Accounted(d)) <= MaxFiles
  /\ Busy(d, {"open"}) => Cardinality(Accounted(d) \cup {Head(lock[d]).file}) <= MaxFiles

CeilingsInv == \A d \in Uploads : CeilingInv(d)

\* The files of a draft can be counted.
LEMMA AccountedFinite ==
  ASSUME NEW d \in Uploads, NEW f
  PROVE IsFiniteSet(Accounted(d)) /\ IsFiniteSet(Accounted(d) \cup {f})
<1>1. IsFiniteSet(Files)
  BY PackageAssumption, FS_AddElement DEF Files
<1>2. IsFiniteSet(Accounted(d))
  BY <1>1, AccountedFact, FS_Subset
<1> QED BY <1>2, FS_AddElement

\* Fewer files are within the ceiling that more are within.
LEMMA FewerFiles ==
  ASSUME NEW S, IsFiniteSet(S), NEW T \in SUBSET S, Cardinality(S) <= MaxFiles
  PROVE Cardinality(T) <= MaxFiles
<1>1. Cardinality(T) <= Cardinality(S) /\ Cardinality(T) \in Nat /\ Cardinality(S) \in Nat
  BY FS_Subset, FS_CardinalityType
<1> QED BY <1>1, BoundsAssumption, SMT

\* What a step that books no file does to the accounting of an upload.
Shrunk(e) ==
  /\ Accounted(e)' \subseteq Accounted(e) /\ draft'[e].size <= MaxBytes
  /\ Busy(e, {"open"})' => Busy(e, {"open"}) /\ Head(lock'[e]) = Head(lock[e])

\* An upload whose accounting does not grow stays within the ceilings.
LEMMA ShrunkKeeps ==
  ASSUME NEW e \in Uploads, CeilingInv(e), Shrunk(e)
  PROVE CeilingInv(e)'
<1>1. Accounted(e)' \in SUBSET Accounted(e)
  BY DEF Shrunk
<1>2. Cardinality(Accounted(e)') <= MaxFiles
  BY <1>1, AccountedFinite, FewerFiles DEF CeilingInv
<1>3. ASSUME Busy(e, {"open"})'
      PROVE Cardinality(Accounted(e)' \cup {Head(lock'[e]).file}) <= MaxFiles
  <2> DEFINE f == Head(lock[e]).file
             S == Accounted(e) \cup {f}
             T == Accounted(e)' \cup {Head(lock'[e]).file}
  <2>1. Busy(e, {"open"}) /\ Head(lock'[e]).file = f
    BY <1>3 DEF Shrunk
  <2>2. Cardinality(S) <= MaxFiles
    BY <2>1 DEF CeilingInv
  <2>3. IsFiniteSet(S) /\ T \in SUBSET S
    BY <1>1, <2>1, AccountedFinite
  <2> HIDE DEF S, T
  <2>4. Cardinality(T) <= MaxFiles
    BY <2>2, <2>3, FewerFiles
  <2> QED BY <2>4 DEF T
<1> QED BY <1>2, <1>3 DEF CeilingInv, Shrunk

\* An entry that is let go of, in either way.
LEMMA DraftShrinks ==
  ASSUME CapturesTypeOK, NEW e \in Uploads, CeilingInv(e),
         \/ draft'[e] = draft[e] \/ draft'[e] = [draft[e] EXCEPT !.state = "gone"]
         \/ draft'[e] = Closed
  PROVE Accounted(e)' \subseteq Accounted(e) /\ draft'[e].size <= MaxBytes
<1>1. CASE draft'[e] = draft[e]
  BY <1>1 DEF Accounted, CeilingInv
<1>2. CASE draft'[e] = [draft[e] EXCEPT !.state = "gone"]
  <2>1. draft'[e].files = draft[e].files /\ draft'[e].size = draft[e].size
    BY <1>2, EntryFact DEF CapturesTypeOK
  <2> QED BY <2>1 DEF Accounted, CeilingInv
<1>3. CASE draft'[e] = Closed
  <2>1. draft'[e].files = NoFiles /\ draft'[e].size = 0
    BY <1>3 DEF Closed, NoDraft
  <2>2. \A f \in Files : ~(NoFiles[f] > 0)
    BY SMT DEF NoFiles
  <2>3. draft'[e].size <= MaxBytes
    BY <2>1, BoundsAssumption, SMT
  <2> QED BY <2>1, <2>2, <2>3 DEF Accounted
<1> QED BY <1>1, <1>2, <1>3

\* The entry of d after a write of b bytes to f that makes its size s.
Written(d, f, b, s) ==
  /\ draft'[d] \in Entries /\ draft'[d].size = s /\ draft'[d].state = draft[d].state
  /\ \A g \in Files : draft'[d].files[g] = IF g = f THEN b ELSE draft[d].files[g]

LEMMA WrittenFact ==
  ASSUME NEW d \in Uploads, draft[d] \in Entries, NEW f \in Files, NEW b \in 0..MaxFileBytes,
         NEW s \in Int, draft'[d] = Booked(draft[d], f, b, s)
  PROVE Written(d, f, b, s)
<1> DEFINE x == draft[d]
           y == draft'[d]
<1>1. x \in Entries /\ y = Booked(x, f, b, s)
  OBVIOUS
<1> HIDE DEF x, y
<1>2. /\ y \in Entries /\ y.size = s /\ y.state = x.state
      /\ \A g \in Files : y.files[g] = IF g = f THEN b ELSE x.files[g]
  BY <1>1, BookedFact, SMT
<1> QED BY <1>2 DEF x, y, Written

\* No step but WriteOpens opens a write.
LEMMA NotOpen ==
  ASSUME CapturesTypeOK, CapturesInv, NEW d \in Uploads, lock[d] # <<>>,
         \/ Return(d)
         \/ \E pc \in CommitSteps : Proceed(d, pc)
         \/ \E c \in Uploads : Becomes(d, Turn("existing", Manifest, 0, c))
  PROVE ~Busy(d, {"open"})' /\ \A e \in Uploads \ {d} : lock'[e] = lock[e]
<1>e. lock \in [Uploads -> Seq(Turns)] /\ QueueInv(d)
  BY DEF CapturesTypeOK, CapturesInv, UploadInv
<1>o. "open" \notin CommitSteps
  BY DEF CommitSteps
<1>1. CASE Return(d)
  <2>1. \A e \in Uploads \ {d} : lock'[e] = lock[e]
    BY <1>e, <1>1, ReturnFact
  <2>2. \A steps : Busy(d, steps)' => "queued" \in steps \/ "commit" \in steps
    BY <1>e, <1>1, ReturnHead
  <2> QED BY <2>1, <2>2
<1>2. ASSUME NEW pc \in CommitSteps, Proceed(d, pc)
      PROVE ~Busy(d, {"open"})' /\ \A e \in Uploads \ {d} : lock'[e] = lock[e]
  <2>1. pc \in Steps
    BY DEF Steps
  <2>2. Turned(d, pc)
    BY <1>e, <1>2, <2>1, ProceedFact
  <2> QED BY <1>o, <2>2 DEF Turned, Busy
<1>3. ASSUME NEW c \in Uploads, Becomes(d, Turn("existing", Manifest, 0, c))
      PROVE ~Busy(d, {"open"})' /\ \A e \in Uploads \ {d} : lock'[e] = lock[e]
  <2> DEFINE t == Turn("existing", Manifest, 0, c)
  <2>1. t \in Turns /\ t.pc = "existing"
    <3>1. 0 \in 0..MaxFileBytes
      BY BoundsAssumption, SMT
    <3>2. "existing" \in Steps /\ Manifest \in Files
      BY DEF Steps, CommitSteps, Files
    <3> QED BY <3>1, <3>2, TurnFact, SMT
  <2>2. Becomes(d, t)
    BY <1>3
  <2> HIDE DEF t
  <2>3. Turned(d, "existing")
    BY <1>e, <2>1, <2>2, BecomesFact
  <2> QED BY <2>3 DEF Turned, Busy
<1> QED BY <1>1, <1>2, <1>3

\* A turn that joins a queue does not change which one is first.
LEMMA QueuedNotOpen ==
  ASSUME CapturesTypeOK, NEW d \in Uploads, NEW t \in Turns, t.pc # "open",
         lock' = [lock EXCEPT ![d] = Append(@, t)]
  PROVE /\ \A e \in Uploads \ {d} : lock'[e] = lock[e]
        /\ Busy(d, {"open"})' => Busy(d, {"open"}) /\ Head(lock'[d]) = Head(lock[d])
<1>1. lock \in [Uploads -> Seq(Turns)] /\ lock[d] \in Seq(Turns)
  BY DEF CapturesTypeOK
<1>2. Queued(d, t)
  BY <1>1, AppendFact
<1>3. lock'[d] \in Seq(Turns) /\ lock'[d] # <<>> /\ Len(lock[d]) \in Nat
  <2>1. Len(lock[d]) \in Nat
    BY <1>1, SMT
  <2> QED BY <1>2, <2>1 DEF Queued
<1>4. Head(lock'[d]) = lock'[d][1]
  BY <1>3, QueueFact
<1>5. CASE lock[d] = <<>>
  <2>1. Len(lock[d]) + 1 = 1
    BY <1>5, SMT
  <2> QED BY <1>2, <1>4, <2>1, ZenonT(30) DEF Queued, Busy
<1>6. CASE lock[d] # <<>>
  <2>1. 1 \in 1..Len(lock[d]) /\ Head(lock[d]) = lock[d][1]
    BY <1>1, <1>6, QueueFact
  <2>2. Head(lock'[d]) = Head(lock[d])
    BY <1>2, <1>4, <2>1 DEF Queued
  <2> QED BY <1>2, <1>6, <2>2, ZenonT(30) DEF Queued, Busy
<1> QED BY <1>5, <1>6

\* What a commit leaves of drafts and queues.
LEMMA CommitShrinks ==
  ASSUME CapturesTypeOK, CapturesInv, CeilingsInv, NEW d \in Uploads, CommitStep(d), NEW e \in Uploads
  PROVE Shrunk(e)
<1> DEFINE Going == \/ Return(d)
                    \/ \E pc \in CommitSteps : Proceed(d, pc)
                    \/ \E c \in Uploads : Becomes(d, Turn("existing", Manifest, 0, c))
           Gone == [draft EXCEPT ![d].state = "gone"]
           Shut == [draft EXCEPT ![d] = Closed]
<1>i. CeilingInv(e)
  BY DEF CeilingsInv
<1>1. ASSUME CommitEnters(d) PROVE Shrunk(e)
  <2>1. draft' = draft
    BY <1>1 DEF CommitEnters
  <2>2. CASE Live(d)
    <3> DEFINE t == Turn("commit", Manifest, 0, Nothing)
    <3>1. t \in Turns /\ t.pc # "open"
      <4>1. 0 \in 0..MaxFileBytes
        BY BoundsAssumption, SMT
      <4>2. "commit" \in Steps /\ Manifest \in Files
        BY DEF Steps, CommitSteps, Files
      <4>3. t \in Turns /\ t.pc = "commit"
        BY <4>1, <4>2, TurnFact, SMT
      <4> QED BY <4>3
    <3>2. lock' = [lock EXCEPT ![d] = Append(@, t)]
      BY <1>1, <2>2 DEF CommitEnters
    <3> HIDE DEF t
    <3>3. /\ \A x \in Uploads \ {d} : lock'[x] = lock[x]
          /\ Busy(d, {"open"})' => Busy(d, {"open"}) /\ Head(lock'[d]) = Head(lock[d])
      BY <3>1, <3>2, QueuedNotOpen
    <3>4. Busy(e, {"open"})' => Busy(e, {"open"}) /\ Head(lock'[e]) = Head(lock[e])
      <4>1. CASE e = d
        BY <3>3, <4>1
      <4>2. CASE e # d
        BY <3>3, <4>2 DEF Busy
      <4> QED BY <4>1, <4>2
    <3> QED BY <1>i, <2>1, <3>4, DraftShrinks DEF Shrunk
  <2>3. CASE ~Live(d)
    <3>1. lock' = lock
      BY <1>1, <2>3 DEF CommitEnters
    <3> QED BY <1>i, <2>1, <3>1, DraftShrinks DEF Shrunk, Busy
  <2> QED BY <2>2, <2>3
<1>2. ASSUME lock[d] # <<>>, Going, draft' = draft \/ draft' = Gone \/ draft' = Shut
      PROVE Shrunk(e)
  <2>1. ~Busy(d, {"open"})' /\ \A x \in Uploads \ {d} : lock'[x] = lock[x]
    BY <1>2, NotOpen
  <2>2. \/ draft'[e] = draft[e] \/ draft'[e] = [draft[e] EXCEPT !.state = "gone"]
        \/ draft'[e] = Closed
    BY <1>2 DEF CapturesTypeOK
  <2>3. Accounted(e)' \subseteq Accounted(e) /\ draft'[e].size <= MaxBytes
    BY <1>i, <2>2, DraftShrinks
  <2>4. CASE e = d
    BY <2>1, <2>3, <2>4 DEF Shrunk
  <2>5. CASE e # d
    BY <2>1, <2>3, <2>5 DEF Shrunk, Busy
  <2> QED BY <2>4, <2>5
<1>3. ASSUME CommitChecks(d) PROVE Shrunk(e)
  <2>1. lock[d] # <<>> /\ draft' = draft
    BY <1>3 DEF CommitChecks, At
  <2>2. Going
    BY <1>3 DEF CommitChecks, Answer, CommitSteps, CapturesTypeOK
  <2> QED BY <1>2, <2>1, <2>2
<1>4. ASSUME CommitLooksAtExisting(d) PROVE Shrunk(e)
  <2>1. lock[d] # <<>> /\ (draft' = draft \/ draft' = Gone) /\ Going
    BY <1>4 DEF CommitLooksAtExisting, At, Forgotten, CommitSteps
  <2> QED BY <1>2, <2>1
<1>5. ASSUME CommitIsRedundant(d) \/ CommitRetires(d) PROVE Shrunk(e)
  <2>1. lock[d] # <<>> /\ draft' = Shut /\ Going
    BY <1>5 DEF CommitIsRedundant, CommitRetires, At, Close, Answer
  <2> QED BY <1>2, <2>1
<1>6. ASSUME CommitInspects(d) \/ CommitRefuses(d) PROVE Shrunk(e)
  <2>1. lock[d] # <<>> /\ draft' = draft /\ Going
    BY <1>6 DEF CommitInspects, CommitRefuses, At, Answer, CommitSteps
  <2> QED BY <1>2, <2>1
<1>7. ASSUME CommitWritesManifest(d) \/ CommitInstalls(d) PROVE Shrunk(e)
  <2>1. lock[d] # <<>> /\ draft' = draft /\ Going
    BY <1>7 DEF CommitWritesManifest, CommitInstalls, At, Answer, CommitSteps
  <2> QED BY <1>2, <2>1
<1>8. ASSUME CommitForgets(d) PROVE Shrunk(e)
  <2>1. lock[d] # <<>> /\ draft' = Gone /\ Going
    BY <1>8 DEF CommitForgets, At, Forgotten, CommitSteps
  <2> QED BY <1>2, <2>1
<1> QED BY <1>1, <1>3, <1>4, <1>5, <1>6, <1>7, <1>8, ZenonT(30) DEF CommitStep

\* A file is booked within the ceilings, or not at all.
LEMMA WriteWithinCeilings ==
  ASSUME CapturesTypeOK, CapturesInv, CeilingsInv, NEW d \in Uploads,
         WriteStep(d) \/ \E f \in Files : WriteDraftFile(d, f)
  PROVE CeilingsInv'
<1>e. draft[d] \in Entries /\ lock \in [Uploads -> Seq(Turns)]
  BY DEF CapturesTypeOK
<1>i. \A e \in Uploads : CeilingInv(e)
  BY DEF CeilingsInv
<1>o. ASSUME NEW e \in Uploads, lock'[e] = lock[e], draft'[e] = draft[e] PROVE CeilingInv(e)'
  <2>1. Shrunk(e)
    BY <1>i, <1>o, DraftShrinks DEF Shrunk, Busy
  <2> QED BY <1>i, <2>1, ShrunkKeeps
<1>1. ASSUME NEW f \in Files, WriteDraftFile(d, f) PROVE CeilingsInv'
  <2> DEFINE t == Turn("queued", f, 0, Nothing)
  <2>1. t \in Turns /\ t.pc # "open"
    <3>1. 0 \in 0..MaxFileBytes
      BY BoundsAssumption, SMT
    <3>2. "queued" \in Steps
      BY DEF Steps, WriteSteps
    <3>3. t \in Turns /\ t.pc = "queued"
      BY <3>1, <3>2, TurnFact, SMT
    <3> QED BY <3>3
  <2>2. lock' = [lock EXCEPT ![d] = Append(@, t)] /\ draft' = draft
    BY <1>1 DEF WriteDraftFile
  <2> HIDE DEF t
  <2>3. /\ \A x \in Uploads \ {d} : lock'[x] = lock[x]
        /\ Busy(d, {"open"})' => Busy(d, {"open"}) /\ Head(lock'[d]) = Head(lock[d])
    BY <2>1, <2>2, QueuedNotOpen
  <2>4. Shrunk(d)
    BY <1>i, <2>2, <2>3, DraftShrinks, ZenonT(30) DEF Shrunk
  <2>5. CeilingInv(d)'
    BY <1>i, <2>4, ShrunkKeeps
  <2> QED BY <1>o, <2>2, <2>3, <2>5 DEF CeilingsInv
<1>2. ASSUME lock[d] # <<>>, Return(d), draft' = draft PROVE CeilingsInv'
  <2>1. ~Busy(d, {"open"})' /\ \A x \in Uploads \ {d} : lock'[x] = lock[x]
    BY <1>2, NotOpen
  <2>2. Shrunk(d)
    BY <1>i, <1>2, <2>1, DraftShrinks DEF Shrunk
  <2>3. CeilingInv(d)'
    BY <1>i, <2>2, ShrunkKeeps
  <2> QED BY <1>o, <1>2, <2>1, <2>3 DEF CeilingsInv
<1>3. ASSUME WriteOpens(d) PROVE CeilingsInv'
  <2> DEFINE f == Head(lock[d]).file
             t == Turn("open", f, draft[d].files[f], Nothing)
  <2>1. lock[d] # <<>> /\ draft' = draft
    BY <1>3 DEF WriteOpens, At
  <2>2. CASE TooManyFiles(d, f)
    BY <1>2, <1>3, <2>1, <2>2 DEF WriteOpens
  <2>3. CASE ~TooManyFiles(d, f)
    <3>1. Becomes(d, t)
      BY <1>3, <2>3 DEF WriteOpens
    <3>2. f \in Files
      BY <2>1, HeadTypes
    <3>3. PICK w \in 0..MaxFileBytes : w = draft[d].files[f]
      BY <1>e, <3>2 DEF Entries
    <3>4. t \in Turns /\ t.file = f
      <4>1. "open" \in Steps
        BY DEF Steps, WriteSteps
      <4> HIDE DEF f
      <4>2. Turn("open", f, w, Nothing) \in Turns /\ Turn("open", f, w, Nothing).file = f
        BY <3>2, <4>1, TurnFact, SMT
      <4> QED BY <3>3, <4>2
    <3>5. f \in Accounted(d) \/ ~(Cardinality(Accounted(d)) >= MaxFiles)
      <4>1. draft[d].files[f] = 0 \/ f \in Accounted(d)
        <5>1. w = 0 \/ w > 0
          BY BoundsAssumption, SMT
        <5> QED BY <3>2, <3>3, <5>1 DEF Accounted
      <4> QED BY <2>3, <4>1 DEF TooManyFiles
    <3> HIDE DEF t
    <3>6. Turned(d, t.pc) /\ Head(lock'[d]) = t
      BY <1>e, <2>1, <3>1, <3>4, BecomesFact, ZenonT(30)
    <3>7. Cardinality(Accounted(d) \cup {f}) <= MaxFiles
      <4> HIDE DEF f
      <4>1. /\ Cardinality(Accounted(d) \cup {f}) =
                 IF f \in Accounted(d) THEN Cardinality(Accounted(d)) ELSE Cardinality(Accounted(d)) + 1
            /\ Cardinality(Accounted(d)) \in Nat
        BY AccountedFinite, FS_AddElement, FS_CardinalityType
      <4>2. Cardinality(Accounted(d)) <= MaxFiles
        BY <1>i DEF CeilingInv
      <4> QED BY <3>5, <4>1, <4>2, BoundsAssumption, SMT
    <3>8. Accounted(d)' = Accounted(d)
      BY <2>1 DEF Accounted
    <3>9. CeilingInv(d)'
      BY <1>i, <2>1, <3>4, <3>6, <3>7, <3>8, ZenonT(30) DEF CeilingInv
    <3> QED BY <1>o, <2>1, <3>6, <3>9 DEF CeilingsInv, Turned
  <2> QED BY <2>2, <2>3
<1>4. ASSUME WriteFails(d) PROVE CeilingsInv'
  BY <1>2, <1>4 DEF WriteFails, At
<1>5. ASSUME NEW bytes \in 1..MaxFileBytes, NEW frames \in Documents, WriteLands(d, bytes, frames)
      PROVE CeilingsInv'
  <2> DEFINE f == Head(lock[d]).file
             size == draft[d].size - Head(lock[d]).was + bytes
  <2>1. lock[d] # <<>> /\ Busy(d, {"open"}) /\ Return(d) /\ size <= MaxBytes
    BY <1>5 DEF WriteLands, At, Busy
  <2>2. f \in Files /\ Head(lock[d]).was \in 0..MaxFileBytes
    BY <2>1, HeadTypes
  <2>3. draft' = [draft EXCEPT ![d] = Booked(draft[d], f, bytes, size)]
    BY <1>5 DEF WriteLands
  <2>4. size \in Int /\ bytes \in 0..MaxFileBytes
    <3>1. draft[d].size \in Int
      BY <1>e DEF Entries
    <3> QED BY <2>2, <3>1, BoundsAssumption, SMT
  <2> HIDE DEF size
  <2>5. /\ draft'[d].size = size
        /\ \A g \in Files : draft'[d].files[g] = IF g = f THEN bytes ELSE draft[d].files[g]
    <3>1. draft'[d] = Booked(draft[d], f, bytes, size)
      BY <2>3 DEF CapturesTypeOK
    <3> HIDE DEF f
    <3>2. draft[d] \in Entries /\ f \in Files
      BY <1>e, <2>2
    <3>3. Written(d, f, bytes, size)
      BY <2>4, <3>1, <3>2, WrittenFact
    <3> QED BY <3>3 DEF Written
  <2>6. Accounted(d)' \subseteq Accounted(d) \cup {f}
    BY <2>5 DEF Accounted
  <2>7. ~Busy(d, {"open"})' /\ \A x \in Uploads \ {d} : lock'[x] = lock[x]
    BY <2>1, NotOpen
  <2>8. Cardinality(Accounted(d)') <= MaxFiles
    <3> DEFINE S == Accounted(d) \cup {f}
               T == Accounted(d)'
    <3>1. Cardinality(S) <= MaxFiles
      BY <1>i, <2>1 DEF CeilingInv
    <3>2. IsFiniteSet(S) /\ T \in SUBSET S
      BY <2>6, AccountedFinite
    <3> HIDE DEF S, T
    <3>3. Cardinality(T) <= MaxFiles
      BY <3>1, <3>2, FewerFiles
    <3> QED BY <3>3 DEF T
  <2>9. CeilingInv(d)'
    BY <2>1, <2>5, <2>7, <2>8, ZenonT(30) DEF CeilingInv
  <2>10. \A x \in Uploads \ {d} : draft'[x] = draft[x]
    BY <2>3 DEF CapturesTypeOK
  <2> QED BY <1>o, <2>7, <2>9, <2>10 DEF CeilingsInv
<1> QED BY <1>1, <1>3, <1>4, <1>5, ZenonT(30) DEF WriteStep

\* Every step keeps the ceilings.
LEMMA CeilingsStep ==
  ASSUME CapturesTypeOK, CapturesInv, CeilingsInv, [CapturesNext]_captureVars
  PROVE CeilingsInv'
<1>i. \A e \in Uploads : CeilingInv(e)
  BY DEF CeilingsInv
<1>s. ASSUME \A e \in Uploads : Shrunk(e) PROVE CeilingsInv'
  BY <1>i, <1>s, ShrunkKeeps DEF CeilingsInv
<1>u. ASSUME UNCHANGED <<draft, lock>> PROVE CeilingsInv'
  BY <1>i, <1>s, <1>u, DraftShrinks DEF Shrunk, Busy
<1>d. ASSUME NEW d \in Uploads, UNCHANGED lock,
             \/ draft' = [draft EXCEPT ![d].state = "gone"] \/ draft' = [draft EXCEPT ![d] = Closed]
      PROVE CeilingsInv'
  <2> SUFFICES ASSUME NEW e \in Uploads PROVE Shrunk(e)
    BY <1>s
  <2>1. \/ draft'[e] = draft[e] \/ draft'[e] = [draft[e] EXCEPT !.state = "gone"]
        \/ draft'[e] = Closed
    BY <1>d, ZenonT(30) DEF CapturesTypeOK
  <2> QED BY <1>i, <1>d, <2>1, DraftShrinks DEF Shrunk, Busy
<1>1. ASSUME NEW d \in Uploads, ClientStep(d) PROVE CeilingsInv'
  <2>1. ASSUME NEW k \in Keys, NEW n \in FrameCounts, BeginDraft(d, k, n) PROVE CeilingsInv'
    <3> SUFFICES ASSUME NEW e \in Uploads PROVE Shrunk(e)
      BY <1>s
    <3>1. lock' = lock
      BY <2>1 DEF BeginDraft
    <3>2. CASE e # d
      <4>1. draft'[e] = draft[e]
        BY <2>1, <3>2 DEF BeginDraft, CapturesTypeOK
      <4> QED BY <1>i, <3>1, <4>1, DraftShrinks DEF Shrunk, Busy
    <3>3. CASE e = d
      <4>1. draft'[e] = [NoDraft EXCEPT !.state = "live", !.key = k, !.expected = n]
        BY <2>1, <3>3 DEF BeginDraft, CapturesTypeOK
      <4>2. draft'[e].files = NoFiles /\ draft'[e].size = 0
        BY <4>1 DEF NoDraft
      <4>3. \A f \in Files : ~(NoFiles[f] > 0)
        BY SMT DEF NoFiles
      <4>4. draft'[e].size <= MaxBytes
        BY <4>2, BoundsAssumption, SMT
      <4> QED BY <3>1, <4>2, <4>3, <4>4 DEF Shrunk, Busy, Accounted
    <3> QED BY <3>2, <3>3
  <2>2. ASSUME NEW r \in Readers, GetDraft(r, d) PROVE CeilingsInv'
    BY <1>u, <2>2 DEF GetDraft
  <2>3. ASSUME CommitDraft(d) \/ Delete(d) \/ CreateBegins(d) PROVE CeilingsInv'
    BY <1>u, <2>3 DEF CommitDraft, Delete, CreateBegins
  <2>4. ASSUME NEW files, CreateEnds(d, files) PROVE CeilingsInv'
    BY <1>u, <2>4 DEF CreateEnds
  <2>5. ASSUME JobInspects(d) \/ JobInserted(d) \/ JobEnds(d) PROVE CeilingsInv'
    BY <1>u, <2>5 DEF JobInspects, JobInserted, JobEnds
  <2>6. ASSUME DiscardDraft(d) PROVE CeilingsInv'
    BY <1>d, <2>6 DEF DiscardDraft, Forgotten
  <2> QED BY <1>1, <2>1, <2>2, <2>3, <2>4, <2>5, <2>6, WriteWithinCeilings, ZenonT(30) DEF ClientStep
<1>2. ASSUME NEW d \in Uploads, CommitStep(d) PROVE CeilingsInv'
  BY <1>s, <1>2, CommitShrinks
<1>3. ASSUME NEW d \in Uploads, EndStep(d) PROVE CeilingsInv'
  <2>1. ASSUME DiscardEnds(d) PROVE CeilingsInv'
    BY <1>d, <2>1 DEF DiscardEnds, Close
  <2>2. ASSUME DeleteRemoves(d) \/ DeleteForgets(d) PROVE CeilingsInv'
    BY <1>u, <2>2 DEF DeleteRemoves, DeleteForgets
  <2> QED BY <1>3, <2>1, <2>2 DEF EndStep
<1>4. ASSUME NEW r \in Reconcilers, ReconcileStep(r) PROVE CeilingsInv'
  <2>1. ASSUME NEW f \in Files, ReconcileNext(r, f) PROVE CeilingsInv'
    BY <1>u, <2>1 DEF ReconcileNext
  <2>2. ASSUME GetDraftReturns(r) PROVE CeilingsInv'
    BY <1>u, <2>2 DEF GetDraftReturns
  <2>3. ASSUME ReconcileDrops(r) PROVE CeilingsInv'
    <3> DEFINE d == reader[r].of
               f == reader[r].gone
               l == reader[r].left[f]
               s == Max({0, draft[d].size - l})
    <3> SUFFICES ASSUME NEW e \in Uploads PROVE Shrunk(e)
      BY <1>s
    <3>1. draft' = [draft EXCEPT ![d] = Booked(draft[d], f, 0, s)] /\ lock' = lock
      BY <2>3 DEF ReconcileDrops
    <3>2. f \in Files /\ l \in 0..MaxFileBytes
      <4>1. reader[r] \in Readings
        BY DEF CapturesTypeOK
      <4>2. f \in Files
        BY <2>3, <4>1 DEF ReconcileDrops, Readings
      <4> QED BY <4>1, <4>2 DEF Readings
    <3>3. CASE e = d
      <4>1. draft[d].size \in Int /\ draft[d].size <= MaxBytes
        BY <1>i, <3>3, ZenonT(30) DEF CapturesTypeOK, Entries, CeilingInv
      <4>2. draft[d].size - l \in Int /\ draft[d].size - l <= MaxBytes
        <5> HIDE DEF l, d
        <5> QED BY <3>2, <4>1, BoundsAssumption, SMT
      <4>3. s \in Int /\ (s = 0 \/ s = draft[d].size - l)
        BY <4>2, MaxFact
      <4>4. s <= MaxBytes
        <5> HIDE DEF s, l, d
        <5>1. 0 <= MaxBytes
          BY BoundsAssumption, SMT
        <5> QED BY <4>2, <4>3, <5>1
      <4>5. draft'[e] = Booked(draft[e], f, 0, s)
        BY <3>1, <3>3, ZenonT(30) DEF CapturesTypeOK
      <4> HIDE DEF s, l, d, f
      <4>6. Accounted(e)' \subseteq Accounted(e) /\ draft'[e].size = s
        BY <3>2, <4>3, <4>5, DropFact, ZenonT(30)
      <4> QED BY <3>1, <4>4, <4>6 DEF Shrunk, Busy
    <3>4. CASE e # d
      <4>1. draft'[e] = draft[e]
        BY <3>1, <3>4, ZenonT(30) DEF CapturesTypeOK
      <4> QED BY <1>i, <3>1, <4>1, DraftShrinks DEF Shrunk, Busy
    <3> QED BY <3>3, <3>4
  <2> QED BY <1>4, <2>1, <2>2, <2>3 DEF ReconcileStep
<1>5. ASSUME SweepStep PROVE CeilingsInv'
  BY <1>u, <1>5 DEF SweepStep, SweepLooks, SweepRemoves
<1>6. ASSUME NEW d \in Uploads, MarkerAges(d) \/ \E f \in Files : LoseFile(d, f)
      PROVE CeilingsInv'
  BY <1>u, <1>6 DEF MarkerAges, LoseFile
<1>7. ASSUME Restart PROVE CeilingsInv'
  <2> SUFFICES ASSUME NEW e \in Uploads PROVE Shrunk(e)
    BY <1>s
  <2>1. lock'[e] = <<>> /\ (draft'[e] = draft[e] \/ draft'[e] = Closed)
    BY <1>7 DEF Restart
  <2> QED BY <1>i, <2>1, DraftShrinks DEF Shrunk, Busy
<1>8. ASSUME UNCHANGED captureVars PROVE CeilingsInv'
  BY <1>u, <1>8 DEF captureVars
<1> QED BY <1>1, <1>2, <1>3, <1>4, <1>5, <1>6, <1>7, <1>8, WriteWithinCeilings, ZenonT(30) DEF CapturesNext

\* The initial states are within the ceilings.
LEMMA CeilingsInit == CapturesInit => CeilingsInv
<1> SUFFICES ASSUME CapturesInit, NEW e \in Uploads PROVE CeilingInv(e)
  BY DEF CeilingsInv
<1>1. draft[e] = NoDraft /\ lock[e] = <<>>
  BY DEF CapturesInit
<1>2. NoDraft.files = NoFiles /\ NoDraft.size = 0
  BY DEF NoDraft
<1>3. \A f \in Files : ~(NoFiles[f] > 0)
  BY SMT DEF NoFiles
<1>4. Accounted(e) = {}
  BY <1>1, <1>2, <1>3 DEF Accounted
<1>5. Cardinality({}) = 0
  BY FS_EmptySet
<1>6. draft[e].size <= MaxBytes /\ Cardinality(Accounted(e)) <= MaxFiles
  BY <1>1, <1>2, <1>4, <1>5, BoundsAssumption, SMT
<1> QED BY <1>1, <1>6 DEF CeilingInv, Busy

-----------------------------------------------------------------------------
\* The sum.

\* The bytes of one file, up to a position.
Own(f, k) == {b \in Files \X (1..MaxFileBytes) : b[1] = f /\ b[2] <= k}

\* The bytes of all files can be counted.
LEMMA BytesFinite ==
  ASSUME NEW S \in SUBSET (Files \X (1..MaxFileBytes))
  PROVE IsFiniteSet(S) /\ Cardinality(S) \in Nat
<1>1. IsFiniteSet(Files)
  BY PackageAssumption, FS_AddElement DEF Files
<1>2. IsFiniteSet(1..MaxFileBytes)
  <2>1. 1 \in Int /\ MaxFileBytes \in Int
    BY BoundsAssumption, SMT
  <2> QED BY <2>1, FS_Interval
<1>3. IsFiniteSet(Files \X (1..MaxFileBytes))
  BY <1>1, <1>2, FS_Product
<1>4. IsFiniteSet(S)
  BY <1>3, FS_Subset
<1> QED BY <1>4, FS_CardinalityType

\* A file has as many bytes as its size says.
LEMMA OwnCounts ==
  ASSUME NEW f \in Files, NEW k \in 0..MaxFileBytes
  PROVE Cardinality(Own(f, k)) = k
<1> DEFINE g == [i \in 1..k |-> <<f, i>>]
<1>1. k \in Nat /\ IsFiniteSet(1..k) /\ Cardinality(1..k) = k
  <2>1. 1 \in Int /\ k \in Int /\ k \in Nat /\ (IF 1 > k THEN 0 ELSE k - 1 + 1) = k
    BY BoundsAssumption, SMT
  <2>2. IsFiniteSet(1..k) /\ Cardinality(1..k) = IF 1 > k THEN 0 ELSE k - 1 + 1
    BY <2>1, FS_Interval
  <2> QED BY <2>1, <2>2, SMT
<1>2. g \in Bijection(1..k, Own(f, k))
  <2>1. \A i \in 1..k : g[i] \in Own(f, k)
    BY BoundsAssumption, SMT DEF Own
  <2>2. g \in [1..k -> Own(f, k)]
    BY <2>1
  <2>3. \A i, j \in 1..k : g[i] = g[j] => i = j
    BY SMT
  <2>4. \A b \in Own(f, k) : \E i \in 1..k : g[i] = b
    <3> SUFFICES ASSUME NEW b \in Own(f, k) PROVE b[2] \in 1..k /\ g[b[2]] = b
      OBVIOUS
    <3>1. b \in Files \X (1..MaxFileBytes) /\ b[1] = f /\ b[2] <= k
      BY DEF Own
    <3>2. b = <<f, b[2]>> /\ b[2] \in 1..MaxFileBytes
      BY <3>1, SMT
    <3>3. b[2] \in 1..k
      BY <3>1, <3>2, BoundsAssumption, SMT
    <3> QED BY <3>2, <3>3
  <2> QED BY <2>2, <2>3, <2>4 DEF Bijection, Injection, IsInjective, Surjection
<1>3. ExistsBijection(1..k, Own(f, k))
  BY <1>2 DEF ExistsBijection
<1> QED BY <1>1, <1>3, FS_Bijection

\* The total of some files is that of the others and the size of one.
LEMMA TotalSplits ==
  ASSUME NEW h \in [Files -> 0..MaxFileBytes], NEW f \in Files
  PROVE /\ Total(h) \in Nat
        /\ Total(h) = Cardinality({b \in Bytes(h) : b[1] # f}) + h[f]
<1> DEFINE Rest == {b \in Bytes(h) : b[1] # f}
<1>1. Rest \in SUBSET (Files \X (1..MaxFileBytes)) /\ Own(f, h[f]) \in SUBSET (Files \X (1..MaxFileBytes))
      /\ Bytes(h) \in SUBSET (Files \X (1..MaxFileBytes))
  BY DEF Bytes, Own
<1>2. Bytes(h) = Rest \cup Own(f, h[f]) /\ Rest \cap Own(f, h[f]) = {}
  BY DEF Bytes, Own
<1>3. Cardinality(Own(f, h[f])) = h[f] /\ h[f] \in 0..MaxFileBytes
  BY OwnCounts
<1> HIDE DEF Rest
<1>4. /\ IsFiniteSet(Rest) /\ IsFiniteSet(Own(f, h[f])) /\ Cardinality(Rest) \in Nat
      /\ Cardinality(Bytes(h)) \in Nat
  BY <1>1, BytesFinite
<1>5. Cardinality(Rest \cup Own(f, h[f])) =
        Cardinality(Rest) + Cardinality(Own(f, h[f])) - Cardinality(Rest \cap Own(f, h[f]))
  BY <1>4, FS_Union
<1>6. Cardinality(Rest \cap Own(f, h[f])) = 0
  BY <1>2, FS_EmptySet
<1>7. Cardinality(Bytes(h)) = Cardinality(Rest) + h[f]
  BY <1>2, <1>3, <1>4, <1>5, <1>6, BoundsAssumption, SMT
<1> QED BY <1>4, <1>7 DEF Total, Rest

\* What the accounting of one file does to the total.
LEMMA TotalBooked ==
  ASSUME NEW g \in [Files -> 0..MaxFileBytes], NEW h \in [Files -> 0..MaxFileBytes],
         NEW f \in Files, \A x \in Files : x # f => h[x] = g[x]
  PROVE Total(h) = Total(g) - g[f] + h[f]
<1> DEFINE c == Cardinality({b \in Bytes(g) : b[1] # f})
<1>1. {b \in Bytes(h) : b[1] # f} = {b \in Bytes(g) : b[1] # f}
  BY DEF Bytes
<1>2. Total(g) \in Nat /\ Total(g) = c + g[f] /\ Total(h) \in Nat /\ Total(h) = c + h[f]
  BY <1>1, TotalSplits
<1>3. c \in Nat
  <2>1. {b \in Bytes(g) : b[1] # f} \in SUBSET (Files \X (1..MaxFileBytes))
    BY DEF Bytes
  <2> QED BY <2>1, BytesFinite
<1>4. g[f] \in 0..MaxFileBytes /\ h[f] \in 0..MaxFileBytes
  OBVIOUS
<1> HIDE DEF c
<1> QED BY <1>2, <1>3, <1>4, BoundsAssumption, SMT

\* A draft begins with no bytes.
LEMMA TotalOfNone == Total(NoFiles) = 0
<1>1. Bytes(NoFiles) = {}
  BY SMT DEF Bytes, NoFiles
<1> QED BY <1>1, FS_EmptySet DEF Total

\* The size of a live draft is the sum over its files, and an open write knows
\* what its file adds to it.
SizeInv(d) ==
  Live(d) => \/ d \in taken
             \/ /\ draft[d].size = Total(draft[d].files)
                /\ Busy(d, {"open"}) => Head(lock[d]).was = draft[d].files[Head(lock[d]).file]

\* A reconciliation of a live draft finds every file it looks for.
Finds(d, rd) == rd.gone = Nothing /\ \A f \in Files : rd.left[f] > 0 => f \in Accounted(d)
ReadInv(d) ==
  \A r \in Reconcilers : reader[r].of = d =>
    draft[d].state # "new" /\ (Live(d) => d \in taken \/ Finds(d, reader[r]))

ExactInv == \A d \in Uploads : SizeInv(d) /\ ReadInv(d)

\* What a step that books no file leaves of an upload.
Steady(e) ==
  /\ taken \subseteq taken'
  /\ draft'[e] = draft[e] \/ draft'[e].state = "gone"
  /\ Busy(e, {"open"})' => Busy(e, {"open"}) /\ Head(lock'[e]) = Head(lock[e])

\* Without a booking the sum stays the size.
LEMMA SteadySize ==
  ASSUME NEW e \in Uploads, SizeInv(e), Steady(e)
  PROVE SizeInv(e)'
<1> SUFFICES ASSUME Live(e)', e \notin taken'
             PROVE /\ draft'[e].size = Total(draft'[e].files)
                   /\ Busy(e, {"open"})' => Head(lock'[e]).was = draft'[e].files[Head(lock'[e]).file]
  BY DEF SizeInv
<1>1. draft'[e] = draft[e] /\ Live(e) /\ e \notin taken
  BY DEF Steady, Live
<1> QED BY <1>1 DEF SizeInv, Steady

\* A reconciliation that goes on, or ends, still finds its files.
LEMMA SteadyReads ==
  ASSUME NEW e \in Uploads, ReadInv(e), Steady(e),
         \A r \in Reconcilers : reader'[r] = reader[r] \/ reader'[r].of # e
  PROVE ReadInv(e)'
<1> SUFFICES ASSUME NEW r \in Reconcilers, reader'[r].of = e
             PROVE draft'[e].state # "new" /\ (Live(e)' => e \in taken' \/ Finds(e, reader[r])')
  BY DEF ReadInv
<1>1. reader'[r] = reader[r] /\ reader[r].of = e
  OBVIOUS
<1>2. draft[e].state # "new" /\ (Live(e) => e \in taken \/ Finds(e, reader[r]))
  BY <1>1 DEF ReadInv
<1>3. CASE draft'[e] = draft[e]
  BY <1>1, <1>2, <1>3 DEF Steady, Live, Finds, Accounted
<1>4. CASE draft'[e].state = "gone"
  BY <1>4 DEF Live
<1> QED BY <1>3, <1>4 DEF Steady

\* A reconciliation begins with the files that the draft accounts for.
LEMMA BeginningReads ==
  ASSUME CapturesTypeOK, NEW r \in Reconcilers, NEW d \in Uploads, draft[d].state # "new",
         draft' = draft, taken' = taken,
         reader' = [reader EXCEPT ![r] = [NotReading EXCEPT !.of = d, !.left = draft[d].files]],
         NEW e \in Uploads, ReadInv(e)
  PROVE ReadInv(e)'
<1> DEFINE new == [NotReading EXCEPT !.of = d, !.left = draft[d].files]
<1>1. new.of = d /\ new.left = draft[d].files /\ new.gone = Nothing
  BY DEF NotReading
<1>2. reader'[r] = new /\ \A x \in Reconcilers \ {r} : reader'[x] = reader[x]
  BY DEF CapturesTypeOK
<1> HIDE DEF new
<1> SUFFICES ASSUME NEW x \in Reconcilers, reader'[x].of = e
             PROVE draft'[e].state # "new" /\ (Live(e)' => e \in taken' \/ Finds(e, reader[x])')
  BY DEF ReadInv
<1>3. CASE x = r
  <2>1. e = d
    BY <1>1, <1>2, <1>3
  <2>2. \A f \in Files : new.left[f] > 0 => f \in Accounted(e)'
    BY <1>1, <2>1 DEF Accounted
  <2> QED BY <1>1, <1>2, <1>3, <2>1, <2>2, ZenonT(30) DEF Finds
<1>4. CASE x # r
  BY <1>2, <1>4 DEF ReadInv, Live, Finds, Accounted
<1> QED BY <1>3, <1>4

\* What a commit leaves of the drafts and their reconciliations.
LEMMA CommitLeaves ==
  ASSUME CapturesTypeOK, NEW d \in Uploads, CommitStep(d)
  PROVE /\ taken' = taken
        /\ \A e \in Uploads : draft'[e] = draft[e] \/ draft'[e].state = "gone"
        /\ \/ reader' = reader
           \/ /\ draft' = draft /\ lock[d] # <<>>
              /\ reader' = [reader EXCEPT ![Committer] =
                              [NotReading EXCEPT !.of = d, !.left = draft[d].files]]
<1> DEFINE Left == \A e \in Uploads : draft'[e] = draft[e] \/ draft'[e].state = "gone"
<1>e. draft \in [Uploads -> Entries]
  BY DEF CapturesTypeOK
<1>0. Closed.state = "gone" /\ [draft[d] EXCEPT !.state = "gone"].state = "gone"
  BY <1>e, EntryFact
<1>k. draft' = draft => Left
  OBVIOUS
<1>g. draft' = [draft EXCEPT ![d].state = "gone"] => Left
  BY <1>e, <1>0
<1>s. draft' = [draft EXCEPT ![d] = Closed] => Left
  BY <1>e, <1>0, ZenonT(30)
<1> HIDE DEF Left
<1>1. ASSUME CommitEnters(d) \/ CommitChecks(d) PROVE taken' = taken /\ Left /\ reader' = reader
  BY <1>1, <1>k DEF CommitEnters, CommitChecks
<1>2. ASSUME CommitLooksAtExisting(d) PROVE taken' = taken /\ Left /\ reader' = reader
  BY <1>2, <1>k, <1>g DEF CommitLooksAtExisting, Forgotten
<1>3. ASSUME CommitIsRedundant(d) \/ CommitRetires(d) PROVE taken' = taken /\ Left /\ reader' = reader
  BY <1>3, <1>s DEF CommitIsRedundant, CommitRetires, Close
<1>4. ASSUME CommitRefuses(d) \/ CommitWritesManifest(d) PROVE taken' = taken /\ Left /\ reader' = reader
  BY <1>4, <1>k DEF CommitRefuses, CommitWritesManifest
<1>5. ASSUME CommitInstalls(d) PROVE taken' = taken /\ Left /\ reader' = reader
  BY <1>5, <1>k DEF CommitInstalls
<1>6. ASSUME CommitForgets(d) PROVE taken' = taken /\ Left /\ reader' = reader
  BY <1>6, <1>g DEF CommitForgets, Forgotten
<1>7. ASSUME CommitInspects(d)
      PROVE /\ taken' = taken /\ draft' = draft /\ lock[d] # <<>>
            /\ \/ reader' = reader
               \/ reader' = [reader EXCEPT ![Committer] =
                               [NotReading EXCEPT !.of = d, !.left = draft[d].files]]
  BY <1>7, ZenonT(30) DEF CommitInspects, At
<1> QED BY <1>1, <1>2, <1>3, <1>4, <1>5, <1>6, <1>7, <1>k, ZenonT(30) DEF CommitStep, Left

\* A write books its file at the size that it adds.
LEMMA WriteIsExact ==
  ASSUME CapturesTypeOK, CapturesInv, ExactInv, NEW d \in Uploads,
         WriteStep(d) \/ \E f \in Files : WriteDraftFile(d, f)
  PROVE ExactInv'
<1>e. draft[d] \in Entries /\ lock \in [Uploads -> Seq(Turns)]
  BY DEF CapturesTypeOK
<1>i. \A e \in Uploads : SizeInv(e) /\ ReadInv(e)
  BY DEF ExactInv
<1>s. ASSUME \A e \in Uploads : Steady(e), reader' = reader PROVE ExactInv'
  BY <1>i, <1>s, SteadySize, SteadyReads, ZenonT(30) DEF ExactInv
<1>1. ASSUME NEW f \in Files, WriteDraftFile(d, f) PROVE ExactInv'
  <2> DEFINE t == Turn("queued", f, 0, Nothing)
  <2>1. t \in Turns /\ t.pc # "open"
    <3>1. 0 \in 0..MaxFileBytes
      BY BoundsAssumption, SMT
    <3>2. "queued" \in Steps
      BY DEF Steps, WriteSteps
    <3>3. t \in Turns /\ t.pc = "queued"
      BY <3>1, <3>2, TurnFact, SMT
    <3> QED BY <3>3
  <2>2. lock' = [lock EXCEPT ![d] = Append(@, t)] /\ UNCHANGED <<draft, taken, reader>>
    BY <1>1 DEF WriteDraftFile
  <2> HIDE DEF t
  <2>3. /\ \A x \in Uploads \ {d} : lock'[x] = lock[x]
        /\ Busy(d, {"open"})' => Busy(d, {"open"}) /\ Head(lock'[d]) = Head(lock[d])
    BY <2>1, <2>2, QueuedNotOpen
  <2>4. \A e \in Uploads : Steady(e)
    BY <2>2, <2>3 DEF Steady, Busy
  <2> QED BY <1>s, <2>2, <2>4, ZenonT(30)
<1>2. ASSUME lock[d] # <<>>, Return(d), UNCHANGED <<draft, taken, reader>> PROVE ExactInv'
  <2>1. ~Busy(d, {"open"})' /\ \A x \in Uploads \ {d} : lock'[x] = lock[x]
    BY <1>2, NotOpen, ZenonT(30)
  <2>2. \A e \in Uploads : Steady(e)
    BY <1>2, <2>1, ZenonT(30) DEF Steady, Busy
  <2> QED BY <1>s, <1>2, <2>2, ZenonT(30)
<1>3. ASSUME WriteOpens(d) PROVE ExactInv'
  <2> DEFINE f == Head(lock[d]).file
             t == Turn("open", f, draft[d].files[f], Nothing)
  <2>1. lock[d] # <<>> /\ UNCHANGED <<draft, taken, reader>>
    BY <1>3 DEF WriteOpens, At
  <2>2. CASE TooManyFiles(d, f)
    BY <1>2, <1>3, <2>1, <2>2, ZenonT(30) DEF WriteOpens
  <2>3. CASE ~TooManyFiles(d, f)
    <3>1. Becomes(d, t)
      BY <1>3, <2>3 DEF WriteOpens
    <3>2. f \in Files
      BY <2>1, HeadTypes, ZenonT(30)
    <3>3. PICK w \in 0..MaxFileBytes : w = draft[d].files[f]
      BY <1>e, <3>2 DEF Entries
    <3>4. t \in Turns /\ t.was = draft[d].files[t.file]
      <4>1. "open" \in Steps
        BY DEF Steps, WriteSteps
      <4> HIDE DEF f
      <4>2. /\ Turn("open", f, w, Nothing) \in Turns /\ Turn("open", f, w, Nothing).file = f
            /\ Turn("open", f, w, Nothing).was = w
        BY <3>2, <4>1, TurnFact, SMT
      <4> QED BY <3>3, <4>2
    <3> HIDE DEF t
    <3>5. Turned(d, t.pc) /\ Head(lock'[d]) = t
      BY <1>e, <2>1, <3>1, <3>4, BecomesFact, ZenonT(30)
    <3>6. SizeInv(d)'
      BY <1>i, <2>1, <3>4, <3>5, ZenonT(30) DEF SizeInv, Live
    <3>7. \A e \in Uploads \ {d} : Steady(e)
      BY <2>1, <3>5 DEF Steady, Turned, Busy
    <3>8. ReadInv(d)'
      BY <1>i, <2>1 DEF ReadInv, Live, Finds, Accounted
    <3> QED BY <1>i, <2>1, <3>6, <3>7, <3>8, SteadySize, SteadyReads, ZenonT(30) DEF ExactInv
  <2> QED BY <2>2, <2>3
<1>4. ASSUME WriteFails(d) PROVE ExactInv'
  BY <1>2, <1>4 DEF WriteFails, At
<1>5. ASSUME NEW bytes \in 1..MaxFileBytes, NEW frames \in Documents, WriteLands(d, bytes, frames)
      PROVE ExactInv'
  <2> DEFINE f == Head(lock[d]).file
             was == Head(lock[d]).was
             size == draft[d].size - was + bytes
  <2>1. lock[d] # <<>> /\ Busy(d, {"open"}) /\ Return(d) /\ reader' = reader /\ taken \subseteq taken'
    BY <1>5 DEF WriteLands, At, Busy
  <2>2. f \in Files /\ was \in 0..MaxFileBytes
    BY <2>1, HeadTypes
  <2>3. draft' = [draft EXCEPT ![d] = Booked(draft[d], f, bytes, size)]
    BY <1>5 DEF WriteLands
  <2>4. size \in Int /\ bytes \in 0..MaxFileBytes /\ bytes > 0 /\ draft[d].size \in Int
    <3>1. draft[d].size \in Int
      BY <1>e DEF Entries
    <3> QED BY <2>2, <3>1, BoundsAssumption, SMT
  <2> HIDE DEF size
  <2>5. /\ draft'[d] \in Entries /\ draft'[d].size = size /\ draft'[d].state = draft[d].state
        /\ \A g \in Files : draft'[d].files[g] = IF g = f THEN bytes ELSE draft[d].files[g]
    <3>1. draft'[d] = Booked(draft[d], f, bytes, size)
      BY <2>3 DEF CapturesTypeOK
    <3> HIDE DEF f
    <3>2. draft[d] \in Entries /\ f \in Files
      BY <1>e, <2>2
    <3>3. Written(d, f, bytes, size)
      BY <2>4, <3>1, <3>2, WrittenFact
    <3> QED BY <3>3 DEF Written
  <2>6. ~Busy(d, {"open"})' /\ \A x \in Uploads \ {d} : lock'[x] = lock[x]
    BY <2>1, NotOpen
  <2>7. ASSUME Live(d), d \notin taken PROVE size = Total(draft'[d].files)
    <3>1. draft[d].size = Total(draft[d].files) /\ was = draft[d].files[f]
      BY <1>i, <2>1, <2>7, ZenonT(30) DEF SizeInv
    <3>2. draft[d].files \in [Files -> 0..MaxFileBytes] /\ draft'[d].files \in [Files -> 0..MaxFileBytes]
      BY <1>e, <2>5 DEF Entries
    <3> HIDE DEF f, was
    <3>3. Total(draft'[d].files) = Total(draft[d].files) - draft[d].files[f] + draft'[d].files[f]
      BY <2>2, <2>5, <3>2, TotalBooked, ZenonT(30)
    <3> QED BY <2>2, <2>5, <3>1, <3>3, ZenonT(30) DEF size
  <2>8. SizeInv(d)'
    BY <2>1, <2>5, <2>6, <2>7, ZenonT(30) DEF SizeInv, Live
  <2>9. Accounted(d) \subseteq Accounted(d)'
    BY <2>4, <2>5 DEF Accounted
  <2>10. ReadInv(d)'
    BY <1>i, <2>1, <2>5, <2>9, ZenonT(30) DEF ReadInv, Live, Finds
  <2>11. \A e \in Uploads \ {d} : Steady(e)
    BY <2>1, <2>3, <2>6, ZenonT(30) DEF Steady, Busy, CapturesTypeOK
  <2> QED BY <1>i, <2>1, <2>8, <2>10, <2>11, SteadySize, SteadyReads, ZenonT(30) DEF ExactInv
<1> QED BY <1>1, <1>3, <1>4, <1>5, ZenonT(30) DEF WriteStep

\* Every step keeps the accounting exact.
LEMMA ExactStep ==
  ASSUME CapturesTypeOK, CapturesInv, CeilingsInv, ExactInv, [CapturesNext]_captureVars
  PROVE ExactInv'
<1>i. \A e \in Uploads : SizeInv(e) /\ ReadInv(e)
  BY DEF ExactInv
<1>e. draft \in [Uploads -> Entries] /\ reader \in [Reconcilers -> Readings]
  BY DEF CapturesTypeOK
<1>s. ASSUME \A e \in Uploads : Steady(e), reader' = reader PROVE ExactInv'
  BY <1>i, <1>s, SteadySize, SteadyReads, ZenonT(30) DEF ExactInv
<1>u. ASSUME UNCHANGED <<draft, lock, reader>>, taken \subseteq taken' PROVE ExactInv'
  <2>1. \A e \in Uploads : Steady(e)
    BY <1>u DEF Steady, Busy
  <2> QED BY <1>s, <1>u, <2>1, ZenonT(30)
<1>d. ASSUME NEW d \in Uploads, UNCHANGED <<lock, reader>>, taken \subseteq taken',
             \/ draft' = [draft EXCEPT ![d].state = "gone"] \/ draft' = [draft EXCEPT ![d] = Closed]
      PROVE ExactInv'
  <2>1. Closed.state = "gone" /\ [draft[d] EXCEPT !.state = "gone"].state = "gone"
    BY <1>e, EntryFact
  <2>2. \A e \in Uploads : draft'[e] = draft[e] \/ draft'[e].state = "gone"
    BY <1>d, <1>e, <2>1, ZenonT(30)
  <2>3. \A e \in Uploads : Steady(e)
    BY <1>d, <2>2, ZenonT(30) DEF Steady, Busy
  <2> QED BY <1>s, <1>d, <2>3
<1>1. ASSUME NEW d \in Uploads, ClientStep(d) PROVE ExactInv'
  <2>1. ASSUME NEW k \in Keys, NEW n \in FrameCounts, BeginDraft(d, k, n) PROVE ExactInv'
    <3>1. UNCHANGED <<lock, reader, taken>> /\ draft[d] = NoDraft
      BY <2>1 DEF BeginDraft, Fresh
    <3>2. /\ draft'[d] = [NoDraft EXCEPT !.state = "live", !.key = k, !.expected = n]
          /\ \A e \in Uploads \ {d} : draft'[e] = draft[e]
      BY <1>e, <2>1 DEF BeginDraft
    <3>3. draft[d].state = "new" /\ draft'[d].files = NoFiles /\ draft'[d].size = 0
      <4>1. NoDraft.state = "new"
        BY DEF NoDraft
      <4>2. draft'[d].files = NoFiles /\ draft'[d].size = 0
        BY <3>2 DEF NoDraft
      <4> QED BY <3>1, <4>1, <4>2
    <3>4. lock[d] = <<>> /\ \A r \in Reconcilers : reader[r].of # d
      BY <1>i, <3>3 DEF ReadInv, CapturesInv, UploadInv, QueueInv
    <3>5. SizeInv(d)' /\ ReadInv(d)'
      BY <3>1, <3>3, <3>4, TotalOfNone, ZenonT(30) DEF SizeInv, ReadInv, Busy
    <3>6. \A e \in Uploads \ {d} : Steady(e)
      BY <3>1, <3>2 DEF Steady, Busy
    <3> QED BY <1>i, <3>1, <3>5, <3>6, SteadySize, SteadyReads, ZenonT(30) DEF ExactInv
  <2>2. ASSUME NEW r \in Readers, GetDraft(r, d) PROVE ExactInv'
    <3>1. /\ UNCHANGED <<draft, lock, taken>> /\ draft[d].state # "new" /\ r \in Reconcilers
          /\ reader' = [reader EXCEPT ![r] = [NotReading EXCEPT !.of = d, !.left = draft[d].files]]
      BY <2>2 DEF GetDraft, Live, Reconcilers
    <3>2. \A e \in Uploads : ReadInv(e)'
      BY <1>i, <3>1, BeginningReads, ZenonT(30)
    <3>3. \A e \in Uploads : Steady(e)
      BY <3>1 DEF Steady, Busy
    <3> QED BY <1>i, <3>2, <3>3, SteadySize, ZenonT(30) DEF ExactInv
  <2>3. ASSUME CommitDraft(d) \/ Delete(d) \/ CreateBegins(d) PROVE ExactInv'
    BY <1>u, <2>3 DEF CommitDraft, Delete, CreateBegins
  <2>4. ASSUME NEW files, CreateEnds(d, files) PROVE ExactInv'
    BY <1>u, <2>4 DEF CreateEnds
  <2>5. ASSUME JobInspects(d) \/ JobInserted(d) \/ JobEnds(d) PROVE ExactInv'
    BY <1>u, <2>5 DEF JobInspects, JobInserted, JobEnds
  <2>6. ASSUME DiscardDraft(d) PROVE ExactInv'
    BY <1>d, <2>6 DEF DiscardDraft, Forgotten
  <2> QED BY <1>1, <2>1, <2>2, <2>3, <2>4, <2>5, <2>6, WriteIsExact, ZenonT(30) DEF ClientStep
<1>2. ASSUME NEW d \in Uploads, CommitStep(d) PROVE ExactInv'
  <2>1. /\ taken' = taken
        /\ \A e \in Uploads : draft'[e] = draft[e] \/ draft'[e].state = "gone"
        /\ \/ reader' = reader
           \/ /\ draft' = draft /\ lock[d] # <<>>
              /\ reader' = [reader EXCEPT ![Committer] =
                              [NotReading EXCEPT !.of = d, !.left = draft[d].files]]
    BY <1>2, CommitLeaves
  <2>2. \A e \in Uploads : Shrunk(e)
    BY <1>2, CommitShrinks
  <2>3. \A e \in Uploads : Steady(e)
    BY <2>1, <2>2 DEF Steady, Shrunk
  <2>4. CASE reader' = reader
    BY <1>s, <2>3, <2>4
  <2>5. CASE /\ draft' = draft /\ lock[d] # <<>>
             /\ reader' = [reader EXCEPT ![Committer] =
                             [NotReading EXCEPT !.of = d, !.left = draft[d].files]]
    <3>1. draft[d].state # "new" /\ Committer \in Reconcilers
      BY <2>5 DEF CapturesInv, UploadInv, QueueInv, Reconcilers
    <3>2. \A e \in Uploads : ReadInv(e)'
      BY <1>i, <2>1, <2>5, <3>1, BeginningReads, ZenonT(30)
    <3> QED BY <1>i, <2>3, <3>2, SteadySize, ZenonT(30) DEF ExactInv
  <2> QED BY <2>1, <2>4, <2>5
<1>3. ASSUME NEW d \in Uploads, EndStep(d) PROVE ExactInv'
  <2>1. ASSUME DiscardEnds(d) PROVE ExactInv'
    BY <1>d, <2>1 DEF DiscardEnds, Close
  <2>2. ASSUME DeleteRemoves(d) \/ DeleteForgets(d) PROVE ExactInv'
    BY <1>u, <2>2 DEF DeleteRemoves, DeleteForgets
  <2> QED BY <1>3, <2>1, <2>2 DEF EndStep
<1>4. ASSUME NEW r \in Reconcilers, ReconcileStep(r) PROVE ExactInv'
  <2>1. ASSUME NEW f \in Files, ReconcileNext(r, f) PROVE ExactInv'
    <3> DEFINE rd == reader[r]
               new == IF f \in disk[rd.of].files THEN [rd EXCEPT !.left[f] = 0] ELSE [rd EXCEPT !.gone = f]
    <3>1. UNCHANGED <<draft, lock, taken>> /\ rd.left[f] > 0 /\ reader' = [reader EXCEPT ![r] = new]
      BY <2>1 DEF ReconcileNext
    <3>2. rd \in Readings
      BY <1>e
    <3>3. reader'[r] = new /\ \A x \in Reconcilers \ {r} : reader'[x] = reader[x]
      BY <1>e, <3>1
    <3>4. \A e \in Uploads : Steady(e)
      BY <3>1 DEF Steady, Busy
    <3>5. ASSUME NEW e \in Uploads PROVE ReadInv(e)'
      <4>1. CASE rd.of # e
        <5>1. new.of = rd.of
          BY <3>2 DEF Readings
        <5> QED BY <1>i, <3>3, <3>4, <4>1, <5>1, SteadyReads, ZenonT(30)
      <4>2. CASE rd.of = e
        <5>1. draft[e].state # "new" /\ (Live(e) => e \in taken \/ Finds(e, rd))
          BY <1>i, <4>2 DEF ReadInv
        <5>2. Live(e) => e \in taken \/ Accounted(e) \subseteq disk[e].files
          BY DEF CapturesInv, UploadInv, StoredInv
        <5>3. ASSUME Live(e), e \notin taken PROVE Finds(e, new)
          <6>1. f \in disk[rd.of].files /\ rd.gone = Nothing
            BY <3>1, <4>2, <5>1, <5>2, <5>3, ZenonT(30) DEF Finds
          <6>2. /\ new.gone = Nothing
                /\ \A g \in Files : new.left[g] = IF g = f THEN 0 ELSE rd.left[g]
            BY <3>2, <6>1 DEF Readings
          <6>3. ~(0 > 0)
            BY SMT
          <6> HIDE DEF new
          <6> QED BY <5>1, <5>3, <6>2, <6>3, ZenonT(30) DEF Finds
        <5> HIDE DEF new
        <5>4. Live(e)' => e \in taken' \/ Finds(e, reader[r])'
          BY <3>1, <3>3, <5>3 DEF Live, Finds, Accounted
        <5>5. ASSUME NEW x \in Reconcilers, x # r, reader'[x].of = e
              PROVE Live(e)' => e \in taken' \/ Finds(e, reader[x])'
          <6>1. reader'[x] = reader[x] /\ draft' = draft /\ taken' = taken
            BY <3>1, <3>3, <5>5
          <6>2. Live(e) => e \in taken \/ Finds(e, reader[x])
            BY <1>i, <5>5, <6>1 DEF ReadInv
          <6> QED BY <6>1, <6>2 DEF Live, Finds, Accounted
        <5> QED BY <3>1, <5>1, <5>4, <5>5, ZenonT(30) DEF ReadInv
      <4> QED BY <4>1, <4>2
    <3> QED BY <1>i, <3>4, <3>5, SteadySize, ZenonT(30) DEF ExactInv
  <2>2. ASSUME GetDraftReturns(r) PROVE ExactInv'
    <3>1. UNCHANGED <<draft, lock, taken>> /\ reader' = [reader EXCEPT ![r] = NotReading]
      BY <2>2 DEF GetDraftReturns
    <3>2. \A e \in Uploads : NotReading.of # e
      BY UploadsAssumption DEF NotReading
    <3>3. \A e \in Uploads : Steady(e)
      BY <3>1 DEF Steady, Busy
    <3>4. \A e \in Uploads : \A x \in Reconcilers : reader'[x] = reader[x] \/ reader'[x].of # e
      BY <1>e, <3>1, <3>2
    <3> QED BY <1>i, <3>3, <3>4, SteadySize, SteadyReads DEF ExactInv
  <2>3. ASSUME ReconcileDrops(r) PROVE ExactInv'
    <3> DEFINE d == reader[r].of
               f == reader[r].gone
               l == reader[r].left[f]
               s == Max({0, draft[d].size - l})
               new == [reader[r] EXCEPT !.left[f] = 0, !.gone = Nothing]
    <3>1. /\ draft' = [draft EXCEPT ![d] = Booked(draft[d], f, 0, s)]
          /\ reader' = [reader EXCEPT ![r] = new]
          /\ UNCHANGED <<lock, taken>> /\ f # Nothing
      BY <2>3 DEF ReconcileDrops
    <3>2. reader[r] \in Readings /\ f \in Files
      BY <1>e, <3>1 DEF Readings
    <3>3. new.of = d /\ reader'[r] = new /\ \A x \in Reconcilers \ {r} : reader'[x] = reader[x]
      BY <1>e, <3>1, <3>2 DEF Readings
    <3>4. \A x \in Reconcilers : reader'[x].of = reader[x].of
      BY <3>3
    <3> HIDE DEF new
    <3>5. ASSUME NEW e \in Uploads, e = d PROVE SizeInv(e)' /\ ReadInv(e)'
      <4>1. draft[e].state # "new" /\ (Live(e) => e \in taken)
        BY <1>i, <3>1, <3>5 DEF ReadInv, Finds
      <4>2. draft'[e] = Booked(draft[e], f, 0, s)
        BY <1>e, <3>1, <3>5
      <4>3. s \in Int
        <5>1. draft[d].size \in Int /\ l \in 0..MaxFileBytes
          BY <1>e, <3>2, <3>5, ZenonT(30) DEF Entries, Readings
        <5>2. draft[d].size - l \in Int
          <6> HIDE DEF l, d
          <6> QED BY <5>1, BoundsAssumption, SMT
        <5> QED BY <5>2, MaxFact
      <4> HIDE DEF s, l, d, f
      <4>4. draft'[e].state = draft[e].state
        BY <3>2, <4>2, <4>3, DropFact, ZenonT(30)
      <4> QED BY <3>1, <4>1, <4>4 DEF SizeInv, ReadInv, Live
    <3>6. ASSUME NEW e \in Uploads, e # d PROVE SizeInv(e)' /\ ReadInv(e)'
      <4>1. draft'[e] = draft[e]
        BY <1>e, <3>1, <3>6
      <4>2. Steady(e)
        BY <3>1, <4>1 DEF Steady, Busy
      <4>3. \A x \in Reconcilers : reader'[x] = reader[x] \/ reader'[x].of # e
        BY <3>3, <3>6
      <4> QED BY <1>i, <4>2, <4>3, SteadySize, SteadyReads, ZenonT(30)
    <3> QED BY <3>5, <3>6 DEF ExactInv
  <2> QED BY <1>4, <2>1, <2>2, <2>3, ZenonT(30) DEF ReconcileStep
<1>5. ASSUME SweepStep PROVE ExactInv'
  BY <1>u, <1>5 DEF SweepStep, SweepLooks, SweepRemoves
<1>6. ASSUME NEW d \in Uploads, MarkerAges(d) \/ \E f \in Files : LoseFile(d, f)
      PROVE ExactInv'
  BY <1>u, <1>6 DEF MarkerAges, LoseFile
<1>7. ASSUME Restart PROVE ExactInv'
  <2>1. \A r \in Reconcilers : reader'[r] = NotReading
    BY <1>7 DEF Restart
  <2>2. \A e \in Uploads : NotReading.of # e
    BY UploadsAssumption DEF NotReading
  <2>3. \A e \in Uploads : draft'[e].state # "live"
    <3>1. NoDraft.state = "new" /\ Closed.state = "gone"
      BY <1>e, EntryFact DEF NoDraft, Closed
    <3>2. \A e \in Uploads : draft'[e] = NoDraft \/ draft'[e] = Closed
      BY <1>7 DEF Restart
    <3> QED BY <3>1, <3>2
  <2> QED BY <2>1, <2>2, <2>3 DEF ExactInv, SizeInv, ReadInv, Live
<1>8. ASSUME UNCHANGED captureVars PROVE ExactInv'
  BY <1>u, <1>8 DEF captureVars
<1> QED BY <1>1, <1>2, <1>3, <1>4, <1>5, <1>6, <1>7, <1>8, WriteIsExact, ZenonT(30) DEF CapturesNext

\* Initially nothing is accounted for.
LEMMA ExactInit == CapturesInit => ExactInv
<1> SUFFICES ASSUME CapturesInit, NEW e \in Uploads PROVE SizeInv(e) /\ ReadInv(e)
  BY DEF ExactInv
<1>1. draft[e].state = "new"
  BY DEF CapturesInit, NoDraft
<1>2. \A r \in Reconcilers : reader[r].of # e
  BY UploadsAssumption DEF CapturesInit, NotReading
<1> QED BY <1>1, <1>2 DEF SizeInv, ReadInv, Live

\* The size of a live draft is the sum over its files, however its writes and
\* reconciliations interleave, while nothing takes files from under it; and
\* every draft is within both ceilings.
THEOREM AccountingIsExactHolds == CapturesSpec => []AccountingIsExact
<1>1. /\ CapturesTypeOK /\ OneReplica /\ CapturesInv /\ CeilingsInv /\ ExactInv
      /\ [CapturesNext]_captureVars
      => CeilingsInv' /\ ExactInv'
  BY CeilingsStep, ExactStep
<1>2. CeilingsInv /\ ExactInv => AccountingIsExact
  BY DEF CeilingsInv, CeilingInv, WithinCeilings, ExactInv, SizeInv, AccountingIsExact
<1> QED BY <1>1, <1>2, CeilingsInit, ExactInit, CapturesInductive, PTL DEF CapturesSpec

=============================================================================
