------------------------------- MODULE Archive -------------------------------
(***************************************************************************)
(* The node's share of the public archive: the canonical pin set fetched   *)
(* page by page (syncPublicPinSet), the plan made from it under the        *)
(* operator's limits (planPublicPins), the pins acquired and the obsolete  *)
(* archive owners released (reconcileDesiredPins), the commitments offered *)
(* for what is held (refreshCommitments) and the backend's view of them    *)
(* (refreshStatus, refreshRewards).                                        *)
(*                                                                         *)
(* Every one of these is a task of some runner: a scheduler loop, the      *)
(* startup, or an operator's action in the GUI.  A step is what happens    *)
(* between two awaits.  The backend may replace the set it serves between  *)
(* any two requests; one with `modern' answers carries a generation, the   *)
(* hash of the set, which is modelled by the set itself.  The ledger of    *)
(* pins (ManagedPins) appears here as the set of archive owners it holds.  *)
(***************************************************************************)
EXTENDS Naturals, FiniteSets, Sequences, Functions

CONSTANTS
  Runners,     \* whoever runs a task
  Records,     \* records of the canonical set, a CID each
  Rank,        \* their order in a plan: storage class, role, object, version, CID
  Size,        \* sizeBytes, 0 when the backend does not know it
  Allowed,     \* the records that the operator's class filters admit
  MaxCids, MaxBytes,  \* maxPinnedCids, maxPinnedBytes
  Rewardable,  \* the records that are rewardable CIDs
  Versions,    \* the sets that the backend may serve
  Listing,     \* the order in which it lists each of them
  MaxTroubles  \* how many calls fail, sets change, times pass and people intervene,
               \* all together

VARIABLES
  task,        \* what each runner is doing
  served,      \* the backend: the set it serves, and whether it names a generation
  troubles,
  view,        \* publicPinSet, [set, complete, named: it has a generation]
  pinned, failed,     \* pinnedCids, failedCids
  owned,       \* the records whose archive owner is in the pin ledger
  committed,   \* the commitments that the backend has
  active,      \* activeCommitments
  fresh        \* which of latestPublicPinSetSyncAt, latestPinReconcileAt and
               \* latestHeartbeatAt are recent

archiveVars == <<served, view, pinned, failed, owned, committed, active>>

ASSUME ArchiveAssumption ==
  /\ IsFiniteSet(Records)
  /\ Rank \in [Records -> Nat] /\ \A x, y \in Records : Rank[x] = Rank[y] => x = y
  /\ Size \in [Records -> Nat] /\ MaxCids \in Nat /\ MaxBytes \in Nat
  /\ Allowed \subseteq Records /\ Rewardable \subseteq Records
  /\ Versions \subseteq SUBSET Records
  /\ \A v \in Versions : /\ Listing[v] \in Seq(v) /\ Len(Listing[v]) = Cardinality(v)
                         /\ v = {Listing[v][i] : i \in 1..Len(Listing[v])}

NoSet == [set |-> {}, complete |-> FALSE, named |-> FALSE]
Idle == [todo |-> <<>>, at |-> "idle", left |-> {}, ok |-> {}, bad |-> {},
         pages |-> <<>>, first |-> {}]
Stamps == {"sync", "reconcile", "heartbeat"}

ArchiveInit ==
  /\ task = [r \in Runners |-> Idle]
  /\ served \in [set : Versions, modern : BOOLEAN]
  /\ troubles = 0
  /\ view = NoSet /\ pinned = {} /\ failed = {} /\ owned = {}
  /\ committed = {} /\ active = {} /\ fresh = {}

ArchiveTypeOK ==
  /\ view.set \subseteq Records /\ pinned \subseteq Records /\ failed \subseteq Records
  /\ owned \subseteq Records /\ committed \subseteq Rewardable /\ active \subseteq Rewardable
  /\ fresh \subseteq Stamps
  /\ \A r \in Runners : task[r].left \subseteq Records /\ task[r].ok \subseteq Records

-----------------------------------------------------------------------------
(* The plan. *)

\* usedBytes: the bytes of a set of records.
Bytes(S) == Cardinality(UNION {{x} \X (1..Size[x]) : x \in S})

\* One turn of planPublicPins' loop; past maxCids nothing more is selected.
Select_BelowLimit(chosen, x) ==
  IF \/ Cardinality(chosen) >= MaxCids
     \/ Size[x] > 0 /\ Bytes(chosen) + Size[x] >= MaxBytes
    THEN chosen
    ELSE chosen \cup {x}
Select(chosen, x) ==
  IF \/ Cardinality(chosen) >= MaxCids
     \/ Size[x] > 0 /\ Bytes(chosen) + Size[x] > MaxBytes
    THEN chosen
    ELSE chosen \cup {x}

\* The loop, in the order of the ranks: its last turn is for the last record.
planned[S \in SUBSET Records] ==
  IF S = {} THEN {}
  ELSE LET last == CHOOSE x \in S : \A y \in S : Rank[y] <= Rank[x]
       IN Select(planned[S \ {last}], last)

planPublicPins == [S \in SUBSET Records |-> planned[S \cap Allowed]]

\* desiredCids: stored together with the set it is planned from.
Desired == planPublicPins[view.set]

-----------------------------------------------------------------------------
(* The steps of a task. *)

FirstStep(kind) ==
  CASE kind = "register" -> "register"
    [] kind = "policy" -> "policy"
    [] kind = "sync" -> "sync"
    [] kind = "pin" -> "pinning"
    [] kind = "commitments" -> "committing"
    [] kind = "heartbeat" -> "report"
    [] kind = "beat" -> "send"
    [] kind = "status" -> "status"
    [] kind = "rewards" -> "rewards"
    [] OTHER -> "doctor"

\* What a task reads before its first await: reconcileDesiredPins() the plan,
\* refreshCommitments() what is rewardable, planned and pinned.
Reads(kind) ==
  CASE kind = "pin" -> Desired
    [] kind = "commitments" -> Rewardable \cap Desired \cap pinned
    [] OTHER -> {}

Started(todo) ==
  IF todo = <<>> THEN [Idle EXCEPT !.at = "returned"]
  ELSE [Idle EXCEPT !.todo = todo, !.at = FirstStep(Head(todo)), !.left = Reads(Head(todo))]

\* The record of S that comes first in a plan.
Foremost(S) == {x \in S : \A y \in S : Rank[x] <= Rank[y]}

At(r, step) == task[r].at = step
Become(r, new) == task' = [task EXCEPT ![r] = new]
Done(r) == Become(r, Started(Tail(task[r].todo)))
Trouble == troubles < MaxTroubles /\ troubles' = troubles + 1
Threw(r) == [Idle EXCEPT !.at = "threw"]
\* A call of the backend or of Kubo that fails, and the exception it raises.
Fails(r) == Trouble /\ Become(r, Threw(r)) /\ UNCHANGED <<archiveVars, fresh>>

\* What a request for the page at an offset answers now.
Page(offset) == Listing[served.set][offset + 1]

\* syncPublicPinSet(): the first page fixes the count and the generation.
SyncFirst(r) ==
  /\ At(r, "sync")
  /\ \/ /\ Become(r, [task[r] EXCEPT !.at = "pages", !.first = served.set,
                        !.pages = IF served.set = {} THEN <<>> ELSE <<Page(0)>>])
        /\ UNCHANGED <<archiveVars, fresh, troubles>>
     \/ Fails(r)

\* A later page must be of the same count and generation.
SamePage_Count(r) == Cardinality(served.set) = Cardinality(task[r].first)
SamePage(r) ==
  /\ Cardinality(served.set) = Cardinality(task[r].first)
  /\ served.modern => served.set = task[r].first

SyncPage(r) ==
  /\ At(r, "pages") /\ Len(task[r].pages) < Cardinality(task[r].first)
  /\ \/ /\ Become(r, IF SamePage(r)
                       THEN [task[r] EXCEPT !.pages = Append(@, Page(Len(@)))]
                       ELSE Threw(r))
        /\ UNCHANGED <<archiveVars, fresh, troubles>>
     \/ Fails(r)

\* Every page is here: duplicates are refused, and a generation is confirmed
\* by one more request.
SyncConfirm(r) ==
  /\ At(r, "pages") /\ Len(task[r].pages) = Cardinality(task[r].first)
  /\ \/ /\ Become(r, IF /\ Cardinality(Range(task[r].pages)) = Len(task[r].pages)
                        /\ served.modern => SamePage(r)
                       THEN [task[r] EXCEPT !.at = "synced"]
                       ELSE Threw(r))
        /\ UNCHANGED <<archiveVars, fresh, troubles>>
     \/ Fails(r)

\* The one update of publicPinSet, desiredCids and their evidence.
SyncStores(r) ==
  /\ At(r, "synced")
  /\ view' = [set |-> Range(task[r].pages), complete |-> TRUE,
              named |-> served.modern]
  /\ fresh' = fresh \cup {"sync"}
  /\ Done(r)
  /\ UNCHANGED <<served, troubles, pinned, failed, owned, committed, active>>

\* reconcileDesiredPins(): ManagedPins.acquire() of the next record, with the HTTP fallback: the owner
\* is journaled before the pin, so that a failure may come before or after it.
ReconcilePins(r) ==
  /\ At(r, "pinning") /\ task[r].left # {}
  /\ \E x \in Foremost(task[r].left) :
     \/ /\ owned' = owned \cup {x}
        /\ Become(r, [task[r] EXCEPT !.left = @ \ {x}, !.ok = @ \cup {x}])
        /\ UNCHANGED troubles
     \/ /\ Trouble
        /\ owned' \in {owned, owned \cup {x}}
        /\ Become(r, [task[r] EXCEPT !.left = @ \ {x}, !.bad = @ \cup {x}])
  /\ UNCHANGED <<served, view, pinned, failed, committed, active, fresh>>

\* Only a complete set with a generation authorises a release.
MayRelease == view.complete /\ view.named

\* The results are recorded; then what is wanted is read again.
ReconcileRecords(r) ==
  /\ At(r, "pinning") /\ task[r].left = {}
  /\ pinned' = task[r].ok /\ failed' = task[r].bad
  /\ fresh' = fresh \cup {"reconcile"}
  /\ IF MayRelease THEN Become(r, [task[r] EXCEPT !.at = "wanted", !.ok = Desired, !.bad = {}])
                   ELSE Done(r)
  /\ UNCHANGED <<served, troubles, view, owned, committed, active>>

\* managed.reconcile(), and the archive owners that nothing wants any more.
ReleaseLooks(r) ==
  /\ At(r, "wanted")
  /\ Become(r, [task[r] EXCEPT !.at = "releasing", !.left = owned \ task[r].ok])
  /\ UNCHANGED <<archiveVars, fresh, troubles>>

\* ManagedPins.release() of one of them, in the order of the ledger, which may be
\* any; a failure does not stop the others.
ReleaseOne(r) ==
  /\ At(r, "releasing") /\ task[r].left # {}
  /\ \E x \in task[r].left :
     \/ /\ owned' = owned \ {x}
        /\ Become(r, [task[r] EXCEPT !.left = @ \ {x}])
        /\ UNCHANGED troubles
     \/ /\ Trouble
        /\ owned' \in {owned, owned \ {x}}
        /\ Become(r, [task[r] EXCEPT !.left = @ \ {x}, !.bad = @ \cup {x}])
  /\ UNCHANGED <<served, view, pinned, failed, committed, active, fresh>>

ReleaseEnds(r) ==
  /\ At(r, "releasing") /\ task[r].left = {}
  /\ IF task[r].bad = {} THEN Done(r) ELSE Become(r, Threw(r))
  /\ UNCHANGED <<archiveVars, fresh, troubles>>

\* refreshCommitments(): the probe and createCommitment() for one CID.  A CID that cannot be
\* retrieved is skipped; a refused commitment ends the task, and may yet have
\* reached the backend.
CommitOne(r) ==
  /\ At(r, "committing") /\ task[r].left # {}
  /\ \E x \in task[r].left :
     \/ /\ committed' = committed \cup {x}
        /\ Become(r, [task[r] EXCEPT !.left = @ \ {x}, !.ok = @ \cup {x}])
        /\ UNCHANGED troubles
     \/ Trouble /\ UNCHANGED committed /\ Become(r, [task[r] EXCEPT !.left = @ \ {x}])
     \/ Trouble /\ committed' \in {committed, committed \cup {x}} /\ Become(r, Threw(r))
  /\ UNCHANGED <<served, view, pinned, failed, owned, active, fresh>>

CommitRecords(r) ==
  /\ At(r, "committing") /\ task[r].left = {}
  /\ active' = task[r].ok
  /\ Done(r)
  /\ UNCHANGED <<served, troubles, view, pinned, failed, owned, committed, fresh>>

\* refreshStatus(): the backend's commitments replace the local ones.
StatusFetches(r) ==
  /\ At(r, "status")
  /\ \/ Become(r, [task[r] EXCEPT !.at = "statusStores", !.ok = committed])
        /\ UNCHANGED <<archiveVars, fresh, troubles>>
     \/ Fails(r)

StatusStores(r) ==
  /\ At(r, "statusStores")
  /\ active' = task[r].ok
  /\ Done(r)
  /\ UNCHANGED <<served, troubles, view, pinned, failed, owned, committed, fresh>>

\* refreshRewards(): nothing here depends on it.
RewardsFetched(r) ==
  /\ At(r, "rewards")
  /\ \/ Done(r) /\ UNCHANGED <<archiveVars, fresh, troubles>>
     \/ Fails(r)

\* runDoctor(): its probes only report, and so do failures of the status and
\* the rewards that it fetches after them.
DoctorProbes(r) ==
  /\ At(r, "doctor")
  /\ Done(r)
  /\ UNCHANGED <<archiveVars, fresh, troubles>>

ArchiveStep(r) ==
  \/ SyncFirst(r) \/ SyncPage(r) \/ SyncConfirm(r) \/ SyncStores(r)
  \/ ReconcilePins(r) \/ ReconcileRecords(r)
  \/ ReleaseLooks(r) \/ ReleaseOne(r) \/ ReleaseEnds(r)
  \/ CommitOne(r) \/ CommitRecords(r)
  \/ StatusFetches(r) \/ StatusStores(r) \/ RewardsFetched(r) \/ DoctorProbes(r)

\* The backend replaces the set it serves.
ServeAnother ==
  /\ Trouble
  /\ \E v \in Versions : served' = [served EXCEPT !.set = v]
  /\ UNCHANGED <<task, view, pinned, failed, owned, committed, active, fresh>>

-----------------------------------------------------------------------------
(* Properties. *)

\* A set that may take pins away was served whole: with a generation, the
\* stored set is one the backend had at one moment, however the pages of two
\* sets were interleaved (syncPublicPinSet's checks of count, generation and
\* confirmation; "A partial first page must never be treated as the canonical
\* archive").
RemovalsFromWhole == MayRelease => view.set \in Versions

\* The plan keeps to the operator's limits and wastes none of them: what is
\* left out is refused by the filters, or did not fit beside the records that
\* go before it (planPublicPins).
PlanIsGreedy ==
  /\ Cardinality(Desired) <= MaxCids /\ Bytes(Desired) <= MaxBytes
  /\ \A x \in (view.set \cap Allowed) \ Desired :
       LET before == {y \in Desired : Rank[y] < Rank[x]} IN
         \/ Cardinality(before) >= MaxCids
         \/ Size[x] > 0 /\ Bytes(before) + Size[x] > MaxBytes

\* An archive owner is given up only when the plan of that moment does not
\* want the record: the plan that reconcileDesiredPins compares with is not
\* replaced under it.
WantedIsKept == [][\A x \in owned \ owned' : x \notin Desired]_<<owned, view>>

==============================================================================
