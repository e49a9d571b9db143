-------------------------- MODULE NodeRuntimeProofs --------------------------
(***************************************************************************)
(* The running node, for any records, sets, listings, limits and requests, *)
(* and any number of failures and restarts.                                *)
(*                                                                         *)
(* None of the properties is inductive.  What holds them together is the   *)
(* ActionLock: whoever is in the middle of a task has it, so that nobody   *)
(* replaces the plan between the steps of a release, or the set between    *)
(* the pages of a synchronization; and a refresh of the gate, which runs   *)
(* beside the tasks, never has a better lease than the last one earned.    *)
(*                                                                         *)
(* The last section is about the dispatch of jobs, which has a state of    *)
(* its own.                                                                *)
(***************************************************************************)
EXTENDS NodeRuntime, JobDispatch, FiniteSetTheorems, TLAPS

\* A leaf is first-order reasoning unless it says otherwise.
USE Zenon

-----------------------------------------------------------------------------
(* The inductive invariant *)

Shaped(t) ==
  t \in [todo : {t.todo}, at : {t.at}, left : {t.left}, ok : {t.ok}, bad : {t.bad},
         pages : {t.pages}, first : {t.first}]

\* The awaits at which a task relies on what it has read.
Relying == {"renew", "pages", "synced", "wanted", "releasing"}
Plain(t) == Shaped(t) /\ t.at \notin Relying

\* The pages are the first records of the listing of one set, and at the end
\* all of them.
Listed(t) ==
  /\ Len(t.pages) <= Cardinality(t.first)
  /\ \A i \in 1..Len(t.pages) : t.pages[i] = Listing[t.first][i]
  /\ t.at = "synced" => Len(t.pages) = Cardinality(t.first)

TaskInv(t) ==
  /\ Shaped(t)
  /\ t.at = "renew" => t.ok = {}
  /\ t.at \in {"pages", "synced"} => /\ t.first \in Versions /\ t.pages \in Seq(Records)
                                     /\ served.modern => Listed(t)
  /\ t.at = "wanted" => t.ok = Desired
  /\ t.at = "releasing" => t.left \cap Desired = {}

\* Whoever is not idle has the lock.
LockInv ==
  /\ task = [r \in Runners |-> task[r]]
  /\ \A r \in Runners : TaskInv(task[r]) /\ (task[r].at # "idle" => lock = r)

ViewInv ==
  /\ served \in [set : Versions, modern : BOOLEAN]
  /\ view.set \subseteq Records /\ (view.named => view.set \in Versions)

\* What the console shows is all there, and nothing of it has failed.
Whole(shown) == shown.desired \subseteq shown.pinned /\ shown.failed = {}

\* What a refresh has read, and what it has decided.
KuboFacts(f) ==
  /\ f.live \/ f.graced => f.earned >= 2
  /\ f.held => Whole(f.shown)
WriteFacts(f) ==
  /\ f.state \in Eligible => f.earned >= 2
  /\ f.state = "CONTRIBUTING" => Whole(f.shown)

\* A refresh of the gate between its snapshot and its end.
RefreshInv(f) ==
  \/ f = NoRefresh
  \/ /\ f \in [stage : {"kubo"}, held : BOOLEAN, policy : {f.policy}, verified : {f.verified},
               lease : 0..earned, live : BOOLEAN, graced : BOOLEAN, earned : 0..3, shown : {f.shown}]
     /\ KuboFacts(f)
  \/ /\ f \in [stage : {"write"}, lease : 0..earned, held : BOOLEAN, state : {f.state},
               earned : 0..3, shown : {f.shown}]
     /\ WriteFacts(f)

GateInv ==
  /\ earned \in 0..3
  /\ participation \in [state : {participation.state}, lease : 0..earned,
                        verified : {participation.verified}]
  /\ refreshing = [p \in Runners \cup Askers |-> refreshing[p]]
  /\ \A p \in Runners \cup Askers : RefreshInv(refreshing[p])

Inv == LockInv /\ ViewInv /\ GateInv

-----------------------------------------------------------------------------
(* Tasks *)

\* What becomes of a task is the business of its runner.
LEMMA BecomeFact ==
  ASSUME LockInv, NEW r \in Runners, NEW new, Become(r, new)
  PROVE  /\ task' = [q \in Runners |-> task'[q]] /\ task'[r] = new
         /\ \A q \in Runners \ {r} : task'[q] = task[q]
<1>1. task' = [q \in Runners |-> IF q = r THEN new ELSE task[q]]
  BY DEF LockInv, Become
<1> QED BY <1>1

\* A task at an await at which it relies on nothing can always be.
LEMMA PlainFact ==
  ASSUME NEW t, Plain(t)
  PROVE  TaskInv(t) /\ TaskInv(t)'
BY DEF Plain, TaskInv, Relying, Shaped

LEMMA IdleIsPlain == Plain(Idle)
BY DEF Plain, Shaped, Idle, Relying

\* While one runner is at work the others are idle.
LEMMA TaskMoves ==
  ASSUME LockInv, NEW r \in Runners, task[r].at # "idle", lock' = lock,
         NEW new, Become(r, new), TaskInv(new)'
  PROVE  LockInv'
<1>1. /\ task' = [q \in Runners |-> task'[q]] /\ task'[r] = new
      /\ \A q \in Runners \ {r} : task'[q] = task[q]
  BY BecomeFact
<1>2. lock = r
  BY DEF LockInv
<1>3. ASSUME NEW q \in Runners PROVE TaskInv(task[q])' /\ (task'[q].at # "idle" => lock' = q)
  <2>1. CASE q = r
    BY <1>1, <1>2, <2>1 DEF TaskInv, Shaped, Listed
  <2>2. CASE q # r
    <3>1. task'[q] = task[q] /\ task[q].at = "idle" /\ Shaped(task[q])
      BY <1>1, <1>2, <2>2 DEF LockInv, TaskInv
    <3> QED BY <3>1 DEF TaskInv, Shaped
  <2> QED BY <2>1, <2>2
<1> QED BY <1>1, <1>3 DEF LockInv

LEMMA PlainMoves ==
  ASSUME LockInv, NEW r \in Runners, task[r].at # "idle", lock' = lock,
         NEW new, Become(r, new), Plain(new)
  PROVE  LockInv'
<1>1. TaskInv(new)'
  BY PlainFact
<1> QED BY <1>1, TaskMoves

\* The operations of a task begin at awaits of that kind ...
LEMMA StartedPlain ==
  ASSUME NEW todo
  PROVE  Plain(Started(todo))
<1>1. FirstStep(Head(todo)) \notin Relying
  BY DEF FirstStep, Relying
<1>2. CASE todo = <<>>
  BY <1>2 DEF Started, Plain, Shaped, Idle, Relying
<1>3. CASE todo # <<>>
  BY <1>1, <1>3 DEF Started, Plain, Shaped, Idle
<1> QED BY <1>2, <1>3

\* ... and so does a task that is over.
LEMMA ThrewPlain ==
  ASSUME NEW r
  PROVE  Plain(Threw(r)) /\ Plain([Idle EXCEPT !.at = "refused"])
BY DEF Threw, Plain, Shaped, Idle, Relying

\* What a runner's next await is, in a task that goes on.
LEMMA GotoPlain ==
  ASSUME NEW t, Shaped(t), NEW step, step \notin Relying
  PROVE  Plain([t EXCEPT !.at = step])
BY DEF Plain, Shaped

\* The set of a listing.
LEMMA ListingFact ==
  ASSUME NEW v \in Versions
  PROVE  /\ v \subseteq Records /\ Listing[v] \in Seq(Records) /\ Cardinality(v) \in Nat
         /\ Len(Listing[v]) = Cardinality(v)
         /\ v = {Listing[v][i] : i \in 1..Len(Listing[v])}
BY ArchiveAssumption, SMT

\* The steps of syncPublicPinSet: SamePage and the confirmation keep the pages
\* to one set when there is a generation.
LEMMA SyncKeeps ==
  ASSUME LockInv, ViewInv, NEW r \in Runners, lock' = lock,
         SyncFirst(r) \/ SyncPage(r) \/ SyncConfirm(r)
  PROVE  LockInv' /\ ViewInv'
<1>0. task[r].at # "idle" /\ TaskInv(task[r]) /\ Shaped(task[r])
  BY DEF SyncFirst, SyncPage, SyncConfirm, At, LockInv, TaskInv
<1>1. UNCHANGED <<served, view>>
  BY DEF SyncFirst, SyncPage, SyncConfirm, Fails, archiveVars
<1>2. ViewInv'
  BY <1>1 DEF ViewInv
<1>3. CASE Become(r, Threw(r))
  BY <1>0, <1>2, <1>3, ThrewPlain, PlainMoves
<1>4. ASSUME SyncFirst(r), ~Become(r, Threw(r)) PROVE LockInv'
  <2>1. PICK new : new = [task[r] EXCEPT !.at = "pages", !.first = served.set,
                            !.pages = IF served.set = {} THEN <<>> ELSE <<Page(0)>>]
    OBVIOUS
  <2>2. /\ Shaped(new) /\ new.at = "pages" /\ new.first = served.set
        /\ new.pages = IF served.set = {} THEN <<>> ELSE <<Page(0)>>
    BY <1>0, <2>1 DEF Shaped
  <2>3. served.set \in Versions
    BY DEF ViewInv
  <2>4. CASE served.set = {}
    <3>1. Listed(new) /\ new.pages \in Seq(Records)
      BY <2>2, <2>3, <2>4, ListingFact, SMT DEF Listed
    <3>2. TaskInv(new)'
      BY <2>2, <2>3, <3>1 DEF TaskInv, Listed, Shaped
    <3> QED BY <1>0, <1>4, <2>1, <3>2, TaskMoves DEF SyncFirst, Fails
  <2>5. CASE served.set # {}
    <3>1. Len(Listing[served.set]) >= 1 /\ Listing[served.set] \in Seq(Records)
      BY <2>3, <2>5, ListingFact, SMT
    <3>2. Page(0) = Listing[served.set][1] /\ Page(0) \in Records
      BY <3>1, SMT DEF Page
    <3>3. new.pages \in Seq(Records) /\ Len(new.pages) = 1 /\ new.pages[1] = Listing[served.set][1]
      BY <2>2, <2>5, <3>2, SMT
    <3>4. Listed(new)
      BY <2>2, <2>3, <3>1, <3>3, ListingFact, SMT DEF Listed
    <3>5. TaskInv(new)'
      BY <2>2, <2>3, <3>3, <3>4 DEF TaskInv, Listed, Shaped
    <3> QED BY <1>0, <1>4, <2>1, <3>5, TaskMoves DEF SyncFirst, Fails
  <2> QED BY <2>4, <2>5
<1>5. ASSUME SyncPage(r), ~Become(r, Threw(r)) PROVE LockInv'
  <2>0. PICK t : t = task[r]
    OBVIOUS
  <2>1. PICK new : new = [t EXCEPT !.pages = Append(t.pages, Page(Len(t.pages)))]
    OBVIOUS
  <2>2. /\ Become(r, new) /\ SamePage(r)
        /\ t.at = "pages" /\ Len(t.pages) < Cardinality(t.first)
    BY <1>5, <2>0, <2>1 DEF SyncPage, Fails, At
  <2>3. /\ Shaped(new) /\ new.at = "pages" /\ new.first = t.first
        /\ new.pages = Append(t.pages, Page(Len(t.pages)))
    BY <1>0, <2>0, <2>1, <2>2 DEF Shaped
  <2>4. /\ t.pages \in Seq(Records) /\ t.first \in Versions /\ served.set \in Versions
        /\ Cardinality(served.set) = Cardinality(t.first)
    BY <1>0, <2>0, <2>2 DEF TaskInv, SamePage, ViewInv
  <2>5. /\ Len(t.pages) + 1 \in 1..Len(Listing[served.set])
        /\ Listing[served.set] \in Seq(Records)
    BY <2>2, <2>4, ListingFact, SMT
  <2>6. PICK x : x = Page(Len(t.pages))
    OBVIOUS
  <2>7. x = Listing[served.set][Len(t.pages) + 1] /\ x \in Records
    BY <2>5, <2>6, SMT DEF Page
  <2>8. /\ new.pages \in Seq(Records) /\ Len(new.pages) = Len(t.pages) + 1
        /\ \A i \in 1..Len(t.pages) : new.pages[i] = t.pages[i]
        /\ new.pages[Len(t.pages) + 1] = x
    BY <2>3, <2>4, <2>6, <2>7, SMT
  <2>9. ASSUME served.modern PROVE Listed(new)
    <3>1. Listed(t) /\ served.set = t.first
      BY <1>0, <2>0, <2>2, <2>9 DEF TaskInv, SamePage
    <3>2. \A i \in 1..Len(new.pages) : new.pages[i] = Listing[t.first][i]
      BY <2>4, <2>7, <2>8, <3>1, SMT DEF Listed
    <3>3. Len(new.pages) <= Cardinality(t.first)
      BY <2>2, <2>4, <2>8, ListingFact, SMT
    <3> QED BY <2>3, <3>2, <3>3 DEF Listed
  <2>10. TaskInv(new)'
    BY <1>1, <2>3, <2>4, <2>8, <2>9 DEF TaskInv, Listed, Shaped
  <2> QED BY <1>0, <2>2, <2>10, TaskMoves
<1>6. ASSUME SyncConfirm(r), ~Become(r, Threw(r)) PROVE LockInv'
  <2>1. PICK new : new = [task[r] EXCEPT !.at = "synced"]
    OBVIOUS
  <2>2. Become(r, new) /\ task[r].at = "pages" /\ Len(task[r].pages) = Cardinality(task[r].first)
    BY <1>6, <2>1 DEF SyncConfirm, Fails, At
  <2>3. Shaped(new) /\ new.at = "synced" /\ new.first = task[r].first /\ new.pages = task[r].pages
    BY <1>0, <2>1 DEF Shaped
  <2>4. /\ new.first \in Versions /\ new.pages \in Seq(Records)
        /\ served.modern => Listed(new)
    BY <1>0, <2>2, <2>3 DEF TaskInv, Listed
  <2>5. TaskInv(new)'
    BY <1>1, <2>3, <2>4 DEF TaskInv, Listed, Shaped
  <2> QED BY <1>0, <2>2, <2>5, TaskMoves
<1> QED BY <1>2, <1>3, <1>4, <1>5, <1>6

\* The stored set is the whole of the set that was listed.
LEMMA SyncStoresKeeps ==
  ASSUME LockInv, ViewInv, NEW r \in Runners, lock' = lock, SyncStores(r)
  PROVE  LockInv' /\ ViewInv'
<1>0. task[r].at = "synced" /\ TaskInv(task[r])
  BY DEF SyncStores, At, LockInv
<1>1. LockInv'
  BY <1>0, StartedPlain, PlainMoves DEF SyncStores, Done
<1>2. ASSUME served.modern PROVE Range(task[r].pages) \in Versions
  <2>0. PICK t : t = task[r]
    OBVIOUS
  <2>1. /\ Listed(t) /\ Len(t.pages) = Cardinality(t.first)
        /\ t.first \in Versions /\ t.pages \in Seq(Records)
    BY <1>0, <1>2, <2>0 DEF TaskInv, Listed
  <2>2. /\ t.first = {Listing[t.first][i] : i \in 1..Len(Listing[t.first])}
        /\ Len(Listing[t.first]) = Len(t.pages) /\ DOMAIN t.pages = 1..Len(t.pages)
    BY <2>1, ListingFact, SMT DEF Listed
  <2>3. Range(t.pages) = t.first
    BY <2>1, <2>2 DEF Range, Listed
  <2> QED BY <2>0, <2>1, <2>3
<1>3. Range(task[r].pages) \subseteq Records
  <2>1. task[r].pages \in Seq(Records)
    BY <1>0 DEF TaskInv
  <2> QED BY <2>1, SMT DEF Range
<1>4. view'.named = served.modern /\ view'.set = Range(task[r].pages) /\ served' = served
  BY DEF SyncStores
<1> QED BY <1>1, <1>2, <1>3, <1>4 DEF ViewInv

\* The releases of reconcileDesiredPins: the plan they compare with is still
\* the plan.
LEMMA ReleaseKeeps ==
  ASSUME LockInv, ViewInv, NEW r \in Runners, lock' = lock,
         ReconcileRecords(r) \/ ReleaseLooks(r) \/ ReleaseOne(r)
  PROVE  LockInv' /\ ViewInv'
<1>0. task[r].at # "idle" /\ TaskInv(task[r]) /\ Shaped(task[r])
  BY DEF ReconcileRecords, ReleaseLooks, ReleaseOne, At, LockInv, TaskInv
<1>1. UNCHANGED <<served, view>>
  BY DEF ReconcileRecords, ReleaseLooks, ReleaseOne, archiveVars
<1>2. ViewInv' /\ Desired' = Desired
  BY <1>1 DEF ViewInv, Desired
<1>3. ASSUME ReconcileRecords(r) PROVE LockInv'
  <2>1. CASE Done(r)
    BY <1>0, <2>1, StartedPlain, PlainMoves DEF Done
  <2>2. PICK new : new = [task[r] EXCEPT !.at = "wanted", !.ok = Desired, !.bad = {}]
    OBVIOUS
  <2>3. Shaped(new) /\ new.at = "wanted" /\ new.ok = Desired
    BY <1>0, <2>2 DEF Shaped
  <2>4. TaskInv(new)'
    BY <1>2, <2>3 DEF TaskInv, Shaped
  <2>5. CASE Become(r, new)
    BY <1>0, <2>4, <2>5, TaskMoves
  <2> QED BY <1>3, <2>1, <2>2, <2>5 DEF ReconcileRecords
<1>4. ASSUME ReleaseLooks(r) PROVE LockInv'
  <2>1. PICK new : new = [task[r] EXCEPT !.at = "releasing", !.left = owned \ task[r].ok]
    OBVIOUS
  <2>2. task[r].ok = Desired
    BY <1>0, <1>4 DEF ReleaseLooks, At, TaskInv
  <2>3. Shaped(new) /\ new.at = "releasing" /\ new.left = owned \ Desired
    BY <1>0, <2>1, <2>2 DEF Shaped
  <2>4. TaskInv(new)'
    BY <1>2, <2>3 DEF TaskInv, Shaped
  <2> QED BY <1>0, <1>4, <2>1, <2>4, TaskMoves DEF ReleaseLooks
<1>5. ASSUME ReleaseOne(r) PROVE LockInv'
  <2>1. task[r].at = "releasing" /\ task[r].left \cap Desired = {}
    BY <1>0, <1>5 DEF ReleaseOne, At, TaskInv
  <2>2. PICK x, new : /\ Become(r, new)
                      /\ \/ new = [task[r] EXCEPT !.left = @ \ {x}]
                         \/ new = [task[r] EXCEPT !.left = @ \ {x}, !.bad = @ \cup {x}]
    BY <1>5 DEF ReleaseOne
  <2>3. Shaped(new) /\ new.at = "releasing" /\ new.left = task[r].left \ {x}
    BY <1>0, <2>1, <2>2 DEF Shaped
  <2>4. new.left \cap Desired = {}
    BY <2>1, <2>3
  <2>5. TaskInv(new)'
    BY <1>2, <2>3, <2>4 DEF TaskInv, Shaped
  <2> QED BY <1>0, <2>2, <2>5, TaskMoves
<1> QED BY <1>2, <1>3, <1>4, <1>5

\* The other steps rely on nothing that a task has read.
LEMMA OthersKeep ==
  ASSUME LockInv, ViewInv, NEW r \in Runners, lock' = lock,
         \/ ReconcilePins(r) \/ ReleaseEnds(r) \/ CommitOne(r) \/ CommitRecords(r)
         \/ StatusFetches(r) \/ StatusStores(r) \/ RewardsFetched(r) \/ DoctorProbes(r)
  PROVE  LockInv' /\ ViewInv'
<1>0. task[r].at # "idle" /\ Shaped(task[r])
  BY DEF ReconcilePins, ReleaseEnds, CommitOne, CommitRecords, StatusFetches, StatusStores,
     RewardsFetched, DoctorProbes, At, LockInv, TaskInv
<1>1. UNCHANGED <<served, view>>
  BY DEF ReconcilePins, ReleaseEnds, CommitOne, CommitRecords, StatusFetches, StatusStores,
     RewardsFetched, DoctorProbes, Fails, archiveVars
<1>2. ViewInv'
  BY <1>1 DEF ViewInv
<1>3. CASE Done(r) \/ Become(r, Threw(r))
  BY <1>0, <1>2, <1>3, StartedPlain, ThrewPlain, PlainMoves DEF Done
<1>4. CASE ReconcilePins(r) /\ ~(Done(r) \/ Become(r, Threw(r)))
  <2>1. task[r].at = "pinning"
    BY <1>4 DEF ReconcilePins, At
  <2>2. PICK x, new : /\ Become(r, new)
                      /\ \/ new = [task[r] EXCEPT !.left = @ \ {x}, !.ok = @ \cup {x}]
                         \/ new = [task[r] EXCEPT !.left = @ \ {x}, !.bad = @ \cup {x}]
    BY <1>4 DEF ReconcilePins
  <2>3. Plain(new)
    BY <1>0, <2>1, <2>2 DEF Plain, Shaped, Relying
  <2> QED BY <1>0, <1>2, <2>2, <2>3, PlainMoves
<1>5. CASE CommitOne(r) /\ ~(Done(r) \/ Become(r, Threw(r)))
  <2>1. task[r].at = "committing"
    BY <1>5 DEF CommitOne, At
  <2>2. PICK x, new : /\ Become(r, new)
                      /\ \/ new = [task[r] EXCEPT !.left = @ \ {x}, !.ok = @ \cup {x}]
                         \/ new = [task[r] EXCEPT !.left = @ \ {x}]
    BY <1>5 DEF CommitOne
  <2>3. Plain(new)
    BY <1>0, <2>1, <2>2 DEF Plain, Shaped, Relying
  <2> QED BY <1>0, <1>2, <2>2, <2>3, PlainMoves
<1>6. CASE StatusFetches(r) /\ ~(Done(r) \/ Become(r, Threw(r)))
  <2>1. PICK new : new = [task[r] EXCEPT !.at = "statusStores", !.ok = committed]
    OBVIOUS
  <2>2. Plain(new)
    BY <1>0, <2>1 DEF Plain, Shaped, Relying
  <2> QED BY <1>0, <1>2, <1>6, <2>1, <2>2, PlainMoves DEF StatusFetches, Fails
<1> QED BY <1>3, <1>4, <1>5, <1>6 DEF ReleaseEnds, CommitRecords, StatusStores, RewardsFetched,
        DoctorProbes, Fails

LEMMA ArchiveKeeps ==
  ASSUME LockInv, ViewInv, NEW r \in Runners, lock' = lock, ArchiveStep(r)
  PROVE  LockInv' /\ ViewInv'
BY SyncKeeps, SyncStoresKeeps, ReleaseKeeps, OthersKeep DEF ArchiveStep

-----------------------------------------------------------------------------
(* The gate *)

Askable == Runners \cup Askers

KuboShape(f) ==
  f \in [stage : {"kubo"}, held : BOOLEAN, policy : {f.policy}, verified : {f.verified},
         lease : 0..earned, live : BOOLEAN, graced : BOOLEAN, earned : 0..3, shown : {f.shown}]

WriteShape(f) ==
  f \in [stage : {"write"}, lease : 0..earned, held : BOOLEAN, state : {f.state},
         earned : 0..3, shown : {f.shown}]

LEMMA RefreshCases ==
  ASSUME NEW f
  PROVE  RefreshInv(f) <=> \/ f = NoRefresh
                           \/ KuboShape(f) /\ KuboFacts(f)
                           \/ WriteShape(f) /\ WriteFacts(f)
BY DEF RefreshInv, KuboShape, WriteShape

\* One refresh goes on.
LEMMA RefreshMoves ==
  ASSUME GateInv, NEW p \in Askable, NEW f, refreshing' = [refreshing EXCEPT ![p] = f],
         RefreshInv(f), earned' = earned,
         participation' \in [state : {participation'.state}, lease : 0..earned,
                             verified : {participation'.verified}]
  PROVE  GateInv'
<1>1. refreshing' = [q \in Askable |-> IF q = p THEN f ELSE refreshing[q]]
  BY DEF GateInv, Askable
<1>2. refreshing' = [q \in Askable |-> refreshing'[q]]
  BY <1>1
<1>3. ASSUME NEW q \in Askable PROVE RefreshInv(refreshing[q])'
  <2>1. PICK g : g = refreshing'[q]
    OBVIOUS
  <2>2. RefreshInv(g)
    BY <1>1, <2>1 DEF GateInv, Askable
  <2> QED BY <2>1, <2>2 DEF RefreshInv, NoRefresh, KuboFacts, WriteFacts, Whole
<1> QED BY <1>2, <1>3 DEF GateInv, Askable

\* The snapshot: the lease in it was earned, so that one that is live or in its
\* grace is the sign of a heartbeat that had time left.
LEMMA ReadsKeeps ==
  ASSUME GateInv, NEW p \in Askable, RefreshReads(p), UNCHANGED <<participation, earned>>
  PROVE  GateInv'
<1>1. PICK held, live, graced :
        held = Held /\ live = (participation.lease = 3) /\ graced = (participation.lease >= 2)
  OBVIOUS
<1>2. held \in BOOLEAN /\ live \in BOOLEAN /\ graced \in BOOLEAN
  <2>1. held \in BOOLEAN
    BY <1>1 DEF Held
  <2>2. live \in BOOLEAN
    BY <1>1
  <2>3. graced \in BOOLEAN
    BY <1>1, SMT
  <2> QED BY <2>1, <2>2, <2>3
<1>3. (live => participation.lease = 3) /\ (graced => participation.lease >= 2)
  BY <1>1
<1>4. participation.lease \in 0..earned /\ earned \in 0..3
  BY DEF GateInv
<1>5. PICK f : f = [stage |-> "kubo", held |-> held, policy |-> policy,
                    verified |-> participation.verified, lease |-> participation.lease,
                    live |-> live, graced |-> graced, earned |-> earned, shown |-> Shown(p)]
  OBVIOUS
<1>6. KuboShape(f)
  BY <1>2, <1>4, <1>5 DEF KuboShape
<1>7. KuboFacts(f)
  <2>1. f.live \/ f.graced => f.earned >= 2
    BY <1>3, <1>4, <1>5, SMT
  <2>2. held => Whole(Shown(p))
    BY <1>1 DEF Held, Shown, NoArchive, Whole
  <2> QED BY <1>5, <2>1, <2>2 DEF KuboFacts
<1>8. RefreshInv(f)
  BY <1>6, <1>7, RefreshCases
<1>9. refreshing' = [refreshing EXCEPT ![p] = f]
  BY <1>1, <1>5 DEF RefreshReads
<1> QED BY <1>8, <1>9, RefreshMoves DEF GateInv

\* The decision: nobody is eligible without a lease that was live or in grace.
LEMMA DecidesKeeps ==
  ASSUME GateInv, NEW p \in Askable, RefreshDecides(p), UNCHANGED <<participation, earned>>
  PROVE  GateInv'
<1>0. PICK f : f = refreshing[p]
  OBVIOUS
<1>1. f.stage = "kubo" /\ RefreshInv(f)
  BY <1>0 DEF RefreshDecides, GateInv, Askable
<1>2. KuboShape(f) /\ KuboFacts(f)
  BY <1>1, RefreshCases, SMT DEF NoRefresh, WriteShape
<1>3. PICK kubo \in BOOLEAN :
        refreshing' = [refreshing EXCEPT ![p] =
          [stage |-> "write", lease |-> f.lease, held |-> (f.held /\ kubo /\ scheduling),
           state |-> Decision(f, f.held /\ kubo /\ scheduling), earned |-> f.earned,
           shown |-> ShownThen(p)]]
  BY <1>0 DEF RefreshDecides
<1>4. PICK held \in BOOLEAN : held = (f.held /\ kubo /\ scheduling)
  OBVIOUS
<1>5. Decision(f, held) \in Eligible => f.live \/ f.graced
  BY DEF Decision, Eligible
<1>6. PICK g : g = [stage |-> "write", lease |-> f.lease, held |-> held, state |-> Decision(f, held),
                    earned |-> f.earned, shown |-> ShownThen(p)]
  OBVIOUS
<1>7. WriteShape(g)
  BY <1>2, <1>6 DEF WriteShape, KuboShape
<1>8. WriteFacts(g)
  <2>1. g.state \in Eligible => g.earned >= 2
    BY <1>2, <1>5, <1>6 DEF KuboFacts
  <2>2. Decision(f, held) = "CONTRIBUTING" => held
    BY DEF Decision
  <2>3. g.state = "CONTRIBUTING" => Whole(g.shown)
    BY <1>0, <1>2, <1>4, <1>6, <2>2 DEF KuboFacts, ShownThen
  <2> QED BY <2>1, <2>3 DEF WriteFacts
<1>9. RefreshInv(g)
  BY <1>7, <1>8, RefreshCases
<1>10. refreshing' = [refreshing EXCEPT ![p] = g]
  BY <1>3, <1>4, <1>6
<1> QED BY <1>9, <1>10, RefreshMoves DEF GateInv

\* The write puts back a lease that is no better than the last one earned.
LEMMA WritesKeeps ==
  ASSUME GateInv, NEW p \in Askable, RefreshWrites(p), UNCHANGED earned
  PROVE  GateInv'
<1>0. PICK f : f = refreshing[p]
  OBVIOUS
<1>1. f.stage = "write" /\ RefreshInv(f)
  BY <1>0 DEF RefreshWrites, GateInv, Askable
<1>2. WriteShape(f)
  BY <1>1, RefreshCases, SMT DEF NoRefresh, KuboShape
<1>3. f.lease \in 0..earned
  BY <1>2 DEF WriteShape
<1>4. participation' = [participation EXCEPT !.state = f.state, !.lease = f.lease]
  BY <1>0 DEF RefreshWrites
<1>5. participation' \in [state : {participation'.state}, lease : 0..earned,
                          verified : {participation'.verified}]
  BY <1>3, <1>4 DEF GateInv
<1>6. RefreshInv(NoRefresh)
  BY RefreshCases
<1> QED BY <1>5, <1>6, RefreshMoves DEF RefreshWrites

LEMMA GateStays ==
  ASSUME GateInv, UNCHANGED <<participation, refreshing, earned>>
  PROVE  GateInv'
BY DEF GateInv, RefreshInv, NoRefresh, KuboFacts, WriteFacts, Whole

\* A task that awaits a refresh, and goes on when it has been written.
LEMMA AwaitKeeps ==
  ASSUME LockInv, ViewInv, GateInv, NEW r \in Runners, UNCHANGED <<lock, served, view, earned>>,
         \/ RefreshReads(r) /\ UNCHANGED <<task, participation>>
         \/ RefreshDecides(r) /\ UNCHANGED <<task, participation>>
         \/ RefreshWrites(r) /\ LockInv'
  PROVE  LockInv' /\ ViewInv' /\ GateInv'
<1>0. r \in Askable
  BY DEF Askable
<1>1. ViewInv'
  BY ZenonT(30) DEF ViewInv
<1>2. ASSUME UNCHANGED task PROVE LockInv'
  BY <1>2, SMT DEF LockInv, TaskInv, Shaped, Listed, Desired
<1>3. CASE RefreshReads(r) /\ UNCHANGED <<task, participation>>
  BY <1>0, <1>1, <1>2, <1>3, ReadsKeeps
<1>4. CASE RefreshDecides(r) /\ UNCHANGED <<task, participation>>
  BY <1>0, <1>1, <1>2, <1>4, DecidesKeeps
<1>5. CASE RefreshWrites(r) /\ LockInv'
  BY <1>0, <1>1, <1>5, WritesKeeps
<1> QED BY <1>3, <1>4, <1>5

\* The heartbeat: a lease is renewed only after a refresh that found everything
\* in order.
LEMMA BeatKeeps ==
  ASSUME LockInv, ViewInv, GateInv, NEW r \in Runners, lock' = lock,
         BeatReports(r) \/ BeatVerifies(r) \/ BeatSettles(r)
  PROVE  LockInv' /\ ViewInv' /\ GateInv'
<1>0. task[r].at # "idle" /\ Shaped(task[r])
  BY DEF BeatReports, BeatVerifies, BeatSettles, AwaitRefresh, At, LockInv, TaskInv
<1>1. UNCHANGED <<served, view, earned>>
  BY DEF BeatReports, BeatVerifies, BeatSettles, AwaitRefresh, archiveVars
<1>2. ASSUME Done(r) PROVE LockInv'
  BY <1>0, <1>2, StartedPlain, PlainMoves DEF Done
<1>3. ASSUME Goto(r, "send") PROVE LockInv'
  <2>1. Plain([task[r] EXCEPT !.at = "send"])
    BY <1>0, GotoPlain DEF Relying
  <2> QED BY <1>0, <1>3, <2>1, PlainMoves DEF Goto
<1>4. ASSUME refreshing[r].held,
             Become(r, [task[r] EXCEPT !.at = "renew",
                          !.ok = IF refreshing[r].held THEN {} ELSE Records])
      PROVE LockInv'
  <2>1. PICK new : new = [task[r] EXCEPT !.at = "renew",
                            !.ok = IF refreshing[r].held THEN {} ELSE Records]
    OBVIOUS
  <2>2. Shaped(new) /\ new.at = "renew" /\ new.ok = {}
    BY <1>0, <1>4, <2>1 DEF Shaped
  <2>3. TaskInv(new)'
    BY <2>2 DEF TaskInv, Shaped
  <2> QED BY <1>0, <1>4, <2>1, <2>3, TaskMoves
<1>5. CASE BeatReports(r)
  BY <1>1, <1>3, <1>5, AwaitKeeps DEF BeatReports, AwaitRefresh
<1>6. CASE BeatVerifies(r)
  BY <1>1, <1>2, <1>4, <1>6, AwaitKeeps DEF BeatVerifies, AwaitRefresh, Renews
<1>7. CASE BeatSettles(r)
  BY <1>1, <1>2, <1>7, AwaitKeeps DEF BeatSettles, AwaitRefresh
<1> QED BY <1>5, <1>6, <1>7

LEMMA BeatRenewsKeeps ==
  ASSUME LockInv, ViewInv, GateInv, NEW r \in Runners, lock' = lock, BeatRenews(r)
  PROVE  LockInv' /\ ViewInv' /\ GateInv'
<1>0. task[r].at = "renew" /\ task[r].ok = {} /\ Shaped(task[r])
  BY DEF BeatRenews, At, LockInv, TaskInv
<1>1. LockInv'
  <2>1. Plain([task[r] EXCEPT !.at = "settle"])
    BY <1>0, GotoPlain DEF Relying
  <2> QED BY <1>0, <2>1, PlainMoves DEF BeatRenews, Goto
<1>2. ViewInv'
  BY DEF BeatRenews, archiveVars, ViewInv
<1>3. earned' = 3 /\ earned \in 0..3
  BY <1>0 DEF BeatRenews, GateInv
<1>4. participation' \in [state : {participation'.state}, lease : 0..earned',
                          verified : {participation'.verified}]
  BY <1>3, SMT DEF BeatRenews
<1>5. ASSUME NEW p \in Askable PROVE RefreshInv(refreshing[p])'
  <2>1. PICK f : f = refreshing[p]
    OBVIOUS
  <2>2. RefreshInv(f) /\ f = refreshing'[p]
    BY <2>1 DEF GateInv, Askable, BeatRenews
  <2>3. \A n \in 0..earned : n \in 0..earned'
    BY <1>3, SMT
  <2>4. RefreshInv(f)'
    BY <2>2, <2>3 DEF RefreshInv, NoRefresh, KuboFacts, WriteFacts, Whole
  <2> QED BY <2>2, <2>4 DEF RefreshInv, NoRefresh, KuboFacts, WriteFacts, Whole
<1>6. GateInv'
  BY <1>3, <1>4, <1>5 DEF GateInv, Askable, BeatRenews
<1> QED BY <1>1, <1>2, <1>6

LEMMA GateKeeps ==
  ASSUME LockInv, ViewInv, GateInv, NEW r \in Runners, lock' = lock, GateStep(r)
  PROVE  LockInv' /\ ViewInv' /\ GateInv'
<1>1. CASE Register(r) \/ FetchPolicy(r) \/ BeatSends(r) \/ BeatStores(r)
  <2>0. task[r].at # "idle" /\ Shaped(task[r])
    BY <1>1 DEF Register, FetchPolicy, BeatSends, BeatStores, At, LockInv, TaskInv
  <2>1. ViewInv' /\ GateInv'
    BY <1>1, GateStays DEF Register, FetchPolicy, BeatSends, BeatStores, Fails, archiveVars, ViewInv,
       GateUnchanged
  <2>2. ASSUME NEW step \in {"accepted", "verify"}, Goto(r, step) PROVE LockInv'
    <3>1. Plain([task[r] EXCEPT !.at = step])
      BY <2>0, GotoPlain DEF Relying
    <3> QED BY <2>0, <2>2, <3>1, PlainMoves DEF Goto
  <2>3. ASSUME \/ Done(r) \/ Become(r, Threw(r)) \/ Become(r, [Idle EXCEPT !.at = "refused"])
        PROVE LockInv'
    BY <2>0, <2>3, StartedPlain, ThrewPlain, PlainMoves DEF Done
  <2> QED BY <1>1, <2>1, <2>2, <2>3 DEF Register, FetchPolicy, BeatSends, BeatStores, Fails
<1>2. CASE BeatReports(r) \/ BeatVerifies(r) \/ BeatSettles(r)
  BY <1>2, BeatKeeps
<1>3. CASE BeatRenews(r)
  BY <1>3, BeatRenewsKeeps
<1> QED BY <1>1, <1>2, <1>3 DEF GateStep

\* A lease ages with every copy of it.
LEMMA LeaseAgesKeeps ==
  ASSUME GateInv, NEW from \in {2, 3}, LeaseAges(from)
  PROVE  GateInv'
<1>1. earned = from /\ earned' = from - 1
  BY DEF LeaseAges, Older
<1>2. \A n \in 0..earned : Older(n, from) \in 0..earned'
  BY <1>1, SMT DEF Older
<1>3. participation' \in [state : {participation'.state}, lease : 0..earned',
                          verified : {participation'.verified}]
  BY <1>2 DEF LeaseAges, GateInv
<1>4. ASSUME NEW p \in Askable PROVE RefreshInv(refreshing[p])'
  <2>1. PICK f, g : f = refreshing[p] /\ g = refreshing'[p]
    OBVIOUS
  <2>2. RefreshInv(f) /\ g = IF f.stage = "none" THEN NoRefresh
                             ELSE [f EXCEPT !.lease = Older(@, from)]
    BY <2>1 DEF LeaseAges, GateInv, Askable
  <2>3. RefreshInv(g)'
    <3>1. CASE f = NoRefresh
      BY <2>2, <3>1 DEF RefreshInv, NoRefresh
    <3>2. CASE KuboShape(f) /\ KuboFacts(f)
      <4>1. g = [f EXCEPT !.lease = Older(f.lease, from)] /\ Older(f.lease, from) \in 0..earned'
        BY <1>2, <2>2, <3>2 DEF KuboShape
      <4>2. /\ g \in [stage : {"kubo"}, held : BOOLEAN, policy : {g.policy}, verified : {g.verified},
                      lease : 0..earned', live : BOOLEAN, graced : BOOLEAN, earned : 0..3,
                      shown : {g.shown}]
            /\ g.live = f.live /\ g.graced = f.graced /\ g.earned = f.earned
            /\ g.held = f.held /\ g.shown = f.shown
        BY <3>2, <4>1 DEF KuboShape
      <4>3. KuboFacts(g)
        BY <3>2, <4>2 DEF KuboFacts
      <4> QED BY <4>2, <4>3 DEF RefreshInv, KuboFacts, Whole
    <3>3. CASE WriteShape(f) /\ WriteFacts(f)
      <4>1. g = [f EXCEPT !.lease = Older(f.lease, from)] /\ Older(f.lease, from) \in 0..earned'
        BY <1>2, <2>2, <3>3 DEF WriteShape
      <4>2. /\ g \in [stage : {"write"}, lease : 0..earned', held : BOOLEAN, state : {g.state},
                      earned : 0..3, shown : {g.shown}]
            /\ g.state = f.state /\ g.earned = f.earned /\ g.shown = f.shown
        BY <3>3, <4>1 DEF WriteShape
      <4>3. WriteFacts(g)
        BY <3>3, <4>2 DEF WriteFacts
      <4> QED BY <4>2, <4>3 DEF RefreshInv, WriteFacts, Eligible, Whole
    <3> QED BY <2>2, <3>1, <3>2, <3>3, RefreshCases
  <2> QED BY <2>1, <2>3 DEF RefreshInv, NoRefresh, KuboFacts, WriteFacts, Whole
<1>5. earned' \in 0..3
  BY <1>1, SMT
<1> QED BY <1>3, <1>4, <1>5 DEF GateInv, Askable, LeaseAges

\* What goes on beside the tasks.
LEMMA EnvironmentKeeps ==
  ASSUME Inv, Environment
  PROVE  Inv'
<1>0. UNCHANGED <<lock, task, view>>
  BY DEF Environment, runtimeVars, ServeAnother, GateEnvironment, Ask, LeaseAges, StampAges,
     archiveVars
<1>1. served' \in [set : Versions, modern : BOOLEAN] /\ served'.modern = served.modern
  BY DEF Environment, ServeAnother, GateEnvironment, Ask, LeaseAges, StampAges, archiveVars, Inv,
     ViewInv
<1>2. ViewInv'
  BY <1>0, <1>1, ZenonT(30) DEF Inv, ViewInv
<1>3. LockInv'
  BY <1>0, <1>1, SMT DEF Inv, LockInv, TaskInv, Shaped, Listed, Desired
<1>4. GateInv'
  <2>1. CASE ServeAnother /\ UNCHANGED gateVars
    BY <2>1, GateStays DEF gateVars, Inv
  <2>2. ASSUME NEW a \in Askers, Ask(a) PROVE GateInv'
    <3>1. a \in Askable
      BY DEF Askable
    <3> QED BY <2>2, <3>1, ReadsKeeps, DecidesKeeps, WritesKeeps DEF Ask, Inv
  <2>3. ASSUME NEW from \in {2, 3}, LeaseAges(from) PROVE GateInv'
    BY <2>3, LeaseAgesKeeps DEF Inv
  <2>4. ASSUME NEW stamp \in Stamps, StampAges(stamp) PROVE GateInv'
    BY <2>4, GateStays DEF StampAges, Inv
  <2> QED BY <2>1, <2>2, <2>3, <2>4 DEF Environment, GateEnvironment
<1> QED BY <1>2, <1>3, <1>4 DEF Inv

-----------------------------------------------------------------------------
(* The lock, the startup and the shutdown *)

\* A task begins or ends while everyone else is idle.
LEMMA AloneMoves ==
  ASSUME LockInv, NEW r \in Runners, \A q \in Runners \ {r} : task[q].at = "idle",
         NEW new, Become(r, new), Plain(new), new.at # "idle" => lock' = r
  PROVE  LockInv'
<1>1. /\ task' = [q \in Runners |-> task'[q]] /\ task'[r] = new
      /\ \A q \in Runners \ {r} : task'[q] = task[q]
  BY BecomeFact
<1>2. ASSUME NEW q \in Runners PROVE TaskInv(task[q])' /\ (task'[q].at # "idle" => lock' = q)
  <2>1. PICK t : t = task'[q]
    OBVIOUS
  <2>2. Plain(t) /\ (t.at # "idle" => lock' = q)
    BY <1>1, <2>1, ZenonT(30) DEF Plain, Relying, LockInv, TaskInv
  <2>3. TaskInv(t)'
    BY <2>2, PlainFact
  <2> QED BY <2>1, <2>2, <2>3 DEF TaskInv, Shaped, Listed
<1> QED BY <1>1, <1>2 DEF LockInv

LEMMA BeginKeeps ==
  ASSUME Inv, NEW r \in Runners, NEW todo, Begin(r, todo)
  PROVE  Inv'
<1>1. \A q \in Runners : task[q].at = "idle"
  BY RuntimeAssumption DEF Begin, Acquires, Inv, LockInv
<1>2. LockInv'
  BY <1>1, StartedPlain, AloneMoves DEF Begin, Inv
<1>3. ViewInv' /\ GateInv'
  BY GateStays DEF Begin, Inv, ViewInv, archiveVars, gateVars
<1> QED BY <1>2, <1>3 DEF Inv

LEMMA EndKeeps ==
  ASSUME Inv, NEW r \in Runners, Settled(r), Become(r, Idle),
         UNCHANGED <<archiveVars, participation, refreshing, earned>>
  PROVE  Inv'
<1>1. \A q \in Runners \ {r} : task[q].at = "idle"
  BY DEF Settled, Inv, LockInv
<1>2. LockInv'
  BY <1>1, IdleIsPlain, AloneMoves DEF Inv, Idle
<1>3. ViewInv' /\ GateInv'
  BY GateStays DEF Inv, ViewInv, archiveVars
<1> QED BY <1>2, <1>3 DEF Inv

\* A restart leaves nothing of the tasks and the refreshes.
LEMMA RestartKeeps ==
  ASSUME Inv, Restart
  PROVE  Inv'
<1>1. LockInv'
  <2>1. \A r \in Runners : task'[r] = Idle
    BY DEF Restart
  <2>2. TaskInv(Idle)' /\ Idle.at = "idle"
    BY IdleIsPlain, PlainFact DEF Idle
  <2>3. \A r \in Runners : TaskInv(task[r])' /\ task'[r].at = "idle"
    BY <2>1, <2>2 DEF TaskInv, Shaped, Listed
  <2>4. task' = [r \in Runners |-> task'[r]]
    BY DEF Restart
  <2> QED BY <2>3, <2>4 DEF LockInv
<1>2. ViewInv'
  BY DEF Inv, ViewInv, Restart, archiveVars
<1>3. GateInv'
  <2>1. refreshing' = [p \in Runners \cup Askers |-> refreshing'[p]]
    BY DEF Restart
  <2>2. \A p \in Runners \cup Askers : refreshing'[p] = NoRefresh
    BY DEF Restart
  <2>3. \A p \in Runners \cup Askers : RefreshInv(refreshing[p])'
    BY <2>2 DEF RefreshInv
  <2> QED BY <2>1, <2>3 DEF Inv, GateInv, Restart
<1> QED BY <1>1, <1>2, <1>3 DEF Inv

LEMMA StayKeeps ==
  ASSUME Inv, UNCHANGED <<task, lock, archiveVars, participation, refreshing, earned>>
  PROVE  Inv'
<1>1. LockInv'
  BY SMT DEF Inv, LockInv, TaskInv, Shaped, Listed, Desired, archiveVars
<1>2. ViewInv' /\ GateInv'
  BY GateStays DEF Inv, ViewInv, archiveVars
<1> QED BY <1>1, <1>2, ZenonT(30) DEF Inv

LEMMA StepKeeps ==
  ASSUME Inv, NEW r \in Runners, Step(r)
  PROVE  Inv'
<1>1. lock' = lock
  BY DEF Step, runtimeVars
<1>2. CASE ArchiveStep(r) /\ UNCHANGED gateVars
  BY <1>1, <1>2, ArchiveKeeps, GateStays DEF Inv, gateVars
<1>3. CASE GateStep(r)
  BY <1>1, <1>3, GateKeeps DEF Inv
<1> QED BY <1>2, <1>3 DEF Step

LEMMA InvInit == Init => Inv
<1> SUFFICES ASSUME Init PROVE Inv
  OBVIOUS
<1>1. LockInv
  <2>1. \A r \in Runners : task[r] = Idle
    BY DEF Init, ArchiveInit
  <2>2. TaskInv(Idle) /\ Idle.at = "idle"
    BY IdleIsPlain, PlainFact DEF Idle
  <2>3. task = [r \in Runners |-> task[r]]
    BY DEF Init, ArchiveInit
  <2> QED BY <2>1, <2>2, <2>3 DEF LockInv
<1>2. ViewInv
  BY DEF Init, ArchiveInit, ViewInv, NoSet
<1>3. GateInv
  <2>1. refreshing = [p \in Runners \cup Askers |-> refreshing[p]]
    BY DEF Init, GateInit
  <2>2. \A p \in Runners \cup Askers : RefreshInv(refreshing[p])
    BY DEF Init, GateInit, RefreshInv
  <2> QED BY <2>1, <2>2, SMT DEF Init, GateInit, GateInv
<1> QED BY <1>1, <1>2, <1>3 DEF Inv

LEMMA InvStep == Inv /\ [Next]_vars => Inv'
<1> SUFFICES ASSUME Inv, [Next]_vars PROVE Inv'
  OBVIOUS
<1>0. {"startup", "gui"} \subseteq Runners /\ Loops \subseteq Runners
  BY RuntimeAssumption DEF Loops
<1>1. CASE StartupBegins \/ GuiActs \/ \E l \in Loops : LoopTicks(l)
  BY <1>0, <1>1, BeginKeeps DEF StartupBegins, GuiActs, LoopTicks
<1>2. CASE StartupEnds \/ \E r \in Runners : TaskEnds(r)
  BY <1>0, <1>2, EndKeeps DEF StartupEnds, TaskEnds, gateVars
<1>3. CASE \E r \in Runners : Step(r)
  BY <1>3, StepKeeps
<1>4. CASE Sigterm \/ SchedulerStops \/ ShutdownStep
  BY <1>4, StayKeeps DEF Sigterm, SchedulerStops, ShutdownStep, gateVars
<1>5. CASE Restart
  BY <1>5, RestartKeeps
<1>6. CASE Environment
  BY <1>6, EnvironmentKeeps
<1>7. CASE UNCHANGED vars
  BY <1>7, StayKeeps DEF vars, gateVars, runtimeVars
<1> QED BY <1>1, <1>2, <1>3, <1>4, <1>5, <1>6, <1>7 DEF Next

LEMMA Invariance == Spec => []Inv
BY InvInit, InvStep, PTL DEF Spec

-----------------------------------------------------------------------------
(* The console *)

\* A worker is shown as ready exactly when a heartbeat offers its compute.
LEMMA WorkerFact ==
  ASSUME NEW answer \in WorkerAnswers,
         NEW kubo \in BOOLEAN
  PROVE  /\ detectWorker(answer).gpu \in BOOLEAN
         /\ (describeWorker(detectWorker(answer)) = "good") =
              ("compute.remoteJobs" \in buildCapabilities(detectWorker(answer), kubo))
<1>1. PICK w : w = detectWorker(answer)
  OBVIOUS
<1>2. w.gpu \in BOOLEAN
  BY <1>1 DEF detectWorker, WorkerAnswers
<1>3. (describeWorker(w) = "good") <=> (w.status = "ready" /\ w.gpu)
  BY <1>2 DEF describeWorker
<1>4. "compute.remoteJobs" \in buildCapabilities(w, kubo) <=> (w.status = "ready" /\ w.gpu)
  BY <1>2 DEF buildCapabilities
<1>5. (describeWorker(w) = "good") = ("compute.remoteJobs" \in buildCapabilities(w, kubo))
  BY <1>3, <1>4, SMT
<1> QED BY <1>1, <1>2, <1>5

\* Nothing comes before nothing.
LEMMA ConcatFact ==
  ASSUME NEW S, NEW s \in Seq(S), NEW t \in Seq(S)
  PROVE  s \o t \in Seq(S) /\ (s \o t = <<>> => s = <<>> /\ t = <<>>)
<1>1. s \o t \in Seq(S) /\ Len(s \o t) = Len(s) + Len(t)
  BY SMT
<1>2. s \o t = <<>> => Len(s) = 0 /\ Len(t) = 0
  BY <1>1, SMT
<1> QED BY <1>1, <1>2, SMT

\* The alerts of the console.
Severities == {"neutral", "good", "attention", "critical"}
Alerts == [id : {"backend", "kubo", "participation", "spatial", "pins"},
           severity : {"attention", "critical"}]

LEMMA RankFact ==
  ASSUME NEW severity \in Severities, NEW rank \in {2, 3}
  PROVE  /\ severityRank(severity) = rank => severity \in {"attention", "critical"}
         /\ severityRank("attention") = 2 /\ severityRank("critical") = 3
BY SMT DEF severityRank, SEVERITY_ORDER, Severities

\* There are none of the rank of attention only when the backend answers and
\* the gate needs none, and none of the highest only when Kubo answers.
LEMMA AlertsFact ==
  ASSUME NEW i, NEW rank \in {2, 3}
  PROVE  /\ alertsOfRank(i, rank) \in Seq(Alerts)
         /\ alertsOfRank(i, rank) = <<>> =>
              /\ rank = 2 => i.backend
              /\ rank = 3 => i.kubo
<1> DEFINE alert(id, severity, shown) ==
             IF shown /\ severityRank(severity) = rank THEN <<[id |-> id, severity |-> severity]>>
             ELSE <<>>
           a == alert("backend", "attention", ~i.backend)
           b == alert("kubo", "critical", ~i.kubo)
           c == alert("participation", describeParticipation(i.participation), TRUE)
           d == alert("spatial", describeWorker(i.worker), TRUE)
           e == alert("pins", "attention", buildArchive(i).needsAttention > 0)
<1>1. \A severity \in Severities :
        severityRank(severity) = rank => severity \in {"attention", "critical"}
  BY RankFact
<1>2. /\ describeParticipation(i.participation) \in Severities
      /\ describeWorker(i.worker) \in Severities
      /\ "attention" \in Severities /\ "critical" \in Severities
  BY DEF describeParticipation, describeWorker, Severities
<1>3. a \in Seq(Alerts) /\ b \in Seq(Alerts) /\ c \in Seq(Alerts) /\ d \in Seq(Alerts) /\ e \in Seq(Alerts)
  <2>1. ASSUME NEW id \in {"backend", "kubo", "participation", "spatial", "pins"},
               NEW severity \in Severities, NEW shown
        PROVE  alert(id, severity, shown) \in Seq(Alerts)
    <3>1. CASE shown /\ severityRank(severity) = rank
      <4>1. [id |-> id, severity |-> severity] \in Alerts
        BY <1>1, <2>1, <3>1 DEF Alerts
      <4> QED BY <3>1, <4>1, SMT
    <3>2. CASE ~ (shown /\ severityRank(severity) = rank)
      BY <3>2, SMT
    <3> QED BY <3>1, <3>2
  <2> HIDE DEF alert
  <2> QED BY <1>2, <2>1
<1>4. alertsOfRank(i, rank) = a \o b \o c \o d \o e
  BY DEF alertsOfRank
<1>5. rank = 2 /\ a = <<>> => i.backend
  BY RankFact, <1>2, SMT
<1>6. rank = 3 /\ b = <<>> => i.kubo
  BY RankFact, <1>2, SMT
<1> HIDE DEF a, b, c, d, e
<1>7. /\ a \o b \o c \o d \o e \in Seq(Alerts)
      /\ a \o b \o c \o d \o e = <<>> => a = <<>> /\ b = <<>>
  <2>1. a \o b \in Seq(Alerts) /\ (a \o b = <<>> => a = <<>> /\ b = <<>>)
    BY <1>3, ConcatFact
  <2>2. a \o b \o c \in Seq(Alerts) /\ (a \o b \o c = <<>> => a \o b = <<>>)
    BY <1>3, <2>1, ConcatFact
  <2>3. a \o b \o c \o d \in Seq(Alerts) /\ (a \o b \o c \o d = <<>> => a \o b \o c = <<>>)
    BY <1>3, <2>2, ConcatFact
  <2>4. /\ a \o b \o c \o d \o e \in Seq(Alerts)
        /\ a \o b \o c \o d \o e = <<>> => a \o b \o c \o d = <<>>
    BY <1>3, <2>3, ConcatFact
  <2> QED BY <2>1, <2>2, <2>3, <2>4
<1> QED BY <1>4, <1>5, <1>6, <1>7

\* The worst of some alerts is no better than attention.
LEMMA WorstFact ==
  ASSUME NEW S \in SUBSET {"attention", "critical"}, S # {}
  PROVE  worstSeverity(S) \in S
<1>1. \A s, t \in {"attention", "critical"} :
        s = "critical" \/ t = "attention" => SEVERITY_ORDER[s] >= SEVERITY_ORDER[t]
  BY SMT DEF SEVERITY_ORDER
<1>2. \E s \in S : \A t \in S : SEVERITY_ORDER[s] >= SEVERITY_ORDER[t]
  <2>1. CASE "critical" \in S
    BY <1>1, <2>1
  <2>2. CASE "critical" \notin S
    BY <1>1, <2>2
  <2> QED BY <2>1, <2>2
<1> QED BY <1>2 DEF worstSeverity

\* The green dot: no alert, and a gate that is contributing.
LEMMA GreenFact ==
  ASSUME NEW i, overallSeverity(buildViewModel(i)) = "good"
  PROVE  i.participation = "CONTRIBUTING" /\ i.backend /\ i.kubo
<1>1. PICK alerts : alerts = buildAlerts(i)
  OBVIOUS
<1>2. /\ alerts \in Seq(Alerts)
      /\ alerts = <<>> => i.backend /\ i.kubo
  <2>1. PICK x, y : x = alertsOfRank(i, 3) /\ y = alertsOfRank(i, 2)
    OBVIOUS
  <2>2. x \in Seq(Alerts) /\ y \in Seq(Alerts) /\ (x = <<>> => i.kubo) /\ (y = <<>> => i.backend)
    BY <2>1, AlertsFact
  <2>3. alerts = x \o y
    BY <1>1, <2>1 DEF buildAlerts
  <2> QED BY <2>2, <2>3, ConcatFact
<1>3. overallSeverity(buildViewModel(i)) =
        IF alerts = <<>> THEN describeParticipation(i.participation)
        ELSE worstSeverity({alerts[n].severity : n \in DOMAIN alerts})
  BY <1>1 DEF overallSeverity, buildViewModel
<1>4. ASSUME alerts # <<>> PROVE FALSE
  <2>1. \A n \in DOMAIN alerts : alerts[n] \in Alerts
    BY <1>2, SMT
  <2>2. DOMAIN alerts # {}
    BY <1>2, <1>4, SMT
  <2>3. PICK S : S = {alerts[n].severity : n \in DOMAIN alerts}
    OBVIOUS
  <2>4. S \in SUBSET {"attention", "critical"} /\ S # {}
    <3>1. \A n \in DOMAIN alerts : alerts[n].severity \in {"attention", "critical"}
      BY <2>1 DEF Alerts
    <3> QED BY <2>2, <2>3, <3>1
  <2>5. worstSeverity(S) \in {"attention", "critical"}
    BY <2>4, WorstFact
  <2>6. overallSeverity(buildViewModel(i)) = worstSeverity(S)
    BY <1>3, <1>4, <2>3
  <2> QED BY <2>5, <2>6
<1>5. describeParticipation(i.participation) = "good"
  BY <1>3, <1>4
<1>6. i.participation = "CONTRIBUTING"
  BY <1>5 DEF describeParticipation
<1> QED BY <1>2, <1>4, <1>6

-----------------------------------------------------------------------------
(* The plan.  What a loop over a finite set computes is shown by the       *)
(* smallest set for which it would not.                                    *)

LEMMA SmallestSet ==
  ASSUME NEW T \in SUBSET SUBSET Records, T # {}
  PROVE  \E S \in T : \A U \in T : U \subseteq S => U = S
<1>1. IsWellFoundedOn(StrictSubsetOrdering(Records), SUBSET Records)
  BY ArchiveAssumption, FS_StrictSubsetOrderingWellFounded, FS_FiniteSubsetsOfFinite
<1>2. PICK S \in T : \A U \in T : <<U, S>> \notin StrictSubsetOrdering(Records)
  BY <1>1, WFMin
<1>3. ASSUME NEW U \in T, U \subseteq S, U # S PROVE FALSE
  <2>1. <<U, S>> \in (SUBSET Records) \X (SUBSET Records) /\ <<U, S>>[1] = U /\ <<U, S>>[2] = S
    BY SMT
  <2>2. <<U, S>> \in StrictSubsetOrdering(Records)
    BY <1>3, <2>1 DEF StrictSubsetOrdering
  <2> QED BY <1>2, <2>2
<1> QED BY <1>3

IsLast(x, S) == x \in S /\ \A y \in S : Rank[y] <= Rank[x]
LastOf(S) == CHOOSE x \in S : \A y \in S : Rank[y] <= Rank[x]

\* A record comes last.
LEMMA LastExists ==
  ASSUME NEW S \in SUBSET Records, S # {}
  PROVE  IsLast(LastOf(S), S) /\ LastOf(S) \in Records
<1> DEFINE bad == {T \in SUBSET Records : T # {} /\ ~\E x \in T : IsLast(x, T)}
<1>1. bad = {}
  <2> SUFFICES ASSUME bad # {} PROVE FALSE
    OBVIOUS
  <2>0. bad \in SUBSET SUBSET Records
    OBVIOUS
  <2> HIDE DEF bad
  <2>1. PICK T \in bad : \A U \in bad : U \subseteq T => U = T
    BY <2>0, SmallestSet
  <2> USE DEF bad
  <2>2. PICK x \in T : x \in Records
    OBVIOUS
  <2>3. T \ {x} \notin bad
    BY <2>1, <2>2
  <2>4. Rank \in [Records -> Nat] /\ T \subseteq Records
    BY ArchiveAssumption
  <2>5. CASE T = {x}
    <3>1. Rank[x] <= Rank[x]
      BY <2>2, <2>4, SMT
    <3>2. IsLast(x, T)
      BY <2>5, <3>1 DEF IsLast
    <3> QED BY <3>2
  <2>6. CASE T \ {x} # {}
    <3>1. PICK m \in T \ {x} : IsLast(m, T \ {x})
      BY <2>3, <2>4, <2>6
    <3>2. IsLast(m, T) \/ IsLast(x, T)
      BY <2>2, <2>4, <3>1, SMT DEF IsLast
    <3> QED BY <2>2, <3>1, <3>2
  <2> QED BY <2>2, <2>5, <2>6
<1>2. \E x \in S : \A y \in S : Rank[y] <= Rank[x]
  BY <1>1 DEF IsLast
<1>3. LastOf(S) \in S /\ \A y \in S : Rank[y] <= Rank[LastOf(S)]
  BY <1>2 DEF LastOf
<1> QED BY <1>3 DEF IsLast

\* No two records come last.
LEMMA LastUnique ==
  ASSUME NEW S \in SUBSET Records, NEW x, IsLast(x, S)
  PROVE  LastOf(S) = x
<1>1. IsLast(LastOf(S), S)
  BY LastExists DEF IsLast
<1>2. Rank[LastOf(S)] <= Rank[x] /\ Rank[x] <= Rank[LastOf(S)] /\ x \in Records /\ LastOf(S) \in Records
  BY <1>1 DEF IsLast
<1>3. Rank[LastOf(S)] = Rank[x]
  BY <1>2, ArchiveAssumption, SMT
<1> QED BY <1>2, <1>3, ArchiveAssumption

Turn(f, S) == IF S = {} THEN {} ELSE Select(f[S \ {LastOf(S)}], LastOf(S))
Plans(f, S) == f = [T \in SUBSET S |-> Turn(f, T)]

\* The loop ends, whatever it is started on.
LEMMA PlansExist ==
  ASSUME NEW S \in SUBSET Records
  PROVE  \E f : Plans(f, S)
<1> DEFINE bad == {T \in SUBSET Records : ~\E f : Plans(f, T)}
<1> SUFFICES ASSUME bad # {} PROVE FALSE
  OBVIOUS
<1>0. bad \in SUBSET SUBSET Records
  OBVIOUS
<1> HIDE DEF bad
<1>1. PICK T \in bad : \A U \in bad : U \subseteq T => U = T
  BY <1>0, SmallestSet
<1>2. T \in SUBSET Records /\ ~\E f : Plans(f, T)
  BY DEF bad
<1>3. CASE T = {}
  <2> DEFINE f == [U \in SUBSET T |-> {}]
  <2>1. \A U \in SUBSET T : Turn(f, U) = {}
    BY <1>3 DEF Turn
  <2>2. Plans(f, T)
    BY <2>1 DEF Plans
  <2> QED BY <1>2, <2>2
<1>4. CASE T # {}
  <2>1. PICK l : l = LastOf(T) /\ IsLast(l, T) /\ l \in Records
    BY <1>2, <1>4, LastExists
  <2>2. T \ {l} \in SUBSET Records /\ T \ {l} # T
    BY <1>2, <2>1 DEF IsLast
  <2>3. PICK g : Plans(g, T \ {l})
    BY <1>1, <2>2 DEF bad
  <2> DEFINE f == [U \in SUBSET T |-> Turn(g, U)]
  <2>4. \A U \in SUBSET (T \ {l}) : f[U] = g[U]
    BY <2>3 DEF Plans
  <2>5. ASSUME NEW U \in SUBSET T, U # {} PROVE U \ {LastOf(U)} \in SUBSET (T \ {l})
    <3>1. CASE l \in U
      <4>1. IsLast(l, U) /\ U \in SUBSET Records
        BY <1>2, <2>1, <3>1 DEF IsLast
      <4>2. LastOf(U) = l
        BY <4>1, LastUnique
      <4> QED BY <4>2
    <3>2. CASE l \notin U
      BY <3>2
    <3> QED BY <3>1, <3>2
  <2>6. \A U \in SUBSET T : Turn(f, U) = Turn(g, U)
    <3> SUFFICES ASSUME NEW U \in SUBSET T PROVE Turn(f, U) = Turn(g, U)
      OBVIOUS
    <3>1. CASE U = {}
      BY <3>1 DEF Turn
    <3>2. CASE U # {}
      <4>1. f[U \ {LastOf(U)}] = g[U \ {LastOf(U)}]
        BY <2>4, <2>5, <3>2
      <4> HIDE DEF f
      <4> QED BY <3>2, <4>1 DEF Turn
    <3> QED BY <3>1, <3>2
  <2>7. Plans(f, T)
    BY <2>6 DEF Plans
  <2> QED BY <1>2, <2>7
<1> QED BY <1>3, <1>4

LEMMA PlannedFact ==
  ASSUME NEW S \in SUBSET Records
  PROVE  planned[S] = Turn(planned, S)
<1>1. planned = CHOOSE f : Plans(f, Records)
  BY DEF planned, Plans, Turn, LastOf
<1>2. Plans(planned, Records)
  BY <1>1, PlansExist
<1>3. planned = [T \in SUBSET Records |-> Turn(planned, T)]
  BY <1>2 DEF Plans
<1> QED BY <1>3

\* The bytes of one record, and of a set of them.
Own(x) == {x} \X (1..Size[x])
Bodies(S) == UNION {Own(x) : x \in S}

LEMMA OwnCounts ==
  ASSUME NEW x \in Records
  PROVE  IsFiniteSet(Own(x)) /\ Cardinality(Own(x)) = Size[x]
<1> DEFINE k == Size[x]
           g == [i \in 1..k |-> <<x, i>>]
<1>1. k \in Nat /\ IsFiniteSet(1..k) /\ Cardinality(1..k) = k
  <2>1. 1 \in Int /\ k \in Int /\ k \in Nat /\ (IF 1 > k THEN 0 ELSE k - 1 + 1) = k
    BY ArchiveAssumption, SMT
  <2>2. IsFiniteSet(1..k) /\ Cardinality(1..k) = IF 1 > k THEN 0 ELSE k - 1 + 1
    BY <2>1, FS_Interval
  <2> QED BY <2>1, <2>2, SMT
<1>2. ExistsBijection(1..k, Own(x))
  <2>1. g \in [1..k -> Own(x)] /\ \A i, j \in 1..k : g[i] = g[j] => i = j
    BY SMT DEF Own
  <2>2. \A b \in Own(x) : \E i \in 1..k : g[i] = b
    BY SMT DEF Own
  <2>3. g \in Bijection(1..k, Own(x))
    BY <2>1, <2>2 DEF Bijection, Injection, IsInjective, Surjection
  <2> QED BY <2>3 DEF ExistsBijection
<1> QED BY <1>1, <1>2, FS_Bijection

\* Another record adds its size.
LEMMA BytesAdd ==
  ASSUME NEW S \in SUBSET Records, NEW x \in Records \ S, IsFiniteSet(Bodies(S))
  PROVE  /\ IsFiniteSet(Bodies(S \cup {x}))
         /\ Bytes(S) \in Nat /\ Bytes(S \cup {x}) = Bytes(S) + Size[x]
<1>1. \A T : Bytes(T) = Cardinality(Bodies(T))
  BY DEF Bytes, Bodies, Own
<1>2. Bodies(S \cup {x}) = Bodies(S) \cup Own(x)
  BY DEF Bodies
<1>3. Bodies(S) \cap Own(x) = {}
  BY SMT DEF Bodies, Own
<1>4. IsFiniteSet(Own(x)) /\ Cardinality(Own(x)) = Size[x] /\ Size[x] \in Nat
  BY OwnCounts, ArchiveAssumption
<1>5. Cardinality(Bodies(S)) \in Nat /\ Cardinality(Bodies(S) \cap Own(x)) = 0
  BY <1>3, FS_CardinalityType, FS_EmptySet
<1>6. /\ IsFiniteSet(Bodies(S) \cup Own(x))
      /\ Cardinality(Bodies(S) \cup Own(x)) =
           Cardinality(Bodies(S)) + Cardinality(Own(x)) - Cardinality(Bodies(S) \cap Own(x))
  BY <1>4, FS_Union
<1>7. Cardinality(Bodies(S) \cup Own(x)) = Cardinality(Bodies(S)) + Size[x]
  BY <1>4, <1>5, <1>6, SMT
<1> QED BY <1>1, <1>2, <1>5, <1>6, <1>7

\* A record that does not fit beside the chosen ones.
Refused(chosen, x) ==
  \/ Cardinality(chosen) >= MaxCids
  \/ Size[x] > 0 /\ Bytes(chosen) + Size[x] > MaxBytes

Earlier(S, x) == {y \in S : Rank[y] < Rank[x]}

Greedy(P, S) ==
  /\ P \subseteq S /\ Cardinality(P) <= MaxCids
  /\ IsFiniteSet(Bodies(P)) /\ Bytes(P) <= MaxBytes
  /\ \A x \in S \ P : Refused(Earlier(P, x), x)

\* One turn of the loop keeps what the loop has achieved.
LEMMA SelectIsGreedy ==
  ASSUME NEW S \in SUBSET Records, NEW l \in S, IsLast(l, S), NEW P, Greedy(P, S \ {l})
  PROVE  Greedy(Select(P, l), S)
<1>0. P \in SUBSET Records /\ l \in Records \ P /\ IsFiniteSet(P) /\ Cardinality(P) \in Nat
  <2>1. P \in SUBSET Records /\ l \in Records \ P
    BY DEF Greedy
  <2> QED BY <2>1, ArchiveAssumption, FS_Subset, FS_CardinalityType
<1>1. \A y \in S \ {l} : Rank[y] < Rank[l]
  <2> SUFFICES ASSUME NEW y \in S \ {l} PROVE Rank[y] < Rank[l]
    OBVIOUS
  <2>1. Rank[y] <= Rank[l] /\ y \in Records /\ l \in Records /\ y # l
    BY DEF IsLast
  <2>2. Rank[y] # Rank[l]
    BY <2>1, ArchiveAssumption
  <2> QED BY <2>1, <2>2, ArchiveAssumption, SMT
<1>2. ~(Rank[l] < Rank[l]) /\ \A y \in S \ {l} : ~(Rank[l] < Rank[y])
  BY <1>1, ArchiveAssumption, SMT
<1>3. CASE Refused(P, l)
  <2>1. Select(P, l) = P
    BY <1>3 DEF Refused, Select
  <2>2. Earlier(P, l) = P
    BY <1>1 DEF Earlier, Greedy
  <2> QED BY <1>3, <2>1, <2>2 DEF Greedy
<1>4. CASE ~Refused(P, l)
  <2> DEFINE Q == P \cup {l}
  <2>1. Select(P, l) = Q
    BY <1>4 DEF Refused, Select
  <2>2. \A x \in S \ Q : Earlier(Q, x) = Earlier(P, x)
    BY <1>2 DEF Earlier
  <2>3. \A x \in S \ Q : Refused(Earlier(Q, x), x)
    BY <2>2 DEF Greedy
  <2>4. Cardinality(Q) = Cardinality(P) + 1
    BY <1>0, FS_AddElement
  <2>5. Cardinality(Q) <= MaxCids
    BY <1>0, <1>4, <2>4, ArchiveAssumption, SMT DEF Refused
  <2>6. IsFiniteSet(Bodies(Q)) /\ Bytes(P) \in Nat /\ Bytes(Q) = Bytes(P) + Size[l]
    BY <1>0, BytesAdd DEF Greedy
  <2>7. Bytes(Q) <= MaxBytes
    BY <1>0, <1>4, <2>6, ArchiveAssumption, SMT DEF Refused, Greedy
  <2> QED BY <2>1, <2>3, <2>5, <2>6, <2>7 DEF Greedy
<1> QED BY <1>3, <1>4

LEMMA PlannedIsGreedy ==
  ASSUME NEW S \in SUBSET Records
  PROVE  Greedy(planned[S], S)
<1> DEFINE bad == {T \in SUBSET Records : ~Greedy(planned[T], T)}
<1> SUFFICES ASSUME bad # {} PROVE FALSE
  OBVIOUS
<1>0. bad \in SUBSET SUBSET Records
  OBVIOUS
<1> HIDE DEF bad
<1>1. PICK T \in bad : \A U \in bad : U \subseteq T => U = T
  BY <1>0, SmallestSet
<1>2. T \in SUBSET Records /\ ~Greedy(planned[T], T)
  BY DEF bad
<1>3. planned[T] = Turn(planned, T)
  BY <1>2, PlannedFact
<1>4. CASE T = {}
  <2>1. planned[T] = {}
    BY <1>3, <1>4 DEF Turn
  <2>2. Bodies({}) = {} /\ Bytes({}) = Cardinality({})
    <3>1. UNION {Own(x) : x \in {}} = {} /\ UNION {{x} \X (1..Size[x]) : x \in {}} = {}
      OBVIOUS
    <3> QED BY <3>1 DEF Bodies, Bytes
  <2>3. Cardinality({}) = 0 /\ IsFiniteSet({}) /\ 0 <= MaxCids /\ 0 <= MaxBytes
    <3>1. 0 <= MaxCids /\ 0 <= MaxBytes
      BY ArchiveAssumption, SMT
    <3> QED BY <3>1, FS_EmptySet
  <2>4. Greedy({}, {})
    BY <2>2, <2>3 DEF Greedy
  <2> QED BY <1>2, <1>4, <2>1, <2>4
<1>5. CASE T # {}
  <2>1. PICK l : l = LastOf(T) /\ IsLast(l, T) /\ l \in T
    BY <1>2, <1>5, LastExists DEF IsLast
  <2>2. T \ {l} \in SUBSET Records /\ T \ {l} # T
    BY <1>2, <2>1
  <2>3. Greedy(planned[T \ {l}], T \ {l})
    BY <1>1, <2>2 DEF bad
  <2>4. planned[T] = Select(planned[T \ {l}], l)
    BY <1>3, <1>5, <2>1 DEF Turn
  <2> QED BY <1>2, <2>1, <2>3, <2>4, SelectIsGreedy
<1> QED BY <1>4, <1>5

\* The plan of a set that was synchronized.
LEMMA DesiredIsGreedy ==
  ASSUME view.set \subseteq Records
  PROVE  PlanIsGreedy
<1>1. view.set \cap Allowed \in SUBSET Records
  OBVIOUS
<1>2. Desired = planned[view.set \cap Allowed]
  BY DEF Desired, planPublicPins
<1>3. Greedy(Desired, view.set \cap Allowed)
  BY <1>1, <1>2, PlannedIsGreedy
<1> QED BY <1>3 DEF Greedy, Refused, Earlier, PlanIsGreedy

-----------------------------------------------------------------------------
(* What it shows *)

\* A set that authorises releases is one that the backend served, whole: the
\* pages of two sets that it served one after the other never make a third
\* (syncPublicPinSet), and the lock keeps two synchronizations apart.
THEOREM RemovalsFromWholeTheorem == Spec => []RemovalsFromWhole
<1>1. Inv => RemovalsFromWhole
  BY DEF Inv, ViewInv, RemovalsFromWhole, MayRelease
<1> QED BY <1>1, Invariance, PTL

\* For any records, sizes and limits, and whatever set the backend has served:
\* the plan that the node follows keeps to the operator's limits, and a record
\* is left out of it only because the records before it leave no room
\* (planPublicPins, on the set that syncPublicPinSet stored).
THEOREM PlanIsGreedyTheorem == Spec => []PlanIsGreedy
<1>1. Inv => PlanIsGreedy
  BY DesiredIsGreedy DEF Inv, ViewInv
<1> QED BY <1>1, Invariance, PTL

\* Whoever the gate admits asked while an earned lease had time left, however
\* the refreshes, the heartbeats and the restarts of the node interleave
\* (NetworkParticipationGate.refresh, recordHeartbeatAccepted).
THEOREM EligibleIsEarnedTheorem == Spec => []EligibleIsEarned
<1>1. Inv => EligibleIsEarned
  <2> SUFFICES ASSUME Inv PROVE EligibleIsEarned
    OBVIOUS
  <2>1. participation.lease <= earned
    BY SMT DEF Inv, GateInv
  <2>2. ASSUME NEW p \in Runners \cup Askers, refreshing[p].stage = "write",
               refreshing[p].state \in Eligible
        PROVE refreshing[p].earned >= 2
    <3>1. PICK f : f = refreshing[p]
      OBVIOUS
    <3>2. RefreshInv(f) /\ f.stage = "write" /\ f.state \in Eligible
      BY <2>2, <3>1 DEF Inv, GateInv
    <3>3. f.earned >= 2
      BY <3>2, SMT DEF RefreshInv, NoRefresh, WriteFacts
    <3> QED BY <3>1, <3>3
  <2> QED BY <2>1, <2>2 DEF EligibleIsEarned
<1> QED BY <1>1, Invariance, PTL

\* A green dot in the header is true of one moment, for any records, plans and
\* answers of the services: what is shown beside the gate's answer was read with
\* what the gate decided upon, whatever was pinned, failed or planned since
\* (buildGuiView, refresh, buildAlerts, overallSeverity).
THEOREM GreenIsOneMomentTheorem == Spec => []GreenIsOneMoment
<1>1. ASSUME Inv, NEW a \in Askers, refreshing[a].stage = "write",
             refreshing[a].state = "CONTRIBUTING"
      PROVE  refreshing[a].shown.desired \subseteq refreshing[a].shown.pinned
             /\ refreshing[a].shown.failed = {}
  <2>1. PICK f : f = refreshing[a]
    OBVIOUS
  <2>2. RefreshInv(f) /\ f.stage = "write" /\ f.state = "CONTRIBUTING"
    BY <1>1, <2>1 DEF Inv, GateInv
  <2>3. WriteFacts(f)
    BY <2>2, SMT DEF RefreshInv, NoRefresh
  <2> QED BY <2>1, <2>2, <2>3 DEF WriteFacts, Whole
<1>2. Inv => GreenIsOneMoment
  <2> HAVE Inv
  <2> SUFFICES ASSUME NEW a \in Askers, refreshing[a].stage = "write",
                      NEW answer \in WorkerAnswers, NEW backend \in BOOLEAN, NEW kubo \in BOOLEAN
               PROVE LET model == buildGuiView(a, answer, backend, kubo)
                         shown == refreshing[a].shown IN
                     /\ overallSeverity(model) = "good" =>
                          /\ refreshing[a].state = "CONTRIBUTING" /\ backend /\ kubo
                          /\ shown.desired \subseteq shown.pinned /\ shown.failed = {}
                          /\ model.overview.archive # "attention"
                     /\ (model.overview.spatial = "good") =
                          ("compute.remoteJobs" \in buildCapabilities(detectWorker(answer), kubo))
    BY DEF GreenIsOneMoment
  <2>1. PICK i : /\ buildGuiView(a, answer, backend, kubo) = buildViewModel(i)
                 /\ i.participation = refreshing[a].state /\ i.backend = backend /\ i.kubo = kubo
                 /\ i.failed = refreshing[a].shown.failed /\ i.worker = detectWorker(answer)
    <3> DEFINE shown == refreshing[a].shown
               i == [participation |-> refreshing[a].state, worker |-> detectWorker(answer),
                     backend |-> backend, kubo |-> kubo, desired |-> shown.desired,
                     pinned |-> shown.pinned, failed |-> shown.failed,
                     publicBytes |-> Bytes(shown.desired \cap shown.pinned), privateBytes |-> 0,
                     repoBytes |-> Bytes(shown.pinned), maxBytes |-> MaxBytes,
                     enabled |-> TRUE, paused |-> FALSE, jobs |-> <<>>, pending |-> 0, settled |-> 0]
    <3>1. buildGuiView(a, answer, backend, kubo) = buildViewModel(i)
      BY DEF buildGuiView
    <3>2. /\ i.participation = refreshing[a].state /\ i.backend = backend /\ i.kubo = kubo
          /\ i.failed = shown.failed /\ i.worker = detectWorker(answer)
      OBVIOUS
    <3> HIDE DEF i
    <3> QED BY <3>1, <3>2
  <2>2. ASSUME overallSeverity(buildViewModel(i)) = "good"
        PROVE  /\ refreshing[a].state = "CONTRIBUTING" /\ backend /\ kubo
               /\ refreshing[a].shown.desired \subseteq refreshing[a].shown.pinned
               /\ refreshing[a].shown.failed = {}
               /\ buildViewModel(i).overview.archive # "attention"
    <3>1. refreshing[a].state = "CONTRIBUTING" /\ backend /\ kubo
      BY <2>1, <2>2, GreenFact
    <3>2. i.failed = {}
      BY <1>1, <2>1, <3>1
    <3>3. ~ (buildArchive(i).needsAttention > 0)
      <4>1. buildArchive(i).needsAttention = Cardinality({})
        BY <3>2 DEF buildArchive
      <4> QED BY <4>1, FS_EmptySet, SMT
    <3>4. buildViewModel(i).overview.archive # "attention"
      BY <3>3 DEF buildViewModel, buildOverview
    <3> QED BY <1>1, <2>1, <3>1, <3>2, <3>4
  <2>3. (buildViewModel(i).overview.spatial = "good") =
          ("compute.remoteJobs" \in buildCapabilities(detectWorker(answer), kubo))
    <3>1. buildViewModel(i).overview.spatial = describeWorker(detectWorker(answer))
      BY <2>1 DEF buildViewModel, buildOverview
    <3> QED BY <3>1, WorkerFact
  <2> QED BY <2>1, <2>2, <2>3
<1> QED BY <1>2, Invariance, PTL

\* Only reconcileDesiredPins gives an archive owner up, and what it gives up
\* is not in the plan of that very moment, however long ago it was compared
\* with it.
LEMMA KeepsStep ==
  ASSUME Inv, [Next]_vars
  PROVE  [\A x \in owned \ owned' : x \notin Desired]_<<owned, view>>
<1> SUFFICES ASSUME NEW x \in owned \ owned' PROVE x \notin Desired
  OBVIOUS
<1>1. PICK r \in Runners : ReleaseOne(r)
  <2>1. ASSUME NEW r \in Runners, ArchiveStep(r) PROVE ReleaseOne(r)
    BY <2>1 DEF ArchiveStep, SyncFirst, SyncPage, SyncConfirm, SyncStores, ReconcilePins,
       ReconcileRecords, ReleaseLooks, ReleaseEnds, CommitOne, CommitRecords, StatusFetches,
       StatusStores, RewardsFetched, DoctorProbes, Fails, archiveVars
  <2>2. ASSUME NEW r \in Runners, GateStep(r) PROVE UNCHANGED owned
    BY <2>2 DEF GateStep, Register, FetchPolicy, BeatReports, BeatSends, BeatStores,
       BeatVerifies, BeatRenews, BeatSettles, AwaitRefresh, Fails, archiveVars
  <2>3. ASSUME Environment PROVE UNCHANGED owned
    BY <2>3 DEF Environment, ServeAnother, GateEnvironment, Ask, LeaseAges, StampAges, archiveVars
  <2>4. PICK r \in Runners : Step(r)
    BY <2>3 DEF Next, StartupBegins, GuiActs, LoopTicks, Begin, StartupEnds, TaskEnds, Sigterm,
       SchedulerStops, ShutdownStep, Restart, vars, archiveVars
  <2> QED BY <2>1, <2>2, <2>4 DEF Step
<1>2. x \in task[r].left /\ task[r].at = "releasing"
  BY <1>1 DEF ReleaseOne, At
<1>3. task[r].left \cap Desired = {}
  BY <1>2 DEF Inv, LockInv, TaskInv
<1> QED BY <1>2, <1>3

THEOREM WantedIsKeptTheorem == Spec => WantedIsKept
BY Invariance, KeepsStep, PTL DEF Spec, WantedIsKept

\* A step of a task is a step of a runner that is at work, and of no other.
LEMMA StepMoves ==
  ASSUME LockInv, NEW r \in Runners, ArchiveStep(r) \/ GateStep(r)
  PROVE  task[r].at # "idle" /\ \A q \in Runners \ {r} : task'[q] = task[q]
<1>1. task[r].at # "idle"
  BY DEF ArchiveStep, SyncFirst, SyncPage, SyncConfirm, SyncStores, ReconcilePins,
     ReconcileRecords, ReleaseLooks, ReleaseOne, ReleaseEnds, CommitOne, CommitRecords,
     StatusFetches, StatusStores, RewardsFetched, DoctorProbes, GateStep, Register, FetchPolicy,
     BeatReports, BeatSends, BeatStores, BeatVerifies, BeatRenews, BeatSettles, AwaitRefresh, At
<1>2. /\ task = [q \in Runners |-> task[q]]
      /\ task' # task => \E new : task' = [task EXCEPT ![r] = new]
  <2>1. CASE SyncFirst(r) \/ SyncPage(r) \/ SyncConfirm(r) \/ SyncStores(r) \/ ReconcilePins(r)
    BY <2>1 DEF SyncFirst, SyncPage, SyncConfirm, SyncStores, ReconcilePins, Done, Fails,
       Become, LockInv
  <2>2. CASE ReconcileRecords(r) \/ ReleaseLooks(r) \/ ReleaseOne(r) \/ ReleaseEnds(r)
    BY <2>2 DEF ReconcileRecords, ReleaseLooks, ReleaseOne, ReleaseEnds, Done, Become, LockInv
  <2>3. CASE \/ CommitOne(r) \/ CommitRecords(r) \/ StatusFetches(r) \/ StatusStores(r)
             \/ RewardsFetched(r) \/ DoctorProbes(r)
    BY <2>3 DEF CommitOne, CommitRecords, StatusFetches, StatusStores, RewardsFetched,
       DoctorProbes, Done, Fails, Become, LockInv
  <2>4. CASE GateStep(r)
    BY <2>4 DEF GateStep, Register, FetchPolicy, BeatReports, BeatSends, BeatStores,
       BeatVerifies, BeatRenews, BeatSettles, AwaitRefresh, Goto, Done, Fails, Become, LockInv
  <2> QED BY <2>1, <2>2, <2>3, <2>4 DEF ArchiveStep
<1>3. ASSUME NEW q \in Runners \ {r} PROVE task'[q] = task[q]
  BY <1>2
<1> QED BY <1>1, <1>3

LEMMA LateStep ==
  ASSUME Inv, [Next]_vars
  PROVE  /\ aborted /\ aborted' => services' \subseteq services
         /\ stopped /\ stopped' => \A l \in Loops : At(l, "idle") => task'[l].at = "idle"
<1>1. ASSUME aborted, aborted' PROVE services' \subseteq services
  BY <1>1 DEF Next, StartupBegins, GuiActs, LoopTicks, StartupEnds, MayActivate, TaskEnds, Step,
     Sigterm, SchedulerStops, ShutdownStep, Restart, Environment, runtimeVars, vars
<1>2. ASSUME stopped, stopped', NEW l \in Loops, At(l, "idle") PROVE task'[l].at = "idle"
  <2>0. /\ l \in Runners /\ l \notin {"startup", "gui"} /\ task[l].at = "idle" /\ LockInv
        /\ {"startup", "gui"} \subseteq Runners
    BY <1>2, RuntimeAssumption DEF Loops, At, Inv
  <2>1. ASSUME NEW r \in Runners \ {l}, NEW new, Become(r, new) PROVE task'[l].at = "idle"
    BY <2>0, <2>1, BecomeFact
  <2>2. CASE StartupBegins \/ GuiActs \/ StartupEnds
    BY <2>0, <2>1, <2>2 DEF StartupBegins, GuiActs, Begin, StartupEnds
  <2>3. CASE \E q \in Loops : LoopTicks(q)
    BY <1>2, <2>3 DEF LoopTicks
  <2>4. ASSUME NEW r \in Runners, Step(r) PROVE task'[l].at = "idle"
    BY <2>0, <2>4, StepMoves DEF Step
  <2>5. ASSUME NEW r \in Runners, TaskEnds(r) PROVE task'[l].at = "idle"
    BY <2>0, <2>1, <2>5, BecomeFact, SMT DEF TaskEnds, Idle
  <2>6. CASE Restart
    BY <2>0, <2>6 DEF Restart, Idle
  <2>7. CASE Sigterm \/ SchedulerStops \/ ShutdownStep \/ Environment \/ UNCHANGED vars
    BY <2>0, <2>7 DEF Sigterm, SchedulerStops, ShutdownStep, Environment, ServeAnother,
       GateEnvironment, Ask, LeaseAges, StampAges, vars
  <2> QED BY <2>2, <2>3, <2>4, <2>5, <2>6, <2>7 DEF Next
<1> QED BY <1>1, <1>2

\* A bootstrap that returns after the shutdown has begun activates nothing
\* (recoverNetworkStartup checks the signal), and a scheduler that was stopped
\* takes up no task (runResilientLoop), under every interleaving.
THEOREM NothingStartsLateTheorem == Spec => NothingStartsLate
BY Invariance, LateStep, PTL DEF Spec, NothingStartsLate

-----------------------------------------------------------------------------
(* The dispatch of jobs: the loop of dispatch() with JOB_CONCURRENCY = 1.  *)

\* A job has one run while it is a key of `running` and none otherwise, and
\* `running` has one key at most.  With more than one slot the first half does
\* not hold: the loop starts a job that is still queued again.
RunsInv ==
  /\ runs \in [Jobs -> Nat] /\ ending \in [Jobs -> Nat]
  /\ \A j \in Jobs : runs[j] + ending[j] = IF j \in running THEN 1 ELSE 0
  /\ \A j, k \in running : j = k

\* The loop goes on while nothing is running.
LEMMA MayStartFact ==
  ASSUME RunsInv, Concurrency = 1, MayStart
  PROVE running = {}
<1> SUFFICES ASSUME NEW j \in running PROVE FALSE
  OBVIOUS
<1>1. running = {j}
  BY DEF RunsInv
<1>2. Cardinality(running) = 1
  BY <1>1, FS_Singleton
<1> QED BY <1>2, SMT DEF MayStart

\* Every step keeps one run for the key of `running`.
LEMMA RunsStep ==
  ASSUME RunsInv, Concurrency = 1, [DispatchNext]_dispatchVars
  PROVE RunsInv'
<1>u. ASSUME UNCHANGED <<running, runs, ending>> PROVE RunsInv'
  BY <1>u DEF RunsInv
<1>1. ASSUME Tick \/ DispatchStarts \/ DispatchEnds PROVE RunsInv'
  BY <1>u, <1>1 DEF Tick, DispatchStarts, DispatchEnds
<1>2. ASSUME NEW j \in Jobs, Insert(j) \/ InsertReturns(j) \/ RunStarts(j) \/ CancelJob(j) PROVE RunsInv'
  BY <1>u, <1>2 DEF Insert, InsertReturns, RunStarts, CancelJob
<1>3. ASSUME Dispatch PROVE RunsInv'
  <2> DEFINE n == NextJob
  <2>1. /\ running = {} /\ running' = {n} /\ ending' = ending
        /\ runs' = [runs EXCEPT ![n] = runs[n] + 1]
    BY <1>3, MayStartFact DEF Dispatch
  <2> HIDE DEF n
  <2>2. \A j \in Jobs : runs[j] + ending[j] = 0
    BY <2>1 DEF RunsInv
  <2>3. runs' \in [Jobs -> Nat] /\ \A j \in Jobs : runs'[j] = IF j = n THEN runs[j] + 1 ELSE runs[j]
    <3>1. runs \in [Jobs -> Nat]
      BY DEF RunsInv
    <3>2. CASE n \in Jobs
      BY <2>1, <3>1, <3>2, SMT
    <3>3. CASE n \notin Jobs
      <4>1. runs' = runs
        BY <2>1, <3>1, <3>3
      <4> QED BY <3>1, <3>3, <4>1
    <3> QED BY <3>2, <3>3
  <2>4. \A j \in Jobs : runs'[j] + ending'[j] = IF j \in running' THEN 1 ELSE 0
    <3>1. runs \in [Jobs -> Nat] /\ ending \in [Jobs -> Nat]
      BY DEF RunsInv
    <3> QED BY <2>1, <2>2, <2>3, <3>1, SMT
  <2> QED BY <2>1, <2>3, <2>4 DEF RunsInv
<1>4. ASSUME NEW j \in Jobs, RunFinishes(j) PROVE RunsInv'
  <2>1. /\ runs[j] > 0 /\ running' = running
        /\ runs' = [runs EXCEPT ![j] = runs[j] - 1]
        /\ ending' = [ending EXCEPT ![j] = ending[j] + 1]
    BY <1>4 DEF RunFinishes, Outcome
  <2> QED BY <2>1, SMT DEF RunsInv
<1>5. ASSUME NEW j \in Jobs, RunEnds(j) PROVE RunsInv'
  <2>1. /\ ending[j] > 0 /\ running' = running \ {j} /\ runs' = runs
        /\ ending' = [ending EXCEPT ![j] = ending[j] - 1]
    BY <1>5 DEF RunEnds
  <2> QED BY <2>1, SMT DEF RunsInv
<1>6. ASSUME UNCHANGED dispatchVars PROVE RunsInv'
  BY <1>u, <1>6 DEF dispatchVars
<1> QED BY <1>1, <1>2, <1>3, <1>4, <1>5, <1>6 DEF DispatchNext, DispatchStep, RunProgress

\* The invariant says that at most one run is alive.
LEMMA AliveFact ==
  ASSUME RunsInv, Concurrency = 1
  PROVE BoundedRuns
<1>1. ASSUME NEW x, running \subseteq {x} PROVE AliveRuns \in SUBSET {<<x, 1>>}
  <2> SUFFICES ASSUME NEW j \in Jobs, NEW r \in {j} \X (1..(runs[j] + ending[j]))
               PROVE r = <<x, 1>>
    BY DEF AliveRuns
  <2>1. runs[j] + ending[j] = (IF j \in running THEN 1 ELSE 0)
    BY DEF RunsInv
  <2>2. PICK n \in 1..(runs[j] + ending[j]) : r = <<j, n>>
    BY SMT
  <2>3. j \in running /\ n = 1
    BY <2>1, <2>2, SMT
  <2> QED BY <1>1, <2>2, <2>3
<1>2. \E x : running \subseteq {x}
  BY DEF RunsInv
<1>3. PICK x : AliveRuns \in SUBSET {<<x, 1>>}
  BY <1>1, <1>2
<1>4. IsFiniteSet({<<x, 1>>}) /\ Cardinality({<<x, 1>>}) = 1
  BY FS_Singleton
<1>5. Cardinality(AliveRuns) <= 1
  BY <1>3, <1>4, FS_Subset
<1> QED BY <1>5 DEF BoundedRuns

\* With the default of one slot, and for any jobs, at most one run is alive,
\* from its first await to the end of its cleanup.  JobRuntime assumes this.
THEOREM OneRunAtATime ==
  ASSUME Concurrency = 1
  PROVE DispatchSpec => []BoundedRuns
<1>1. DispatchInit => RunsInv
  BY SMT DEF DispatchInit, RunsInv
<1>2. RunsInv /\ [DispatchNext]_dispatchVars => RunsInv'
  BY RunsStep
<1>3. RunsInv => BoundedRuns
  BY AliveFact
<1> QED BY <1>1, <1>2, <1>3, PTL DEF DispatchSpec

=============================================================================
