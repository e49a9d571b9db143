---------------------------- MODULE Participation ----------------------------
(***************************************************************************)
(* The participation gate (src/participation/networkParticipationGate.ts), *)
(* the registration (registerNode.ts) and the heartbeat (heartbeat.ts) that *)
(* renews its lease.                                                       *)
(*                                                                         *)
(* A lease is as good as the time it has left: 3 live, 2 in its grace, 1   *)
(* over, 0 none was ever recorded.  Time takes a level from every copy of  *)
(* a lease at once, those in snapshots included.  refresh() takes its      *)
(* snapshot, awaits Kubo, decides, and then writes the lease of the        *)
(* snapshot back: whatever runs beside it may have renewed the lease in    *)
(* between.  Askers are the requests that ask the gate outside any task.   *)
(***************************************************************************)
EXTENDS Archive

CONSTANTS
  Askers   \* useful operations: remote submission, acceptance, execution, retrieval

VARIABLES
  registered, policy,   \* state.nodeId and node, state.policy
  participation,        \* state.participation: [state, lease, verified]
  scheduling,           \* schedulerActive
  refreshing,           \* each refresh() in progress
  earned                \* history: the lease of the last verified heartbeat

gateVars == <<registered, policy, participation, scheduling, refreshing, earned>>

NoRefresh == [stage |-> "none"]
NoArchive == [desired |-> {}, pinned |-> {}, failed |-> {}]
Eligible == {"CONTRIBUTING", "DEGRADED"}

GateInit ==
  /\ registered = FALSE /\ policy = FALSE
  /\ participation = [state |-> "UNCONFIGURED", lease |-> 0, verified |-> FALSE]
  /\ scheduling = FALSE
  /\ refreshing = [p \in Runners \cup Askers |-> NoRefresh]
  /\ earned = 0

GateTypeOK ==
  /\ participation.lease \in 0..3
  /\ participation.state \in {"UNCONFIGURED", "JOINING", "CONTRIBUTING", "DEGRADED", "LOCKED"}

-----------------------------------------------------------------------------
(* refresh(). *)

\* The requirements that the snapshot answers.
Held ==
  /\ registered /\ policy
  /\ fresh = Stamps
  /\ view.complete /\ failed = {} /\ Desired \subseteq pinned

\* The console (buildGuiView) asks the gate too, and shows the answer beside
\* the archive of a snapshot of its own, which it takes just before.
Shown(p) ==
  IF p \in Askers THEN [desired |-> Desired, pinned |-> pinned, failed |-> failed] ELSE NoArchive

RefreshReads(p) ==
  /\ refreshing[p].stage = "none"
  /\ refreshing' = [refreshing EXCEPT ![p] =
       [stage |-> "kubo", held |-> Held, policy |-> policy, verified |-> participation.verified,
        lease |-> participation.lease, live |-> participation.lease = 3,
        graced |-> participation.lease >= 2, earned |-> earned, shown |-> Shown(p)]]

\* Fault: the console takes its snapshot when the answers are there.
ShownThen_Later(p) == Shown(p)
ShownThen(p) == refreshing[p].shown

\* The decision.  `kubo' is whether Kubo answered.
Decision(f, held) ==
  CASE ~f.policy -> "UNCONFIGURED"
    [] f.policy /\ held /\ f.verified /\ f.live -> "CONTRIBUTING"
    [] f.policy /\ ~(held /\ f.verified /\ f.live) /\ f.verified /\ f.graced -> "DEGRADED"
    [] f.policy /\ f.verified /\ ~f.graced -> "LOCKED"
    [] OTHER -> "JOINING"

RefreshDecides(p) ==
  /\ refreshing[p].stage = "kubo"
  /\ \E kubo \in BOOLEAN :
       /\ IF kubo THEN UNCHANGED troubles ELSE Trouble
       /\ LET f == refreshing[p]
              held == f.held /\ kubo /\ scheduling IN
            refreshing' = [refreshing EXCEPT ![p] =
              [stage |-> "write", lease |-> f.lease, held |-> held,
               state |-> Decision(f, held), earned |-> f.earned, shown |-> ShownThen(p)]]

RefreshWrites(p) ==
  /\ refreshing[p].stage = "write"
  /\ participation' = [participation EXCEPT !.state = refreshing[p].state,
                                            !.lease = refreshing[p].lease]
  /\ refreshing' = [refreshing EXCEPT ![p] = NoRefresh]

\* A task that awaits refresh() goes on `then' (held) when it has written.
AwaitRefresh(r, step, then) ==
  /\ At(r, step)
  /\ \/ RefreshReads(r) /\ UNCHANGED <<task, troubles, participation>>
     \/ RefreshDecides(r) /\ UNCHANGED <<task, participation>>
     \/ RefreshWrites(r) /\ then /\ UNCHANGED troubles
  /\ UNCHANGED <<archiveVars, fresh, registered, policy, scheduling, earned>>

-----------------------------------------------------------------------------
(* Registration, policy and heartbeat. *)

GateUnchanged == UNCHANGED <<participation, scheduling, refreshing, earned>>

\* bootstrapOnce()'s health check and wait for Kubo, resolveNodeKey() and
\* ensureRegistered(): a refused credential or another node's identity ends
\* the startup, any other failure is tried again.
Register(r) ==
  /\ At(r, "register")
  /\ \/ registered' = TRUE /\ Done(r) /\ UNCHANGED <<archiveVars, fresh, troubles>>
     \/ Fails(r) /\ UNCHANGED registered
     \/ Trouble /\ Become(r, [Idle EXCEPT !.at = "refused"])
             /\ UNCHANGED <<archiveVars, fresh, registered>>
  /\ UNCHANGED policy /\ GateUnchanged

FetchPolicy(r) ==
  /\ At(r, "policy")
  /\ \/ policy' = TRUE /\ Done(r) /\ UNCHANGED <<archiveVars, fresh, troubles>>
     \/ Fails(r) /\ UNCHANGED policy
  /\ UNCHANGED registered /\ GateUnchanged

Gated(r) == Head(task[r].todo) = "heartbeat"
Goto(r, step) == Become(r, [task[r] EXCEPT !.at = step])

\* sendHeartbeat(): a node that is not registered sends none; the operator's
\* own heartbeat in the GUI does not pass by the gate.
BeatReports(r) == AwaitRefresh(r, "report", Goto(r, "send"))

BeatSends(r) ==
  /\ At(r, "send")
  /\ \/ registered /\ Goto(r, "accepted") /\ UNCHANGED <<archiveVars, fresh, troubles>>
     \/ ~registered /\ Become(r, Threw(r)) /\ UNCHANGED <<archiveVars, fresh, troubles>>
     \/ Fails(r)
  /\ UNCHANGED <<registered, policy>> /\ GateUnchanged

BeatStores(r) ==
  /\ At(r, "accepted")
  /\ fresh' = fresh \cup {"heartbeat"}
  /\ IF Gated(r) THEN Goto(r, "verify") ELSE Done(r)
  /\ UNCHANGED <<archiveVars, troubles, registered, policy>> /\ GateUnchanged

\* recordHeartbeatAccepted(): a lease is renewed only when every requirement
\* was met.
Renews_Always(r) == TRUE
Renews(r) == refreshing[r].held

BeatVerifies(r) ==
  AwaitRefresh(r, "verify",
    IF Renews(r) THEN Become(r, [task[r] EXCEPT !.at = "renew",
                                   !.ok = IF refreshing[r].held THEN {} ELSE Records])
                 ELSE Done(r))

BeatRenews(r) ==
  /\ At(r, "renew")
  /\ participation' = [state |-> "CONTRIBUTING", lease |-> 3, verified |-> TRUE]
  /\ earned' = IF task[r].ok = {} THEN 3 ELSE earned
  /\ Goto(r, "settle")
  /\ UNCHANGED <<archiveVars, fresh, troubles, registered, policy, scheduling, refreshing>>

BeatSettles(r) == AwaitRefresh(r, "settle", Done(r))

GateStep(r) ==
  \/ Register(r) \/ FetchPolicy(r)
  \/ BeatReports(r) \/ BeatSends(r) \/ BeatStores(r)
  \/ BeatVerifies(r) \/ BeatRenews(r) \/ BeatSettles(r)

-----------------------------------------------------------------------------
(* assertUsefulOperation(), and time. *)

Ask(a) ==
  /\ \/ RefreshReads(a) /\ Trouble /\ UNCHANGED participation
     \/ RefreshDecides(a) /\ UNCHANGED participation
     \/ RefreshWrites(a) /\ UNCHANGED troubles
  /\ UNCHANGED <<task, archiveVars, fresh, registered, policy, scheduling, earned>>

Older(level, from) == IF level = from THEN level - 1 ELSE level

\* A live lease lapses into its grace, or the grace of one runs out.
LeaseAges(from) ==
  /\ Trouble
  /\ earned = from
  /\ participation' = [participation EXCEPT !.lease = Older(@, from)]
  /\ refreshing' = [p \in Runners \cup Askers |->
       IF refreshing[p].stage = "none" THEN NoRefresh
       ELSE [refreshing[p] EXCEPT !.lease = Older(@, from)]]
  /\ earned' = Older(earned, from)
  /\ UNCHANGED <<task, archiveVars, fresh, registered, policy, scheduling>>

\* A timestamp is no longer recent.
StampAges(stamp) ==
  /\ stamp \in fresh
  /\ Trouble
  /\ fresh' = fresh \ {stamp}
  /\ UNCHANGED <<task, archiveVars, registered, policy, participation, scheduling,
                 refreshing, earned>>

GateEnvironment ==
  \/ \E a \in Askers : Ask(a)
  \/ \E from \in {2, 3} : LeaseAges(from)
  \/ \E stamp \in Stamps : StampAges(stamp)

-----------------------------------------------------------------------------
(* Properties. *)

\* Whoever the gate admits, a heartbeat that was accepted while every archive
\* check held had time left, its grace included, when the question was put:
\* no refresh that writes an older lease back, and no restart, makes a lease
\* out of nothing (docs/PARTICIPATION.md: "restart cannot turn that state into
\* DEGRADED").
EligibleIsEarned ==
  /\ participation.lease <= earned
  /\ \A p \in Runners \cup Askers :
       refreshing[p].stage = "write" /\ refreshing[p].state \in Eligible => refreshing[p].earned >= 2
==============================================================================
