----------------------------- MODULE NodeRuntime -----------------------------
(***************************************************************************)
(* The `start' command (src/cli/commands.ts) around Archive and            *)
(* Participation: recoverNetworkStartup() until the node has bootstrapped, *)
(* the activation of the services, the scheduler's six loops and the       *)
(* operator's GUI actions competing for one ActionLock, and the shutdown   *)
(* under its deadlines, after which the process may be started again.      *)
(***************************************************************************)
EXTENDS Participation, Console

CONSTANTS
  MaxRestarts  \* how often the process is started again

VARIABLES
  lock,      \* currentAction of the ActionLock
  startup,   \* recoverNetworkStartup(): trying, active, gaveUp
  aborted,   \* startupAbort
  stopped,   \* Scheduler.stopped
  services,  \* what runs: gui, scheduler, remoteCompute (and signaling with it)
  shutdown,  \* where waitForShutdown() is
  restarts

runtimeVars == <<lock, startup, aborted, stopped, services, shutdown, restarts>>
vars == <<task, troubles, fresh, archiveVars, gateVars, runtimeVars>>

ASSUME RuntimeAssumption == Runners = {"startup", "gui", "policy", "cid-sync", "pin-reconcile",
                                       "commitments", "heartbeat", "status-rewards"}

Loops == Runners \ {"startup", "gui"}
GuiActions == {<<"sync">>, <<"pin">>, <<"commitments">>, <<"beat">>, <<"doctor", "status", "rewards">>}

\* What each of them runs: bootstrapOnce(), and the specs of Scheduler.start().
Work(r) ==
  CASE r = "startup" -> <<"register", "policy", "sync", "heartbeat", "status", "rewards">>
    [] r = "policy" -> <<"policy">>
    [] r = "cid-sync" -> <<"sync">>
    [] r = "pin-reconcile" -> <<"pin">>
    [] r = "commitments" -> <<"commitments">>
    [] r = "heartbeat" -> <<"heartbeat">>
    [] OTHER -> <<"status", "rewards">>

Init ==
  /\ ArchiveInit /\ GateInit
  /\ lock = "free" /\ startup = "trying" /\ aborted = FALSE /\ stopped = FALSE
  /\ services = {"gui"} /\ shutdown = "none" /\ restarts = 0

TypeOK ==
  /\ ArchiveTypeOK /\ GateTypeOK
  /\ lock \in Runners \cup {"free"}
  /\ services \subseteq {"gui", "scheduler", "remoteCompute"}

Alive == shutdown # "exited"

-----------------------------------------------------------------------------
\* ActionLock.run(): a second caller is turned away, and tries again in its
\* own time.
Acquires_GuiUnchecked(r) == lock = "free" \/ r = "gui"
Acquires(r) == lock = "free"

Begin(r, todo) ==
  /\ Alive /\ At(r, "idle") /\ Acquires(r)
  /\ lock' = r
  /\ Become(r, Started(todo))
  /\ UNCHANGED <<fresh, archiveVars, gateVars>>

StartupBegins ==
  /\ startup = "trying" /\ ~aborted
  /\ Begin("startup", Work("startup"))
  /\ UNCHANGED <<troubles, startup, aborted, stopped, services, shutdown, restarts>>

\* A tick of runResilientLoop().
LoopTicks(l) ==
  /\ "scheduler" \in services /\ ~stopped
  /\ Begin(l, Work(l))
  /\ UNCHANGED <<troubles, startup, aborted, stopped, services, shutdown, restarts>>

\* runAction() of the GUI.
GuiActs ==
  /\ "gui" \in services /\ Trouble
  /\ \E todo \in GuiActions : Begin("gui", todo)
  /\ UNCHANGED <<startup, aborted, stopped, services, shutdown, restarts>>

Step(r) ==
  /\ Alive /\ UNCHANGED runtimeVars
  /\ \/ ArchiveStep(r) /\ UNCHANGED gateVars
     \/ GateStep(r)

\* The end of ActionLock.run(), whether its task returned or threw.
Frees_OnReturn(r) == IF At(r, "returned") THEN "free" ELSE lock
Frees(r) == "free"

Settled(r) == Alive /\ task[r].at \in {"returned", "threw", "refused"}

\* A loop or an action that has ended: a loop sleeps for its interval, or for
\* its backoff, and ticks again.
TaskEnds(r) ==
  /\ r # "startup" /\ Settled(r)
  /\ lock' = Frees(r) /\ Become(r, Idle)
  /\ UNCHANGED <<troubles, fresh, archiveVars, gateVars,
                 startup, aborted, stopped, services, shutdown, restarts>>

\* recoverNetworkStartup() after a bootstrap that returned: nothing starts
\* once the shutdown has begun.
MayActivate_Anyway == TRUE
MayActivate == ~aborted

StartupEnds ==
  /\ Settled("startup")
  /\ lock' = Frees("startup") /\ Become("startup", Idle)
  /\ IF At("startup", "returned") /\ MayActivate
       THEN /\ startup' = "active" /\ scheduling' = TRUE
            /\ services' = services \cup {"scheduler", "remoteCompute"}
       ELSE /\ startup' = IF At("startup", "refused") THEN "gaveUp" ELSE startup
            /\ UNCHANGED <<scheduling, services>>
  /\ UNCHANGED <<troubles, fresh, archiveVars, registered, policy, participation, refreshing, earned, aborted, stopped, shutdown, restarts>>

-----------------------------------------------------------------------------
(* waitForShutdown(): each step is given its budget and no more. *)

Sigterm ==
  /\ Trouble
  /\ shutdown = "none" /\ shutdown' = "scheduler" /\ aborted' = TRUE
  /\ UNCHANGED <<task, fresh, archiveVars, gateVars, lock, startup, stopped, services,
                 restarts>>

\* The scheduler's step, past the wait for an aborted startup.  It goes on in
\* the background when its budget is spent.
SchedulerStops ==
  /\ Alive /\ shutdown # "none" /\ "scheduler" \in services /\ ~stopped
  /\ stopped' = TRUE /\ scheduling' = FALSE
  /\ UNCHANGED <<task, troubles, fresh, archiveVars, registered, policy, participation, refreshing, earned, lock, startup, aborted, services, shutdown, restarts>>

\* remoteCompute.stop() and a missing signaling client take no time.
NextShutdown == [scheduler |-> "gui", gui |-> "exited"]

\* A step is done, or its budget is spent.  Past the last one the process exits
\* by itself or is made to.
ShutdownStep ==
  /\ shutdown \in DOMAIN NextShutdown
  /\ shutdown' = NextShutdown[shutdown]
  /\ services' = services \ {IF shutdown = "gui" THEN "gui" ELSE "remoteCompute"}
  /\ UNCHANGED <<task, troubles, fresh, archiveVars, gateVars, lock, startup, aborted, stopped,
                 restarts>>

\* The process is started again: the state file is all that is left.
Restart ==
  /\ ~Alive /\ restarts < MaxRestarts /\ restarts' = restarts + 1
  /\ task' = [r \in Runners |-> Idle]
  /\ refreshing' = [p \in Runners \cup Askers |-> NoRefresh]
  /\ scheduling' = FALSE
  /\ lock' = "free" /\ startup' = "trying" /\ aborted' = FALSE /\ stopped' = FALSE
  /\ services' = {"gui"} /\ shutdown' = "none"
  /\ UNCHANGED <<troubles, fresh, archiveVars, registered, policy, participation, earned>>

-----------------------------------------------------------------------------
Environment ==
  /\ Alive /\ UNCHANGED runtimeVars
  /\ \/ ServeAnother /\ UNCHANGED gateVars
     \/ GateEnvironment

Next ==
  \/ StartupBegins \/ StartupEnds \/ GuiActs
  \/ \E l \in Loops : LoopTicks(l)
  \/ \E r \in Runners : Step(r) \/ TaskEnds(r)
  \/ Sigterm \/ SchedulerStops \/ ShutdownStep \/ Restart
  \/ Environment

Spec == Init /\ [][Next]_vars

\* Tasks go on and timers fire.  A loop sleeps a jittered interval that is long
\* beside the tasks it competes with, so that it does not find the lock taken
\* every time; the other loops need no such assumption.
TasksGoOn ==
  \/ lock # "free" /\ (Step(lock) \/ TaskEnds(lock))
  \/ StartupBegins \/ StartupEnds
AsksGoOn == \E a \in Askers : refreshing[a] # NoRefresh /\ Alive /\ Ask(a) /\ UNCHANGED runtimeVars
Fairness ==
  /\ WF_vars(TasksGoOn) /\ WF_vars(AsksGoOn)
  /\ \A l \in {"cid-sync", "pin-reconcile", "heartbeat"} : SF_vars(LoopTicks(l))

FairSpec == Spec /\ Fairness

-----------------------------------------------------------------------------
(* The console. *)

WorkerAnswers == [status : {"none", "ready", "unsupported", "other"}, gpu : BOOLEAN]

\* buildGuiView() when its probes have answered, on a node that shares its
\* compute and has no captures and no jobs.
buildGuiView(a, answer, backend, kubo) ==
  LET shown == refreshing[a].shown IN
  buildViewModel(
    [participation |-> refreshing[a].state, worker |-> detectWorker(answer),
     backend |-> backend, kubo |-> kubo, desired |-> shown.desired,
     pinned |-> shown.pinned, failed |-> shown.failed,
     publicBytes |-> Bytes(shown.desired \cap shown.pinned), privateBytes |-> 0,
     repoBytes |-> Bytes(shown.pinned), maxBytes |-> MaxBytes,
     enabled |-> TRUE, paused |-> FALSE, jobs |-> <<>>, pending |-> 0, settled |-> 0])

-----------------------------------------------------------------------------
(* Properties. *)

\* Once the shutdown has begun no service starts and no loop takes up a task,
\* however late a bootstrap returns ("A request completing after shutdown
\* cannot activate services because recovery checks the signal").
NothingStartsLate ==
  [][/\ aborted /\ aborted' => services' \subseteq services
     /\ stopped /\ stopped' => \A l \in Loops : At(l, "idle") => task'[l].at = "idle"]_vars

\* The green dot in the console's header is true of one moment: the node
\* contributes, every planned record was held and none had failed when the
\* gate was asked, and both services answered (buildGuiView, refresh); and a
\* worker shown as ready is one whose compute the heartbeat offers.
GreenIsOneMoment ==
  \A a \in Askers : refreshing[a].stage = "write" =>
    \A answer \in WorkerAnswers, backend, kubo \in BOOLEAN :
      LET shown == refreshing[a].shown
          model == buildGuiView(a, answer, backend, kubo)
      IN /\ overallSeverity(model) = "good" =>
              /\ refreshing[a].state = "CONTRIBUTING" /\ backend /\ kubo
              /\ shown.desired \subseteq shown.pinned /\ shown.failed = {}
              /\ model.overview.archive # "attention"
         /\ (model.overview.spatial = "good") =
              ("compute.remoteJobs" \in buildCapabilities(detectWorker(answer), kubo))

\* A node that is left running, with services that answer, comes to contribute
\* and goes on contributing, whatever failed, changed or went stale before
\* (runResilientLoop, ActionLock.run, recordHeartbeatAccepted).
Contributes ==
  <>[](shutdown = "none" /\ startup # "gaveUp") => <>[](participation.state = "CONTRIBUTING")
==============================================================================
