---------------------------- MODULE RuntimeLease ----------------------------
(***************************************************************************)
(* acquireRuntimeLease() and the release() it returns: one official writer *)
(* of the local state at a time.  A process is one life of an operating    *)
(* system process; it calls acquireRuntimeLease() once (cli/commands.ts).  *)
(*                                                                         *)
(* The lease is a file that names its owner.  Processes create it with a   *)
(* hard link, and remove one whose owner they can prove stopped under the  *)
(* guard of a second name, the .reclaim directory.  Both survive the death *)
(* of a process and a reboot of its host.                                  *)
(***************************************************************************)
EXTENDS Naturals

CONSTANTS
  Processes,
  Hosts, Home,        \* hostname of each process; it names one machine
  Namespaces, Space,  \* PID namespace of each process
  Pids, Pid,          \* PID of each process in its namespace
  OneShot,            \* commands that release the lease when they are through
  Linux,              \* boot ids and start times of other processes are known
  Nobody, MaxBoots

ASSUME PlaceAssumption ==
  /\ Home \in [Processes -> Hosts]
  /\ Space \in [Processes -> Namespaces]
  /\ Pid \in [Processes -> Pids]
ASSUME OneShotAssumption == OneShot \subseteq Processes
ASSUME PlatformAssumption == Linux \in BOOLEAN
ASSUME NobodyAssumption == Nobody \notin Processes
ASSUME BootAssumption == MaxBoots \in Nat

MaxAttempts == 3

VARIABLES
  pc,        \* where each process stands
  dead,      \* the processes that have died
  boot,      \* boot id of each host
  bornIn,    \* boot id recorded by each process
  lease,     \* owner named by the lease file, or Nobody: no file
  reclaim,   \* who made the .reclaim directory, or Nobody: no directory
  temp,      \* whose temporary file exists
  seen,      \* the owner each process has read last
  attempt    \* turns of the loop

vars == <<pc, dead, boot, bornIn, lease, reclaim, temp, seen, attempt>>

Owners == Processes \cup {Nobody}
\* Under the guard of the .reclaim directory.
Reaping == {"reread", "reprove", "unlink", "rmdir"}
\* The lease file names the process.
Owning == {"granted", "holding", "drop"}
Pcs == {"unborn", "write", "link", "read", "prove", "mkdir", "refused", "failed",
        "done"} \cup Reaping \cup Owning

TypeOK ==
  /\ pc \in [Processes -> Pcs]
  /\ dead \in SUBSET Processes
  /\ boot \in [Hosts -> Nat] /\ bornIn \in [Processes -> Nat]
  /\ lease \in Owners /\ reclaim \in Owners
  /\ temp \in SUBSET Processes
  /\ seen \in [Processes -> Owners]
  /\ attempt \in [Processes -> 0 .. MaxAttempts]

Init ==
  /\ pc = [p \in Processes |-> "unborn"]
  /\ dead = {}
  /\ boot = [h \in Hosts |-> 0] /\ bornIn = [p \in Processes |-> 0]
  /\ lease = Nobody /\ reclaim = Nobody /\ temp = {}
  /\ seen = [p \in Processes |-> Nobody]
  /\ attempt = [p \in Processes |-> 0]

-----------------------------------------------------------------------------
(* Processes and hosts *)

Alive(p) == pc[p] # "unborn" /\ p \notin dead

SamePid(p, q) == Home[p] = Home[q] /\ Space[p] = Space[q] /\ Pid[p] = Pid[q]

\* The operating system gives no PID to two processes at a time.
Begin(p) ==
  /\ pc[p] = "unborn"
  /\ \A q \in Processes : SamePid(p, q) => ~Alive(q)
  /\ pc' = [pc EXCEPT ![p] = "write"]
  /\ bornIn' = [bornIn EXCEPT ![p] = boot[Home[p]]]
  /\ UNCHANGED <<dead, boot, lease, reclaim, temp, seen, attempt>>

Die(p) ==
  /\ Alive(p)
  /\ dead' = dead \cup {p}
  /\ UNCHANGED <<pc, boot, bornIn, lease, reclaim, temp, seen, attempt>>

Reboot(h) ==
  /\ boot[h] < MaxBoots
  /\ boot' = [boot EXCEPT ![h] = @ + 1]
  /\ dead' = dead \cup {p \in Processes : Home[p] = h /\ Alive(p)}
  /\ UNCHANGED <<pc, bornIn, lease, reclaim, temp, seen, attempt>>

\* Fault: the namespaces are compared before the boots.
ProvenStopped_NamespaceFirst(owner, p) ==
  /\ Home[owner] = Home[p]
  /\ Space[owner] = Space[p]
  /\ \/ Linux /\ bornIn[owner] # bornIn[p]
     \/ \A q \in Processes : SamePid(owner, q) => ~Alive(q)
     \/ \E q \in Processes \ {owner} : SamePid(owner, q) /\ Alive(q) /\ (Linux \/ q = p)

\* The owner ran under another boot of this host; or nothing has its PID in this
\* namespace; or something has, and it started at another time.
ProvenStopped(owner, p) ==
  /\ Home[owner] = Home[p]
  /\ \/ Linux /\ bornIn[owner] # bornIn[p]
     \/ /\ Space[owner] = Space[p]
        /\ \/ \A q \in Processes : SamePid(owner, q) => ~Alive(q)
           \/ \E q \in Processes \ {owner} :
                SamePid(owner, q) /\ Alive(q) /\ (Linux \/ q = p)

-----------------------------------------------------------------------------
(* acquireRuntimeLease *)

Goto(p, to) == pc' = [pc EXCEPT ![p] = to]

\* The owner record is complete, and durable, before it has the lease's name.
WriteTemporary(p) ==
  /\ Alive(p) /\ pc[p] = "write"
  /\ temp' = temp \cup {p}
  /\ Goto(p, "link")
  /\ UNCHANGED <<dead, boot, bornIn, lease, reclaim, seen, attempt>>

Link(p) ==
  /\ Alive(p) /\ pc[p] = "link"
  /\ \/ lease = Nobody /\ lease' = p /\ Goto(p, "granted")
     \/ lease # Nobody /\ lease' = lease /\ Goto(p, "read")
  /\ UNCHANGED <<dead, boot, bornIn, reclaim, temp, seen, attempt>>

\* readOwner() throws when the lease has gone in the meantime.
ReadExisting(p) ==
  /\ Alive(p) /\ pc[p] = "read"
  /\ seen' = [seen EXCEPT ![p] = lease]
  /\ Goto(p, IF lease = Nobody THEN "refused" ELSE "prove")
  /\ UNCHANGED <<dead, boot, bornIn, lease, reclaim, temp, attempt>>

ProveExisting(p) ==
  /\ Alive(p) /\ pc[p] = "prove"
  /\ Goto(p, IF ProvenStopped(seen[p], p) THEN "mkdir" ELSE "refused")
  /\ UNCHANGED <<dead, boot, bornIn, lease, reclaim, temp, seen, attempt>>

\* Fault: the owner is not read again under the guard.
ClaimGuard_NoReread(p) ==
  /\ Alive(p) /\ pc[p] = "mkdir"
  /\ \/ reclaim = Nobody /\ reclaim' = p /\ Goto(p, "unlink")
     \/ reclaim # Nobody /\ reclaim' = reclaim /\ Goto(p, "refused")
  /\ UNCHANGED <<dead, boot, bornIn, lease, temp, seen, attempt>>

ClaimGuard(p) ==
  /\ Alive(p) /\ pc[p] = "mkdir"
  /\ \/ reclaim = Nobody /\ reclaim' = p /\ Goto(p, "reread")
     \/ reclaim # Nobody /\ reclaim' = reclaim /\ Goto(p, "refused")
  /\ UNCHANGED <<dead, boot, bornIn, lease, temp, seen, attempt>>

Reread(p) ==
  /\ Alive(p) /\ pc[p] = "reread"
  /\ seen' = [seen EXCEPT ![p] = lease]
  /\ Goto(p, IF lease = Nobody THEN "rmdir" ELSE "reprove")
  /\ UNCHANGED <<dead, boot, bornIn, lease, reclaim, temp, attempt>>

Reprove(p) ==
  /\ Alive(p) /\ pc[p] = "reprove"
  /\ Goto(p, IF ProvenStopped(seen[p], p) THEN "unlink" ELSE "rmdir")
  /\ UNCHANGED <<dead, boot, bornIn, lease, reclaim, temp, seen, attempt>>

\* Whatever has the lease's name is removed; if nothing has, unlink throws, and
\* the guard is removed on the way out, which "rmdir" at the last turn stands for.
Unlink(p) ==
  /\ Alive(p) /\ pc[p] = "unlink"
  /\ lease' = Nobody
  /\ attempt' = IF lease = Nobody THEN [attempt EXCEPT ![p] = MaxAttempts - 1]
                                  ELSE attempt
  /\ Goto(p, "rmdir")
  /\ UNCHANGED <<dead, boot, bornIn, reclaim, temp, seen>>

RemoveGuard(p) ==
  /\ Alive(p) /\ pc[p] = "rmdir"
  /\ reclaim' = Nobody
  /\ attempt' = [attempt EXCEPT ![p] = @ + 1]
  /\ Goto(p, IF attempt[p] + 1 < MaxAttempts THEN "link" ELSE "refused")
  /\ UNCHANGED <<dead, boot, bornIn, lease, temp, seen>>

\* The finally of acquireRuntimeLease.
RemoveTemporary(p) ==
  /\ Alive(p)
  /\ \/ pc[p] = "granted" /\ Goto(p, "holding")
     \/ pc[p] = "refused" /\ Goto(p, "failed")
  /\ temp' = temp \ {p}
  /\ UNCHANGED <<dead, boot, bornIn, lease, reclaim, seen, attempt>>

-----------------------------------------------------------------------------
(* release *)

\* Only one-shot commands release; the others keep the lease until they die.
Release(p) ==
  /\ Alive(p) /\ pc[p] = "holding" /\ p \in OneShot
  /\ Goto(p, IF lease = p THEN "drop" ELSE "done")
  /\ UNCHANGED <<dead, boot, bornIn, lease, reclaim, temp, seen, attempt>>

Drop(p) ==
  /\ Alive(p) /\ pc[p] = "drop"
  /\ lease' = Nobody
  /\ Goto(p, "done")
  /\ UNCHANGED <<dead, boot, bornIn, reclaim, temp, seen, attempt>>

-----------------------------------------------------------------------------
Acquire(p) ==
  \/ WriteTemporary(p) \/ Link(p) \/ ReadExisting(p) \/ ProveExisting(p)
  \/ ClaimGuard(p) \/ Reread(p) \/ Reprove(p) \/ Unlink(p) \/ RemoveGuard(p)
  \/ RemoveTemporary(p)

Next ==
  \/ \E p \in Processes : Begin(p) \/ Die(p) \/ Acquire(p) \/ Release(p) \/ Drop(p)
  \/ \E h \in Hosts : Reboot(h)

Spec == Init /\ [][Next]_vars

\* No command gives the lease back while another process, under the guard, is
\* about to look whether that command still runs.  The code does not ensure this.
Undisturbed ==
  \A p, q \in Processes :
    pc[p] = "drop" /\ Alive(q) /\ pc[q] = "reprove" /\ seen[q] = p
      => pc'[p] = "drop"

CalmSpec == Init /\ [][Next /\ Undisturbed]_vars

-----------------------------------------------------------------------------
(* What the lease promises *)

Writers == {p \in Processes : p \notin dead /\ pc[p] \in {"granted", "holding"}}

\* The lease of a process that is at work always names that process: a slow
\* reaper never takes away the lease of a live successor of the owner it has
\* found dead.
LiveLeaseStands == \A p \in Writers : lease = p

Lock == INSTANCE ExclusiveWriter WITH writers <- Writers

\* There are never two writers, and one enters only after the other has gone.
ExclusiveWriters == Lock!Spec

\* Nobody is under the guard but the one who made the .reclaim directory, and
\* whoever is there finds its directory in place when it removes it.
GuardIsExclusive ==
  \A p \in Processes : Alive(p) /\ pc[p] \in Reaping => reclaim = p

\* A process that starts after all others have died, on the machine the owner of
\* the lease ran on, gets the lease: when nobody died under the guard, and the
\* owner's end can be observed, through its boot or in its PID namespace.
Alone(p) ==
  /\ pc[p] = "write" /\ \A q \in Processes \ {p} : q \in dead
  /\ reclaim = Nobody
  /\ lease # Nobody =>
       /\ Home[lease] = Home[p]
       /\ (Linux /\ bornIn[lease] # bornIn[p]) \/ Space[lease] = Space[p]

\* Some process that can take its next step does.
Fairness == WF_vars(\E p \in Processes : Acquire(p))

FairSpec == CalmSpec /\ Fairness

SuccessorGetsLease ==
  (\E p \in Processes : Alone(p))
    ~> (dead = Processes \/ \E p \in Processes \ dead : pc[p] = "holding")
=============================================================================
