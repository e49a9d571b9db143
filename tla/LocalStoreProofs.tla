--------------------------- MODULE LocalStoreProofs ---------------------------
(***************************************************************************)
(* The runtime lease and the state file that it guards, for any processes, *)
(* hosts, namespaces and PIDs, and any number of updates, deaths and       *)
(* reboots.  The lease is proved to stand, and to implement                *)
(* ExclusiveWriter, under CalmSpec: no command gives the lease back        *)
(* between a reaper's two looks at it.  Then update() of the state file is *)
(* atomic and durable, as the lease keeps its writers apart.               *)
(*                                                                         *)
(* StoreIsAtomic is not inductive: it takes that the memory of the process *)
(* that serves is the file, but for the update whose rename has just been  *)
(* made, and that the candidate is the file and the update in work.  That  *)
(* in turn rests on the lease: two serving processes would each have a     *)
(* memory of their own, and the later rename would undo the earlier one.   *)
(***************************************************************************)
EXTENDS LocalStore, TLAPS, SequenceTheorems

\* A leaf is first-order reasoning unless it says otherwise.
USE Zenon

-----------------------------------------------------------------------------
(* The lease: types *)

\* A process that goes on is at a turn of the loop that exists.
Looping == Reaping \cup {"unborn", "write", "link", "read", "prove", "mkdir"}
Turns == \A p \in Processes : pc[p] \in Looping => attempt[p] < MaxAttempts

Typed == TypeOK /\ Turns

\* A process that moves is where its code can be, and the others stay.
LEMMA GotoFact ==
  ASSUME pc \in [Processes -> Pcs], NEW p \in Processes, NEW to \in Pcs, Goto(p, to)
  PROVE  /\ pc' \in [Processes -> Pcs]
         /\ pc'[p] = to
         /\ \A q \in Processes \ {p} : pc'[q] = pc[q]
  BY DEF Goto

\* The places a process goes to.
LEMMA Places ==
  /\ {"write", "link", "read", "prove", "mkdir", "refused", "failed", "done"} \subseteq Pcs
  /\ {"reread", "reprove", "unlink", "rmdir", "granted", "holding", "drop"} \subseteq Pcs
  /\ \A x \in {"refused", "failed", "done", "granted", "holding", "drop"} : x \notin Looping
  /\ {"link", "read", "prove", "mkdir", "reread", "reprove", "unlink", "rmdir"} \subseteq Looping
  BY DEF Pcs, Reaping, Owning, Looping

\* Every turn of the loop but its end leaves the counter as it is.
LEMMA TurnsKept ==
  ASSUME Typed, NEW p \in Processes, NEW to \in Pcs, Goto(p, to),
         UNCHANGED attempt, to \in Looping => pc[p] \in Looping
  PROVE  Turns'
<1>1. /\ pc'[p] = to
      /\ \A q \in Processes \ {p} : pc'[q] = pc[q]
  BY GotoFact DEF Typed, TypeOK
<1> QED
  BY <1>1 DEF Typed, Turns

\* The initial state is well typed.
LEMMA TypedInit == Init => Typed
<1> SUFFICES ASSUME Init PROVE Typed
  OBVIOUS
<1>1. TypeOK
  BY SMT DEF Init, TypeOK, Pcs, Owners, MaxAttempts
<1>2. Turns
  BY SMT DEF Init, Turns, MaxAttempts
<1> QED
  BY <1>1, <1>2 DEF Typed

\* The steps that change neither the counter nor a boot keep the types.
LEMMA TypedMoves ==
  ASSUME Typed, NEW p \in Processes,
         \/ WriteTemporary(p) \/ Link(p) \/ ReadExisting(p) \/ ProveExisting(p)
         \/ ClaimGuard(p) \/ Reread(p) \/ Reprove(p) \/ RemoveTemporary(p)
         \/ Release(p) \/ Drop(p)
  PROVE  Typed'
<1>1. PICK to \in Pcs : Goto(p, to) /\ (to \in Looping => pc[p] \in Looping)
  <2>1. \A x \in {"write", "link", "read", "prove", "mkdir", "reread", "reprove"} : x \in Looping
    BY DEF Looping, Reaping
  <2>2. CASE WriteTemporary(p) \/ Link(p) \/ ReadExisting(p) \/ ProveExisting(p)
    BY <2>1, <2>2, Places DEF WriteTemporary, Link, ReadExisting, ProveExisting
  <2>3. CASE ClaimGuard(p) \/ Reread(p) \/ Reprove(p)
    BY <2>1, <2>3, Places DEF ClaimGuard, Reread, Reprove
  <2>4. CASE RemoveTemporary(p) \/ Release(p) \/ Drop(p)
    BY <2>4, Places DEF RemoveTemporary, Release, Drop
  <2> QED
    BY <2>2, <2>3, <2>4
<1>2. UNCHANGED <<dead, boot, bornIn, attempt>>
  BY DEF WriteTemporary, Link, ReadExisting, ProveExisting, ClaimGuard, Reread,
     Reprove, RemoveTemporary, Release, Drop
<1>3. lease' \in Owners /\ reclaim' \in Owners
  BY DEF WriteTemporary, Link, ReadExisting, ProveExisting, ClaimGuard, Reread,
     Reprove, RemoveTemporary, Release, Drop, Typed, TypeOK, Owners
<1>4. temp' \in SUBSET Processes
  BY DEF WriteTemporary, Link, ReadExisting, ProveExisting, ClaimGuard, Reread,
     Reprove, RemoveTemporary, Release, Drop, Typed, TypeOK
<1>5. seen' = seen \/ seen' = [seen EXCEPT ![p] = lease]
  BY DEF WriteTemporary, Link, ReadExisting, ProveExisting, ClaimGuard, Reread,
     Reprove, RemoveTemporary, Release, Drop
<1>6. seen' \in [Processes -> Owners]
  BY <1>5 DEF Typed, TypeOK
<1>7. pc' \in [Processes -> Pcs]
  BY <1>1, GotoFact DEF Typed, TypeOK
<1>8. Turns'
  BY <1>1, <1>2, TurnsKept
<1> QED
  BY <1>2, <1>3, <1>4, <1>6, <1>7, <1>8 DEF Typed, TypeOK

\* The steps that count a turn keep the types.
LEMMA TypedTurns ==
  ASSUME Typed, NEW p \in Processes, Unlink(p) \/ RemoveGuard(p)
  PROVE  Typed'
<1>1. pc[p] \in Looping
  BY Places DEF Unlink, RemoveGuard
<1>2. attempt \in [Processes -> 0 .. MaxAttempts] /\ attempt[p] < MaxAttempts
  BY <1>1 DEF Typed, TypeOK, Turns
<1>3. PICK to \in Pcs : Goto(p, to)
  BY Places DEF Unlink, RemoveGuard
<1>4. /\ pc' \in [Processes -> Pcs]
      /\ pc'[p] = to
      /\ \A q \in Processes \ {p} : pc'[q] = pc[q]
  BY <1>3, GotoFact DEF Typed, TypeOK
<1>5. CASE Unlink(p)
  <2>1. /\ attempt' \in [Processes -> 0 .. MaxAttempts]
        /\ attempt'[p] < MaxAttempts
        /\ \A q \in Processes \ {p} : attempt'[q] = attempt[q]
    BY <1>2, <1>5, SMT DEF Unlink, MaxAttempts
  <2>2. Turns'
    BY <1>4, <2>1 DEF Turns, Typed
  <2> QED
    BY <1>4, <1>5, <2>1, <2>2 DEF Unlink, Typed, TypeOK, Owners
<1>6. CASE RemoveGuard(p)
  <2>1. /\ attempt' \in [Processes -> 0 .. MaxAttempts]
        /\ attempt'[p] = attempt[p] + 1
        /\ \A q \in Processes \ {p} : attempt'[q] = attempt[q]
    BY <1>2, <1>6, SMT DEF RemoveGuard, MaxAttempts
  <2>2. \/ attempt'[p] < MaxAttempts
        \/ pc'[p] = "refused"
    BY <1>6, <2>1, Places, GotoFact DEF RemoveGuard, Typed, TypeOK
  <2>3. Turns'
    BY <1>4, <2>1, <2>2, Places DEF Turns, Typed
  <2> QED
    BY <1>4, <1>6, <2>1, <2>3 DEF RemoveGuard, Typed, TypeOK, Owners
<1> QED
  BY <1>5, <1>6

\* The births and deaths of processes and the reboots of hosts keep the types.
LEMMA TypedLives ==
  ASSUME Typed,
         \/ \E p \in Processes : Begin(p) \/ Die(p)
         \/ \E h \in Hosts : Reboot(h)
  PROVE  Typed'
<1>1. ASSUME NEW p \in Processes, Begin(p) PROVE Typed'
  <2>1. boot[Home[p]] \in Nat
    BY PlaceAssumption DEF Typed, TypeOK
  <2>2. bornIn' \in [Processes -> Nat]
    BY <1>1, <2>1 DEF Begin, Typed, TypeOK
  <2>3. Goto(p, "write") /\ "write" \in Pcs /\ pc[p] \in Looping
    BY <1>1, Places DEF Begin, Goto, Looping
  <2>4. Turns' /\ pc' \in [Processes -> Pcs]
    BY <1>1, <2>3, TurnsKept, GotoFact DEF Begin, Typed, TypeOK
  <2> QED
    BY <1>1, <2>2, <2>4 DEF Begin, Typed, TypeOK
<1>2. ASSUME NEW p \in Processes, Die(p) PROVE Typed'
  BY <1>2 DEF Die, Typed, TypeOK, Turns
<1>3. ASSUME NEW h \in Hosts, Reboot(h) PROVE Typed'
  <2>1. boot' \in [Hosts -> Nat]
    BY <1>3, SMT DEF Reboot, Typed, TypeOK
  <2> QED
    BY <1>3, <2>1 DEF Reboot, Typed, TypeOK, Turns
<1> QED
  BY <1>1, <1>2, <1>3

\* Every step keeps the types.
LEMMA TypedStep == Typed /\ [Next]_vars => Typed'
<1> SUFFICES ASSUME Typed, [Next]_vars PROVE Typed'
  OBVIOUS
<1>1. CASE UNCHANGED vars
  BY <1>1 DEF vars, Typed, TypeOK, Turns
<1> QED
  BY <1>1, TypedMoves, TypedTurns, TypedLives DEF Next, Acquire

\* Every state of the lease protocol is well typed: in particular the loop of
\* acquireRuntimeLease ends after its third turn.
THEOREM TypeCorrect == Spec => []TypeOK
<1>1. Typed => TypeOK
  BY DEF Typed
<1> QED
  BY <1>1, TypedInit, TypedStep, PTL DEF Spec

-----------------------------------------------------------------------------
(* The inductive invariant *)

\* A live process was born in the present boot of its host, and no other live
\* process has its PID there.
Births ==
  \A p \in Processes : Alive(p) =>
    /\ bornIn[p] = boot[Home[p]]
    /\ \A q \in Processes : Alive(q) /\ SamePid(p, q) => q = p

\* The lease names a process that was born, and a live owner's lease names it.
Ownership ==
  /\ lease \in Processes => pc[lease] # "unborn"
  /\ \A p \in Processes : Alive(p) /\ pc[p] \in Owning => lease = p

\* A reaper that has read the owner again holds the lease's true owner, and
\* one about to remove the lease knows that this owner is dead.
Verified ==
  \A p \in Processes : Alive(p) /\ pc[p] \in {"reprove", "unlink"} =>
    /\ lease = seen[p] /\ lease \in Processes
    /\ pc[p] = "unlink" => lease \in dead

Inv == Typed /\ Births /\ Ownership /\ GuardIsExclusive /\ Verified

\* The invariant holds when no process is born.
LEMMA InvInit == Init => Inv
<1> SUFFICES ASSUME Init PROVE Inv
  OBVIOUS
<1>1. \A p \in Processes : ~Alive(p)
  BY DEF Init, Alive
<1>2. lease \notin Processes
  BY NobodyAssumption DEF Init
<1> QED
  BY <1>1, <1>2, TypedInit DEF Inv, Births, Ownership, GuardIsExclusive, Verified

\* A process that provenStopped() takes for stopped has died: a live one has
\* the boot of its host, is alone with its PID, and is seen under it.
LEMMA ProofIsSound ==
  ASSUME Births, NEW p \in Processes, Alive(p), NEW owner \in Processes,
         pc[owner] # "unborn", ProvenStopped(owner, p)
  PROVE  owner \in dead
<1> SUFFICES ASSUME Alive(owner) PROVE FALSE
  BY DEF Alive
<1>1. Home[owner] = Home[p]
  BY DEF ProvenStopped
<1>2. bornIn[owner] = bornIn[p]
  BY <1>1 DEF Births
<1>3. SamePid(owner, owner)
  BY DEF SamePid
<1>4. ~ \E q \in Processes \ {owner} : SamePid(owner, q) /\ Alive(q)
  BY DEF Births
<1> QED
  BY <1>2, <1>3, <1>4 DEF ProvenStopped

\* What a step of acquireRuntimeLease or of release changes in the lives of
\* processes: nothing.
LEMMA Continues ==
  ASSUME Inv, NEW p \in Processes, Acquire(p) \/ Release(p) \/ Drop(p)
  PROVE  /\ Alive(p) /\ UNCHANGED <<dead, boot, bornIn>>
         /\ \A q \in Processes : Alive(q)' <=> Alive(q)
         /\ \A q \in Processes \ {p} : pc'[q] = pc[q] /\ seen'[q] = seen[q]
         /\ Births'
<1>1. Alive(p) /\ UNCHANGED <<dead, boot, bornIn>>
  BY DEF Acquire, WriteTemporary, Link, ReadExisting, ProveExisting, ClaimGuard,
     Reread, Reprove, Unlink, RemoveGuard, RemoveTemporary, Release, Drop
<1>2. \E to \in Pcs \ {"unborn"} : Goto(p, to)
  <2>1. \A x \in {"link", "read", "prove", "mkdir", "refused", "failed", "done", "reread",
                  "reprove", "unlink", "rmdir", "granted", "holding", "drop"} :
          x \in Pcs \ {"unborn"}
    BY Places
  <2>2. CASE WriteTemporary(p) \/ Link(p) \/ ReadExisting(p) \/ ProveExisting(p)
    BY <2>1, <2>2 DEF WriteTemporary, Link, ReadExisting, ProveExisting
  <2>3. CASE ClaimGuard(p) \/ Reread(p) \/ Reprove(p)
    BY <2>1, <2>3 DEF ClaimGuard, Reread, Reprove
  <2>4. CASE Unlink(p) \/ RemoveGuard(p)
    BY <2>1, <2>4 DEF Unlink, RemoveGuard
  <2>5. CASE RemoveTemporary(p) \/ Release(p) \/ Drop(p)
    BY <2>1, <2>5 DEF RemoveTemporary, Release, Drop
  <2> QED
    BY <2>2, <2>3, <2>4, <2>5 DEF Acquire
<1>3. pc'[p] # "unborn" /\ \A q \in Processes \ {p} : pc'[q] = pc[q]
  BY <1>2, GotoFact DEF Inv, Typed, TypeOK
<1>4. \A q \in Processes : Alive(q)' <=> Alive(q)
  BY <1>1, <1>3 DEF Alive
<1>5. seen' = seen \/ seen' = [seen EXCEPT ![p] = lease]
  BY DEF Acquire, WriteTemporary, Link, ReadExisting, ProveExisting, ClaimGuard,
     Reread, Reprove, Unlink, RemoveGuard, RemoveTemporary, Release, Drop
<1>6. \A q \in Processes \ {p} : seen'[q] = seen[q]
  BY <1>5 DEF Inv, Typed, TypeOK
<1>7. Births'
  BY <1>1, <1>4 DEF Inv, Births, SamePid
<1> QED
  BY <1>1, <1>3, <1>4, <1>6, <1>7

\* A step that leaves both files alone and goes nowhere near them keeps the
\* invariant.
LEMMA Elsewhere ==
  ASSUME Inv, NEW p \in Processes, Acquire(p) \/ Release(p) \/ Drop(p), Typed',
         UNCHANGED <<lease, reclaim>>,
         pc'[p] \in Owning => pc[p] \in Owning,
         pc'[p] \in Reaping => reclaim = p,
         pc'[p] \notin {"reprove", "unlink"}
  PROVE  Inv'
<1>1. Ownership'
  <2>1. lease \in Processes => pc'[lease] # "unborn"
    BY Continues DEF Inv, Ownership, Alive
  <2> QED
    BY <2>1, Continues DEF Inv, Ownership
<1>2. GuardIsExclusive'
  BY Continues DEF Inv, GuardIsExclusive
<1>3. Verified'
  BY Continues, ZenonT(30) DEF Inv, Verified
<1> QED
  BY <1>1, <1>2, <1>3, Continues DEF Inv

\* The steps of acquireRuntimeLease up to the guard keep the invariant.
LEMMA Approaches ==
  ASSUME Inv, Typed', NEW p \in Processes,
         \/ WriteTemporary(p) \/ Link(p) \/ ReadExisting(p) \/ ProveExisting(p)
         \/ ClaimGuard(p)
  PROVE  Inv'
<1>1. Acquire(p)
  BY DEF Acquire
<1>2. pc \in [Processes -> Pcs]
  BY DEF Inv, Typed, TypeOK
<1>3. CASE WriteTemporary(p) \/ ReadExisting(p) \/ ProveExisting(p)
  <2>1. pc'[p] \in {"link", "refused", "prove", "mkdir"} /\ UNCHANGED <<lease, reclaim>>
    BY <1>2, <1>3 DEF WriteTemporary, ReadExisting, ProveExisting, Goto
  <2>2. pc'[p] \notin Owning /\ pc'[p] \notin Reaping /\ pc'[p] \notin {"reprove", "unlink"}
    BY <2>1 DEF Owning, Reaping
  <2> QED
    BY <1>1, <2>1, <2>2, Elsewhere
<1>4. CASE Link(p)
  <2>1. CASE lease # Nobody
    <3>1. pc'[p] = "read" /\ UNCHANGED <<lease, reclaim>>
      BY <1>2, <1>4, <2>1 DEF Link, Goto
    <3>2. pc'[p] \notin Owning /\ pc'[p] \notin Reaping /\ pc'[p] \notin {"reprove", "unlink"}
      BY <3>1 DEF Owning, Reaping
    <3> QED
      BY <1>1, <3>1, <3>2, Elsewhere
  <2>2. CASE lease = Nobody
    <3>1. pc'[p] = "granted" /\ lease' = p /\ UNCHANGED reclaim
      BY <1>2, <1>4, <2>2 DEF Link, Goto
    <3>2. lease \notin Processes
      BY <2>2, NobodyAssumption
    <3>3. Ownership'
      BY <1>1, <3>1, <3>2, Continues DEF Inv, Ownership
    <3>4. GuardIsExclusive'
      BY <1>1, <3>1, Continues DEF Inv, GuardIsExclusive, Reaping
    <3>5. Verified'
      BY <1>1, <3>1, <3>2, Continues DEF Inv, Verified
    <3> QED
      BY <1>1, <3>3, <3>4, <3>5, Continues DEF Inv
  <2> QED
    BY <2>1, <2>2
<1>5. CASE ClaimGuard(p)
  <2>1. CASE reclaim # Nobody
    <3>1. pc'[p] = "refused" /\ UNCHANGED <<lease, reclaim>>
      BY <1>2, <1>5, <2>1 DEF ClaimGuard, Goto
    <3>2. pc'[p] \notin Owning /\ pc'[p] \notin Reaping /\ pc'[p] \notin {"reprove", "unlink"}
      BY <3>1 DEF Owning, Reaping
    <3> QED
      BY <1>1, <3>1, <3>2, Elsewhere
  <2>2. CASE reclaim = Nobody
    <3>1. pc'[p] = "reread" /\ reclaim' = p /\ UNCHANGED lease
      BY <1>2, <1>5, <2>2 DEF ClaimGuard, Goto
    <3>2. reclaim \notin Processes
      BY <2>2, NobodyAssumption
    <3>3. Ownership'
      <4>1. lease \in Processes => pc'[lease] # "unborn"
        BY <1>1, <3>1, Continues DEF Inv, Ownership
      <4> QED
        BY <1>1, <3>1, <4>1, Continues DEF Inv, Ownership, Owning
    <3>4. GuardIsExclusive'
      BY <1>1, <3>1, <3>2, Continues DEF Inv, GuardIsExclusive
    <3>5. Verified'
      BY <1>1, <3>1, Continues DEF Inv, Verified
    <3> QED
      BY <1>1, <3>3, <3>4, <3>5, Continues DEF Inv
  <2> QED
    BY <2>1, <2>2
<1> QED
  BY <1>3, <1>4, <1>5

\* The steps under the guard keep the invariant: the owner that is read there
\* is the one that is judged, and the one that is removed.
LEMMA Reaps ==
  ASSUME Inv, Typed', NEW p \in Processes,
         Reread(p) \/ Reprove(p) \/ Unlink(p) \/ RemoveGuard(p)
  PROVE  Inv'
<1>1. Acquire(p)
  BY DEF Acquire
<1>2. pc \in [Processes -> Pcs] /\ seen \in [Processes -> Owners] /\ lease \in Owners
  BY DEF Inv, Typed, TypeOK
<1>3. pc[p] \in Reaping /\ Alive(p)
  BY DEF Reread, Reprove, Unlink, RemoveGuard, Reaping
<1>4. reclaim = p /\ \A q \in Processes \ {p} : Alive(q) => pc[q] \notin Reaping
  BY <1>3 DEF Inv, GuardIsExclusive
<1>5. pc'[p] \in {"reprove", "unlink", "rmdir", "link", "refused"}
  BY <1>2 DEF Reread, Reprove, Unlink, RemoveGuard, Goto
<1>6. pc'[p] \notin Owning /\ pc'[p] # "unborn"
  BY <1>5 DEF Owning
<1>7. GuardIsExclusive'
  <2>1. CASE RemoveGuard(p)
    <3>1. pc'[p] \notin Reaping
      BY <1>2, <2>1 DEF RemoveGuard, Goto, Reaping
    <3> QED
      BY <1>1, <1>4, <3>1, Continues DEF GuardIsExclusive
  <2>2. CASE ~RemoveGuard(p)
    <3>1. reclaim' = p
      BY <1>4, <2>2 DEF Reread, Reprove, Unlink
    <3> QED
      BY <1>1, <1>4, <3>1, Continues DEF GuardIsExclusive
  <2> QED
    BY <2>1, <2>2
<1>8. CASE Unlink(p)
  <2>1. lease' = Nobody /\ lease' \notin Processes /\ pc'[p] = "rmdir"
    BY <1>2, <1>8, NobodyAssumption DEF Unlink, Goto
  <2>2. lease \in dead
    BY <1>3, <1>8 DEF Inv, Verified, Unlink
  <2>3. Ownership'
    BY <1>1, <1>6, <2>1, <2>2, Continues DEF Inv, Ownership, Alive
  <2>4. Verified'
    BY <1>1, <1>4, <2>1, Continues DEF Verified, Reaping
  <2> QED
    BY <1>1, <1>7, <2>3, <2>4, Continues DEF Inv
<1>9. CASE ~Unlink(p)
  <2>1. lease' = lease
    BY <1>9 DEF Reread, Reprove, RemoveGuard
  <2>2. Ownership'
    <3>1. lease \in Processes => pc'[lease] # "unborn"
      BY <1>1, <1>6, Continues DEF Inv, Ownership
    <3> QED
      BY <1>1, <1>6, <2>1, <3>1, Continues DEF Inv, Ownership
  <2>3. ASSUME Alive(p)', pc'[p] \in {"reprove", "unlink"}
        PROVE  /\ lease = seen'[p] /\ lease \in Processes
               /\ pc'[p] = "unlink" => lease \in dead
    <3>1. CASE Reread(p)
      BY <1>2, <2>3, <3>1 DEF Reread, Goto, Owners
    <3>2. CASE Reprove(p)
      <4>1. lease = seen[p] /\ lease \in Processes /\ pc[lease] # "unborn"
        BY <3>2, <1>3 DEF Reprove, Inv, Verified, Ownership
      <4>2. pc'[p] = "unlink" => ProvenStopped(lease, p)
        BY <1>2, <3>2, <4>1 DEF Reprove, Goto
      <4>3. pc'[p] = "unlink" => lease \in dead
        BY <1>3, <4>1, <4>2, ProofIsSound DEF Inv
      <4>4. seen' = seen
        BY <3>2 DEF Reprove
      <4> QED
        BY <4>1, <4>3, <4>4
    <3>3. CASE RemoveGuard(p)
      BY <1>2, <2>3, <3>3 DEF RemoveGuard, Goto
    <3> QED
      BY <1>9, <3>1, <3>2, <3>3
  <2>4. Verified'
    BY <1>1, <1>4, <2>1, <2>3, Continues DEF Verified, Reaping
  <2> QED
    BY <1>1, <1>7, <2>2, <2>4, Continues DEF Inv
<1> QED
  BY <1>8, <1>9

\* The end of acquireRuntimeLease and the release of the lease keep the
\* invariant: a command that gives the lease back is the one it names, and no
\* reaper is judging it.
LEMMA GivesBack ==
  ASSUME Inv, Typed', Undisturbed, NEW p \in Processes,
         RemoveTemporary(p) \/ Release(p) \/ Drop(p)
  PROVE  Inv'
<1>1. Acquire(p) \/ Release(p) \/ Drop(p)
  BY DEF Acquire
<1>2. pc \in [Processes -> Pcs]
  BY DEF Inv, Typed, TypeOK
<1>3. CASE RemoveTemporary(p) \/ Release(p)
  <2>1. /\ \/ pc'[p] \in {"failed", "done"}
           \/ pc'[p] \in {"holding", "drop"} /\ pc[p] \in Owning
        /\ UNCHANGED <<lease, reclaim>>
    BY <1>2, <1>3 DEF RemoveTemporary, Release, Goto, Owning
  <2>2. /\ pc'[p] \in Owning => pc[p] \in Owning
        /\ pc'[p] \notin Reaping /\ pc'[p] \notin {"reprove", "unlink"}
    BY <2>1 DEF Owning, Reaping
  <2> QED
    BY <1>1, <2>1, <2>2, Elsewhere
<1>4. CASE Drop(p)
  <2>1. /\ pc[p] = "drop" /\ pc'[p] = "done" /\ Alive(p)
        /\ lease' = Nobody /\ lease' \notin Processes /\ UNCHANGED reclaim
    BY <1>2, <1>4, NobodyAssumption DEF Drop, Goto
  <2>2. lease = p
    BY <2>1 DEF Inv, Ownership, Owning
  <2>3. Ownership'
    BY <1>1, <2>1, <2>2, Continues DEF Inv, Ownership, Owning
  <2>4. GuardIsExclusive'
    BY <1>1, <2>1, Continues DEF Inv, GuardIsExclusive, Reaping
  <2>5. \A q \in Processes : Alive(q) => pc[q] \notin {"reprove", "unlink"}
    <3>1. \A q \in Processes : Alive(q) /\ pc[q] = "unlink" => FALSE
      BY <2>1, <2>2 DEF Inv, Verified, Alive
    <3>2. \A q \in Processes : Alive(q) /\ pc[q] = "reprove" => FALSE
      BY <2>1, <2>2 DEF Inv, Verified, Undisturbed
    <3> QED
      BY <3>1, <3>2
  <2>6. Verified'
    BY <1>1, <2>1, <2>5, Continues DEF Verified
  <2> QED
    BY <1>1, <2>3, <2>4, <2>6, Continues DEF Inv
<1> QED
  BY <1>3, <1>4

\* Births, deaths and reboots keep the invariant: they touch no file, and the
\* dead stay dead.
LEMMA Lives ==
  ASSUME Inv, Typed',
         \/ \E p \in Processes : Begin(p) \/ Die(p)
         \/ \E h \in Hosts : Reboot(h)
  PROVE  Inv'
<1>1. ASSUME NEW p \in Processes, Begin(p) PROVE Inv'
  <2>1. /\ pc' = [pc EXCEPT ![p] = "write"] /\ pc \in [Processes -> Pcs]
        /\ UNCHANGED <<dead, boot, lease, reclaim, seen>>
    BY <1>1 DEF Begin, Inv, Typed, TypeOK
  <2>2. pc'[p] = "write" /\ \A q \in Processes \ {p} : pc'[q] = pc[q]
    BY <2>1
  <2>3. \A q \in Processes \ {p} : Alive(q)' <=> Alive(q)
    BY <2>1, <2>2 DEF Alive
  <2>4. /\ bornIn'[p] = boot[Home[p]]
        /\ \A q \in Processes \ {p} : bornIn'[q] = bornIn[q]
    BY <1>1 DEF Begin, Inv, Typed, TypeOK
  <2>5. Births'
    <3>1. \A q \in Processes \ {p} : Alive(q) => ~SamePid(p, q) /\ ~SamePid(q, p)
      BY <1>1 DEF Begin, SamePid
    <3>2. \A q \in Processes : Alive(q)' => bornIn'[q] = boot'[Home[q]]
      BY <2>1, <2>3, <2>4 DEF Inv, Births
    <3>3. \A q, r \in Processes : Alive(q)' /\ Alive(r)' /\ SamePid(q, r) => r = q
      BY <2>3, <3>1 DEF Inv, Births
    <3> QED
      BY <3>2, <3>3 DEF Births, SamePid
  <2>6. Ownership'
    BY <2>1, <2>2, <2>3 DEF Inv, Ownership, Owning
  <2>7. GuardIsExclusive'
    BY <2>1, <2>2, <2>3 DEF Inv, GuardIsExclusive, Reaping
  <2>8. Verified'
    BY <2>1, <2>2, <2>3 DEF Inv, Verified
  <2> QED
    BY <2>5, <2>6, <2>7, <2>8 DEF Inv
<1>2. ASSUME UNCHANGED <<pc, bornIn, lease, reclaim, seen>>, dead \subseteq dead',
             \A q \in Processes : Alive(q)' => boot'[Home[q]] = boot[Home[q]]
      PROVE  Inv'
  <2>1. \A q \in Processes : Alive(q)' => Alive(q)
    BY <1>2 DEF Alive
  <2>2. Births'
    BY <1>2, <2>1 DEF Inv, Births, SamePid
  <2>3. Ownership'
    BY <1>2, <2>1 DEF Inv, Ownership
  <2>4. GuardIsExclusive'
    BY <1>2, <2>1 DEF Inv, GuardIsExclusive
  <2>5. Verified'
    BY <1>2, <2>1 DEF Inv, Verified
  <2> QED
    BY <2>2, <2>3, <2>4, <2>5 DEF Inv
<1>3. ASSUME NEW p \in Processes, Die(p) PROVE Inv'
  BY <1>2, <1>3 DEF Die
<1>4. ASSUME NEW h \in Hosts, Reboot(h) PROVE Inv'
  <2>1. \A q \in Processes : Alive(q)' => Home[q] # h
    BY <1>4 DEF Reboot, Alive
  <2>2. \A g \in Hosts \ {h} : boot'[g] = boot[g]
    BY <1>4 DEF Reboot, Inv, Typed, TypeOK
  <2>3. \A q \in Processes : Alive(q)' => boot'[Home[q]] = boot[Home[q]]
    BY <2>1, <2>2, PlaceAssumption
  <2> QED
    BY <1>2, <1>4, <2>3 DEF Reboot
<1> QED
  BY <1>1, <1>3, <1>4

\* The invariant is inductive.
LEMMA InvStep == Inv /\ [Next /\ Undisturbed]_vars => Inv'
<1> SUFFICES ASSUME Inv, [Next /\ Undisturbed]_vars PROVE Inv'
  OBVIOUS
<1>1. Typed'
  BY TypedStep DEF Inv
<1>2. CASE UNCHANGED vars
  BY <1>1, <1>2 DEF vars, Inv, Births, Ownership, GuardIsExclusive, Verified, Alive, SamePid
<1> QED
  BY <1>1, <1>2, Approaches, Reaps, GivesBack, Lives DEF Next, Acquire

\* The invariant holds throughout.
LEMMA InvCorrect == CalmSpec => []Inv
  BY InvInit, InvStep, PTL DEF CalmSpec

-----------------------------------------------------------------------------
(* What the lease promises *)

\* The invariant gives every writer its lease.
LEMMA InvWriters == Inv => LiveLeaseStands
  BY DEF Inv, Ownership, LiveLeaseStands, Writers, Alive, Owning

\* The lease of a live process is never taken away from it: not by a reaper
\* that was slow to remove the lease of its dead predecessor, and not by a
\* process that has its PID, its namespace or its host after a reboot.
THEOREM LeaseStands == CalmSpec => []LiveLeaseStands
  BY InvCorrect, InvWriters, PTL

\* The .reclaim directory is a lock: one process at a time is past its mkdir,
\* and the directory is there when it is removed.
THEOREM GuardExcludes == CalmSpec => []GuardIsExclusive
<1>1. Inv => GuardIsExclusive
  BY DEF Inv
<1> QED
  BY <1>1, InvCorrect, PTL

\* A process becomes a writer only when the lease was free.
LEMMA EntersFree ==
  ASSUME Inv, [Next /\ Undisturbed]_vars
  PROVE  Writers' \subseteq Writers \/ lease = Nobody
<1>1. ASSUME NEW p \in Processes, Acquire(p) \/ Release(p) \/ Drop(p), lease # Nobody
      PROVE  Writers' \subseteq Writers
  <2>1. pc'[p] \in {"granted", "holding"} => pc[p] \in {"granted", "holding"}
    <3>1. pc \in [Processes -> Pcs]
      BY DEF Inv, Typed, TypeOK
    <3>2. CASE WriteTemporary(p) \/ Link(p) \/ ReadExisting(p) \/ ProveExisting(p)
      BY <1>1, <3>1, <3>2 DEF WriteTemporary, Link, ReadExisting, ProveExisting, Goto
    <3>3. CASE ClaimGuard(p) \/ Reread(p) \/ Reprove(p) \/ Unlink(p) \/ RemoveGuard(p)
      BY <3>1, <3>3 DEF ClaimGuard, Reread, Reprove, Unlink, RemoveGuard, Goto
    <3>4. CASE RemoveTemporary(p) \/ Release(p) \/ Drop(p)
      BY <3>1, <3>4 DEF RemoveTemporary, Release, Drop, Goto
    <3> QED
      BY <1>1, <3>2, <3>3, <3>4 DEF Acquire
  <2>2. UNCHANGED dead /\ \A q \in Processes \ {p} : pc'[q] = pc[q]
    BY <1>1, Continues
  <2> QED
    BY <2>1, <2>2 DEF Writers
<1>2. ASSUME NEW p \in Processes, Begin(p) PROVE Writers' \subseteq Writers
  <2>1. pc'[p] = "write" /\ \A q \in Processes \ {p} : pc'[q] = pc[q]
    BY <1>2 DEF Begin, Inv, Typed, TypeOK
  <2>2. UNCHANGED dead
    BY <1>2 DEF Begin
  <2> QED
    BY <2>1, <2>2 DEF Writers
<1>3. ASSUME NEW p \in Processes, Die(p) PROVE Writers' \subseteq Writers
  BY <1>3 DEF Die, Writers
<1>4. ASSUME NEW h \in Hosts, Reboot(h) PROVE Writers' \subseteq Writers
  BY <1>4 DEF Reboot, Writers
<1>5. CASE UNCHANGED vars
  BY <1>5 DEF vars, Writers
<1> QED
  BY <1>1, <1>2, <1>3, <1>4, <1>5 DEF Next

\* The lease protocol implements ExclusiveWriter: there are never two writers
\* of the state file, and one enters only after the other has gone.
THEOREM LeaseImplementsLock == CalmSpec => ExclusiveWriters
<1>1. Init => Lock!Init
  BY DEF Init, Lock!Init, Writers
<1>2. Inv /\ Inv' /\ [Next /\ Undisturbed]_vars => [Lock!Next]_Writers
  <2> SUFFICES ASSUME Inv, Inv', [Next /\ Undisturbed]_vars PROVE [Lock!Next]_Writers
    OBVIOUS
  <2>1. Writers \subseteq {lease} /\ Writers' \subseteq {lease'}
    BY DEF Inv, Ownership, Writers, Alive, Owning
  <2>2. Writers \subseteq Processes /\ Writers' \subseteq Processes
    BY DEF Writers
  <2>3. CASE lease = Nobody
    <3>1. Writers = {}
      BY <2>1, <2>2, <2>3, NobodyAssumption
    <3>2. Writers' = {} \/ \E p \in Processes : Writers' = {p}
      BY <2>1, <2>2
    <3> QED
      BY <3>1, <3>2 DEF Lock!Next, Lock!Enter
  <2>4. CASE Writers' \subseteq Writers
    <3>1. Writers' = Writers \/ (Writers # {} /\ Writers' = {})
      BY <2>1, <2>4
    <3> QED
      BY <3>1 DEF Lock!Next, Lock!Leave
  <2> QED
    BY <2>3, <2>4, EntersFree
<1> QED
  BY <1>1, <1>2, InvCorrect, PTL DEF CalmSpec, ExclusiveWriters, Lock!Spec

-----------------------------------------------------------------------------
(* The state file: the invariant *)

\* Whoever has loaded the state has the lease; whoever has updates has loaded.
Loaders ==
  \A p \in Processes :
    /\ p \in loaded => Serving(p)
    /\ chain[p] # <<>> => p \in loaded
    /\ stage[p] # "waiting" => chain[p] # <<>>

\* Memory and the candidate follow the file.
Follow ==
  \A p \in loaded :
    /\ stage[p] # "renamed" => memory[p] = file
    /\ stage[p] = "mutating" => candidate[p] = file
    /\ stage[p] = "written" => candidate[p] = file \cup {chain[p][1]}
    /\ stage[p] = "renamed" => candidate[p] = file /\ chain[p][1] \in file

\* The updates that wait are different ones, that nothing has come of yet.
Fresh ==
  \A p \in Processes : \A n \in 1..Len(chain[p]) :
    /\ told[chain[p][n]] = "nothing"
    /\ chain[p][n] \in file => n = 1 /\ stage[p] = "renamed"
    /\ \A k \in 1..Len(chain[p]) : chain[p][k] = chain[p][n] => k = n

StoreInv == StoreTypeOK /\ Loaders /\ Follow /\ Fresh

\* The runtime lease has one owner.
LEMMA OneServes ==
  ASSUME LiveLeaseStands, Loaders, NEW p \in loaded, NEW q \in loaded,
         p \in Processes, q \in Processes
  PROVE  p = q
<1>1. p \in Writers /\ q \in Writers
  BY DEF Loaders, Serving, Alive, Writers
<1> QED
  BY <1>1 DEF LiveLeaseStands

LEMMA StoreInvInit == StoreInit => StoreInv
<1> SUFFICES ASSUME StoreInit PROVE StoreInv
  OBVIOUS
<1>1. spoilt \in BOOLEAN
  BY DEF StoreInit
<1> QED
  BY <1>1, SMT DEF StoreInit, StoreInv, StoreTypeOK, Loaders, Follow, Fresh, Stages

-----------------------------------------------------------------------------
(* What the steps do to the state that is promised *)

\* A step of the lease changes neither the file nor what callers were told.
LEMMA LeaseKeeps == StoreInv /\ LeaseStep => StoreInv'
<1> SUFFICES ASSUME StoreInv, LeaseStep PROVE StoreInv'
  OBVIOUS
<1>0. /\ loaded' \subseteq loaded /\ file' = file /\ told' = told /\ spoilt' = spoilt
      /\ \A p \in Processes :
           /\ p \in loaded' => /\ chain'[p] = chain[p] /\ memory'[p] = memory[p]
                               /\ stage'[p] = stage[p] /\ candidate'[p] = candidate[p]
           /\ p \notin loaded' => chain'[p] = <<>> /\ stage'[p] = "waiting"
  BY DEF LeaseStep, Lasting
<1>1. StoreTypeOK'
  <2>1. /\ loaded' \in SUBSET Processes
        /\ memory' \in [Processes -> SUBSET Updates]
        /\ chain' \in [Processes -> Seq(Updates)]
        /\ stage' \in [Processes -> Stages]
        /\ candidate' \in [Processes -> SUBSET Updates]
    BY SMT DEF StoreInv, StoreTypeOK, LeaseStep, Lasting, Stages
  <2> QED
    BY <1>0, <2>1 DEF StoreInv, StoreTypeOK
<1>2. Loaders'
  <2> SUFFICES ASSUME NEW p \in Processes
               PROVE  /\ p \in loaded' => Serving(p)'
                      /\ chain'[p] # <<>> => p \in loaded'
                      /\ stage'[p] # "waiting" => chain'[p] # <<>>
    BY DEF Loaders
  <2>1. p \in loaded' => Serving(p)'
    BY DEF LeaseStep, Serving, Alive
  <2> QED
    BY <2>1, <1>0 DEF StoreInv, Loaders
<1>3. Follow'
  <2> SUFFICES ASSUME NEW p \in loaded'
               PROVE  /\ stage'[p] # "renamed" => memory'[p] = file
                      /\ stage'[p] = "mutating" => candidate'[p] = file
                      /\ stage'[p] = "written" => candidate'[p] = file \cup {chain'[p][1]}
                      /\ stage'[p] = "renamed" => candidate'[p] = file /\ chain'[p][1] \in file
    BY <1>0 DEF Follow
  <2>1. p \in loaded /\ p \in Processes
    BY <1>0 DEF StoreInv, StoreTypeOK
  <2>2. /\ chain'[p] = chain[p] /\ memory'[p] = memory[p]
        /\ stage'[p] = stage[p] /\ candidate'[p] = candidate[p]
    BY <1>0, <2>1
  <2> QED
    BY <2>1, <2>2 DEF StoreInv, Follow
<1>4. Fresh'
  <2> SUFFICES ASSUME NEW p \in Processes, NEW n \in 1..Len(chain'[p])
               PROVE  /\ told[chain'[p][n]] = "nothing"
                      /\ chain'[p][n] \in file => n = 1 /\ stage'[p] = "renamed"
                      /\ \A k \in 1..Len(chain'[p]) : chain'[p][k] = chain'[p][n] => k = n
    BY <1>0 DEF Fresh
  <2>1. CASE p \in loaded'
    BY <1>0, <2>1, SMT DEF StoreInv, Fresh
  <2>2. CASE p \notin loaded'
    BY <1>0, <2>2, SMT
  <2> QED
    BY <2>1, <2>2
<1> QED
  BY <1>1, <1>2, <1>3, <1>4 DEF StoreInv

\* The processes that serve are the same after a step of the store.
LEMMA StillServing ==
  ASSUME UNCHANGED vars, NEW p \in Processes
  PROVE  Serving(p)' <=> Serving(p)
  BY DEF vars, Serving, Alive

\* Loading takes place when nobody else has the state in memory.
LEMMA LoadKeeps ==
  ASSUME StoreInv, LiveLeaseStands, NEW p \in Processes, Load(p)
  PROVE  StoreInv' /\ [Atomic!Next]_<<file, told, spoilt>>
<1>1. /\ UNCHANGED <<vars, chain, stage, candidate, told>> /\ loaded' = loaded \cup {p}
      /\ file' \in {file, {}} /\ spoilt' = FALSE /\ (file' # file => spoilt /\ file' = {})
  BY DEF Load
<1>2. p \notin loaded /\ Serving(p)
  BY DEF Load
<1>3. loaded = {}
  <2> SUFFICES ASSUME NEW q \in loaded PROVE FALSE
    OBVIOUS
  <2>1. q \in Processes /\ Serving(q)
    BY DEF StoreInv, StoreTypeOK, Loaders
  <2>2. p \in Writers /\ q \in Writers
    BY <1>2, <2>1 DEF Serving, Alive, Writers
  <2> QED
    BY <1>2, <2>2 DEF LiveLeaseStands
<1>4. \A q \in Processes : chain[q] = <<>> /\ stage[q] = "waiting"
  BY <1>3 DEF StoreInv, Loaders
<1>5. memory' \in [Processes -> SUBSET Updates] /\ memory'[p] = file'
  <2>1. file' \in SUBSET Updates
    BY <1>1 DEF StoreInv, StoreTypeOK
  <2> QED
    BY <2>1 DEF StoreInv, StoreTypeOK, Load
<1>6. StoreTypeOK'
  BY <1>1, <1>5 DEF StoreInv, StoreTypeOK
<1>7. Loaders'
  BY <1>1, <1>2, <1>3, <1>4, StillServing DEF StoreInv, Loaders
<1>8. Follow'
  BY <1>1, <1>3, <1>4, <1>5, SMT DEF Follow
<1>9. Fresh'
  BY <1>1, <1>4, SMT DEF Fresh
<1>10. [Atomic!Next]_<<file, told, spoilt>>
  <2>1. CASE file' = file /\ spoilt' = spoilt
    BY <1>1, <2>1
  <2>2. CASE spoilt
    BY <1>1, <2>2 DEF Load, Atomic!Next, Atomic!SetAside
  <2>3. spoilt \in BOOLEAN
    BY DEF StoreInv, StoreTypeOK
  <2> QED
    BY <1>1, <2>1, <2>2, <2>3
<1> QED
  BY <1>6, <1>7, <1>8, <1>9, <1>10 DEF StoreInv

\* The invariant does not depend on whether the file can be read.
LEMMA QuietKeeps ==
  ASSUME StoreInv, UNCHANGED vars, spoilt' \in BOOLEAN,
         UNCHANGED <<file, loaded, memory, chain, stage, candidate, told>>
  PROVE  StoreInv'
<1>1. /\ file' = file /\ loaded' = loaded /\ memory' = memory /\ chain' = chain
      /\ stage' = stage /\ candidate' = candidate /\ told' = told
  OBVIOUS
<1>2. StoreTypeOK'
  BY <1>1 DEF StoreInv, StoreTypeOK
<1>3. Follow'
  BY <1>1 DEF StoreInv, Follow
<1>4. Fresh'
  BY <1>1, SMT DEF StoreInv, Fresh
<1>5. Loaders'
  BY <1>1, StillServing DEF StoreInv, Loaders
<1> QED
  BY <1>2, <1>3, <1>4, <1>5 DEF StoreInv

\* Damage to the file changes nothing until a process loads it.
LEMMA SpoilKeeps ==
  ASSUME StoreInv, Spoil
  PROVE  StoreInv' /\ Atomic!Next
<1>1. UNCHANGED vars /\ UNCHANGED <<file, loaded, memory, chain, stage, candidate, told>>
      /\ spoilt' = TRUE
  BY DEF Spoil
<1>2. StoreInv'
  BY <1>1, QuietKeeps
<1> QED
  BY <1>1, <1>2 DEF Atomic!Next, Atomic!Spoil

\* The update at the head of a chain.
LEMMA HeadFacts ==
  ASSUME StoreInv, NEW p \in Processes, Busy(p)
  PROVE  /\ Len(chain[p]) \in Nat /\ Len(chain[p]) > 0
         /\ Head(chain[p]) = chain[p][1] /\ chain[p][1] \in Updates
         /\ p \in loaded /\ told[chain[p][1]] = "nothing"
         /\ chain[p][1] \in file => stage[p] = "renamed"
<1>1. chain[p] \in Seq(Updates) /\ chain[p] # <<>>
  BY DEF StoreInv, StoreTypeOK, Busy
<1>2. /\ Len(chain[p]) \in Nat /\ Len(chain[p]) > 0
      /\ Head(chain[p]) = chain[p][1] /\ chain[p][1] \in Updates /\ 1 \in 1..Len(chain[p])
  BY <1>1, SMT
<1>3. p \in loaded
  BY <1>1 DEF StoreInv, Loaders
<1>4. told[chain[p][1]] = "nothing" /\ (chain[p][1] \in file => stage[p] = "renamed")
  BY <1>2 DEF StoreInv, Fresh
<1> QED
  BY <1>2, <1>3, <1>4

LEMMA PrepareKeeps ==
  ASSUME StoreInv, NEW p \in Processes, Snapshot(p) \/ Mutate(p)
  PROVE  StoreInv'
<1>0. Busy(p) /\ stage[p] \in {"waiting", "mutating"}
  BY DEF Snapshot, Mutate, At
<1>1. /\ UNCHANGED <<vars, file, loaded, memory, chain, told, spoilt>>
      /\ stage'[p] \in {"mutating", "written"} /\ \A q \in Processes \ {p} : stage'[q] = stage[q]
      /\ \A q \in Processes \ {p} : candidate'[q] = candidate[q]
  BY SMT DEF Snapshot, Mutate, StoreInv, StoreTypeOK
<1>2. p \in loaded /\ chain[p] # <<>> /\ memory[p] = file /\ chain[p][1] \notin file
  BY <1>0, HeadFacts DEF Busy, StoreInv, Follow
<1>3. StoreTypeOK'
  <2>1. Head(chain[p]) \in Updates
    BY <1>0, HeadFacts
  <2>2. candidate' \in [Processes -> SUBSET Updates]
    <3>1. CASE Snapshot(p)
      BY <3>1 DEF StoreInv, StoreTypeOK, Snapshot
    <3>2. CASE Mutate(p)
      <4>1. candidate[p] \cup {Head(chain[p])} \in SUBSET Updates
        BY <2>1 DEF StoreInv, StoreTypeOK
      <4> QED
        BY <3>2, <4>1 DEF StoreInv, StoreTypeOK, Mutate
    <3> QED
      BY <3>1, <3>2
  <2>3. stage' \in [Processes -> Stages]
    BY SMT DEF StoreInv, StoreTypeOK, Stages, Snapshot, Mutate
  <2> QED
    BY <1>1, <2>2, <2>3 DEF StoreInv, StoreTypeOK
<1>4. Loaders'
  BY <1>1, <1>2, StillServing DEF StoreInv, Loaders
<1>5. Follow'
  <2>1. CASE Snapshot(p)
    <3>1. candidate'[p] = file /\ stage'[p] = "mutating"
      BY <2>1, <1>2, SMT DEF Snapshot, StoreInv, StoreTypeOK
    <3> QED
      BY <3>1, <1>1, <1>2, SMT DEF StoreInv, StoreTypeOK, Follow
  <2>2. CASE Mutate(p)
    <3>1. candidate'[p] = file \cup {chain[p][1]} /\ stage'[p] = "written"
      <4>1. candidate[p] = file
        BY <2>2, <1>2 DEF Mutate, At, StoreInv, Follow
      <4> QED
        BY <4>1, <2>2, <1>0, HeadFacts, SMT DEF Mutate, StoreInv, StoreTypeOK
    <3> QED
      BY <3>1, <1>1, <1>2, SMT DEF StoreInv, StoreTypeOK, Follow
  <2> QED
    BY <2>1, <2>2
<1>6. Fresh'
  <2> SUFFICES ASSUME NEW q \in Processes, NEW n \in 1..Len(chain[q])
               PROVE  /\ told[chain[q][n]] = "nothing"
                      /\ chain[q][n] \in file => n = 1 /\ stage'[q] = "renamed"
                      /\ \A k \in 1..Len(chain[q]) : chain[q][k] = chain[q][n] => k = n
    BY <1>1, SMT DEF Fresh
  <2>1. /\ told[chain[q][n]] = "nothing"
        /\ chain[q][n] \in file => n = 1 /\ stage[q] = "renamed"
        /\ \A k \in 1..Len(chain[q]) : chain[q][k] = chain[q][n] => k = n
    BY DEF StoreInv, Fresh
  <2>2. q = p => chain[q][n] \notin file
    BY <1>0, <2>1, SMT
  <2> QED
    BY <1>1, <2>1, <2>2
<1> QED
  BY <1>3, <1>4, <1>5, <1>6 DEF StoreInv

\* A call of update() joins the chain with a name that is not in it.
LEMMA UpdateKeeps ==
  ASSUME StoreInv, NEW p \in Processes, NEW u \in Updates, Update(p, u)
  PROVE  StoreInv'
<1>1. /\ UNCHANGED <<vars, file, loaded, memory, stage, candidate, told, spoilt>>
      /\ p \in loaded /\ u \notin file /\ told[u] = "nothing"
      /\ \A q \in Processes \ {p} : chain'[q] = chain[q]
  BY SMT DEF Update, StoreInv, StoreTypeOK
<1>2. /\ chain[p] \in Seq(Updates) /\ chain'[p] = Append(chain[p], u)
      /\ \A n \in 1..Len(chain[p]) : chain[p][n] # u
  BY SMT DEF Update, StoreInv, StoreTypeOK
<1>3. /\ Len(chain'[p]) = Len(chain[p]) + 1 /\ chain'[p] # <<>> /\ Len(chain[p]) \in Nat
      /\ \A n \in 1..Len(chain[p]) : chain'[p][n] = chain[p][n]
      /\ chain'[p][Len(chain[p]) + 1] = u
  <2>1. /\ Append(chain[p], u) # <<>> /\ Len(Append(chain[p], u)) = Len(chain[p]) + 1
        /\ \A n \in 1..Len(chain[p]) : Append(chain[p], u)[n] = chain[p][n]
        /\ Append(chain[p], u)[Len(chain[p]) + 1] = u
    BY <1>2, AppendProperties, SMT
  <2>2. Len(chain[p]) \in Nat
    BY <1>2, LenProperties
  <2> QED
    BY <1>2, <2>1, <2>2
<1>4. StoreTypeOK'
  <2>1. chain' \in [Processes -> Seq(Updates)]
    BY SMT DEF StoreInv, StoreTypeOK, Update
  <2> QED
    BY <1>1, <2>1 DEF StoreInv, StoreTypeOK
<1>5. Loaders'
  BY <1>1, <1>3, StillServing DEF StoreInv, Loaders
<1>6. Follow'
  <2>1. chain[p] # <<>> => chain'[p][1] = chain[p][1]
    <3>1. chain[p] # <<>> => Len(chain[p]) \in Nat \ {0}
      BY <1>2, EmptySeq
    <3> QED
      BY <1>3, <3>1, SMT
  <2>2. stage[p] # "waiting" => chain[p] # <<>>
    BY DEF StoreInv, Loaders
  <2> SUFFICES ASSUME NEW q \in loaded
               PROVE  /\ stage[q] # "renamed" => memory[q] = file
                      /\ stage[q] = "mutating" => candidate[q] = file
                      /\ stage[q] = "written" => candidate[q] = file \cup {chain'[q][1]}
                      /\ stage[q] = "renamed" => candidate[q] = file /\ chain'[q][1] \in file
    BY <1>1 DEF Follow
  <2>3. stage[q] # "waiting" => chain'[q][1] = chain[q][1]
    BY <1>1, <2>1, <2>2 DEF StoreInv, StoreTypeOK
  <2> QED
    BY <2>3 DEF StoreInv, Follow
<1>7. Fresh'
  <2> SUFFICES ASSUME NEW q \in Processes, NEW n \in 1..Len(chain'[q])
               PROVE  /\ told[chain'[q][n]] = "nothing"
                      /\ chain'[q][n] \in file => n = 1 /\ stage[q] = "renamed"
                      /\ \A k \in 1..Len(chain'[q]) : chain'[q][k] = chain'[q][n] => k = n
    BY <1>1, ZenonT(30) DEF Fresh
  <2>1. CASE q # p
    BY <1>1, <2>1, SMT DEF StoreInv, Fresh
  <2>2. CASE q = p
    <3>1. \A k \in 1..Len(chain[p]) :
            /\ told[chain[p][k]] = "nothing"
            /\ chain[p][k] \in file => k = 1 /\ stage[p] = "renamed"
            /\ \A j \in 1..Len(chain[p]) : chain[p][j] = chain[p][k] => j = k
      BY DEF StoreInv, Fresh
    <3>2. CASE n = Len(chain[p]) + 1
      <4>1. chain'[q][n] = u /\ n = Len(chain'[p])
        BY <1>3, <2>2, <3>2
      <4>2. told[u] = "nothing" /\ u \notin file
        BY <1>1
      <4>3. ASSUME NEW k \in 1..Len(chain'[p]), chain'[p][k] = u PROVE k = n
        BY <1>2, <1>3, <3>2, <4>1, <4>3, SMT
      <4> QED
        BY <2>2, <4>1, <4>2, <4>3
    <3>3. CASE n \in 1..Len(chain[p])
      <4>1. chain'[p][n] = chain[p][n] /\ chain[p][n] # u
        BY <1>2, <1>3, <3>3
      <4>2. \A k \in 1..Len(chain'[p]) : k \in 1..Len(chain[p]) \/ chain'[p][k] = u
        BY <1>3, SMT
      <4> QED
        BY <1>3, <2>2, <3>1, <3>3, <4>1, <4>2
    <3> QED
      BY <1>3, <2>2, <3>2, <3>3, SMT
  <2> QED
    BY <2>1, <2>2
<1> QED
  BY <1>4, <1>5, <1>6, <1>7 DEF StoreInv

-----------------------------------------------------------------------------
(* The steps that a caller or a successor can see *)

\* The rename applies one update, and no other process has a memory to be wrong.
LEMMA RenameApplies ==
  ASSUME StoreInv, LiveLeaseStands, NEW p \in Processes, Rename(p)
  PROVE  StoreInv' /\ Atomic!Apply(chain[p][1])
<1>0. /\ Busy(p) /\ stage[p] = "written" /\ file' = candidate[p]
      /\ UNCHANGED <<vars, loaded, memory, chain, candidate, told>> /\ spoilt' = FALSE
  BY DEF Rename, At
<1>1. /\ p \in loaded /\ chain[p][1] \in Updates /\ told[chain[p][1]] = "nothing"
      /\ chain[p][1] \notin file
  BY <1>0, HeadFacts
<1>2. file' = file \cup {chain[p][1]} /\ candidate[p] \in SUBSET Updates
  BY <1>0, <1>1 DEF StoreInv, Follow, StoreTypeOK
<1>3. stage'[p] = "renamed" /\ \A q \in Processes \ {p} : stage'[q] = stage[q]
  BY SMT DEF Rename, StoreInv, StoreTypeOK
<1>4. \A q \in loaded : q = p
  BY <1>1, OneServes DEF StoreInv, StoreTypeOK
<1>5. StoreTypeOK'
  <2>1. stage' \in [Processes -> Stages]
    BY SMT DEF Rename, StoreInv, StoreTypeOK, Stages
  <2> QED
    BY <1>0, <1>2, <2>1 DEF StoreInv, StoreTypeOK
<1>6. Loaders'
  BY <1>0, <1>1, <1>3, StillServing DEF StoreInv, Loaders, Busy
<1>7. Follow'
  BY <1>0, <1>2, <1>3, <1>4, SMT DEF StoreInv, Follow
<1>8. Fresh'
  <2> SUFFICES ASSUME NEW q \in Processes, NEW n \in 1..Len(chain[q])
               PROVE  /\ told[chain[q][n]] = "nothing"
                      /\ chain[q][n] \in file' => n = 1 /\ stage'[q] = "renamed"
                      /\ \A k \in 1..Len(chain[q]) : chain[q][k] = chain[q][n] => k = n
    BY <1>0, SMT DEF Fresh
  <2>1. /\ told[chain[q][n]] = "nothing"
        /\ chain[q][n] \in file => n = 1 /\ stage[q] = "renamed"
        /\ \A k \in 1..Len(chain[q]) : chain[q][k] = chain[q][n] => k = n
    BY DEF StoreInv, Fresh
  <2>2. q = p
    <3>1. chain[q] # <<>>
      BY SMT
    <3> QED
      BY <3>1, <1>4 DEF StoreInv, Loaders
  <2>3. 1 \in 1..Len(chain[q])
    BY <1>0, <2>2, HeadFacts, SMT
  <2>4. chain[q][n] \in file' => n = 1
    BY <1>2, <2>1, <2>2, <2>3
  <2> QED
    BY <1>3, <2>1, <2>2, <2>4
<1>9. Atomic!Apply(chain[p][1])
  BY <1>0, <1>1, <1>2 DEF Atomic!Apply
<1> QED
  BY <1>5, <1>6, <1>7, <1>8, <1>9 DEF StoreInv

\* The first of the chain leaves it, when the memory is the file.
LEMMA SettleTells ==
  ASSUME StoreInv, LiveLeaseStands, NEW p \in Processes, Busy(p),
         NEW answer \in {"done", "failed"}, Settle(p, answer),
         answer = "done" <=> chain[p][1] \in file,
         memory' \in [Processes -> SUBSET Updates], memory'[p] = file,
         \A q \in Processes \ {p} : memory'[q] = memory[q]
  PROVE  StoreInv' /\ Atomic!Tell(chain[p][1])
<1>0. /\ UNCHANGED <<vars, file, loaded, spoilt>>
      /\ told' = [told EXCEPT ![chain[p][1]] = answer]
      /\ candidate' \in [Processes -> SUBSET Updates]
      /\ chain'[p] = Tail(chain[p]) /\ stage'[p] = "waiting"
      /\ \A q \in Processes \ {p} : chain'[q] = chain[q] /\ stage'[q] = stage[q]
  BY HeadFacts, SMT DEF Settle, StoreInv, StoreTypeOK
<1>1. /\ p \in loaded /\ chain[p][1] \in Updates /\ told[chain[p][1]] = "nothing"
      /\ chain[p] \in Seq(Updates) /\ chain[p] # <<>>
  BY HeadFacts DEF StoreInv, StoreTypeOK, Busy
<1>2. /\ Tail(chain[p]) \in Seq(Updates) /\ Len(Tail(chain[p])) = Len(chain[p]) - 1
      /\ \A n \in 1..Len(Tail(chain[p])) : Tail(chain[p])[n] = chain[p][n + 1]
      /\ Len(chain[p]) \in Nat \ {0}
  BY <1>1, HeadTailProperties, EmptySeq
<1>3. \A q \in loaded : q = p
  BY <1>1, OneServes DEF StoreInv, StoreTypeOK
<1>4. \A q \in Processes \ {p} : chain[q] = <<>> /\ stage[q] = "waiting"
  BY <1>3 DEF StoreInv, Loaders
<1>5. StoreTypeOK'
  <2>1. chain' \in [Processes -> Seq(Updates)]
    BY <1>2 DEF Settle, StoreInv, StoreTypeOK
  <2>2. stage' \in [Processes -> Stages]
    BY SMT DEF Settle, StoreInv, StoreTypeOK, Stages
  <2>3. told' \in [Updates -> {"nothing", "done", "failed"}]
    BY <1>0 DEF StoreInv, StoreTypeOK
  <2> QED
    BY <1>0, <2>1, <2>2, <2>3 DEF StoreInv, StoreTypeOK
<1>6. Loaders'
  BY <1>0, <1>1, <1>4, StillServing DEF StoreInv, Loaders
<1>7. Follow'
  BY <1>0, <1>3, SMT DEF Follow
<1>8. Fresh'
  <2> SUFFICES ASSUME NEW q \in Processes, NEW n \in 1..Len(chain'[q])
               PROVE  /\ told'[chain'[q][n]] = "nothing"
                      /\ chain'[q][n] \in file => n = 1 /\ stage'[q] = "renamed"
                      /\ \A k \in 1..Len(chain'[q]) : chain'[q][k] = chain'[q][n] => k = n
    BY <1>0, SMT DEF Fresh
  <2>1. q = p
    BY <1>0, <1>4, SMT
  <2>2. /\ n + 1 \in 1..Len(chain[p]) /\ chain'[q][n] = chain[p][n + 1] /\ n + 1 # 1
        /\ 1 \in 1..Len(chain[p])
    <3>1. n \in 1..Len(Tail(chain[p])) /\ chain'[q][n] = Tail(chain[p])[n]
      BY <1>0, <2>1
    <3>2. n + 1 \in 1..Len(chain[p]) /\ n + 1 # 1 /\ 1 \in 1..Len(chain[p])
      BY <1>2, <3>1, SMT
    <3> QED
      BY <1>2, <3>1, <3>2
  <2>3. /\ told[chain[p][n + 1]] = "nothing" /\ chain[p][n + 1] \notin file
        /\ chain[p][n + 1] # chain[p][1]
        /\ \A k \in 1..Len(chain[p]) : chain[p][k] = chain[p][n + 1] => k = n + 1
    <3> DEFINE m == n + 1
    <3>1. m \in 1..Len(chain[p]) /\ m # 1 /\ 1 \in 1..Len(chain[p])
      BY <2>2
    <3> HIDE DEF m
    <3>2. /\ told[chain[p][m]] = "nothing" /\ chain[p][m] \notin file
          /\ \A k \in 1..Len(chain[p]) : chain[p][k] = chain[p][m] => k = m
      BY <3>1, ZenonT(30) DEF StoreInv, Fresh
    <3>3. chain[p][m] # chain[p][1]
      BY <3>1, <3>2
    <3> QED
      BY <3>2, <3>3 DEF m
  <2>4. told'[chain[p][n + 1]] = "nothing"
    <3>1. chain[p][n + 1] \in Updates
      BY <1>1, <2>2, LenProperties, SMT
    <3> QED
      BY <1>0, <2>3, <3>1 DEF StoreInv, StoreTypeOK
  <2>5. ASSUME NEW k \in 1..Len(chain'[q]), chain'[q][k] = chain'[q][n] PROVE k = n
    <3>1. k \in 1..Len(Tail(chain[p])) /\ chain'[q][k] = chain[p][k + 1]
      BY <1>0, <1>2, <2>1
    <3>2. k + 1 \in 1..Len(chain[p])
      BY <1>2, <3>1, SMT
    <3>3. k + 1 = n + 1
      BY <2>2, <2>3, <2>5, <3>1, <3>2
    <3> QED
      BY <3>1, <3>3, SMT
  <2> QED
    BY <2>2, <2>3, <2>4, <2>5
<1>9. Atomic!Tell(chain[p][1])
  <2>1. answer = IF chain[p][1] \in file THEN "done" ELSE "failed"
    OBVIOUS
  <2> QED
    BY <1>0, <1>1, <2>1 DEF Atomic!Tell
<1> QED
  BY <1>5, <1>6, <1>7, <1>8, <1>9 DEF StoreInv

LEMMA EndTells ==
  ASSUME StoreInv, LiveLeaseStands, NEW p \in Processes, Commit(p) \/ Fail(p)
  PROVE  StoreInv' /\ Atomic!Tell(chain[p][1]) /\ chain[p][1] \in Updates
<1>0. Busy(p)
  BY DEF Commit, Fail, At
<1>1. p \in loaded /\ (chain[p][1] \in file => stage[p] = "renamed") /\ chain[p][1] \in Updates
  BY <1>0, HeadFacts
<1>2. CASE Commit(p)
  <2>1. candidate[p] = file /\ chain[p][1] \in file
    BY <1>1, <1>2 DEF Commit, At, StoreInv, Follow
  <2>2. /\ memory' \in [Processes -> SUBSET Updates] /\ memory'[p] = file
        /\ \A q \in Processes \ {p} : memory'[q] = memory[q]
    BY <1>2, <2>1 DEF Commit, StoreInv, StoreTypeOK
  <2>3. Settle(p, "done")
    BY <1>2 DEF Commit
  <2> QED
    BY <1>0, <1>1, <2>1, <2>2, <2>3, SettleTells
<1>3. CASE Fail(p)
  <2>1. stage[p] # "renamed"
    BY <1>3, SMT DEF Fail, At
  <2>2. chain[p][1] \notin file /\ memory[p] = file
    BY <1>1, <2>1 DEF StoreInv, Follow
  <2>3. memory' = memory /\ Settle(p, "failed")
    BY <1>3 DEF Fail, Forsakes
  <2>4. /\ memory' \in [Processes -> SUBSET Updates] /\ memory'[p] = file
        /\ \A q \in Processes \ {p} : memory'[q] = memory[q]
    BY <2>2, <2>3 DEF StoreInv, StoreTypeOK
  <2>5. "failed" # "done"
    OBVIOUS
  <2> QED
    BY <1>0, <1>1, <2>2, <2>3, <2>4, <2>5, SettleTells
<1> QED
  BY <1>2, <1>3

-----------------------------------------------------------------------------
(* The theorem *)

\* Every step keeps the invariant and is a step, or a stutter, of AtomicState.
LEMMA StoreInvStep ==
  StoreInv /\ LiveLeaseStands /\ [StoreNext]_allVars
    => StoreInv' /\ [Atomic!Next]_<<file, told, spoilt>>
<1> SUFFICES ASSUME StoreInv, LiveLeaseStands, [StoreNext]_allVars
             PROVE  StoreInv' /\ [Atomic!Next]_<<file, told, spoilt>>
  OBVIOUS
<1>1. CASE LeaseStep
  BY <1>1, LeaseKeeps DEF LeaseStep
<1>2. ASSUME NEW p \in Processes, StoreStep(p)
      PROVE  StoreInv' /\ [Atomic!Next]_<<file, told, spoilt>>
  <2>1. CASE Load(p)
    BY <2>1, LoadKeeps
  <2>2. CASE Snapshot(p) \/ Mutate(p)
    <3>1. UNCHANGED <<file, told, spoilt>>
      BY <2>2 DEF Snapshot, Mutate
    <3> QED
      BY <2>2, <3>1, PrepareKeeps
  <2>3. CASE Rename(p)
    <3>1. chain[p][1] \in Updates
      BY <2>3, HeadFacts DEF Rename, At
    <3> QED
      BY <2>3, <3>1, RenameApplies DEF Atomic!Next
  <2>4. CASE Commit(p) \/ Fail(p)
    BY <2>4, EndTells DEF Atomic!Next
  <2>5. ASSUME NEW u \in Updates, Update(p, u)
        PROVE  StoreInv' /\ [Atomic!Next]_<<file, told, spoilt>>
    BY <2>5, UpdateKeeps DEF Update
  <2> QED
    BY <1>2, <2>1, <2>2, <2>3, <2>4, <2>5 DEF StoreStep
<1>3. CASE UNCHANGED allVars
  <2>1. /\ UNCHANGED vars
        /\ UNCHANGED <<file, loaded, memory, chain, stage, candidate, told, spoilt>>
    BY <1>3 DEF allVars, storeVars
  <2>2. spoilt' \in BOOLEAN
    BY <2>1 DEF StoreInv, StoreTypeOK
  <2>3. StoreInv'
    BY <2>1, <2>2, QuietKeeps
  <2> QED
    BY <2>1, <2>3
<1>4. CASE Spoil
  BY <1>4, SpoilKeeps
<1> QED
  BY <1>1, <1>2, <1>3, <1>4 DEF StoreNext

\* The steps of the store leave the lease as it is.
LEMMA StoreUsesLease == StoreSpec => CalmSpec
<1>1. StoreInit => Init
  BY DEF StoreInit
<1>2. [StoreNext]_allVars => [Next /\ Undisturbed]_vars
  <2> SUFFICES ASSUME [StoreNext]_allVars, ~LeaseStep PROVE UNCHANGED vars
    BY DEF LeaseStep
  <2>1. ASSUME NEW p \in Processes, StoreStep(p) PROVE UNCHANGED vars
    BY <2>1 DEF StoreStep, Load, Snapshot, Mutate, Rename, Commit, Fail, Settle, Update
  <2>2. CASE UNCHANGED allVars
    BY <2>2 DEF allVars
  <2>3. CASE Spoil
    BY <2>3 DEF Spoil
  <2> QED
    BY <2>1, <2>2, <2>3 DEF StoreNext
<1> QED
  BY <1>1, <1>2, PTL DEF StoreSpec, CalmSpec

\* What a component writes with update() of localStore.ts is in state.json as a
\* whole once it is told so, and never in part, whoever dies when and whichever
\* process takes the node over.
THEOREM UpdatesAreAtomic == StoreSpec => StoreIsAtomic
<1>1. StoreInit => StoreInv
  BY StoreInvInit
<1>2. StoreInit => Atomic!Init
  BY DEF StoreInit, Atomic!Init
<1>3. StoreSpec => []LiveLeaseStands
  BY StoreUsesLease, LeaseStands, PTL
<1> QED
  BY <1>1, <1>2, <1>3, StoreInvStep, PTL DEF StoreSpec, StoreIsAtomic, Atomic!Spec
=============================================================================
