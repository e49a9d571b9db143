----------------------------- MODULE LocalStore -----------------------------
(***************************************************************************)
(* The state file (src/state/localStore.ts) under the runtime lease: every *)
(* process that gets the lease loads the file and then runs update() after *)
(* update() on it.  Nearly every component keeps its records there, and    *)
(* the other modules take an update() as one atomic step; this one shows   *)
(* that it is.                                                             *)
(*                                                                         *)
(* An update is a name; the state is the set of the updates made to it.    *)
(* A process that dies takes its memory with it; the temporary file it may *)
(* leave has a name that nothing else uses, and is left out.               *)
(***************************************************************************)
EXTENDS RuntimeLease, Sequences

CONSTANT Updates  \* the calls of update(), by whatever process makes them

VARIABLES
  file,       \* state.json: absent is the empty state
  loaded,     \* the processes whose load() has returned
  memory,     \* this.state
  chain,      \* writeChain: the calls that are not settled, in order
  stage,      \* of the first of them: waiting, mutating, written, renamed
  candidate,  \* the state that it will leave
  told,       \* what the caller of each update was told
  spoilt      \* the file cannot be read or parsed

storeVars == <<file, loaded, memory, chain, stage, candidate, told, spoilt>>
allVars == <<vars, storeVars>>

Stages == {"waiting", "mutating", "written", "renamed"}

StoreTypeOK ==
  /\ file \in SUBSET Updates /\ loaded \in SUBSET Processes
  /\ memory \in [Processes -> SUBSET Updates]
  /\ chain \in [Processes -> Seq(Updates)]
  /\ stage \in [Processes -> Stages]
  /\ candidate \in [Processes -> SUBSET Updates]
  /\ told \in [Updates -> {"nothing", "done", "failed"}]
  /\ spoilt \in BOOLEAN

StoreInit ==
  /\ Init
  /\ file = {} /\ loaded = {}
  /\ memory = [p \in Processes |-> {}]
  /\ chain = [p \in Processes |-> <<>>]
  /\ stage = [p \in Processes |-> "waiting"]
  /\ candidate = [p \in Processes |-> {}]
  /\ told = [u \in Updates |-> "nothing"]
  /\ spoilt = FALSE

-----------------------------------------------------------------------------
\* The process has the lease and its store.
Serving(p) == Alive(p) /\ pc[p] = "holding"
Busy(p) == Serving(p) /\ chain[p] # <<>>
At(p, s) == Busy(p) /\ stage[p] = s

\* Something else damages the file, or a read of it fails.
Spoil ==
  /\ file # {} /\ ~spoilt /\ spoilt' = TRUE
  /\ UNCHANGED <<vars, file, loaded, memory, chain, stage, candidate, told>>

\* A file that cannot be read is renamed, and the node starts from nothing.
Load(p) ==
  /\ Serving(p) /\ p \notin loaded
  /\ loaded' = loaded \cup {p}
  /\ file' = IF spoilt THEN {} ELSE file
  /\ spoilt' = FALSE
  /\ memory' = [memory EXCEPT ![p] = file']
  /\ UNCHANGED <<vars, chain, stage, candidate, told>>

\* update() is called: its transaction waits for those before it.
Update(p, u) ==
  /\ Serving(p) /\ p \in loaded
  /\ u \notin file /\ told[u] = "nothing" /\ \A n \in DOMAIN chain[p] : chain[p][n] # u
  /\ chain' = [chain EXCEPT ![p] = Append(@, u)]
  /\ UNCHANGED <<vars, file, loaded, memory, stage, candidate, told, spoilt>>

\* The candidate is a copy of the last committed state, which the mutator is
\* given and may work on for a while.
Snapshot(p) ==
  /\ At(p, "waiting")
  /\ candidate' = [candidate EXCEPT ![p] = memory[p]]
  /\ stage' = [stage EXCEPT ![p] = "mutating"]
  /\ UNCHANGED <<vars, file, loaded, memory, chain, told, spoilt>>

\* The mutator returns, and atomicWrite() writes a temporary file of its own.
Mutate(p) ==
  /\ At(p, "mutating")
  /\ candidate' = [candidate EXCEPT ![p] = @ \cup {Head(chain[p])}]
  /\ stage' = [stage EXCEPT ![p] = "written"]
  /\ UNCHANGED <<vars, file, loaded, memory, chain, told, spoilt>>

Rename(p) ==
  /\ At(p, "written")
  /\ file' = candidate[p] /\ spoilt' = FALSE
  /\ stage' = [stage EXCEPT ![p] = "renamed"]
  /\ UNCHANGED <<vars, loaded, memory, chain, candidate, told>>

\* The transaction has settled: the caller hears, and the next may begin.
Settle(p, answer) ==
  /\ chain' = [chain EXCEPT ![p] = Tail(@)]
  /\ stage' = [stage EXCEPT ![p] = "waiting"]
  /\ candidate' = [candidate EXCEPT ![p] = {}]
  /\ told' = [told EXCEPT ![Head(chain[p])] = answer]
  /\ UNCHANGED <<vars, file, loaded, spoilt>>

Commit(p) ==
  /\ At(p, "renamed")
  /\ memory' = [memory EXCEPT ![p] = candidate[p]]
  /\ Settle(p, "done")

\* Fault: the candidate of a failed transaction stays in live memory.
Forsakes_Nothing(p) == memory' = [memory EXCEPT ![p] = candidate[p]]

\* this.state is assigned only after atomicWrite() has returned.
Forsakes(p) == memory' = memory

\* The mutator throws, or the temporary file cannot be written or renamed.
Fail(p) ==
  /\ At(p, "mutating") \/ At(p, "written")
  /\ Forsakes(p)
  /\ Settle(p, "failed")

-----------------------------------------------------------------------------
\* A one-shot command awaits its updates before it gives the lease back.
AwaitsUpdates == \A p \in Processes : Busy(p) => pc'[p] = "holding"

\* Memory lasts as long as the process serves.
Lasting(f, empty) == [p \in Processes |-> IF p \in loaded' THEN f[p] ELSE empty]

StoreStep(p) ==
  \/ Load(p) \/ Snapshot(p) \/ Mutate(p) \/ Rename(p) \/ Commit(p) \/ Fail(p)
  \/ \E u \in Updates : Update(p, u)

LeaseStep ==
  /\ Next /\ Undisturbed /\ AwaitsUpdates
  /\ loaded' = {p \in loaded : pc'[p] = "holding" /\ p \notin dead'}
  /\ memory' = Lasting(memory, {}) /\ chain' = Lasting(chain, <<>>)
  /\ stage' = Lasting(stage, "waiting") /\ candidate' = Lasting(candidate, {})
  /\ UNCHANGED <<file, told, spoilt>>

StoreNext == LeaseStep \/ Spoil \/ \E p \in Processes : StoreStep(p)

StoreSpec == StoreInit /\ [][StoreNext]_allVars

StoreFairSpec == StoreSpec /\ Fairness

-----------------------------------------------------------------------------
Atomic == INSTANCE AtomicState WITH applied <- file

\* update() is atomic, durable once acknowledged and without effect once failed,
\* across concurrent callers, failing mutators and writes, deaths at any point
\* and processes that succeed one another under the lease.
StoreIsAtomic == Atomic!Spec
=============================================================================
