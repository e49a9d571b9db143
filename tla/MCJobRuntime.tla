---------------------------- MODULE MCJobRuntime ----------------------------
(***************************************************************************)
(* JobRuntime for TLC: the bound of the run with several jobs.             *)
(***************************************************************************)
EXTENDS JobRuntime, TLC

\* Requests compete before the worker comes in and before anything restarts ...
BeforeWorker ==
  /\ crashes = 0 /\ instance = 1
  /\ \A j \in Jobs : submits[j] = 0 /\ quiesce[j] = "no"
  /\ sweep = {}

\* ... and the life of a job beyond that is explored for one job, with no
\* request under way.
OneByOne ==
  \/ BeforeWorker
  \/ /\ Cardinality({j \in Jobs : state[j] # "absent"}) <= 1
     /\ \A r \in Requests : request[r] = NoRequest

\* Jobs are interchangeable, and so are requests.
Symmetric == Permutations(Jobs) \cup Permutations(Requests)
=============================================================================
