-------------------------- MODULE ExclusiveWriter --------------------------
(***************************************************************************)
(* What the runtime lease promises its callers: the state file never has   *)
(* two writers, and a writer is succeeded only after it has gone.          *)
(***************************************************************************)

CONSTANT Processes

VARIABLE writers

Init == writers = {}

\* A process becomes the writer of the state file.
Enter(p) == writers = {} /\ writers' = {p}

\* It hands the state file back, or it dies.
Leave == writers # {} /\ writers' = {}

Next == (\E p \in Processes : Enter(p)) \/ Leave

Spec == Init /\ [][Next]_writers
=============================================================================
