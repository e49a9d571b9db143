--------------------------- MODULE MCRuntimeLease ---------------------------
(***************************************************************************)
(* Small instances of RuntimeLease: where the processes run and which PIDs *)
(* they get is the instance's choice.                                      *)
(***************************************************************************)
EXTENDS RuntimeLease, TLC

CONSTANTS p1, p2, p3, p4

\* All on one machine.
OneHome == [p \in Processes |-> "h1"]
\* In one PID namespace, with PIDs of their own.
OneSpace == [p \in Processes |-> "n1"]
OwnPids ==
  LET All == (p1 :> 1) @@ (p2 :> 2) @@ (p3 :> 3) @@ (p4 :> 4)
  IN  [p \in Processes |-> All[p]]
\* The third in another container than the first two.
TwoSpaces == [p \in Processes |-> IF p = p3 THEN "n2" ELSE "n1"]
\* The second is given the PID of the first, and the third has the same PID in
\* its own namespace.
ReusedPids == [p \in Processes |-> 1]

\* With PIDs of their own, in one namespace and with the same kind of command,
\* the processes are interchangeable.
Interchangeable == Permutations(Processes)
=============================================================================
