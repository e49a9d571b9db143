----------------------------- MODULE AtomicState -----------------------------
(***************************************************************************)
(* What the node's components are promised of the state file: an update is *)
(* applied as a whole or not at all, one after the other; one whose caller *)
(* was told that it is done is there, and stays, whatever process dies or  *)
(* takes over; one whose caller was told that it failed is not, and never  *)
(* will be.  Only a file that something else has spoilt is set aside.      *)
(***************************************************************************)

CONSTANT Updates

VARIABLES
  applied,  \* the updates in the file
  told,     \* what the caller of each update was told
  spoilt    \* the file cannot be read

Init == applied = {} /\ told = [u \in Updates |-> "nothing"] /\ spoilt = FALSE

Apply(u) ==
  /\ u \notin applied /\ told[u] = "nothing"
  /\ applied' = applied \cup {u}
  /\ spoilt' = FALSE
  /\ UNCHANGED told

Tell(u) ==
  /\ told[u] = "nothing"
  /\ told' = [told EXCEPT ![u] = IF u \in applied THEN "done" ELSE "failed"]
  /\ UNCHANGED <<applied, spoilt>>

Spoil == spoilt' = TRUE /\ UNCHANGED <<applied, told>>

SetAside == spoilt /\ spoilt' = FALSE /\ applied' = {} /\ UNCHANGED told

Next == Spoil \/ SetAside \/ \E u \in Updates : Apply(u) \/ Tell(u)

Spec == Init /\ [][Next]_<<applied, told, spoilt>>
==============================================================================
