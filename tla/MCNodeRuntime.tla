---------------------------- MODULE MCNodeRuntime ----------------------------
EXTENDS NodeRuntime

AllRunners == {"startup", "gui", "policy", "cid-sync", "pin-reconcile", "commitments",
               "heartbeat", "status-rewards"}
Catalogue == {"a", "b", "c"}
ByRank == [x \in Catalogue |-> CASE x = "a" -> 1 [] x = "b" -> 2 [] OTHER -> 3]
BySize == [x \in Catalogue |-> CASE x = "a" -> 2 [] x = "b" -> 2 [] OTHER -> 0]
Releases == {{"a", "b"}, {"b", "c"}}
\* A backend that lists the newest record first.
NewestFirst == [v \in Releases |-> IF v = {"a", "b"} THEN <<"b", "a">> ELSE <<"c", "b">>]

\* A backend that names generations starts with the set of which two records
\* are planned, one that does not with the other.
Released == IF served.modern THEN {"b", "c"} ELSE {"a", "b"}
ReleasedInit == Init /\ served.set = Released
ReleasedSpec == ReleasedInit /\ [][Next]_vars /\ Fairness
==============================================================================
