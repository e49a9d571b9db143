-------------------------- MODULE PermissionUpdate --------------------------
(***************************************************************************)
(* The replacement of the operator credential of a node that runs          *)
(* (src/setup/permissionUpdate.ts): begin opens an installation, refresh   *)
(* polls it, collects its credential, stores it, confirms, and has the     *)
(* process restarted.  Both are entered by any number of requests; between *)
(* them they share the phase, the installation and the applied flag.       *)
(***************************************************************************)
EXTENDS SetupServer

VARIABLE update     \* PermissionUpdateService

NoUpdate == [phase |-> "IDLE", started |-> 0, applied |-> FALSE]

Updating(r, where) == mode = "running" /\ req[r].at = where
Phase(p) == [update EXCEPT !.phase = p]

\* begin: an update that is outstanding is returned as it is.
Begin(r) ==
    /\ Updating(r, "idle") /\ Loaded(Node)
    /\ update.phase \notin {"WAITING_FOR_AUTHORIZATION", "APPLYING"}
    /\ update' = [update EXCEPT !.applied = FALSE]
    /\ At(r, "begin")
    /\ UNCHANGED <<process, backend, faults, idVars, setup>>

\* The phase changes only when the backend has answered; a call that fails leaves it.
Begun(r) ==
    /\ Updating(r, "begin")
    /\ \E g \in Unused :
          /\ StartInstallation(g, mint[Node].key, current)
          /\ \/ update' = [Phase("WAITING_FOR_AUTHORIZATION") EXCEPT !.started = g] /\ UNCHANGED faults
             \/ UNCHANGED update /\ Fault
    /\ Over(r)
    /\ UNCHANGED <<process, idVars, setup>>

BeginFails(r) ==
    /\ Updating(r, "begin")
    /\ Over(r)
    /\ NotTaken
    /\ UNCHANGED <<process, backend, idVars, setup, update>>

Refresh(r) ==
    /\ Updating(r, "idle")
    /\ update.started # 0 /\ update.phase = "WAITING_FOR_AUTHORIZATION"
    /\ req' = [req EXCEPT ![r].at = "ask", ![r].g = update.started]
    /\ UNCHANGED <<process, backend, faults, idVars, setup, update>>

RefreshAnswered(r) ==
    LET state == grant[req[r].g] IN
    /\ Updating(r, "ask")
    /\ \/ state \in {"DECLINED", "EXPIRED"} /\ update' = Phase(state) /\ Over(r)
       \/ state = "AUTHORIZED" /\ update' = Phase("APPLYING") /\ At(r, "collect")
       \/ state \notin {"DECLINED", "EXPIRED", "AUTHORIZED"} /\ UNCHANGED update /\ Over(r)
    /\ UNCHANGED <<process, backend, faults, idVars, setup>>

\* The phase when refresh throws.
Thrown == Phase(IF update.applied THEN "COMPLETED" ELSE "FAILED")

\* Fault: the superseded credential is retired before its replacement is stored.
Collects_ConfirmsFirst(r) ==
    /\ Updating(r, "collect")
    /\ \/ /\ Claimable(req[r].g, mint[Node].key)
          /\ grant' = [grant EXCEPT ![req[r].g] = "DELIVERED"]
          /\ live' = live \cup {req[r].g}
          /\ wire' = wire \cup {req[r].g}
          /\ UNCHANGED <<replaces, signer>>
          /\ \/ At(r, "store") /\ UNCHANGED <<update, faults>>
             \/ Over(r) /\ update' = Thrown /\ Fault
       \/ /\ ~Claimable(req[r].g, mint[Node].key)
          /\ Over(r) /\ update' = Thrown
          /\ UNCHANGED <<backend, faults>>
    /\ UNCHANGED <<process, idVars, setup>>

Collects(r) ==
    /\ Updating(r, "collect")
    /\ \/ /\ ClaimInstallation(req[r].g, mint[Node].key)
          /\ \/ At(r, "store") /\ UNCHANGED <<update, faults>>
             \/ Over(r) /\ update' = Thrown /\ Fault
       \/ /\ ~Claimable(req[r].g, mint[Node].key)
          /\ Over(r) /\ update' = Thrown
          /\ UNCHANGED <<backend, faults>>
    /\ UNCHANGED <<process, idVars, setup>>

\* A poll, a claim or a write that fails.
RefreshFails(r) ==
    /\ mode = "running" /\ req[r].at \in {"ask", "collect", "store"}
    /\ update' = Thrown
    /\ Over(r)
    /\ Fault
    /\ UNCHANGED <<process, backend, idVars, setup>>

\* replaceOperatorCredential: every other line of the file is kept, and the new file is
\* renamed over the old one.
Stores(r) ==
    /\ Updating(r, "store")
    /\ disk' = req[r].g
    /\ update' = [update EXCEPT !.applied = TRUE]
    /\ At(r, "report")
    /\ UNCHANGED <<mode, current, exiting, backend, faults, idVars, setup>>

Confirms(r) ==
    /\ Updating(r, "report")
    /\ ConfirmInstallation(req[r].g)
    /\ At(r, "complete")
    /\ UNCHANGED <<process, faults, idVars, setup, update>>

\* Fault: the replacement is never put into use.
Completes_NoRestart(r) ==
    /\ Updating(r, "complete")
    /\ update' = Phase("COMPLETED")
    /\ Over(r)
    /\ UNCHANGED <<process, backend, faults, idVars, setup>>

\* Whether or not the confirmation was answered.
Completes(r) ==
    /\ Updating(r, "complete")
    /\ update' = Phase("COMPLETED")
    /\ exiting' = TRUE
    /\ Over(r)
    /\ UNCHANGED <<mode, disk, current, backend, faults, idVars, setup>>

UpdateStep(r) ==
    \/ Begun(r) \/ BeginFails(r)
    \/ RefreshAnswered(r) \/ Collects(r) \/ RefreshFails(r)
    \/ Stores(r) \/ Confirms(r) \/ Completes(r)

UpdateAsks(r) == Begin(r) \/ Refresh(r)
=============================================================================
