------------------------------ MODULE Enrolment ------------------------------
(***************************************************************************)
(* A node from its first start to its nth credential (src/cli/commands.ts, *)
(* runCli): it serves the setup page while it has no configuration and     *)
(* runs once it has one, is restarted by its supervisor whenever it ends,  *)
(* and shares its state directory with a command run beside it.            *)
(***************************************************************************)
EXTENDS PermissionUpdate, TLC

Symmetry == Permutations(Requests)

vars == <<backend, faults, idVars, process, req, setup, update>>

Init ==
    /\ InstallationInit /\ IdentityInit
    /\ mode = "down" /\ disk = NoToken /\ current = NoToken /\ exiting = FALSE
    /\ req = [r \in Requests |-> Idle]
    /\ setup = NoSetup
    /\ update = NoUpdate

\* runCli: without a configuration the node serves setup; with one it loads its identity
\* and runs on the credential it has read.
Boot ==
    /\ mode = "down"
    /\ mode' = IF disk = NoToken THEN "setup" ELSE "running"
    /\ current' = disk
    /\ mint' = IF disk = NoToken THEN mint ELSE Cached(Node)
    /\ UNCHANGED <<disk, exiting, backend, faults, keyFile, keys, req, setup, update>>

\* The process is gone; the files and the requests already sent are what is left.
Ended ==
    /\ mode' = "down" /\ current' = NoToken /\ exiting' = FALSE
    /\ ForgetIdentity(Node)
    /\ req' = [r \in Requests |-> Idle]
    /\ setup' = NoSetup
    /\ update' = NoUpdate
    /\ UNCHANGED <<disk, backend, keyFile, keys>>

\* process.exit(75), 150 ms after the credential was stored.
Exit == exiting /\ Ended /\ UNCHANGED faults

Crash == mode # "down" /\ Ended /\ Fault

\* A command that is run beside the node loads the identity too, and ends.
OtherLoads(p) ==
    /\ p # Node /\ mint[p] = NotLoaded
    /\ mint' = Cached(p)
    /\ UNCHANGED <<process, backend, faults, keyFile, keys, req, setup, update>>

OtherEnds(p) ==
    /\ p # Node /\ Loaded(p)
    /\ ForgetIdentity(p)
    /\ UNCHANGED <<process, backend, faults, keyFile, keys, req, setup, update>>

IdentityMoves(p) == IdentityStep(p) /\ UNCHANGED <<process, backend, faults, req, setup, update>>

\* A load that fails; a node that runs does not come up without its identity.
IdentityFails(p) ==
    /\ LoadFails(p)
    /\ Fault
    /\ IF p = Node /\ mode = "setup" THEN IdentityMissing ELSE UNCHANGED <<req, setup>>
    /\ IF p = Node /\ mode = "running" THEN mode' = "down" ELSE UNCHANGED mode
    /\ UNCHANGED <<disk, current, exiting, backend, update>>

BackendMoves ==
    /\ \E g \in Grants : OwnerAnswers(g) \/ BackendConfirms(g)
    /\ UNCHANGED <<faults, idVars, process, req, setup, update>>

Handles(r) == (SetupStep(r) /\ UNCHANGED update) \/ UpdateStep(r)
Asks(r) == (SetupAsks(r) /\ UNCHANGED update) \/ UpdateAsks(r)

Next ==
    \/ Boot \/ Exit \/ Crash \/ BackendMoves
    \/ \E r \in Requests : Handles(r) \/ Asks(r)
    \/ \E p \in Processes : OtherLoads(p) \/ OtherEnds(p) \/ IdentityMoves(p) \/ IdentityFails(p)

Spec == Init /\ [][Next]_vars

-----------------------------------------------------------------------------
\* The credential in the configuration file is one the backend accepts, whatever was lost
\* or ended in between: a confirmation, which retires its predecessor, is sent only after
\* the new credential has been renamed into place.
TokenWorks == disk # NoToken => disk \in live

\* Whoever has loaded an identity has the one in the file, and so has every installation
\* that was ever started: two processes that mint at once, or one that ends half way,
\* leave one key pair.
OneIdentity ==
    /\ \A p \in Processes : Loaded(p) => mint[p].key = keyFile
    /\ \A g \in Grants : grant[g] # "unused" => signer[g] = keyFile

\* A credential that has been replaced goes out of use: the process that still runs on
\* the old one is about to exit, or a refresh is on its way to have it do so.
ReplacedIsLeft ==
    mode = "running" /\ disk # current =>
        exiting \/ \E r \in Requests : req[r].at \in {"report", "complete"}

=============================================================================
