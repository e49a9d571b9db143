----------------------------- MODULE SetupServer -----------------------------
(***************************************************************************)
(* The bootstrap page of a node that has no configuration yet              *)
(* (src/gui/setupServer.ts).  Its three routes run concurrently and share  *)
(* one record, `setup`: start opens an installation, poll collects its     *)
(* credential, config writes the configuration, confirms and ends the      *)
(* process.                                                                *)
(*                                                                         *)
(* A request is where its handler has come to and what it has read on the  *)
(* way.  Requests that are refused before they change anything (host,      *)
(* origin, nonce, a body that is too large) are left out, and so is        *)
(* everything in the configuration but the credential.                     *)
(***************************************************************************)
EXTENDS Installation, NodeIdentity

CONSTANTS Requests,  \* concurrent requests
          Node       \* the process that serves them

ASSUME NodeAssumption == Node \in Processes

VARIABLES mode,      \* "down", "setup" or "running"
          disk,      \* the credential in the configuration file
          current,   \* the credential the process was started with
          exiting,   \* process.exit(75) is due
          req,       \* the handlers
          setup      \* SetupSecurity

process == <<mode, disk, current, exiting>>

Idle == [at |-> "idle", g |-> 0, token |-> NoToken]
NoSetup == [starting |-> FALSE, saving |-> FALSE, completed |-> FALSE, installation |-> 0, credential |-> NoToken]

\* A handler moves on, and one that is over leaves nothing behind.
At(r, where) == req' = [req EXCEPT ![r].at = where]
Over(r) == req' = [req EXCEPT ![r] = Idle]

\* What assertMutation asks of every route.
Accepted(r) == mode = "setup" /\ req[r] = Idle /\ ~setup.completed

(***************************************************************************)
(* POST /setup/account/start                                               *)
(***************************************************************************)
StartAsked(r) ==
    /\ Accepted(r) /\ ~setup.starting
    /\ setup' = [setup EXCEPT !.starting = TRUE]
    /\ mint' = Cached(Node)
    /\ At(r, "start")
    /\ UNCHANGED <<process, backend, faults, keyFile, keys>>

\* What start leaves in the record when it throws: the installation there was is dropped.
StartThrown == [setup EXCEPT !.starting = FALSE, !.installation = 0]

StartAnswered(r) ==
    /\ req[r].at = "start" /\ Loaded(Node)
    /\ \E g \in Unused :
          /\ StartInstallation(g, mint[Node].key, NoToken)
          /\ \/ setup' = [setup EXCEPT !.starting = FALSE, !.installation = g] /\ UNCHANGED faults
             \/ setup' = StartThrown /\ Fault
    /\ Over(r)
    /\ UNCHANGED <<process, idVars>>

\* The body cannot be used, or the backend cannot be reached.
StartFails(r) ==
    /\ req[r].at = "start"
    /\ setup' = StartThrown
    /\ Over(r)
    /\ NotTaken
    /\ UNCHANGED <<process, backend, idVars>>

(***************************************************************************)
(* POST /setup/account/poll                                                *)
(***************************************************************************)
PollAsked(r) ==
    /\ Accepted(r)
    /\ At(r, "poll")
    /\ UNCHANGED <<process, backend, faults, idVars, setup>>

\* Once the body has been read: nothing was started, or the credential is there already,
\* or the backend is asked about the installation of this moment.
PollBegins(r) ==
    /\ req[r].at = "poll"
    /\ IF setup.installation = 0 \/ setup.credential # NoToken
       THEN Over(r)
       ELSE req' = [req EXCEPT ![r].at = "polling", ![r].g = setup.installation]
    /\ UNCHANGED <<process, backend, faults, idVars, setup>>

PollAnswered(r) ==
    /\ req[r].at = "polling"
    /\ IF grant[req[r].g] = "AUTHORIZED"
       THEN At(r, "claim") /\ mint' = Cached(Node)
       ELSE Over(r) /\ UNCHANGED mint
    /\ UNCHANGED <<process, backend, faults, keyFile, keys, setup>>

\* The credential is collected into memory; an answer that is lost takes it along.
PollClaims(r) ==
    /\ req[r].at = "claim" /\ Loaded(Node)
    /\ \/ /\ ClaimInstallation(req[r].g, mint[Node].key)
          /\ \/ setup' = [setup EXCEPT !.credential = req[r].g] /\ UNCHANGED faults
             \/ UNCHANGED setup /\ Fault
       \/ /\ ~Claimable(req[r].g, mint[Node].key)
          /\ UNCHANGED <<backend, setup, faults>>
    /\ Over(r)
    /\ UNCHANGED <<process, idVars>>

PollFails(r) ==
    /\ req[r].at \in {"polling", "claim"}
    /\ Over(r)
    /\ Fault
    /\ UNCHANGED <<process, backend, idVars, setup>>

(***************************************************************************)
(* POST /setup/config                                                      *)
(***************************************************************************)
ConfigAsked(r) ==
    /\ Accepted(r) /\ ~setup.saving
    /\ setup' = [setup EXCEPT !.saving = TRUE]
    /\ At(r, "config")
    /\ UNCHANGED <<process, backend, faults, idVars>>

\* The handler throws, before anything is written.
ConfigThrows(r) ==
    /\ setup' = [setup EXCEPT !.saving = FALSE]
    /\ Over(r)

\* setupConfig: the credential that was typed in (advanced) or else the one that was
\* collected; without either the request is refused.
ConfigBuilds(r) ==
    /\ req[r].at = "config"
    /\ \/ \E t \in {Pasted, setup.credential} \ {NoToken} :
             req' = [req EXCEPT ![r].at = "write", ![r].token = t] /\ UNCHANGED setup
       \/ setup.credential = NoToken /\ ConfigThrows(r)
    /\ UNCHANGED <<process, backend, faults, idVars>>

\* writeConfig renames a complete file into place.  The installation is then confirmed
\* if there is one, and a credential of it.
ConfigWrites(r) ==
    /\ req[r].at = "write"
    /\ disk' = req[r].token
    /\ IF setup.credential # NoToken /\ setup.installation # 0
       THEN At(r, "confirm") /\ mint' = Cached(Node)
       ELSE At(r, "end") /\ UNCHANGED mint
    /\ UNCHANGED <<mode, current, exiting, backend, faults, keyFile, keys, setup>>

ConfigFails(r) ==
    /\ req[r].at = "write"
    /\ ConfigThrows(r)
    /\ Fault
    /\ UNCHANGED <<process, backend, idVars>>

\* The installation is read once the identity is there; by then it may have been dropped.
ConfigConfirms(r) ==
    /\ req[r].at = "confirm" /\ Loaded(Node)
    /\ IF setup.installation # 0 THEN ConfirmInstallation(setup.installation) ELSE UNCHANGED backend
    /\ At(r, "end")
    /\ UNCHANGED <<process, faults, idVars, setup>>

\* Answered or not, the credential is forgotten and the process is about to restart.
ConfigEnds(r) ==
    /\ req[r].at = "end" /\ mode = "setup"
    /\ setup' = [setup EXCEPT !.credential = NoToken, !.completed = TRUE, !.saving = FALSE]
    /\ exiting' = TRUE
    /\ Over(r)
    /\ UNCHANGED <<mode, disk, current, backend, faults, idVars>>

\* What the handlers make of a load of the identity that failed.
IdentityMissing ==
    /\ req' = [r \in Requests |->
                 IF req[r].at \in {"start", "claim"} THEN Idle
                 ELSE IF req[r].at = "confirm" THEN [req[r] EXCEPT !.at = "end"]
                 ELSE req[r]]
    /\ setup' = IF \E r \in Requests : req[r].at = "start" THEN StartThrown ELSE setup

\* A handler that has been entered goes on.
SetupStep(r) ==
    \/ StartAnswered(r) \/ StartFails(r)
    \/ PollBegins(r) \/ PollAnswered(r) \/ PollClaims(r) \/ PollFails(r)
    \/ ConfigBuilds(r) \/ ConfigWrites(r) \/ ConfigFails(r) \/ ConfigConfirms(r) \/ ConfigEnds(r)

\* The page asks.
SetupAsks(r) == StartAsked(r) \/ PollAsked(r) \/ ConfigAsked(r)
=============================================================================
