--------------------------- MODULE ComponentProofs ---------------------------
(***************************************************************************)
(* Two parts of the node that each have a state of their own: its          *)
(* enrolment and the pin ledger.                                           *)
(***************************************************************************)
EXTENDS Enrolment, ManagedPins, TLAPS

\* A leaf is first-order reasoning unless it says otherwise.
USE Zenon

-----------------------------------------------------------------------------
(* Enrolment: any number of processes that share the state directory,      *)
(* requests, installations and faults.                                     *)

-----------------------------------------------------------------------------
(* Types *)

Tokens == Grants \cup {Pasted, NoToken}
Keys == 1..MaxKeys \cup {NoKey}
GrantStates == {"unused", "PENDING", "AUTHORIZED", "DECLINED", "EXPIRED", "DELIVERED", "CONFIRMED"}

\* Where the handlers of the two modes can be.
Saving == {"config", "write", "confirm", "end"}
SetupSteps == {"idle", "start", "poll", "polling", "claim"} \cup Saving
UpdateSteps == {"idle", "begin", "ask", "collect", "store", "report", "complete"}

Handler == [at: SetupSteps \cup UpdateSteps, g: Grants \cup {0}, token: Tokens]
Security == [starting: BOOLEAN, saving: BOOLEAN, completed: BOOLEAN,
             installation: Grants \cup {0}, credential: Tokens]
Service == [phase: {"IDLE", "WAITING_FOR_AUTHORIZATION", "APPLYING", "COMPLETED", "FAILED",
                    "DECLINED", "EXPIRED"},
            started: Grants \cup {0}, applied: BOOLEAN]

BackendTypeOK ==
    /\ grant \in [Grants -> GrantStates]
    /\ replaces \in [Grants -> Tokens]
    /\ DOMAIN signer = Grants
    /\ wire \subseteq Grants

IdentityTypeOK ==
    /\ keyFile \in Keys
    /\ keys \in 0..MaxKeys
    /\ mint \in [Processes -> [at: {"none", "read", "link", "loaded"}, key: Keys]]

ProcessTypeOK ==
    /\ mode \in {"down", "setup", "running"}
    /\ disk \in Tokens /\ current \in Tokens
    /\ req \in [Requests -> Handler]
    /\ setup \in Security
    /\ update \in Service

TypeOK == BackendTypeOK /\ IdentityTypeOK /\ ProcessTypeOK

-----------------------------------------------------------------------------
(* The inductive invariant *)

\* A pair that is about to be linked is one; whoever has loaded has the pair of
\* the file, and nothing was started with another.
IdentityInv ==
    /\ \A p \in Processes : mint[p].at = "link" => mint[p].key # NoKey
    /\ \A p \in Processes : Loaded(p) => mint[p].key = keyFile /\ keyFile # NoKey
    /\ \A g \in Grants : grant[g] # "unused" => signer[g] = keyFile /\ keyFile # NoKey

\* What is there in each mode; a node that runs takes no request before it has
\* its identity.
ModeInv ==
    /\ mode = "down" => setup = NoSetup /\ update = NoUpdate /\ \A r \in Requests : req[r] = Idle
    /\ mode = "setup" => update = NoUpdate /\ \A r \in Requests : req[r].at \in SetupSteps
    /\ mode = "running" => /\ setup = NoSetup /\ current # NoToken /\ disk # NoToken
                           /\ \A r \in Requests : req[r].at \in UpdateSteps
    /\ mode = "running" /\ ~Loaded(Node) => update = NoUpdate /\ \A r \in Requests : req[r] = Idle

\* The grant g has been collected.
Claimed(g) == grant[g] \in {"DELIVERED", "CONFIRMED"}

\* Until it has a configuration the node writes at most one, with a credential
\* that works; nothing has been replaced by then.
SavingInv ==
    /\ \A r, q \in Requests : req[r].at \in Saving /\ req[q].at \in Saving => r = q
    /\ \A r \in Requests : req[r].at \in Saving => setup.saving
    /\ \A r \in Requests : req[r].at \in {"config", "write"} => disk = NoToken
    /\ mode = "setup" /\ ~setup.saving /\ ~setup.completed => disk = NoToken

CredentialInv ==
    /\ disk = NoToken \/ mode = "setup" => Pasted \in live /\ \A g \in Grants : replaces[g] = NoToken
    /\ setup.credential # NoToken => /\ setup.credential \in Grants \cap live
                                     /\ Claimed(setup.credential)
    /\ setup.installation # 0 => grant[setup.installation] # "unused"
    /\ \A r \in Requests : req[r].at \in {"polling", "claim"} =>
         req[r].g \in Grants /\ grant[req[r].g] # "unused"
    /\ \A r \in Requests : req[r].at = "write" =>
         /\ req[r].token \in live /\ req[r].token # NoToken
         /\ req[r].token \in Grants => Claimed(req[r].token)

SetupInv == SavingInv /\ CredentialInv

\* The credential t has not been in the configuration file.
Fresh(t) == disk # t /\ current # t /\ \A g \in Grants : replaces[g] # t

\* The credential g was asked for by this process, to replace the one it runs on.
Asked(g) == g \in Grants /\ grant[g] # "unused" /\ replaces[g] = current

\* A credential is stored once, after it was collected and before the backend
\* can hear that it was: what a confirmation retires is not in the file.
TokenInv ==
    /\ disk # NoToken => disk \in live
    /\ \A g \in Grants : ~Claimed(g) => Fresh(g)
    /\ \A r \in Requests : req[r].at = "store" =>
         req[r].g \in live /\ Claimed(req[r].g) /\ Fresh(req[r].g)
    /\ \A r, q \in Requests : req[r].at = "store" /\ req[q].at = "store" /\ req[r].g = req[q].g => r = q
    /\ \A g \in wire : grant[g] # "unused" /\ (replaces[g] # NoToken => disk # replaces[g])
    /\ \A r \in Requests : req[r].at \in {"ask", "collect", "store", "report"} => Asked(req[r].g)
    /\ \A r \in Requests : req[r].at \in {"report", "complete"} => disk # current
    /\ update.started # 0 => Asked(update.started)

Inv == IdentityInv /\ ModeInv /\ SetupInv /\ TokenInv /\ ReplacedIsLeft

LEMMA TypeInit == Init => TypeOK
<1> SUFFICES ASSUME Init PROVE TypeOK
  OBVIOUS
<1> USE DEF Init
<1>1. BackendTypeOK
  BY DEF InstallationInit, BackendTypeOK, GrantStates, Tokens
<1>2. IdentityTypeOK
  BY KeysAssumption, SMT DEF IdentityInit, IdentityTypeOK, Keys, NotLoaded
<1>3. mode \in {"down", "setup", "running"} /\ disk \in Tokens /\ current \in Tokens
  BY DEF Tokens
<1>4. Idle \in Handler
  BY DEF Idle, Handler, SetupSteps, Tokens
<1>5. setup \in Security
  BY DEF NoSetup, Security, Tokens
<1>6. update \in Service
  BY DEF NoUpdate, Service
<1> QED BY <1>1, <1>2, <1>3, <1>4, <1>5, <1>6 DEF TypeOK, ProcessTypeOK

LEMMA InvInit == Init => Inv
<1> SUFFICES ASSUME Init PROVE Inv
  OBVIOUS
<1> USE TokensAssumption DEF Init
<1>1. IdentityInv
  BY DEF InstallationInit, IdentityInit, IdentityInv, NotLoaded, Loaded
<1>2. ModeInv
  BY DEF ModeInv
<1>3. SetupInv
  BY DEF SetupInv, SavingInv, CredentialInv, InstallationInit, Idle, NoSetup, Saving
<1>4. TokenInv
  BY DEF TokenInv, InstallationInit, Idle, NoUpdate, Fresh, Grants
<1>5. ReplacedIsLeft
  BY DEF ReplacedIsLeft
<1> QED BY <1>1, <1>2, <1>3, <1>4, <1>5 DEF Inv

-----------------------------------------------------------------------------
(* The operations the steps are made of *)

LEMMA AtFact ==
  ASSUME req \in [Requests -> Handler], NEW r \in Requests, NEW where \in SetupSteps \cup UpdateSteps,
         At(r, where)
  PROVE /\ req' \in [Requests -> Handler] /\ req'[r].at = where
        /\ req'[r].g = req[r].g /\ req'[r].token = req[r].token
        /\ \A q \in Requests \ {r} : req'[q] = req[q]
<1>1. [req[r] EXCEPT !.at = where] \in Handler
  BY DEF Handler
<1> QED BY <1>1 DEF At, Handler

LEMMA OverFact ==
  ASSUME req \in [Requests -> Handler], NEW r \in Requests, Over(r)
  PROVE /\ req' \in [Requests -> Handler] /\ req'[r].at = "idle" /\ req'[r] = Idle
        /\ \A q \in Requests \ {r} : req'[q] = req[q]
<1>1. Idle \in Handler /\ Idle.at = "idle"
  BY DEF Idle, Handler, SetupSteps, Tokens
<1> QED BY <1>1 DEF Over

\* The request r goes on with the grant g, or the credential t.
LEMMA GoesOn ==
  ASSUME req \in [Requests -> Handler], NEW r \in Requests, NEW where \in SetupSteps \cup UpdateSteps
  PROVE /\ \A g \in Grants \cup {0} : req' = [req EXCEPT ![r].at = where, ![r].g = g] =>
             /\ req' \in [Requests -> Handler] /\ req'[r].at = where /\ req'[r].g = g
             /\ \A q \in Requests \ {r} : req'[q] = req[q]
        /\ \A t \in Tokens : req' = [req EXCEPT ![r].at = where, ![r].token = t] =>
             /\ req' \in [Requests -> Handler] /\ req'[r].at = where /\ req'[r].token = t
             /\ \A q \in Requests \ {r} : req'[q] = req[q]
<1>1. [req[r] EXCEPT !.at = where] \in Handler
  BY DEF Handler
<1>2. ASSUME NEW f \in [Requests -> Handler], f = [req EXCEPT ![r].at = where]
      PROVE /\ f[r].at = where /\ \A q \in Requests \ {r} : f[q] = req[q]
            /\ \A g \in Grants \cup {0} : [f[r] EXCEPT !.g = g] \in Handler
            /\ \A t \in Tokens : [f[r] EXCEPT !.token = t] \in Handler
  BY <1>2 DEF Handler
<1>3. [req EXCEPT ![r].at = where] \in [Requests -> Handler]
  BY <1>1
<1>4. ASSUME NEW g \in Grants \cup {0}, req' = [req EXCEPT ![r].at = where, ![r].g = g]
      PROVE /\ req' \in [Requests -> Handler] /\ req'[r].at = where /\ req'[r].g = g
            /\ \A q \in Requests \ {r} : req'[q] = req[q]
  <2> DEFINE f == [req EXCEPT ![r].at = where]
  <2>1. f \in [Requests -> Handler] /\ f[r].at = where /\ [f[r] EXCEPT !.g = g] \in Handler
        /\ \A q \in Requests \ {r} : f[q] = req[q]
    BY <1>2, <1>3
  <2>2. req' = [f EXCEPT ![r].g = g]
    BY <1>4
  <2> HIDE DEF f
  <2> QED BY <2>1, <2>2 DEF Handler
<1>5. ASSUME NEW t \in Tokens, req' = [req EXCEPT ![r].at = where, ![r].token = t]
      PROVE /\ req' \in [Requests -> Handler] /\ req'[r].at = where /\ req'[r].token = t
            /\ \A q \in Requests \ {r} : req'[q] = req[q]
  <2> DEFINE f == [req EXCEPT ![r].at = where]
  <2>1. f \in [Requests -> Handler] /\ f[r].at = where /\ [f[r] EXCEPT !.token = t] \in Handler
        /\ \A q \in Requests \ {r} : f[q] = req[q]
    BY <1>2, <1>3
  <2>2. req' = [f EXCEPT ![r].token = t]
    BY <1>5
  <2> HIDE DEF f
  <2> QED BY <2>1, <2>2 DEF Handler
<1> QED BY <1>4, <1>5

LEMMA StartFact ==
  ASSUME BackendTypeOK, NEW g, NEW key, NEW previous \in Tokens, StartInstallation(g, key, previous)
  PROVE /\ BackendTypeOK'
        /\ g \in Grants /\ grant[g] = "unused" /\ grant'[g] = "PENDING"
        /\ replaces'[g] = previous /\ signer'[g] = key
        /\ \A h \in Grants \ {g} : grant'[h] = grant[h] /\ replaces'[h] = replaces[h] /\ signer'[h] = signer[h]
        /\ UNCHANGED <<live, wire>>
BY DEF StartInstallation, Unused, BackendTypeOK, GrantStates

LEMMA ClaimFact ==
  ASSUME BackendTypeOK, NEW g \in Grants, NEW key, ClaimInstallation(g, key)
  PROVE /\ BackendTypeOK'
        /\ grant[g] = "AUTHORIZED" /\ grant'[g] = "DELIVERED" /\ live' = live \cup {g}
        /\ \A h \in Grants \ {g} : grant'[h] = grant[h]
        /\ UNCHANGED <<replaces, signer, wire>>
BY DEF ClaimInstallation, Claimable, BackendTypeOK, GrantStates

\* The confirmation that is received, and the answer of the account holder.
LEMMA BackendFact ==
  ASSUME BackendTypeOK, NEW g \in Grants, OwnerAnswers(g) \/ BackendConfirms(g)
  PROVE /\ BackendTypeOK' /\ wire' \subseteq wire /\ UNCHANGED <<replaces, signer>>
        /\ \A h \in Grants : (Claimed(h) <=> Claimed(h)') /\ (grant'[h] = "unused" <=> grant[h] = "unused")
        /\ live' = live \/ (g \in wire /\ live' = live \ {replaces[g]})
<1>1. BackendTypeOK'
  BY ZenonT(30) DEF OwnerAnswers, BackendConfirms, BackendTypeOK, GrantStates
<1>2. ASSUME NEW h \in Grants
      PROVE (Claimed(h) <=> Claimed(h)') /\ (grant'[h] = "unused" <=> grant[h] = "unused")
  BY DEF OwnerAnswers, BackendConfirms, BackendTypeOK, Claimed
<1> QED BY <1>1, <1>2 DEF OwnerAnswers, BackendConfirms

LEMMA CachedFact ==
  ASSUME IdentityTypeOK, NEW p \in Processes, mint' = Cached(p), UNCHANGED <<keyFile, keys>>
  PROVE /\ IdentityTypeOK'
        /\ \A q \in Processes : mint'[q] = mint[q] \/ mint'[q].at = "read"
        /\ \A q \in Processes : Loaded(q)' <=> Loaded(q)
<1>1. [mint[p] EXCEPT !.at = "read"] \in [at: {"none", "read", "link", "loaded"}, key: Keys]
  BY DEF IdentityTypeOK
<1> QED BY <1>1 DEF IdentityTypeOK, Cached, Loaded

-----------------------------------------------------------------------------
(* The identity *)

IdentityMove(p) ==
    \/ (mint' = Cached(p) \/ ForgetIdentity(p) \/ LoadFails(p)) /\ UNCHANGED <<keyFile, keys>>
    \/ ReadIdentity(p) \/ Promote(p)

GrantMove ==
    \/ \E g \in Unused : /\ Loaded(Node)
                         /\ \E previous \in Tokens : StartInstallation(g, mint[Node].key, previous)
    \/ \E g \in Grants : \/ ClaimInstallation(g, mint[Node].key) \/ ConfirmInstallation(g)
                         \/ OwnerAnswers(g) \/ BackendConfirms(g)

\* A handler that is not idle says what mode the process is in.
LEMMA ModeOfHandler ==
  ASSUME TypeOK, Inv, NEW r \in Requests
  PROVE /\ req[r].at \in SetupSteps \ {"idle"} => mode = "setup"
        /\ req[r].at \in UpdateSteps \ {"idle"} => mode = "running" /\ Loaded(Node)
<1>1. Idle.at = "idle"
  BY DEF Idle
<1> QED BY <1>1 DEF Inv, ModeInv, TypeOK, ProcessTypeOK, SetupSteps, UpdateSteps, Saving

\* What a step does to the identity file and the caches, and to the grants.
LEMMA Moves ==
  ASSUME TypeOK, Inv, Next
  PROVE /\ UNCHANGED idVars \/ \E p \in Processes : IdentityMove(p)
        /\ UNCHANGED backend \/ GrantMove
<1>0. Node \in Processes /\ NoToken \in Tokens /\ current \in Tokens
  BY NodeAssumption DEF Tokens, TypeOK, ProcessTypeOK
<1>1. ASSUME NEW r \in Requests, SetupStep(r)
      PROVE /\ UNCHANGED idVars \/ \E p \in Processes : IdentityMove(p)
            /\ UNCHANGED backend \/ GrantMove
  <2>1. UNCHANGED idVars \/ IdentityMove(Node)
    BY <1>1 DEF SetupStep, StartAnswered, StartFails, PollBegins, PollAnswered, PollClaims,
       PollFails, ConfigBuilds, ConfigWrites, ConfigFails, ConfigConfirms, ConfigEnds, idVars, IdentityMove
  <2>2. CASE StartAnswered(r)
    BY <2>2, <1>0 DEF StartAnswered, GrantMove
  <2>3. CASE PollClaims(r)
    <3>0. req[r].at = "claim"
      BY <2>3 DEF PollClaims
    <3>1. req[r].g \in Grants
      BY <3>0 DEF Inv, SetupInv, CredentialInv
    <3> QED BY <2>3, <3>1 DEF PollClaims, GrantMove
  <2>4. CASE ConfigConfirms(r)
    <3>1. setup.installation # 0 => setup.installation \in Grants
      BY DEF TypeOK, ProcessTypeOK, Security
    <3> QED BY <2>4, <3>1 DEF ConfigConfirms, GrantMove
  <2>5. CASE \/ StartFails(r) \/ PollBegins(r) \/ PollAnswered(r) \/ PollFails(r) \/ ConfigBuilds(r)
             \/ ConfigWrites(r) \/ ConfigFails(r) \/ ConfigEnds(r)
    BY <1>0, <2>1, <2>5 DEF StartFails, PollBegins, PollAnswered, PollFails, ConfigBuilds, ConfigWrites,
       ConfigFails, ConfigEnds
  <2> QED BY <1>0, <1>1, <2>1, <2>2, <2>3, <2>4, <2>5 DEF SetupStep
<1>2. ASSUME NEW r \in Requests, SetupAsks(r)
      PROVE /\ UNCHANGED idVars \/ \E p \in Processes : IdentityMove(p)
            /\ UNCHANGED backend
  BY <1>2, <1>0 DEF SetupAsks, StartAsked, PollAsked, ConfigAsked, idVars, IdentityMove
<1>3. ASSUME NEW r \in Requests, UpdateStep(r) \/ UpdateAsks(r)
      PROVE UNCHANGED idVars /\ (UNCHANGED backend \/ GrantMove)
  <2>1. UNCHANGED idVars
    BY <1>3 DEF UpdateStep, Begun, BeginFails, RefreshAnswered, Collects, RefreshFails, Stores,
       Confirms, Completes, UpdateAsks, Begin, Refresh
  <2>2. CASE Begun(r)
    <3>1. Loaded(Node)
      BY <2>2, ModeOfHandler DEF Begun, Updating, UpdateSteps
    <3> QED BY <2>1, <2>2, <3>1, <1>0 DEF Begun, GrantMove
  <2>3. CASE Collects(r) \/ Confirms(r)
    <3>1. req[r].g \in Grants
      BY <2>3 DEF Collects, Confirms, Updating, Inv, TokenInv, Asked
    <3> QED BY <2>1, <2>3, <3>1 DEF Collects, Confirms, GrantMove
  <2>4. CASE \/ BeginFails(r) \/ RefreshAnswered(r) \/ RefreshFails(r) \/ Stores(r)
             \/ Completes(r) \/ UpdateAsks(r)
    BY <2>1, <2>4 DEF BeginFails, RefreshAnswered, RefreshFails, Stores, Completes, UpdateAsks, Begin, Refresh
  <2> QED BY <1>3, <2>2, <2>3, <2>4 DEF UpdateStep
<1>4. CASE Boot \/ Exit \/ Crash
  BY <1>4, <1>0 DEF Boot, Exit, Crash, Ended, IdentityMove, idVars
<1>5. CASE BackendMoves
  BY <1>5 DEF BackendMoves, GrantMove
<1>6. ASSUME NEW p \in Processes, OtherLoads(p) \/ OtherEnds(p) \/ IdentityMoves(p) \/ IdentityFails(p)
      PROVE IdentityMove(p) /\ UNCHANGED backend
  BY <1>6 DEF OtherLoads, OtherEnds, IdentityMoves, IdentityStep, IdentityFails, LoadFails, IdentityMove
<1> QED BY <1>1, <1>2, <1>3, <1>4, <1>5, <1>6 DEF Next, Handles, Asks

\* The identity of the file stays, and so do the grants that were started.
IdentityGoesOn ==
    /\ IdentityTypeOK' /\ (keyFile # NoKey => keyFile' = keyFile)
    /\ \A q \in Processes : mint'[q].at = "link" => mint'[q].key # NoKey
    /\ \A q \in Processes : Loaded(q)' => mint'[q].key = keyFile' /\ keyFile' # NoKey

GrantsGoOn ==
    /\ BackendTypeOK'
    /\ \A g \in Grants : grant'[g] # "unused" =>
         \/ grant[g] # "unused" /\ signer'[g] = signer[g]
         \/ Loaded(Node) /\ signer'[g] = mint[Node].key

LEMMA IdentityKeeps ==
  ASSUME TypeOK, Inv, Next
  PROVE IdentityTypeOK' /\ BackendTypeOK' /\ IdentityInv'
<1>0. IdentityTypeOK /\ BackendTypeOK /\ IdentityInv
  BY DEF TypeOK, Inv
<1>1. IdentityGoesOn
  <2> USE DEF IdentityGoesOn
  <2>1. CASE UNCHANGED idVars
    BY <2>1, <1>0 DEF idVars, IdentityTypeOK, IdentityInv, Loaded
  <2>2. ASSUME NEW p \in Processes, mint' = Cached(p), UNCHANGED <<keyFile, keys>> PROVE IdentityGoesOn
    BY <2>2, <1>0, CachedFact DEF IdentityInv, Loaded
  <2>3. ASSUME NEW p \in Processes, ForgetIdentity(p) \/ LoadFails(p), UNCHANGED <<keyFile, keys>> PROVE IdentityGoesOn
    <3>1. mint' = [mint EXCEPT ![p] = NotLoaded]
      BY <2>3 DEF ForgetIdentity, LoadFails
    <3>2. NotLoaded \in [at: {"none", "read", "link", "loaded"}, key: Keys] /\ NotLoaded.at = "none"
      BY DEF NotLoaded, Keys
    <3> QED BY <2>3, <1>0, <3>1, <3>2 DEF IdentityTypeOK, IdentityInv, Loaded
  <2>4. ASSUME NEW p \in Processes, ReadIdentity(p) PROVE IdentityGoesOn
    <3>1. (keys + 1 \in Keys /\ keys + 1 # NoKey) \/ keys >= MaxKeys
      BY <1>0, KeysAssumption, SMT DEF IdentityTypeOK, Keys
    <3>2. keys' \in 0..MaxKeys
      BY <2>4, <1>0, KeysAssumption, SMT DEF ReadIdentity, IdentityTypeOK
    <3>3. /\ mint'[p] \in [at: {"link", "loaded"}, key: Keys] /\ mint'[p].key # NoKey
          /\ mint'[p].at = "loaded" => mint'[p].key = keyFile
      BY <2>4, <1>0, <3>1, KeysAssumption, SMT DEF ReadIdentity, IdentityTypeOK
    <3>4. \A q \in Processes \ {p} : mint'[q] = mint[q]
      BY <2>4, <1>0 DEF ReadIdentity, IdentityTypeOK
    <3>5. mint' \in [Processes -> [at: {"none", "read", "link", "loaded"}, key: Keys]]
      <4>1. mint'[p] \in [at: {"none", "read", "link", "loaded"}, key: Keys]
        BY <3>3
      <4> QED BY <2>4, <1>0, <4>1 DEF ReadIdentity, IdentityTypeOK
    <3> QED BY <2>4, <1>0, <3>2, <3>3, <3>4, <3>5, SMT DEF ReadIdentity, IdentityTypeOK, IdentityInv, Loaded
  <2>5. ASSUME NEW p \in Processes, Promote(p) PROVE IdentityGoesOn
    <3>1. keyFile' \in Keys /\ keyFile' # NoKey /\ (keyFile # NoKey => keyFile' = keyFile)
      BY <2>5, <1>0 DEF Promote, IdentityTypeOK, IdentityInv
    <3>2. mint'[p] = [at |-> "loaded", key |-> keyFile'] /\ \A q \in Processes \ {p} : mint'[q] = mint[q]
      BY <2>5, <1>0 DEF Promote, IdentityTypeOK
    <3>3. IdentityTypeOK'
      BY <2>5, <1>0, <3>1 DEF Promote, IdentityTypeOK
    <3> QED BY <1>0, <3>1, <3>2, <3>3, SMT DEF IdentityInv, Loaded
  <2> QED BY <2>1, <2>2, <2>3, <2>4, <2>5, Moves DEF IdentityMove
<1>2. GrantsGoOn
  <2> USE DEF GrantsGoOn
  <2>1. CASE UNCHANGED backend
    BY <2>1, <1>0 DEF backend, BackendTypeOK
  <2>2. ASSUME NEW g, NEW previous \in Tokens, Loaded(Node), StartInstallation(g, mint[Node].key, previous)
        PROVE GrantsGoOn
    BY <2>2, <1>0, StartFact
  <2>3. ASSUME NEW g \in Grants, ClaimInstallation(g, mint[Node].key) PROVE GrantsGoOn
    BY <2>3, <1>0, ClaimFact
  <2>4. ASSUME NEW g \in Grants, ConfirmInstallation(g) PROVE GrantsGoOn
    BY <2>4, <1>0 DEF ConfirmInstallation, BackendTypeOK
  <2>5. ASSUME NEW g \in Grants, OwnerAnswers(g) \/ BackendConfirms(g) PROVE GrantsGoOn
    BY <2>5, <1>0, BackendFact
  <2> QED BY <2>1, <2>2, <2>3, <2>4, <2>5, Moves DEF GrantMove
<1>3. \A g \in Grants : grant'[g] # "unused" => signer'[g] = keyFile' /\ keyFile' # NoKey
  <2>1. Node \in Processes /\ (Loaded(Node) => mint[Node].key = keyFile /\ keyFile # NoKey)
    BY <1>0, NodeAssumption DEF IdentityInv
  <2>2. \A g \in Grants : grant[g] # "unused" => signer[g] = keyFile /\ keyFile # NoKey
    BY <1>0 DEF IdentityInv
  <2> QED BY <1>1, <1>2, <2>1, <2>2 DEF IdentityGoesOn, GrantsGoOn
<1> QED BY <1>1, <1>2, <1>3 DEF IdentityInv, IdentityGoesOn, GrantsGoOn

-----------------------------------------------------------------------------
(* Setup *)

\* While the node is set up nothing is retired.
NothingRetired ==
    /\ live \subseteq live' /\ Pasted \in live'
    /\ \A g \in Grants : /\ Claimed(g) => Claimed(g)'
                         /\ grant[g] # "unused" => grant'[g] # "unused"
                         /\ replaces'[g] = NoToken

\* The credential in the file works, and was collected; a confirmation is of a
\* grant that was started.
StoredInv ==
    /\ disk # NoToken => disk \in live
    /\ \A g \in Grants : ~Claimed(g) => disk # g /\ current # g
    /\ \A g \in wire : grant[g] # "unused"

\* Where there is no update this is all that TokenInv says.
LEMMA SetupTokens ==
  ASSUME BackendTypeOK', ModeInv', SetupInv', mode' = "setup", StoredInv'
  PROVE TokenInv' /\ ReplacedIsLeft'
<1>1. \A g \in Grants : replaces'[g] = NoToken
  BY DEF SetupInv, CredentialInv
<1>2. \A r \in Requests : req'[r].at \notin {"ask", "collect", "store", "report", "complete"}
  BY DEF ModeInv, SetupSteps, Saving
<1>3. update'.started = 0
  BY SMT DEF ModeInv, NoUpdate
<1>4. NoToken \notin Grants
  BY TokensAssumption DEF Grants
<1> QED BY <1>1, <1>2, <1>3, <1>4 DEF TokenInv, StoredInv, Fresh, ReplacedIsLeft, BackendTypeOK

LEMMA SetupBackend ==
  ASSUME TypeOK, Inv, mode = "setup", NEW r \in Requests, SetupStep(r) \/ SetupAsks(r)
  PROVE /\ BackendTypeOK' /\ NothingRetired
        /\ (disk' = disk \/ ConfigWrites(r)) /\ current' = current
        /\ \A g \in wire' : g \in wire \/ grant'[g] # "unused"
<1>0. /\ BackendTypeOK /\ Pasted \in live /\ \A g \in Grants : replaces[g] = NoToken
  BY DEF TypeOK, Inv, SetupInv, CredentialInv
<1>1. ASSUME UNCHANGED backend
      PROVE BackendTypeOK' /\ NothingRetired /\ \A g \in wire' : g \in wire \/ grant'[g] # "unused"
  BY <1>0, <1>1 DEF backend, BackendTypeOK, NothingRetired, Claimed
<1>2. ASSUME NEW g \in Unused, NEW key, StartInstallation(g, key, NoToken)
      PROVE BackendTypeOK' /\ NothingRetired /\ \A h \in wire' : h \in wire \/ grant'[h] # "unused"
  <2>1. NoToken \in Tokens
    BY DEF Tokens
  <2> QED BY <1>0, <1>2, <2>1, StartFact DEF NothingRetired, Claimed
<1>3. ASSUME NEW g \in Grants, NEW key, ClaimInstallation(g, key)
      PROVE BackendTypeOK' /\ NothingRetired /\ \A h \in wire' : h \in wire \/ grant'[h] # "unused"
  BY <1>0, <1>3, ClaimFact DEF NothingRetired, Claimed
<1>4. ASSUME NEW g \in Grants, grant[g] # "unused", ConfirmInstallation(g)
      PROVE BackendTypeOK' /\ NothingRetired /\ \A h \in wire' : h \in wire \/ grant'[h] # "unused"
  BY <1>0, <1>4 DEF ConfirmInstallation, BackendTypeOK, NothingRetired, Claimed
<1>5. (disk' = disk \/ ConfigWrites(r)) /\ current' = current
  BY DEF SetupStep, SetupAsks, StartAnswered, StartFails, PollBegins, PollAnswered, PollClaims,
     PollFails, ConfigBuilds, ConfigWrites, ConfigFails, ConfigConfirms, ConfigEnds, StartAsked,
     PollAsked, ConfigAsked, process
<1>6. CASE StartAnswered(r)
  BY <1>2, <1>5, <1>6 DEF StartAnswered
<1>7. CASE PollClaims(r)
  <2>0. req[r].at = "claim"
    BY <1>7 DEF PollClaims
  <2>1. req[r].g \in Grants
    BY <2>0 DEF Inv, SetupInv, CredentialInv
  <2> QED BY <1>1, <1>3, <1>5, <1>7, <2>1 DEF PollClaims
<1>8. CASE ConfigConfirms(r)
  <2>1. setup.installation # 0 => setup.installation \in Grants /\ grant[setup.installation] # "unused"
    BY DEF TypeOK, ProcessTypeOK, Security, Inv, SetupInv, CredentialInv
  <2> QED BY <1>1, <1>4, <1>5, <1>8, <2>1 DEF ConfigConfirms
<1>9. CASE \/ StartFails(r) \/ PollBegins(r) \/ PollAnswered(r) \/ PollFails(r) \/ ConfigBuilds(r)
           \/ ConfigWrites(r) \/ ConfigFails(r) \/ ConfigEnds(r) \/ SetupAsks(r)
  <2>1. UNCHANGED backend
    BY <1>9 DEF SetupAsks, StartFails, PollBegins, PollAnswered, PollFails, ConfigBuilds, ConfigWrites,
       ConfigFails, ConfigEnds, StartAsked, PollAsked, ConfigAsked
  <2> QED BY <1>1, <1>5, <2>1
<1> QED BY <1>6, <1>7, <1>8, <1>9 DEF SetupStep

\* The record of the setup page, but for the credential.
LEMMA StartThrownFact ==
  ASSUME setup \in Security, setup' = StartThrown
  PROVE /\ setup' \in Security /\ setup'.installation = 0 /\ setup'.saving = setup.saving
        /\ setup'.completed = setup.completed /\ setup'.credential = setup.credential
BY DEF StartThrown, Security

LEMMA ThrowsFact ==
  ASSUME setup \in Security, setup' = [setup EXCEPT !.saving = FALSE]
  PROVE /\ setup' \in Security /\ setup'.installation = setup.installation /\ ~setup'.saving
        /\ setup'.completed = setup.completed /\ setup'.credential = setup.credential
BY DEF Security

LEMMA CredentialKeeps ==
  ASSUME SetupInv, NothingRetired, setup \in Security, NEW r \in Requests,
         \A q \in Requests \ {r} : req'[q] = req[q],
         \/ setup'.credential \in {setup.credential, NoToken}
         \/ /\ setup'.credential \in Grants \cap live'
            /\ grant'[setup'.credential] \in {"DELIVERED", "CONFIRMED"},
         \/ setup'.installation \in {setup.installation, 0}
         \/ grant'[setup'.installation] # "unused",
         req'[r].at \in {"polling", "claim"} => req'[r].g \in Grants /\ grant'[req'[r].g] # "unused",
         req'[r].at = "write" =>
           /\ req'[r].token \in live' /\ req'[r].token # NoToken
           /\ req'[r].token \in Grants => grant'[req'[r].token] \in {"DELIVERED", "CONFIRMED"}
  PROVE CredentialInv'
<1> USE DEF SetupInv, CredentialInv, NothingRetired, Claimed
<1>1. disk' = NoToken \/ mode' = "setup" => Pasted \in live' /\ \A g \in Grants : replaces'[g] = NoToken
  OBVIOUS
<1>2. setup'.credential # NoToken => /\ setup'.credential \in Grants \cap live'
                                     /\ grant'[setup'.credential] \in {"DELIVERED", "CONFIRMED"}
  OBVIOUS
<1>3. setup'.installation # 0 => grant'[setup'.installation] # "unused"
  BY ZenonT(30) DEF Security
<1>4. \A q \in Requests : req'[q].at \in {"polling", "claim"} =>
        req'[q].g \in Grants /\ grant'[req'[q].g] # "unused"
  BY SMT
<1>5. \A q \in Requests : req'[q].at = "write" =>
        /\ req'[q].token \in live' /\ req'[q].token # NoToken
        /\ req'[q].token \in Grants => grant'[req'[q].token] \in {"DELIVERED", "CONFIRMED"}
  BY ZenonT(30)
<1> QED BY <1>1, <1>2, <1>3, <1>4, <1>5

\* How a handler of the setup page changes what it and the others rely on.
LEMMA SetupHandler ==
  ASSUME TypeOK, Inv, mode = "setup", NEW r \in Requests, SetupStep(r) \/ SetupAsks(r), UNCHANGED update
  PROVE /\ mode' = "setup" /\ ProcessTypeOK' /\ req'[r].at \in SetupSteps
        /\ \A q \in Requests \ {r} : req'[q] = req[q]
        /\ SetupInv'
<1>0. /\ req \in [Requests -> Handler] /\ setup \in Security /\ NothingRetired
      /\ SetupInv /\ disk \in Tokens /\ current \in Tokens /\ update \in Service
      /\ current' = current /\ (disk' = disk \/ ConfigWrites(r))
  BY SetupBackend DEF TypeOK, ProcessTypeOK, Inv
<1>m. mode' = "setup"
  BY DEF SetupStep, SetupAsks, StartAnswered, StartFails, PollBegins, PollAnswered, PollClaims,
     PollFails, ConfigBuilds, ConfigWrites, ConfigFails, ConfigConfirms, ConfigEnds, StartAsked,
     PollAsked, ConfigAsked, process
<1>t. ASSUME req' \in [Requests -> Handler], setup' \in Security, disk' = disk PROVE ProcessTypeOK'
  BY <1>0, <1>m, <1>t DEF ProcessTypeOK
<1>s. ASSUME NEW where \in SetupSteps PROVE where \in SetupSteps \cup UpdateSteps
  OBVIOUS
<1>n. {"start", "poll", "polling", "claim", "idle"} \subseteq SetupSteps \ Saving /\ Saving \subseteq SetupSteps
      /\ {"config", "write", "confirm", "end"} = Saving
  BY DEF SetupSteps, Saving
<1> USE <1>0, <1>m, <1>t, <1>n
<1>1. CASE StartAsked(r)
  <2>1. /\ setup' \in Security /\ setup'.installation = setup.installation /\ setup'.saving = setup.saving
        /\ setup'.completed = setup.completed /\ setup'.credential = setup.credential /\ disk' = disk
    BY <1>1 DEF StartAsked, Security, process
  <2>2. /\ req' \in [Requests -> Handler] /\ req'[r].at = "start" /\ \A q \in Requests \ {r} : req'[q] = req[q]
    BY <1>1, <1>s, AtFact DEF StartAsked
  <2>3. SetupInv'
    <3>1. SavingInv'
      BY <2>1, <2>2 DEF SetupInv, SavingInv
    <3>2. CredentialInv'
      BY <2>1, <2>2, CredentialKeeps
    <3> QED BY <3>1, <3>2 DEF SetupInv
  <2> QED BY <2>1, <2>2, <2>3
<1>2. CASE PollAsked(r)
  <2>1. UNCHANGED <<setup, disk>>
    BY <1>2 DEF PollAsked, process
  <2>2. /\ req' \in [Requests -> Handler] /\ req'[r].at = "poll" /\ \A q \in Requests \ {r} : req'[q] = req[q]
    BY <1>2, <1>s, AtFact DEF PollAsked
  <2>3. SetupInv'
    <3>1. SavingInv'
      BY <2>1, <2>2 DEF SetupInv, SavingInv
    <3>2. CredentialInv'
      BY <2>1, <2>2, CredentialKeeps
    <3> QED BY <3>1, <3>2 DEF SetupInv
  <2> QED BY <2>1, <2>2, <2>3
<1>3. CASE ConfigAsked(r)
  <2>1. /\ setup' \in Security /\ setup'.installation = setup.installation /\ setup'.saving
        /\ setup'.completed = setup.completed /\ setup'.credential = setup.credential /\ disk' = disk
    BY <1>3 DEF ConfigAsked, Security, process
  <2>2. /\ req' \in [Requests -> Handler] /\ req'[r].at = "config" /\ \A q \in Requests \ {r} : req'[q] = req[q]
    BY <1>3, <1>s, AtFact DEF ConfigAsked
  <2>3. ~setup.saving /\ ~setup.completed
    BY <1>3 DEF ConfigAsked, Accepted
  <2>4. SetupInv'
    <3>1. SavingInv'
      BY <2>1, <2>2, <2>3, SMT DEF SetupInv, SavingInv
    <3>2. CredentialInv'
      BY <2>1, <2>2, <2>3, CredentialKeeps
    <3> QED BY <3>1, <3>2 DEF SetupInv
  <2> QED BY <2>1, <2>2, <2>4
<1>4. CASE StartAnswered(r)
  <2>1. req' \in [Requests -> Handler] /\ req'[r].at = "idle" /\ \A q \in Requests \ {r} : req'[q] = req[q]
    BY <1>4, OverFact DEF StartAnswered
  <2>2. /\ setup' \in Security /\ setup'.saving = setup.saving /\ disk' = disk
        /\ setup'.completed = setup.completed /\ setup'.credential = setup.credential
        /\ setup'.installation # 0 => grant'[setup'.installation] # "unused"
    <3>1. CASE setup' = StartThrown
      BY <1>4, <3>1, StartThrownFact DEF StartAnswered, process
    <3>2. ASSUME NEW g \in Unused, StartInstallation(g, mint[Node].key, NoToken),
                 setup' = [setup EXCEPT !.starting = FALSE, !.installation = g]
          PROVE /\ setup' \in Security /\ setup'.saving = setup.saving /\ disk' = disk
                /\ setup'.completed = setup.completed /\ setup'.credential = setup.credential
                /\ setup'.installation # 0 => grant'[setup'.installation] # "unused"
      <4>1. g \in Grants /\ grant'[g] = "PENDING"
        BY <3>2, StartFact DEF Tokens, TypeOK
      <4> QED BY <1>4, <3>2, <4>1 DEF StartAnswered, process, Security
    <3> QED BY <1>4, <3>1, <3>2 DEF StartAnswered
  <2>3. SetupInv'
    <3>1. SavingInv'
      BY <2>1, <2>2 DEF SetupInv, SavingInv
    <3>2. CredentialInv'
      BY <2>1, <2>2, CredentialKeeps
    <3> QED BY <3>1, <3>2 DEF SetupInv
  <2> QED BY <2>1, <2>2, <2>3
<1>5. CASE StartFails(r)
  <2>1. req' \in [Requests -> Handler] /\ req'[r].at = "idle" /\ \A q \in Requests \ {r} : req'[q] = req[q]
    BY <1>5, OverFact DEF StartFails
  <2>2. setup' = StartThrown /\ disk' = disk
    BY <1>5 DEF StartFails, process
  <2>3. SetupInv'
    <3>1. SavingInv'
      BY <2>1, <2>2, StartThrownFact DEF SetupInv, SavingInv
    <3>2. CredentialInv'
      BY <2>1, <2>2, StartThrownFact, CredentialKeeps
    <3> QED BY <3>1, <3>2 DEF SetupInv
  <2> QED BY <2>1, <2>2, <2>3, StartThrownFact
<1>6. CASE PollBegins(r)
  <2>1. UNCHANGED <<setup, disk>>
    BY <1>6 DEF PollBegins, process
  <2>2. /\ req' \in [Requests -> Handler] /\ \A q \in Requests \ {r} : req'[q] = req[q]
        /\ \/ req'[r].at = "idle"
           \/ req'[r].at = "polling" /\ req'[r].g = setup.installation /\ setup.installation # 0
    <3>1. setup.installation \in Grants \cup {0}
      BY DEF Security
    <3> QED BY <1>6, <1>s, <3>1, OverFact, GoesOn, SMT DEF PollBegins
  <2>3. setup.installation # 0 => setup.installation \in Grants /\ grant'[setup.installation] # "unused"
    BY DEF SetupInv, CredentialInv, Security, NothingRetired
  <2>4. SetupInv'
    <3>1. SavingInv'
      BY <2>1, <2>2, <2>3 DEF SetupInv, SavingInv
    <3>2. CredentialInv'
      BY <2>1, <2>2, <2>3, CredentialKeeps
    <3> QED BY <3>1, <3>2 DEF SetupInv
  <2> QED BY <2>1, <2>2, <2>4
<1>7. CASE PollAnswered(r)
  <2>1. UNCHANGED <<setup, disk>> /\ req[r].at = "polling"
    BY <1>7 DEF PollAnswered, process
  <2>2. /\ req' \in [Requests -> Handler] /\ \A q \in Requests \ {r} : req'[q] = req[q]
        /\ req'[r].at = "idle" \/ (req'[r].at = "claim" /\ req'[r].g = req[r].g)
    BY <1>7, <1>s, AtFact, OverFact DEF PollAnswered
  <2>3. SetupInv'
    <3>0. req[r].g \in Grants /\ grant'[req[r].g] # "unused"
      BY <2>1 DEF SetupInv, CredentialInv, NothingRetired
    <3>1. SavingInv'
      BY <2>1, <2>2, ZenonT(30) DEF SetupInv, SavingInv
    <3>2. CredentialInv'
      BY <2>1, <2>2, <3>0, CredentialKeeps
    <3> QED BY <3>1, <3>2 DEF SetupInv
  <2> QED BY <2>1, <2>2, <2>3
<1>8. CASE PollClaims(r)
  <2>1. req' \in [Requests -> Handler] /\ req'[r].at = "idle" /\ \A q \in Requests \ {r} : req'[q] = req[q]
    BY <1>8, OverFact DEF PollClaims
  <2>2. /\ setup' \in Security /\ setup'.saving = setup.saving /\ disk' = disk
        /\ setup'.completed = setup.completed /\ setup'.installation = setup.installation
        /\ \/ setup'.credential = setup.credential
           \/ setup'.credential \in Grants \cap live' /\ grant'[setup'.credential] \in {"DELIVERED", "CONFIRMED"}
    <3>1. req[r].at = "claim" /\ disk' = disk
      BY <1>8 DEF PollClaims, process
    <3>2. req[r].g \in Grants
      BY <3>1 DEF SetupInv, CredentialInv
    <3>3. CASE ClaimInstallation(req[r].g, mint[Node].key) /\ setup' = [setup EXCEPT !.credential = req[r].g]
      <4>1. grant'[req[r].g] = "DELIVERED" /\ req[r].g \in live'
        BY <3>2, <3>3, ClaimFact, ZenonT(30) DEF TypeOK
      <4>2. req[r].g \in Tokens
        BY <3>2 DEF Tokens
      <4> QED BY <3>1, <3>2, <3>3, <4>1, <4>2 DEF Security, Claimed
    <3> QED BY <1>8, <3>1, <3>3 DEF PollClaims
  <2>3. SetupInv'
    <3>1. SavingInv'
      BY <2>1, <2>2 DEF SetupInv, SavingInv
    <3>2. CredentialInv'
      BY <2>1, <2>2, CredentialKeeps
    <3> QED BY <3>1, <3>2 DEF SetupInv
  <2> QED BY <2>1, <2>2, <2>3
<1>9. CASE PollFails(r)
  <2>1. req' \in [Requests -> Handler] /\ req'[r].at = "idle" /\ \A q \in Requests \ {r} : req'[q] = req[q]
    BY <1>9, OverFact DEF PollFails
  <2>2. UNCHANGED <<setup, disk>>
    BY <1>9 DEF PollFails, process
  <2>3. SetupInv'
    <3>1. SavingInv'
      BY <2>1, <2>2 DEF SetupInv, SavingInv
    <3>2. CredentialInv'
      BY <2>1, <2>2, CredentialKeeps
    <3> QED BY <3>1, <3>2 DEF SetupInv
  <2> QED BY <2>1, <2>2, <2>3
<1>10. CASE ConfigBuilds(r)
  <2>1. disk' = disk /\ req[r].at = "config"
    BY <1>10 DEF ConfigBuilds, process
  <2>2. CASE ConfigThrows(r)
    <3>1. req' \in [Requests -> Handler] /\ req'[r].at = "idle" /\ \A q \in Requests \ {r} : req'[q] = req[q]
      BY <2>2, OverFact DEF ConfigThrows
    <3>2. setup' = [setup EXCEPT !.saving = FALSE]
      BY <2>2 DEF ConfigThrows
    <3>3. SetupInv'
      <4>1. SavingInv'
        BY <2>1, <3>1, <3>2, ThrowsFact DEF SetupInv, SavingInv
      <4>2. CredentialInv'
        BY <2>1, <3>1, <3>2, ThrowsFact, CredentialKeeps
      <4> QED BY <4>1, <4>2 DEF SetupInv
    <3> QED BY <2>1, <3>1, <3>2, <3>3, ThrowsFact
  <2>3. ASSUME NEW t \in {Pasted, setup.credential} \ {NoToken}, UNCHANGED setup,
               req' = [req EXCEPT ![r].at = "write", ![r].token = t]
        PROVE /\ ProcessTypeOK' /\ req'[r].at \in SetupSteps /\ SetupInv'
              /\ \A q \in Requests \ {r} : req'[q] = req[q]
    <3>1. t \in Tokens
      BY DEF Tokens, Security
    <3>2. /\ req' \in [Requests -> Handler] /\ \A q \in Requests \ {r} : req'[q] = req[q]
          /\ req'[r].at = "write" /\ req'[r].token = t
      <4>1. req \in [Requests -> Handler] /\ "write" \in SetupSteps \cup UpdateSteps
        BY <1>s
      <4>2. \A u \in Tokens : req' = [req EXCEPT ![r].at = "write", ![r].token = u] =>
               /\ req' \in [Requests -> Handler] /\ req'[r].at = "write" /\ req'[r].token = u
               /\ \A q \in Requests \ {r} : req'[q] = req[q]
        BY <4>1, GoesOn
      <4> QED BY <2>3, <3>1, <4>2
    <3>3. t # NoToken /\ t \in live' /\ (t \in Grants => grant'[t] \in {"DELIVERED", "CONFIRMED"})
      BY TokensAssumption DEF SetupInv, CredentialInv, Claimed, Grants, NothingRetired
    <3>4. SetupInv'
      <4>1. SavingInv'
        BY <2>1, <2>3, <3>2, <3>3, ZenonT(30) DEF SetupInv, SavingInv
      <4>2. CredentialInv'
        BY <2>1, <2>3, <3>2, <3>3, CredentialKeeps, SMT
      <4> QED BY <4>1, <4>2 DEF SetupInv
    <3> QED BY <2>1, <2>3, <3>2, <3>4
  <2> QED BY <1>10, <2>2, <2>3 DEF ConfigBuilds
<1>11. CASE ConfigWrites(r)
  <2>1. req[r].at = "write" /\ setup' = setup /\ disk' = req[r].token
    BY <1>11 DEF ConfigWrites
  <2>2. /\ req' \in [Requests -> Handler] /\ \A q \in Requests \ {r} : req'[q] = req[q]
        /\ req'[r].at \in {"confirm", "end"}
    BY <1>11, <1>s, AtFact DEF ConfigWrites
  <2>3. disk' \in Tokens
    BY <2>1 DEF Handler
  <2>4. setup.saving /\ \A q \in Requests \ {r} : req[q].at \notin Saving
    BY <2>1 DEF SetupInv, SavingInv
  <2>5. SetupInv'
    <3>1. SavingInv'
      BY <2>1, <2>2, <2>4, SMT DEF SetupInv, SavingInv
    <3>2. CredentialInv'
      BY <2>1, <2>2, <2>4, CredentialKeeps
    <3> QED BY <3>1, <3>2 DEF SetupInv
  <2> QED BY <2>1, <2>2, <2>3, <2>5 DEF ProcessTypeOK
<1>12. CASE ConfigFails(r)
  <2>1. disk' = disk /\ req[r].at = "write"
    BY <1>12 DEF ConfigFails, process
  <2>2. req' \in [Requests -> Handler] /\ req'[r].at = "idle" /\ \A q \in Requests \ {r} : req'[q] = req[q]
    BY <1>12, OverFact DEF ConfigFails, ConfigThrows
  <2>3. setup' = [setup EXCEPT !.saving = FALSE]
    BY <1>12 DEF ConfigFails, ConfigThrows
  <2>4. SetupInv'
    <3>1. SavingInv'
      BY <2>1, <2>2, <2>3, ThrowsFact DEF SetupInv, SavingInv
    <3>2. CredentialInv'
      BY <2>1, <2>2, <2>3, ThrowsFact, CredentialKeeps
    <3> QED BY <3>1, <3>2 DEF SetupInv
  <2> QED BY <2>1, <2>2, <2>3, <2>4, ThrowsFact
<1>13. CASE ConfigConfirms(r)
  <2>1. UNCHANGED <<disk, setup>> /\ req[r].at = "confirm"
    BY <1>13 DEF ConfigConfirms, process
  <2>2. req' \in [Requests -> Handler] /\ req'[r].at = "end" /\ \A q \in Requests \ {r} : req'[q] = req[q]
    BY <1>13, <1>s, AtFact DEF ConfigConfirms
  <2>3. SetupInv'
    <3>1. SavingInv'
      BY <2>1, <2>2, SMT DEF SetupInv, SavingInv
    <3>2. CredentialInv'
      BY <2>1, <2>2, CredentialKeeps
    <3> QED BY <3>1, <3>2 DEF SetupInv
  <2> QED BY <2>1, <2>2, <2>3
<1>14. CASE ConfigEnds(r)
  <2>1. disk' = disk /\ req[r].at = "end"
    BY <1>14 DEF ConfigEnds
  <2>2. req' \in [Requests -> Handler] /\ req'[r].at = "idle" /\ \A q \in Requests \ {r} : req'[q] = req[q]
    BY <1>14, OverFact DEF ConfigEnds
  <2>3. /\ setup' \in Security /\ setup'.credential = NoToken /\ setup'.completed
        /\ setup'.installation = setup.installation
    BY <1>14 DEF ConfigEnds, Security, Tokens
  <2>4. \A q \in Requests \ {r} : req[q].at \notin Saving
    BY <2>1 DEF SetupInv, SavingInv
  <2>5. SetupInv'
    <3>1. SavingInv'
      BY <2>1, <2>2, <2>3, <2>4, ZenonT(30) DEF SetupInv, SavingInv
    <3>2. CredentialInv'
      BY <2>1, <2>2, <2>3, <2>4, CredentialKeeps
    <3> QED BY <3>1, <3>2 DEF SetupInv
  <2> QED BY <2>1, <2>2, <2>3, <2>5
<1> QED
  BY <1>1, <1>2, <1>3, <1>4, <1>5, <1>6, <1>7, <1>8, <1>9, <1>10, <1>11, <1>12, <1>13, <1>14
  DEF SetupStep, SetupAsks

LEMMA SetupKeeps ==
  ASSUME TypeOK, Inv, NEW r \in Requests, SetupStep(r) \/ SetupAsks(r), UNCHANGED update
  PROVE ProcessTypeOK' /\ ModeInv' /\ SetupInv' /\ TokenInv' /\ ReplacedIsLeft'
<1>1. mode = "setup"
  <2>1. CASE SetupStep(r)
    <3>1. req[r].at \in SetupSteps \ {"idle"}
      BY <2>1 DEF SetupStep, StartAnswered, StartFails, PollBegins, PollAnswered, PollClaims,
         PollFails, ConfigBuilds, ConfigWrites, ConfigFails, ConfigConfirms, ConfigEnds, SetupSteps, Saving
    <3> QED BY <3>1, ModeOfHandler
  <2>2. CASE SetupAsks(r)
    BY <2>2 DEF SetupAsks, StartAsked, PollAsked, ConfigAsked, Accepted
  <2> QED BY <2>1, <2>2
<1>2. /\ mode' = "setup" /\ ProcessTypeOK' /\ SetupInv' /\ req'[r].at \in SetupSteps
      /\ \A q \in Requests \ {r} : req'[q] = req[q]
  BY <1>1, SetupHandler
<1>3. ModeInv'
  BY <1>1, <1>2 DEF Inv, ModeInv
<1>4. BackendTypeOK' /\ NothingRetired /\ current' = current /\ (disk' = disk \/ ConfigWrites(r))
      /\ \A g \in wire' : g \in wire \/ grant'[g] # "unused"
  BY <1>1, SetupBackend
<1>5. ASSUME ConfigWrites(r)
      PROVE disk' \in live' /\ (disk' \in Grants => grant'[disk'] \in {"DELIVERED", "CONFIRMED"})
  <2>1. req[r].at = "write" /\ disk' = req[r].token
    BY <1>5 DEF ConfigWrites
  <2> QED BY <2>1, <1>4 DEF Inv, SetupInv, CredentialInv, NothingRetired, Claimed
<1>6. StoredInv'
  <2>1. (disk # NoToken => disk \in live) /\ (\A g \in Grants : ~Claimed(g) => disk # g /\ current # g)
        /\ \A g \in wire : g \in Grants /\ grant[g] # "unused"
    BY DEF Inv, TokenInv, Fresh, TypeOK, BackendTypeOK
  <2>2. disk' # NoToken => disk' \in live'
    BY <1>4, <1>5, <2>1 DEF NothingRetired
  <2>3. ASSUME NEW g \in Grants, ~Claimed(g)' PROVE disk' # g /\ current' # g
    BY <1>4, <1>5, <2>1, <2>3 DEF NothingRetired, Claimed
  <2>4. \A g \in wire' : grant'[g] # "unused"
    BY <1>4, <2>1 DEF NothingRetired
  <2> QED BY <2>2, <2>3, <2>4 DEF StoredInv
<1> QED BY <1>2, <1>3, <1>4, <1>6, SetupTokens

-----------------------------------------------------------------------------
(* The replacement of the credential *)

LEMMA RunningSetup ==
  ASSUME ModeInv', mode' = "running"
  PROVE SetupInv'
<1>1. \A r \in Requests : req'[r].at \notin Saving \cup {"polling", "claim"}
  BY DEF ModeInv, UpdateSteps, Saving
<1>2. setup'.credential = NoToken /\ setup'.installation = 0 /\ disk' # NoToken
  BY SMT DEF ModeInv, NoSetup
<1> QED BY <1>1, <1>2 DEF SetupInv, SavingInv, CredentialInv, Saving

\* A grant is started, to replace the credential this process runs on, or collected.
GrantsGrow ==
    /\ live \subseteq live'
    /\ \A g \in Grants : /\ Claimed(g) => Claimed(g)'
                         /\ grant[g] # "unused" => grant'[g] # "unused" /\ replaces'[g] = replaces[g]
                         /\ replaces'[g] \in {replaces[g], current}

LEMMA TokensKept ==
  ASSUME TypeOK, Inv, GrantsGrow, UNCHANGED <<wire, disk, current>>, NEW r \in Requests,
         \A q \in Requests \ {r} : req'[q] = req[q],
         req'[r].at = "store" =>
           /\ req'[r].g \in live' /\ grant'[req'[r].g] \in {"DELIVERED", "CONFIRMED"}
           /\ disk # req'[r].g /\ current # req'[r].g /\ \A h \in Grants : replaces[h] # req'[r].g
           /\ \A q \in Requests \ {r} : req[q].at = "store" => req[q].g # req'[r].g,
         req'[r].at \in {"ask", "collect", "store", "report"} =>
           /\ req'[r].g \in Grants /\ grant'[req'[r].g] # "unused" /\ replaces'[req'[r].g] = current,
         req'[r].at \in {"report", "complete"} => disk # current,
         update'.started # 0 =>
           /\ update'.started \in Grants /\ grant'[update'.started] # "unused"
           /\ replaces'[update'.started] = current
  PROVE TokenInv'
<1>0. TokenInv /\ wire \subseteq Grants
  BY DEF Inv, TypeOK, BackendTypeOK
<1>1. ASSUME NEW t, Fresh(t) PROVE Fresh(t)'
  BY <1>1 DEF Fresh, GrantsGrow
<1>2. disk' # NoToken => disk' \in live'
  BY <1>0 DEF TokenInv, GrantsGrow
<1>3. ASSUME NEW g \in Grants, ~Claimed(g)' PROVE Fresh(g)'
  BY <1>0, <1>1, <1>3 DEF TokenInv, GrantsGrow
<1>4. ASSUME NEW q \in Requests, req'[q].at = "store"
      PROVE /\ req'[q].g \in live' /\ grant'[req'[q].g] \in {"DELIVERED", "CONFIRMED"}
            /\ disk' # req'[q].g /\ current' # req'[q].g /\ \A h \in Grants : replaces'[h] # req'[q].g
  <2>1. CASE q = r
    BY <1>4, <2>1 DEF GrantsGrow
  <2>2. CASE q # r
    <3>1. req'[q] = req[q] /\ req[q].at = "store"
      BY <1>4, <2>2
    <3>2. req[q].g \in live /\ Claimed(req[q].g) /\ Fresh(req[q].g) /\ req[q].g \in Grants
      BY <1>0, <3>1 DEF TokenInv, Asked
    <3> QED BY <1>1, <3>1, <3>2, SMT DEF Fresh, GrantsGrow, Claimed
  <2> QED BY <2>1, <2>2
<1>5. \A p, q \in Requests : req'[p].at = "store" /\ req'[q].at = "store" /\ req'[p].g = req'[q].g => p = q
  BY <1>0, SMT DEF TokenInv
<1>6. \A g \in wire' : grant'[g] # "unused" /\ (replaces'[g] # NoToken => disk' # replaces'[g])
  BY <1>0 DEF TokenInv, GrantsGrow
<1>7. ASSUME NEW q \in Requests, req'[q].at \in {"ask", "collect", "store", "report"}
      PROVE /\ req'[q].g \in Grants /\ grant'[req'[q].g] # "unused" /\ replaces'[req'[q].g] = current'
  <2>1. CASE q = r
    BY <1>7, <2>1
  <2>2. CASE q # r
    BY <1>0, <1>7, <2>2, SMT DEF TokenInv, Asked, GrantsGrow
  <2> QED BY <2>1, <2>2
<1>8. \A q \in Requests : req'[q].at \in {"report", "complete"} => disk' # current'
  BY <1>0 DEF TokenInv
<1> QED BY <1>2, <1>3, <1>4, <1>5, <1>6, <1>7, <1>8 DEF TokenInv, Asked, Claimed, Fresh

\* A phase of the update.
LEMMA PhaseFact ==
  ASSUME update \in Service,
         NEW ph \in {"COMPLETED", "FAILED", "DECLINED", "EXPIRED", "APPLYING", "WAITING_FOR_AUTHORIZATION"},
         update' = Phase(ph)
  PROVE update' \in Service /\ update'.started = update.started
BY DEF Phase, Service

LEMMA ThrownFact ==
  ASSUME update \in Service, update' = Thrown
  PROVE update' \in Service /\ update'.started = update.started
BY DEF Thrown, Phase, Service

LEMMA UpdateKeeps ==
  ASSUME TypeOK, Inv, NEW r \in Requests, UpdateStep(r) \/ UpdateAsks(r)
  PROVE ProcessTypeOK' /\ ModeInv' /\ SetupInv' /\ TokenInv' /\ ReplacedIsLeft'
<1>0. /\ req \in [Requests -> Handler] /\ update \in Service /\ BackendTypeOK
      /\ disk \in Tokens /\ current \in Tokens /\ setup \in Security
      /\ ModeInv /\ TokenInv /\ ReplacedIsLeft
  BY DEF TypeOK, ProcessTypeOK, Inv
<1>m. mode = "running" /\ mode' = "running" /\ UNCHANGED <<current, setup, idVars>>
  BY DEF UpdateStep, UpdateAsks, Begun, BeginFails, RefreshAnswered, Collects, RefreshFails, Stores,
     Confirms, Completes, Begin, Refresh, Updating, process
<1>l. Loaded(Node)
  <2>1. CASE UpdateStep(r)
    <3>1. req[r].at \in UpdateSteps \ {"idle"}
      BY <2>1 DEF UpdateStep, Begun, BeginFails, RefreshAnswered, Collects, RefreshFails, Stores,
         Confirms, Completes, Updating, UpdateSteps
    <3> QED BY <3>1, ModeOfHandler
  <2>2. CASE UpdateAsks(r)
    BY <1>0, <1>m, <2>2, SMT DEF UpdateAsks, Begin, Refresh, ModeInv, NoUpdate
  <2> QED BY <2>1, <2>2
<1>n. {"idle", "begin", "ask", "collect", "store", "report", "complete"} \subseteq UpdateSteps
  BY DEF UpdateSteps
<1>s. ASSUME NEW where \in UpdateSteps PROVE where \in SetupSteps \cup UpdateSteps
  OBVIOUS
\* What is left to show of each step.
<1>a. ASSUME req' \in [Requests -> Handler], update' \in Service, req'[r].at \in UpdateSteps,
             \A q \in Requests \ {r} : req'[q] = req[q], disk' \in Tokens \ {NoToken}
      PROVE ProcessTypeOK' /\ ModeInv' /\ SetupInv'
  <2>1. ProcessTypeOK'
    BY <1>0, <1>m, <1>a DEF ProcessTypeOK
  <2>2. ModeInv'
    BY <1>0, <1>m, <1>l, <1>a DEF ModeInv, Loaded, idVars
  <2> QED BY <1>m, <2>1, <2>2, RunningSetup
<1>r. ASSUME UNCHANGED <<disk, exiting>>, \A q \in Requests \ {r} : req'[q] = req[q],
             req[r].at \notin {"report", "complete"}
      PROVE ReplacedIsLeft'
  BY <1>0, <1>m, <1>r DEF ReplacedIsLeft
<1>g. ASSUME UNCHANGED backend PROVE GrantsGrow /\ UNCHANGED wire
  BY <1>g DEF backend, GrantsGrow, Claimed
<1>d. disk # NoToken
  BY <1>0, <1>m DEF ModeInv
<1>u. update.started # 0 => /\ update.started \in Grants /\ grant[update.started] # "unused"
                            /\ replaces[update.started] = current
  BY <1>0 DEF TokenInv, Asked
<1>1. CASE Begin(r)
  <2>1. req' \in [Requests -> Handler] /\ req'[r].at = "begin" /\ \A q \in Requests \ {r} : req'[q] = req[q]
    BY <1>0, <1>1, <1>n, <1>s, AtFact DEF Begin
  <2>2. update' \in Service /\ update'.started = update.started
    BY <1>0, <1>1 DEF Begin, Service
  <2>3. UNCHANGED <<backend, disk, exiting>> /\ req[r].at = "idle"
    BY <1>1 DEF Begin, process, Updating
  <2>4. TokenInv'
    BY <1>g, <1>m, <1>u, <2>1, <2>2, <2>3, TokensKept DEF backend
  <2> QED BY <1>0, <1>a, <1>d, <1>n, <1>r, <2>1, <2>2, <2>3, <2>4
<1>2. CASE Refresh(r)
  <2>1. /\ req' \in [Requests -> Handler] /\ req'[r].at = "ask" /\ req'[r].g = update.started
        /\ update.started # 0 /\ \A q \in Requests \ {r} : req'[q] = req[q]
    <3>1. /\ update.started # 0 /\ update.started \in Grants \cup {0}
          /\ req' = [req EXCEPT ![r].at = "ask", ![r].g = update.started]
      BY <1>0, <1>2 DEF Refresh, Service
    <3>2. "ask" \in SetupSteps \cup UpdateSteps
      BY <1>n
    <3>3. \A g \in Grants \cup {0} : req' = [req EXCEPT ![r].at = "ask", ![r].g = g] =>
            /\ req' \in [Requests -> Handler] /\ req'[r].at = "ask" /\ req'[r].g = g
            /\ \A q \in Requests \ {r} : req'[q] = req[q]
      BY <1>0, <3>2, GoesOn
    <3> QED BY <3>1, <3>3
  <2>2. UNCHANGED <<backend, disk, exiting, update>> /\ req[r].at = "idle"
    BY <1>2 DEF Refresh, process, Updating
  <2>3. TokenInv'
    BY <1>g, <1>m, <1>u, <2>1, <2>2, TokensKept DEF backend
  <2> QED BY <1>0, <1>a, <1>d, <1>n, <1>r, <2>1, <2>2, <2>3
<1>3. CASE Begun(r)
  <2>1. req' \in [Requests -> Handler] /\ req'[r].at = "idle" /\ \A q \in Requests \ {r} : req'[q] = req[q]
    BY <1>0, <1>3, OverFact DEF Begun
  <2>2. UNCHANGED <<disk, exiting>> /\ req[r].at = "begin"
    BY <1>3 DEF Begun, process, Updating
  <2>3. PICK g \in Unused : /\ StartInstallation(g, mint[Node].key, current)
                            /\ \/ update' = [Phase("WAITING_FOR_AUTHORIZATION") EXCEPT !.started = g]
                               \/ UNCHANGED update
    BY <1>3 DEF Begun
  <2>4. /\ g \in Grants /\ grant[g] = "unused" /\ grant'[g] = "PENDING" /\ replaces'[g] = current
        /\ \A h \in Grants \ {g} : grant'[h] = grant[h] /\ replaces'[h] = replaces[h]
        /\ UNCHANGED <<live, wire>>
    BY <1>0, <2>3, StartFact
  <2>5. GrantsGrow
    BY <2>4 DEF GrantsGrow, Claimed
  <2>6. update' \in Service /\ update'.started \in {g, update.started}
    BY <1>0, <2>3, <2>4 DEF Phase, Service
  <2>7. TokenInv'
    BY <1>m, <1>u, <2>1, <2>2, <2>4, <2>5, <2>6, TokensKept, SMT
  <2> QED BY <1>0, <1>a, <1>d, <1>n, <1>r, <2>1, <2>2, <2>6, <2>7
<1>4. CASE BeginFails(r)
  <2>1. req' \in [Requests -> Handler] /\ req'[r].at = "idle" /\ \A q \in Requests \ {r} : req'[q] = req[q]
    BY <1>0, <1>4, OverFact DEF BeginFails
  <2>2. UNCHANGED <<backend, disk, exiting, update>> /\ req[r].at = "begin"
    BY <1>4 DEF BeginFails, process, Updating
  <2>3. TokenInv'
    BY <1>g, <1>m, <1>u, <2>1, <2>2, TokensKept DEF backend
  <2> QED BY <1>0, <1>a, <1>d, <1>n, <1>r, <2>1, <2>2, <2>3
<1>5. CASE RefreshAnswered(r)
  <2>1. UNCHANGED <<backend, disk, exiting>> /\ req[r].at = "ask"
    BY <1>5 DEF RefreshAnswered, process, Updating
  <2>2. /\ req' \in [Requests -> Handler] /\ \A q \in Requests \ {r} : req'[q] = req[q]
        /\ req'[r].at = "idle" \/ (req'[r].at = "collect" /\ req'[r].g = req[r].g)
    BY <1>0, <1>5, <1>n, <1>s, AtFact, OverFact, ZenonT(30) DEF RefreshAnswered
  <2>3. update' \in Service /\ update'.started = update.started
    BY <1>0, <1>5, PhaseFact DEF RefreshAnswered
  <2>4. Asked(req[r].g)
    BY <1>0, <2>1 DEF TokenInv
  <2>5. TokenInv'
    BY <1>g, <1>m, <1>u, <2>1, <2>2, <2>3, <2>4, TokensKept DEF backend, Asked
  <2> QED BY <1>0, <1>a, <1>d, <1>n, <1>r, <2>1, <2>2, <2>3, <2>5
<1>6. CASE Collects(r)
  <2>1. UNCHANGED <<disk, exiting>> /\ req[r].at = "collect"
    BY <1>6 DEF Collects, process, Updating
  <2>2. Asked(req[r].g)
    BY <1>0, <2>1 DEF TokenInv
  <2>3. update' \in Service /\ update'.started = update.started
    BY <1>0, <1>6, ThrownFact DEF Collects
  <2>4. /\ req' \in [Requests -> Handler] /\ \A q \in Requests \ {r} : req'[q] = req[q]
        /\ \/ req'[r].at = "idle"
           \/ /\ req'[r].at = "store" /\ req'[r].g = req[r].g
              /\ ClaimInstallation(req[r].g, mint[Node].key)
    BY <1>0, <1>6, <1>n, <1>s, AtFact, OverFact DEF Collects
  <2>5. CASE ClaimInstallation(req[r].g, mint[Node].key)
    <3>1. /\ req[r].g \in Grants /\ grant[req[r].g] = "AUTHORIZED" /\ grant'[req[r].g] = "DELIVERED"
          /\ live' = live \cup {req[r].g} /\ UNCHANGED <<replaces, wire>>
          /\ \A h \in Grants \ {req[r].g} : grant'[h] = grant[h]
      BY <1>0, <2>2, <2>5, ClaimFact DEF Asked
    <3>2. GrantsGrow
      BY <3>1 DEF GrantsGrow, Claimed
    <3>3. /\ disk # req[r].g /\ current # req[r].g /\ \A h \in Grants : replaces[h] # req[r].g
          /\ \A q \in Requests : req[q].at = "store" => req[q].g # req[r].g
      BY <1>0, <3>1 DEF TokenInv, Fresh, Claimed
    <3>4. TokenInv'
      BY <1>m, <1>u, <2>1, <2>2, <2>3, <2>4, <3>1, <3>2, <3>3, TokensKept, SMT DEF Asked
    <3> QED BY <1>0, <1>a, <1>d, <1>n, <1>r, <2>1, <2>3, <2>4, <3>4
  <2>6. CASE UNCHANGED backend /\ req'[r].at = "idle"
    <3>1. TokenInv'
      BY <1>g, <1>m, <1>u, <2>1, <2>3, <2>4, <2>6, TokensKept DEF backend
    <3> QED BY <1>0, <1>a, <1>d, <1>n, <1>r, <2>1, <2>3, <2>4, <3>1
  <2> QED BY <1>0, <1>6, <2>5, <2>6, OverFact DEF Collects
<1>7. CASE RefreshFails(r)
  <2>1. req' \in [Requests -> Handler] /\ req'[r].at = "idle" /\ \A q \in Requests \ {r} : req'[q] = req[q]
    BY <1>0, <1>7, OverFact DEF RefreshFails
  <2>2. UNCHANGED <<backend, disk, exiting>> /\ req[r].at \notin {"report", "complete"}
    BY <1>7 DEF RefreshFails, process
  <2>3. update' \in Service /\ update'.started = update.started
    BY <1>0, <1>7, ThrownFact DEF RefreshFails
  <2>4. TokenInv'
    BY <1>g, <1>m, <1>u, <2>1, <2>2, <2>3, TokensKept DEF backend
  <2> QED BY <1>0, <1>a, <1>d, <1>n, <1>r, <2>1, <2>2, <2>3, <2>4
<1>8. CASE Completes(r)
  <2>1. req' \in [Requests -> Handler] /\ req'[r].at = "idle" /\ \A q \in Requests \ {r} : req'[q] = req[q]
    BY <1>0, <1>8, OverFact DEF Completes
  <2>2. UNCHANGED <<backend, disk>> /\ exiting'
    BY <1>8 DEF Completes
  <2>3. update' \in Service /\ update'.started = update.started
    BY <1>0, <1>8, PhaseFact DEF Completes
  <2>4. TokenInv'
    BY <1>g, <1>m, <1>u, <2>1, <2>2, <2>3, TokensKept DEF backend
  <2>5. ReplacedIsLeft'
    BY <2>2 DEF ReplacedIsLeft
  <2> QED BY <1>0, <1>a, <1>d, <1>n, <2>1, <2>2, <2>3, <2>4, <2>5
<1>9. CASE Stores(r)
  <2>1. /\ req' \in [Requests -> Handler] /\ req'[r].at = "report" /\ req'[r].g = req[r].g
        /\ \A q \in Requests \ {r} : req'[q] = req[q]
    BY <1>0, <1>9, <1>n, <1>s, AtFact DEF Stores
  <2>2. update' \in Service /\ update'.started = update.started
    BY <1>0, <1>9 DEF Stores, Service
  <2>3. UNCHANGED backend /\ disk' = req[r].g /\ req[r].at = "store"
    BY <1>9 DEF Stores, Updating
  <2>4. /\ req[r].g \in live /\ Claimed(req[r].g) /\ Fresh(req[r].g) /\ Asked(req[r].g)
        /\ \A q \in Requests \ {r} : req[q].at = "store" => req[q].g # req[r].g
    BY <1>0, <2>3 DEF TokenInv
  <2>5. disk' \in Tokens \ {NoToken}
    BY <2>3, <2>4, TokensAssumption DEF Asked, Tokens, Grants
  <2>6. TokenInv'
    <3>1. disk' \in live' /\ \A q \in Requests : req'[q].at \in {"report", "complete"} => disk' # current'
      BY <1>m, <2>3, <2>4 DEF backend, Fresh
    <3>2. ASSUME NEW g \in Grants, ~Claimed(g)' PROVE Fresh(g)'
      BY <1>0, <1>m, <2>3, <2>4, <3>2 DEF TokenInv, Fresh, Claimed, backend
    <3>3. ASSUME NEW q \in Requests, req'[q].at = "store"
          PROVE /\ req'[q] = req[q] /\ q # r /\ req[q].g \in live' /\ Claimed(req[q].g)
                /\ disk' # req[q].g /\ current' # req[q].g /\ \A h \in Grants : replaces'[h] # req[q].g
      BY <1>0, <1>m, <2>1, <2>3, <2>4, <3>3 DEF TokenInv, Fresh, backend
    <3>4. \A g \in wire' : grant'[g] # "unused" /\ (replaces'[g] # NoToken => disk' # replaces'[g])
      BY <1>0, <2>3, <2>4 DEF TokenInv, Fresh, backend, BackendTypeOK
    <3>5. ASSUME NEW q \in Requests, req'[q].at \in {"ask", "collect", "store", "report"}
          PROVE req'[q].g \in Grants /\ grant'[req'[q].g] # "unused" /\ replaces'[req'[q].g] = current'
      BY <1>0, <1>m, <2>1, <2>3, <2>4, <3>5, ZenonT(30) DEF TokenInv, Asked, backend
    <3>6. update'.started # 0 => /\ update'.started \in Grants /\ grant'[update'.started] # "unused"
                                 /\ replaces'[update'.started] = current'
      BY <1>m, <1>u, <2>2, <2>3 DEF backend
    <3>7. \A p, q \in Requests : req'[p].at = "store" /\ req'[q].at = "store" /\ req'[p].g = req'[q].g => p = q
      BY <1>0, <3>3, SMT DEF TokenInv
    <3>8. UNCHANGED grant
      BY <2>3 DEF backend
    <3> QED BY <3>1, <3>2, <3>3, <3>4, <3>5, <3>6, <3>7, <3>8, SMT DEF TokenInv, Asked, Fresh, Claimed
  <2>7. ReplacedIsLeft'
    BY <2>1 DEF ReplacedIsLeft
  <2> QED BY <1>0, <1>a, <1>n, <2>1, <2>2, <2>5, <2>6, <2>7
<1>10. CASE Confirms(r)
  <2>1. /\ req' \in [Requests -> Handler] /\ req'[r].at = "complete"
        /\ \A q \in Requests \ {r} : req'[q] = req[q]
    BY <1>0, <1>10, <1>n, <1>s, AtFact DEF Confirms
  <2>2. /\ UNCHANGED <<disk, update, grant, replaces, live>> /\ wire' = wire \cup {req[r].g}
        /\ req[r].at = "report"
    BY <1>10 DEF Confirms, ConfirmInstallation, Updating, process
  <2>3. Asked(req[r].g) /\ disk # current
    BY <1>0, <2>2, ZenonT(30) DEF TokenInv
  <2>4. TokenInv'
    <3>1. ASSUME NEW t, Fresh(t) PROVE Fresh(t)'
      BY <1>m, <2>2, <3>1 DEF Fresh
    <3>2. \A g \in wire' : grant'[g] # "unused" /\ (replaces'[g] # NoToken => disk' # replaces'[g])
      BY <1>0, <2>2, <2>3 DEF TokenInv, Asked
    <3>3. \A q \in Requests : req'[q].at \in {"ask", "collect", "store", "report"} => req'[q] = req[q]
      BY <2>1
    <3>4. \A q \in Requests : req'[q].at \in {"report", "complete"} => disk' # current'
      BY <1>m, <2>2, <2>3
    <3> QED BY <1>0, <1>m, <2>2, <3>1, <3>2, <3>3, <3>4, SMT DEF TokenInv, Asked, Claimed, Fresh
  <2>5. ReplacedIsLeft'
    BY <2>1 DEF ReplacedIsLeft
  <2> QED BY <1>0, <1>a, <1>d, <1>n, <2>1, <2>2, <2>4, <2>5
<1> QED
  BY <1>1, <1>2, <1>3, <1>4, <1>5, <1>6, <1>7, <1>8, <1>9, <1>10 DEF UpdateStep, UpdateAsks

-----------------------------------------------------------------------------
(* The other steps *)

\* A step that leaves everything the requests and the grants rely on.
LEMMA OthersKeep ==
  ASSUME TypeOK, Inv, UNCHANGED <<backend, process, req, setup, update>>,
         mode = "running" => (Loaded(Node)' <=> Loaded(Node))
  PROVE ProcessTypeOK' /\ ModeInv' /\ SetupInv' /\ TokenInv' /\ ReplacedIsLeft'
<1> USE DEF backend, process
<1>1. ProcessTypeOK'
  BY DEF TypeOK, ProcessTypeOK
<1>2. ModeInv'
  BY DEF Inv, ModeInv
<1>3. SetupInv'
  BY DEF Inv, SetupInv, SavingInv, CredentialInv, Claimed
<1>4. TokenInv'
  BY DEF Inv, TokenInv, Claimed, Fresh, Asked
<1>5. ReplacedIsLeft'
  BY DEF Inv, ReplacedIsLeft
<1> QED BY <1>1, <1>2, <1>3, <1>4, <1>5

\* The account holder answers, or a confirmation arrives: what it retires is in
\* no file and in no hand.
LEMMA BackendKeeps ==
  ASSUME TypeOK, Inv, BackendMoves
  PROVE ProcessTypeOK' /\ ModeInv' /\ SetupInv' /\ TokenInv' /\ ReplacedIsLeft'
<1>0. /\ UNCHANGED <<faults, idVars, process, req, setup, update>>
      /\ BackendTypeOK /\ ModeInv /\ SetupInv /\ TokenInv
  BY DEF BackendMoves, TypeOK, Inv
<1>1. PICK g \in Grants : OwnerAnswers(g) \/ BackendConfirms(g)
  BY DEF BackendMoves
<1>2. /\ wire' \subseteq wire /\ UNCHANGED <<replaces, signer>>
      /\ \A h \in Grants : (Claimed(h) <=> Claimed(h)') /\ (grant'[h] = "unused" <=> grant[h] = "unused")
      /\ live' = live \/ (g \in wire /\ live' = live \ {replaces[g]})
  BY <1>0, <1>1, BackendFact
<1>3. NoToken \notin Grants /\ Pasted # NoToken
  BY TokensAssumption DEF Grants
<1>4. ProcessTypeOK' /\ ModeInv' /\ ReplacedIsLeft'
  <2>1. ProcessTypeOK'
    BY <1>0 DEF TypeOK, ProcessTypeOK, process
  <2>2. ModeInv'
    BY <1>0 DEF ModeInv, Loaded, process, idVars
  <2> QED BY <1>0, <2>1, <2>2 DEF Inv, ReplacedIsLeft, process
<1>5. SetupInv'
  <2>1. SavingInv'
    BY <1>0 DEF SetupInv, SavingInv, process
  <2>2. CASE disk = NoToken \/ mode = "setup"
    <3>1. \A t \in live : t # NoToken => t \in live'
      BY <1>2, <2>2, <1>0 DEF SetupInv, CredentialInv, BackendTypeOK
    <3>2. setup.credential # NoToken => setup.credential \in Grants /\ setup.credential \in live' /\ Claimed(setup.credential)'
      BY <1>0, <1>2, <3>1 DEF SetupInv, CredentialInv
    <3>3. setup.installation # 0 => setup.installation \in Grants /\ grant'[setup.installation] # "unused"
      BY <1>0, <1>2 DEF SetupInv, CredentialInv, TypeOK, ProcessTypeOK, Security
    <3>4. Pasted \in live' /\ \A h \in Grants : replaces'[h] = NoToken
      BY <1>0, <1>2, <1>3, <2>2, <3>1 DEF SetupInv, CredentialInv
    <3>5. \A r \in Requests : req[r].at \in {"polling", "claim"} =>
            req[r].g \in Grants /\ grant'[req[r].g] # "unused"
      BY <1>0, <1>2 DEF SetupInv, CredentialInv
    <3>6. ASSUME NEW r \in Requests, req[r].at = "write"
          PROVE /\ req[r].token \in live' /\ req[r].token # NoToken
                /\ req[r].token \in Grants => Claimed(req[r].token)'
      BY <1>0, <1>2, <3>1, <3>6 DEF SetupInv, CredentialInv
    <3>7. CredentialInv'
      BY <1>0, <3>2, <3>3, <3>4, <3>5, <3>6 DEF CredentialInv, Claimed
    <3> QED BY <2>1, <3>7 DEF SetupInv
  <2>3. CASE mode = "running"
    BY <1>0, <1>4, <2>3, RunningSetup DEF process
  <2>4. CASE mode = "down" /\ disk # NoToken
    <3>1. setup' = NoSetup /\ disk' # NoToken /\ mode' = "down" /\ \A r \in Requests : req'[r] = Idle
      BY <1>0, <2>4, ZenonT(30) DEF ModeInv, process
    <3>2. CredentialInv'
      BY <3>1, SMT DEF CredentialInv, NoSetup, Idle
    <3> QED BY <2>1, <3>2 DEF SetupInv
  <2> QED BY <2>2, <2>3, <2>4 DEF TypeOK, ProcessTypeOK
<1>6. TokenInv'
  <2>1. ASSUME NEW t, Fresh(t) PROVE Fresh(t)'
    BY <1>0, <1>2, <2>1 DEF Fresh, process
  <2>2. disk' # NoToken => disk' \in live'
    BY <1>0, <1>2 DEF TokenInv, process
  <2>3. ASSUME NEW h \in Grants, ~Claimed(h)' PROVE Fresh(h)'
    BY <1>0, <1>2, <2>1, <2>3 DEF TokenInv
  <2>4. ASSUME NEW r \in Requests, req[r].at = "store"
        PROVE req[r].g \in live' /\ Claimed(req[r].g)' /\ Fresh(req[r].g)'
    <3>1. req[r].g \in live /\ Claimed(req[r].g) /\ Fresh(req[r].g) /\ req[r].g \in Grants
      BY <1>0, <2>4 DEF TokenInv, Asked
    <3> QED BY <1>0, <1>2, <2>1, <3>1 DEF Fresh
  <2>5. \A h \in wire' : grant'[h] # "unused" /\ (replaces'[h] # NoToken => disk' # replaces'[h])
    BY <1>0, <1>2 DEF TokenInv, process, BackendTypeOK
  <2>6. ASSUME NEW h, Asked(h) PROVE Asked(h)'
    BY <1>0, <1>2, <2>6 DEF Asked, process
  <2> QED BY <1>0, <2>2, <2>3, <2>4, <2>5, <2>6 DEF TokenInv, process
<1> QED BY <1>4, <1>5, <1>6

\* A process begins: it runs on the credential in the file, if there is one.
LEMMA BootKeeps ==
  ASSUME TypeOK, Inv, Boot
  PROVE ProcessTypeOK' /\ ModeInv' /\ SetupInv' /\ TokenInv' /\ ReplacedIsLeft'
<1>0. /\ BackendTypeOK /\ ModeInv /\ SetupInv /\ TokenInv /\ mode = "down"
      /\ UNCHANGED <<disk, backend, req, setup, update>> /\ current' = disk
      /\ mode' = IF disk = NoToken THEN "setup" ELSE "running"
  BY DEF Boot, TypeOK, Inv
<1>1. setup = NoSetup /\ update = NoUpdate /\ \A r \in Requests : req[r] = Idle
  BY <1>0 DEF ModeInv
<1>2. Idle.at = "idle" /\ NoUpdate.started = 0 /\ NoSetup.credential = NoToken /\ NoSetup.installation = 0
  BY DEF Idle, NoUpdate, NoSetup
<1>3. ProcessTypeOK'
  BY <1>0 DEF TypeOK, ProcessTypeOK
<1>4. ModeInv'
  BY <1>0, <1>1, <1>2 DEF ModeInv, SetupSteps, UpdateSteps
<1>5. SetupInv'
  <2>1. SavingInv'
    BY <1>0, <1>1, <1>2 DEF SavingInv, Saving
  <2>2. CredentialInv'
    BY <1>0, <1>1, <1>2 DEF SetupInv, CredentialInv, backend
  <2> QED BY <2>1, <2>2 DEF SetupInv
<1>6. TokenInv'
  BY <1>0, <1>1, <1>2 DEF TokenInv, Fresh, Claimed, backend
<1>7. ReplacedIsLeft'
  BY <1>0 DEF ReplacedIsLeft
<1> QED BY <1>3, <1>4, <1>5, <1>6, <1>7

\* A process ends, or does not come up.
LEMMA DownKeeps ==
  ASSUME TypeOK, Inv, mode' = "down", UNCHANGED <<disk, backend>>, current' \in {current, NoToken},
         setup' = NoSetup, update' = NoUpdate, req' = [r \in Requests |-> Idle]
  PROVE ProcessTypeOK' /\ ModeInv' /\ SetupInv' /\ TokenInv' /\ ReplacedIsLeft'
<1>0. BackendTypeOK /\ ModeInv /\ SetupInv /\ TokenInv /\ ProcessTypeOK
  BY DEF TypeOK, Inv
<1>1. \A r \in Requests : req'[r] = Idle
  OBVIOUS
<1>2. Idle.at = "idle" /\ NoUpdate.started = 0 /\ NoSetup.credential = NoToken /\ NoSetup.installation = 0
  BY DEF Idle, NoUpdate, NoSetup
<1>3. ProcessTypeOK'
  <2>1. Idle \in Handler
    BY DEF Idle, Handler, SetupSteps, Tokens
  <2>2. NoSetup \in Security
    BY DEF NoSetup, Security, Tokens
  <2>3. NoUpdate \in Service
    BY DEF NoUpdate, Service
  <2>4. current' \in Tokens
    BY <1>0 DEF ProcessTypeOK, Tokens
  <2> QED BY <1>0, <2>1, <2>2, <2>3, <2>4 DEF ProcessTypeOK
<1>4. ModeInv'
  BY <1>1 DEF ModeInv
<1>5. SetupInv'
  <2>1. SavingInv'
    BY <1>1, <1>2 DEF SavingInv, Saving
  <2>2. CredentialInv'
    BY <1>0, <1>1, <1>2 DEF SetupInv, CredentialInv, backend
  <2> QED BY <2>1, <2>2 DEF SetupInv
<1>6. TokenInv'
  <2>1. NoToken \notin Grants
    BY TokensAssumption DEF Grants
  <2> QED BY <1>0, <1>1, <1>2, <2>1 DEF TokenInv, Fresh, Claimed, backend
<1>7. ReplacedIsLeft'
  BY DEF ReplacedIsLeft
<1> QED BY <1>3, <1>4, <1>5, <1>6, <1>7

\* The load of the identity fails while the node is set up: what waits for it
\* goes on without it.
LEMMA MissingKeeps ==
  ASSUME TypeOK, Inv, mode = "setup", IdentityMissing, UNCHANGED <<process, backend, update>>
  PROVE ProcessTypeOK' /\ ModeInv' /\ SetupInv' /\ TokenInv' /\ ReplacedIsLeft'
<1>0. /\ BackendTypeOK /\ ModeInv /\ SetupInv /\ TokenInv /\ ProcessTypeOK
      /\ req \in [Requests -> Handler] /\ setup \in Security
      /\ mode' = "setup" /\ UNCHANGED <<disk, current>>
  BY DEF TypeOK, Inv, ProcessTypeOK, process
<1>1. ASSUME NEW r \in Requests
      PROVE /\ req'[r] \in Handler
            /\ \/ req'[r].at = "idle" /\ req[r].at \in {"start", "claim"}
               \/ req'[r].at = "end" /\ req[r].at = "confirm"
               \/ req'[r] = req[r] /\ req[r].at \notin {"start", "claim", "confirm"}
  <2>1. Idle \in Handler /\ Idle.at = "idle"
    BY DEF Idle, Handler, SetupSteps, Tokens
  <2>2. [req[r] EXCEPT !.at = "end"] \in Handler /\ [req[r] EXCEPT !.at = "end"].at = "end"
    BY <1>0 DEF Handler, SetupSteps, Saving
  <2> QED BY <1>0, <2>1, <2>2 DEF IdentityMissing
<1>2. req' \in [Requests -> Handler]
  BY <1>1 DEF IdentityMissing
<1>3. /\ setup' \in Security /\ setup'.saving = setup.saving /\ setup'.completed = setup.completed
      /\ setup'.credential = setup.credential /\ setup'.installation \in {0, setup.installation}
  BY <1>0, StartThrownFact DEF IdentityMissing
<1>4. ProcessTypeOK'
  BY <1>0, <1>2, <1>3 DEF ProcessTypeOK
<1>5. ModeInv'
  BY <1>0, <1>1 DEF ModeInv, SetupSteps, Saving
<1>6. SetupInv'
  <2>1. SavingInv'
    BY <1>0, <1>1, <1>3 DEF SetupInv, SavingInv, Saving
  <2>2. CredentialInv'
    <3>1. \A r \in Requests : req'[r].at \in {"polling", "claim", "write"} => req'[r] = req[r]
      BY <1>1
    <3> QED BY <1>0, <1>3, <3>1, ZenonT(30) DEF SetupInv, CredentialInv, backend, Claimed
  <2> QED BY <2>1, <2>2 DEF SetupInv
<1>7. StoredInv'
  BY <1>0 DEF TokenInv, StoredInv, Fresh, Claimed, backend
<1>8. BackendTypeOK'
  BY <1>0 DEF BackendTypeOK, backend
<1> QED BY <1>0, <1>4, <1>5, <1>6, <1>7, <1>8, SetupTokens

\* The load of the identity of another process, or of this one.
LEMMA LoadKeeps ==
  ASSUME TypeOK, Inv, NEW p \in Processes,
         OtherLoads(p) \/ OtherEnds(p) \/ IdentityMoves(p) \/ IdentityFails(p)
  PROVE ProcessTypeOK' /\ ModeInv' /\ SetupInv' /\ TokenInv' /\ ReplacedIsLeft'
<1>0. Node \in Processes /\ IdentityTypeOK /\ ModeInv /\ ProcessTypeOK
  BY NodeAssumption DEF TypeOK, Inv
<1>1. CASE OtherLoads(p) \/ OtherEnds(p)
  <2>1. mint'[Node] = mint[Node]
    BY <1>0, <1>1 DEF OtherLoads, OtherEnds, Cached, ForgetIdentity, IdentityTypeOK
  <2> QED BY <1>1, <2>1, OthersKeep DEF OtherLoads, OtherEnds, Loaded
<1>2. CASE IdentityMoves(p)
  <2>1. UNCHANGED <<backend, process, req, setup, update>>
    BY <1>2 DEF IdentityMoves
  <2>2. ~Loaded(p)
    BY <1>2 DEF IdentityMoves, IdentityStep, ReadIdentity, Promote, Loaded
  <2>3. CASE p # Node
    <3>1. mint'[Node] = mint[Node]
      BY <1>0, <1>2, <2>3 DEF IdentityMoves, IdentityStep, ReadIdentity, Promote, IdentityTypeOK
    <3> QED BY <2>1, <3>1, OthersKeep DEF Loaded
  <2>4. CASE p = Node /\ mode # "running"
    BY <2>1, <2>4, OthersKeep
  <2>5. CASE p = Node /\ mode = "running"
    <3>1. setup = NoSetup /\ update = NoUpdate /\ (\A r \in Requests : req[r] = Idle)
          /\ current # NoToken /\ disk # NoToken
      BY <1>0, <2>2, <2>5 DEF ModeInv
    <3>2. Idle.at = "idle"
      BY DEF Idle
    <3>3. ModeInv'
      BY <2>1, <2>5, <3>1, <3>2 DEF ModeInv, UpdateSteps, process
    <3>4. ProcessTypeOK'
      BY <1>0, <2>1 DEF ProcessTypeOK, process
    <3>5. TokenInv' /\ ReplacedIsLeft'
      <4>1. TokenInv'
        BY <2>1 DEF Inv, TokenInv, Claimed, Fresh, Asked, backend, process
      <4> QED BY <2>1, <4>1 DEF Inv, ReplacedIsLeft, process
    <3>6. SetupInv'
      BY <2>1, <2>5, <3>3, RunningSetup DEF process
    <3> QED BY <3>3, <3>4, <3>5, <3>6
  <2> QED BY <2>3, <2>4, <2>5
<1>3. CASE IdentityFails(p)
  <2>1. UNCHANGED <<disk, current, exiting, backend, update>> /\ ~Loaded(p)
    BY <1>3 DEF IdentityFails, LoadFails, Loaded
  <2>2. CASE p # Node
    <3>1. mint'[Node] = mint[Node]
      BY <1>0, <1>3, <2>2 DEF IdentityFails, LoadFails, IdentityTypeOK
    <3>2. UNCHANGED <<mode, req, setup>>
      BY <1>3, <2>2 DEF IdentityFails
    <3> QED BY <2>1, <3>1, <3>2, OthersKeep DEF Loaded, process
  <2>3. CASE p = Node /\ mode = "setup"
    <3>1. IdentityMissing /\ UNCHANGED mode
      BY <1>3, <2>3 DEF IdentityFails
    <3> QED BY <2>1, <2>3, <3>1, MissingKeeps DEF process
  <2>4. CASE p = Node /\ mode = "running"
    <3>1. mode' = "down" /\ UNCHANGED <<req, setup>>
      BY <1>3, <2>4 DEF IdentityFails
    <3>2. setup = NoSetup /\ update = NoUpdate /\ \A r \in Requests : req[r] = Idle
      BY <1>0, <2>1, <2>4 DEF ModeInv
    <3>3. req = [r \in Requests |-> Idle]
      BY <1>0, <3>2 DEF ProcessTypeOK
    <3> QED BY <2>1, <3>1, <3>2, <3>3, DownKeeps
  <2>5. CASE p = Node /\ mode = "down"
    <3>1. UNCHANGED <<mode, req, setup>>
      BY <1>3, <2>5 DEF IdentityFails
    <3> QED BY <2>1, <2>5, <3>1, OthersKeep DEF process
  <2> QED BY <1>0, <2>2, <2>3, <2>4, <2>5 DEF ProcessTypeOK
<1> QED BY <1>1, <1>2, <1>3

-----------------------------------------------------------------------------
LEMMA InvStep == TypeOK /\ Inv /\ [Next]_vars => (TypeOK /\ Inv)'
<1> SUFFICES ASSUME TypeOK, Inv, [Next]_vars PROVE (TypeOK /\ Inv)'
  OBVIOUS
<1>1. CASE Next
  <2>1. ASSUME NEW r \in Requests, Handles(r) \/ Asks(r)
        PROVE ProcessTypeOK' /\ ModeInv' /\ SetupInv' /\ TokenInv' /\ ReplacedIsLeft'
    BY <2>1, SetupKeeps, UpdateKeeps DEF Handles, Asks
  <2>2. ASSUME Exit \/ Crash
        PROVE ProcessTypeOK' /\ ModeInv' /\ SetupInv' /\ TokenInv' /\ ReplacedIsLeft'
    BY <2>2, DownKeeps DEF Exit, Crash, Ended
  <2>3. ProcessTypeOK' /\ ModeInv' /\ SetupInv' /\ TokenInv' /\ ReplacedIsLeft'
    BY <1>1, <2>1, <2>2, BootKeeps, BackendKeeps, LoadKeeps DEF Next
  <2> QED BY <1>1, <2>3, IdentityKeeps DEF TypeOK, Inv
<1>2. CASE UNCHANGED vars
  <2>1. UNCHANGED <<backend, process, req, setup, update, idVars>>
    BY <1>2 DEF vars
  <2>2. ProcessTypeOK' /\ ModeInv' /\ SetupInv' /\ TokenInv' /\ ReplacedIsLeft'
    BY <2>1, OthersKeep DEF Loaded, idVars
  <2>3. BackendTypeOK' /\ IdentityTypeOK' /\ IdentityInv'
    BY <2>1 DEF TypeOK, Inv, BackendTypeOK, IdentityTypeOK, IdentityInv, Loaded, backend, idVars
  <2> QED BY <2>2, <2>3 DEF TypeOK, Inv
<1> QED BY <1>1, <1>2

LEMMA Invariance == Spec => [](TypeOK /\ Inv)
<1>1. Init => TypeOK /\ Inv
  BY TypeInit, InvInit
<1> QED BY <1>1, InvStep, PTL DEF Spec

\* However many processes mint at once, fail or end half way, all that have an
\* identity have the one in the file, and so has every installation.
THEOREM OneIdentityTheorem == Spec => []OneIdentity
<1>1. TypeOK /\ Inv => OneIdentity
  BY DEF Inv, IdentityInv, OneIdentity
<1> QED BY <1>1, Invariance, PTL

\* No order of lost answers, late confirmations, concurrent updates and crashes
\* leaves the configuration file with a credential that has been retired.
THEOREM TokenWorksTheorem == Spec => []TokenWorks
<1>1. TypeOK /\ Inv => TokenWorks
  BY DEF Inv, TokenInv, TokenWorks
<1> QED BY <1>1, Invariance, PTL

\* A process that runs on a credential that has been replaced is on its way out.
THEOREM ReplacedIsLeftTheorem == Spec => []ReplacedIsLeft
<1>1. TypeOK /\ Inv => ReplacedIsLeft
  BY DEF Inv
<1> QED BY <1>1, Invariance, PTL
-----------------------------------------------------------------------------
(* The pin ledger that the tasks of the node acquire and release through, for *)
(* any sets of CIDs, owners and sweepers.                                      *)

\* What saving a record's state changes.
LEMMA SaveFact ==
  ASSUME ledger \in [Cids -> PinRecords], NEW c \in Cids, NEW st \in PinStates, Save(c, st)
  PROVE /\ ledger' \in [Cids -> PinRecords]
        /\ ledger'[c].state = st
        /\ \A d \in Cids \ {c} : ledger'[d] = ledger[d]
        /\ \A d \in Cids : /\ ledger'[d].owners = ledger[d].owners
                           /\ ledger'[d].ownership = ledger[d].ownership
<1>1. ledger' = [ledger EXCEPT ![c] = [ledger[c] EXCEPT !.state = st]]
  BY DEF Save
<1>2. ledger[c] \in PinRecords
  OBVIOUS
<1>3. /\ [ledger[c] EXCEPT !.state = st] \in PinRecords
      /\ [ledger[c] EXCEPT !.state = st].state = st
      /\ [ledger[c] EXCEPT !.state = st].owners = ledger[c].owners
      /\ [ledger[c] EXCEPT !.state = st].ownership = ledger[c].ownership
  BY <1>2 DEF PinRecords
<1> QED BY <1>1, <1>3

\* What moving an operation to its next await changes.
LEMMA AwaitFact ==
  ASSUME op \in [Cids -> Operations], NEW c \in Cids, NEW pc \in Pcs, Await(c, pc)
  PROVE /\ op' \in [Cids -> Operations]
        /\ op'[c].pc = pc
        /\ op'[c].by = op[c].by
        /\ op'[c].ownership = op[c].ownership
        /\ \A d \in Cids \ {c} : op'[d] = op[d]
<1>1. op' = [op EXCEPT ![c] = [op[c] EXCEPT !.pc = pc]]
  BY DEF Await
<1>3. /\ [op[c] EXCEPT !.pc = pc] \in Operations
      /\ [op[c] EXCEPT !.pc = pc].pc = pc
      /\ [op[c] EXCEPT !.pc = pc].by = op[c].by
      /\ [op[c] EXCEPT !.pc = pc].ownership = op[c].ownership
  BY  DEF Operations
<1> QED BY <1>1, <1>3

\* What the end of an operation changes.
LEMMA FinishFact ==
  ASSUME op \in [Cids -> Operations], NEW c \in Cids, Unlock(c)
  PROVE /\ op' \in [Cids -> Operations]
        /\ op'[c].pc = "idle"
        /\ \A d \in Cids \ {c} : op'[d] = op[d]
BY DEF Unlock, Unlocked, Operations, Pcs, Ownership

\* The initial states have the right type.
LEMMA PinsTypeInit == PinsInit => PinsTypeOK
BY SMT DEF PinsInit, PinsTypeOK, NoRecord, Unlocked, PinRecords, Operations, PinStates,
       Ownership, UnderReview, Pcs, RpcPcs, UpdatePcs, AcquirePcs

\* The type invariant is inductive by itself.
LEMMA PinsTypeStep == PinsTypeOK /\ [PinsNext]_pinVars => PinsTypeOK'
<1> SUFFICES ASSUME PinsTypeOK, [PinsNext]_pinVars PROVE PinsTypeOK'
    OBVIOUS
<1> USE DEF PinsTypeOK, AcquirePcs
<1>t. /\ {"pending", "pinned", "release_pending", "releasing", "retained",
          "released", "release_uncertain"} \subseteq PinStates
      /\ {"idle", "decide", "probe", "journal", "add", "confirm", "retain", "defer",
          "releasing", "rm", "removed", "rejected", "uncertain"} \subseteq Pcs
      BY DEF PinStates, UnderReview, Pcs, RpcPcs, UpdatePcs
<1>1. CASE UNCHANGED pinVars
      BY <1>1 DEF pinVars
<1>2. ASSUME NEW c \in Cids, NEW o \in Owners, BeginAcquire(c, o) PROVE PinsTypeOK'
      BY <1>2, <1>t DEF BeginAcquire, Operations, PinRecords
<1>3. ASSUME NEW c \in Cids, NEW o \in Owners, Release(c, o) PROVE PinsTypeOK'
      BY <1>3, <1>t DEF Release, EnterDecide, Operations, PinRecords, Ownership
<1>4. ASSUME NEW c \in Cids, ProbeOwnership(c) PROVE PinsTypeOK'
      BY <1>4, <1>t, SMT DEF ProbeOwnership, Operations, Ownership
<1>5. ASSUME NEW c \in Cids, JournalOwner(c) PROVE PinsTypeOK'
  <2>1. ledger' \in [Cids -> PinRecords]
        BY <1>5, <1>t, ZenonT(30) DEF JournalOwner, PinRecords, Operations
  <2> QED BY <2>1, <1>5, <1>t, AwaitFact, SMT DEF JournalOwner
<1>6. ASSUME NEW c \in Cids, PinAdd(c) PROVE PinsTypeOK'
      BY <1>6, <1>t, AwaitFact, SMT DEF PinAdd
<1>7. ASSUME NEW c \in Cids, PinAddFails(c) PROVE PinsTypeOK'
      BY <1>7, FinishFact, SMT DEF PinAddFails
<1>8. ASSUME NEW c \in Cids, NEW st \in PinStates, Save(c, st), Unlock(c),
             UNCHANGED <<sweep, refs, pins, late, allowUnpin>>
      PROVE  PinsTypeOK'
      BY <1>8, SaveFact, FinishFact, ZenonT(30)
<1>9. ASSUME NEW c \in Cids,
             ConfirmPinned(c) \/ Retain(c) \/ Defer(c) \/ RecordOutcome(c)
      PROVE  PinsTypeOK'
      BY <1>9, <1>8, <1>t DEF ConfirmPinned, Retain, Defer, RecordOutcome
<1>10. ASSUME NEW c \in Cids, NEW s \in Sweepers, SweepNext(s, c) PROVE PinsTypeOK'
      BY <1>10, <1>t DEF SweepNext, EnterDecide, Operations, Ownership
<1>11. ASSUME NEW c \in Cids, Decide(c) PROVE PinsTypeOK'
      BY <1>11, <1>t, FinishFact, AwaitFact, SMT DEF Decide
<1>12. ASSUME NEW c \in Cids, JournalReleasing(c) PROVE PinsTypeOK'
      BY <1>12, <1>t, SaveFact, AwaitFact, SMT DEF JournalReleasing
<1>13. ASSUME NEW c \in Cids, PinRm(c) \/ PinRmRejected(c) \/ PinRmUncertain(c)
       PROVE PinsTypeOK'
       BY <1>13, <1>t, AwaitFact, SMT DEF PinRm, PinRmRejected, PinRmUncertain
<1>14. ASSUME NEW c \in Cids, UpdateFails(c) PROVE PinsTypeOK'
       BY <1>14, FinishFact DEF UpdateFails
<1>15. ASSUME NEW c \in Cids, Straggler(c) \/ ExternalPin(c) \/ ChangeReference(c)
       PROVE PinsTypeOK'
       BY <1>15, SMT DEF Straggler, ExternalPin, ChangeReference
<1>16. ASSUME NEW s \in Sweepers, BeginSweep(s) PROVE PinsTypeOK'
       BY <1>16, ZenonT(30) DEF BeginSweep
<1>17. CASE NodeCrash
       BY <1>17, <1>t, SMT DEF NodeCrash, Unlocked, Operations, Ownership
<1> QED
    BY <1>1, <1>2, <1>3, <1>4, <1>5, <1>6, <1>7, <1>9, <1>10, <1>11,
       <1>12, <1>13, <1>14, <1>15, <1>16, <1>17 DEF PinsNext, PinStep

\* Type correctness of the ledger and of the operations on it.
THEOREM PinsTypeCorrect == PinsSpec => []PinsTypeOK
BY PinsTypeInit, PinsTypeStep, PTL DEF PinsSpec

-----------------------------------------------------------------------------
(* Removals, whatever the sweepers do *)

\* A step of one operation leaves the operations and records of the other CIDs
\* alone, so the lock on c protects the evidence a removal of c rests on.
LEMMA RemovalStep == PinsTypeOK /\ RemovalJustified /\ [PinsNext]_pinVars => RemovalJustified'
<1> SUFFICES ASSUME PinsTypeOK, RemovalJustified, [PinsNext]_pinVars PROVE RemovalJustified'
    OBVIOUS
<1> USE DEF PinsTypeOK, RemovalJustified, RemovalPcs
<1>t. /\ {"pending", "pinned", "release_pending", "releasing", "retained",
          "released", "release_uncertain"} \subseteq PinStates
      /\ {"idle", "decide", "probe", "journal", "add", "confirm", "retain", "defer",
          "releasing", "rm", "removed", "rejected", "uncertain"} \subseteq Pcs
      BY DEF PinStates, UnderReview, Pcs, RpcPcs, UpdatePcs
<1>1. CASE UNCHANGED pinVars
      BY <1>1 DEF pinVars
<1>2. ASSUME NEW c \in Cids, NEW o \in Owners, BeginAcquire(c, o)
      PROVE  RemovalJustified'
      BY <1>2 DEF BeginAcquire
<1>3. ASSUME NEW c \in Cids, NEW o \in Owners, Release(c, o)
      PROVE  RemovalJustified'
      BY <1>3 DEF Release, EnterDecide
<1>4. ASSUME NEW c \in Cids, ProbeOwnership(c) PROVE RemovalJustified'
      BY <1>4, SMT DEF ProbeOwnership
<1>5. ASSUME NEW c \in Cids, JournalOwner(c) PROVE RemovalJustified'
      BY <1>5, <1>t, AwaitFact, SMT DEF JournalOwner
<1>6. ASSUME NEW c \in Cids, PinAdd(c) PROVE RemovalJustified'
      BY <1>6, <1>t, AwaitFact, SMT DEF PinAdd
<1>7. ASSUME NEW c \in Cids, PinAddFails(c) \/ UpdateFails(c)
      PROVE  RemovalJustified'
      BY <1>7, FinishFact DEF PinAddFails, UpdateFails
<1>8. ASSUME NEW c \in Cids, NEW st \in PinStates, Save(c, st), Unlock(c),
             UNCHANGED allowUnpin
      PROVE  RemovalJustified'
      BY <1>8, SaveFact, FinishFact, ZenonT(30)
<1>9. ASSUME NEW c \in Cids,
             ConfirmPinned(c) \/ Retain(c) \/ Defer(c) \/ RecordOutcome(c)
      PROVE  RemovalJustified'
      BY <1>9, <1>8, <1>t DEF ConfirmPinned, Retain, Defer, RecordOutcome
<1>10. ASSUME NEW c \in Cids, NEW s \in Sweepers, SweepNext(s, c)
       PROVE  RemovalJustified'
       BY <1>10 DEF SweepNext, EnterDecide
<1>11. ASSUME NEW c \in Cids, Decide(c) PROVE RemovalJustified'
  <2>1. UNCHANGED <<ledger, allowUnpin>>
        BY <1>11 DEF Decide
  <2>2. CASE Unlock(c)
        BY <2>1, <2>2, FinishFact
  <2>3. CASE Await(c, "retain") \/ Await(c, "defer")
        BY <2>1, <2>3, <1>t, AwaitFact, SMT
  <2>4. CASE /\ Await(c, "releasing") /\ allowUnpin
             /\ ledger[c].owners = {} /\ ledger[c].ownership = "created"
        BY <2>1, <2>4, <1>t, AwaitFact, ZenonT(30)
  <2> QED BY <1>11, <2>2, <2>3, <2>4 DEF Decide
<1>12. ASSUME NEW c \in Cids, JournalReleasing(c) PROVE RemovalJustified'
       BY <1>12, <1>t, SaveFact, AwaitFact, SMT DEF JournalReleasing
<1>13. ASSUME NEW c \in Cids, PinRm(c) \/ PinRmRejected(c) \/ PinRmUncertain(c)
       PROVE  RemovalJustified'
       BY <1>13, <1>t, AwaitFact, SMT DEF PinRm, PinRmRejected, PinRmUncertain
<1>14. ASSUME NEW c \in Cids, Straggler(c) \/ ExternalPin(c) \/ ChangeReference(c)
       PROVE  RemovalJustified'
       BY <1>14 DEF Straggler, ExternalPin, ChangeReference
<1>15. ASSUME NEW s \in Sweepers, BeginSweep(s) PROVE RemovalJustified'
       BY <1>15 DEF BeginSweep
<1>16. CASE NodeCrash
       BY <1>16 DEF NodeCrash, Unlocked
<1> QED
    BY <1>1, <1>2, <1>3, <1>4, <1>5, <1>6, <1>7, <1>9, <1>10, <1>11,
       <1>12, <1>13, <1>14, <1>15, <1>16 DEF PinsNext, PinStep

\* releaseUnreferenced() never removes a pin that has an owner or that the
\* ledger does not call created, however many sweeps run.
THEOREM RemovalsAreJustified == PinsSpec => []RemovalJustified
<1>1. PinsInit => RemovalJustified
      BY SMTT(30) DEF PinsInit, RemovalJustified, RemovalPcs, Unlocked
<1> QED
    BY <1>1, PinsTypeInit, PinsTypeStep, RemovalStep, PTL DEF PinsSpec

\* A process with the activation switch off removes no pin; only a removal that
\* an earlier process abandoned can still take effect.
THEOREM SwitchIsComplete == PinsSpec => NothingUnpinned
<1> DEFINE Stays == ~allowUnpin /\ (\A c \in Cids : "rm" \notin late[c])
                     => pins \subseteq pins'
<1>1. ASSUME PinsTypeOK, RemovalJustified, [PinsNext]_pinVars PROVE Stays
  <2> SUFFICES ASSUME ~allowUnpin, \A c \in Cids : "rm" \notin late[c]
               PROVE  pins \subseteq pins'
      OBVIOUS
  <2>1. ASSUME NEW c \in Cids, PinRm(c) PROVE FALSE
        BY <1>1, <2>1 DEF PinRm, RemovalJustified, RemovalPcs
  <2>2. ASSUME NEW c \in Cids, Straggler(c) PROVE pins \subseteq pins'
        BY <2>2 DEF Straggler
  <2>3. ASSUME NEW c \in Cids, PinAdd(c) \/ ExternalPin(c) PROVE pins \subseteq pins'
        BY <2>3 DEF PinAdd, ExternalPin
  <2>4. CASE UNCHANGED pins
        BY <2>4
  <2> QED
      BY <1>1, <2>1, <2>2, <2>3, <2>4, ZenonT(30)
         DEF PinsNext, PinStep, pinVars, BeginAcquire, Release, ProbeOwnership, JournalOwner,
             PinAddFails, ConfirmPinned, SweepNext, BeginSweep, Decide, Retain, Defer,
             JournalReleasing, PinRmRejected, PinRmUncertain, RecordOutcome,
             UpdateFails, ChangeReference, NodeCrash
<1>2. PinsInit => RemovalJustified
      BY SMT DEF PinsInit, RemovalJustified, RemovalPcs, Unlocked
<1> QED
    BY <1>1, <1>2, PinsTypeInit, PinsTypeStep, RemovalStep, PTL DEF PinsSpec, NothingUnpinned

-----------------------------------------------------------------------------
(* The ledger and Kubo, when no sweep works on stale evidence *)

\* The record of c agrees with the await that the operation on c is at, and
\* removals that Kubo may still execute concern only records under review.
Agrees(c) ==
  LET pc == op[c].pc
      rec == ledger[c]
  IN /\ pc \in {"probe", "journal"} => rec.state \notin UnderReview
     /\ pc \in {"add", "confirm"} => rec.state = "pending"
     /\ pc = "confirm" => c \in pins
     /\ pc \in {"decide", "retain", "defer", "releasing"} =>
          rec.state \notin UnderReview
     /\ pc \in {"rm", "removed", "rejected", "uncertain"} => rec.state = "releasing"
     /\ rec.state \in UnderReview => rec.ownership = "created"
     /\ "rm" \in late[c] => rec.state \in UnderReview
                            /\ pc \notin {"rm", "removed", "rejected"}
     /\ rec.state = "pinned" => c \in pins

LedgerInv == \A c \in Cids : Agrees(c)

\* The invariant holds initially.
LEMMA LedgerInit == PinsInit => LedgerInv
<1> SUFFICES ASSUME PinsInit, NEW c \in Cids PROVE Agrees(c)
    BY DEF LedgerInv
<1>1. op[c].pc = "idle" /\ ledger[c].state = "none" /\ late[c] = {}
      BY DEF PinsInit, Unlocked, NoRecord
<1> QED
    BY <1>1 DEF Agrees, UnderReview

\* What a CID's step leaves alone keeps agreeing.
LEMMA AgreesKept ==
  ASSUME NEW d \in Cids, Agrees(d), op'[d].pc = op[d].pc, ledger'[d] = ledger[d],
         "rm" \in late'[d] => "rm" \in late[d], d \in pins => d \in pins'
  PROVE  Agrees(d)'
BY DEF Agrees

\* A step of the operation on one CID, or of Kubo on its pin, leaves all others alone.
LEMMA OtherCids ==
  ASSUME PinsTypeOK, NEW c \in Cids, PinStep(c), NEW d \in Cids \ {c}
  PROVE  op'[d] = op[d] /\ ledger'[d] = ledger[d] /\ late'[d] = late[d] /\ (d \in pins <=> d \in pins')
<1>t. op \in [Cids -> Operations] /\ ledger \in [Cids -> PinRecords]
      /\ late \in [Cids -> SUBSET {"add", "rm"}]
      BY DEF PinsTypeOK
<1>1. ASSUME \/ \E o \in Owners : BeginAcquire(c, o) \/ Release(c, o)
             \/ \E s \in Sweepers : SweepNext(s, c)
             \/ ProbeOwnership(c)
      PROVE  op'[d] = op[d] /\ ledger'[d] = ledger[d] /\ UNCHANGED <<late, pins>>
      BY <1>1, <1>t DEF BeginAcquire, Release, SweepNext, EnterDecide, ProbeOwnership
<1>2. ASSUME JournalOwner(c) \/ PinAdd(c) \/ PinAddFails(c) \/ ConfirmPinned(c)
      PROVE  op'[d] = op[d] /\ ledger'[d] = ledger[d] /\ late'[d] = late[d] /\ (d \in pins <=> d \in pins')
      BY <1>2, <1>t DEF JournalOwner, PinAdd, PinAddFails, ConfirmPinned, Await, Unlock, Save
<1>3. ASSUME Decide(c) \/ Retain(c) \/ Defer(c) \/ JournalReleasing(c)
             \/ RecordOutcome(c) \/ UpdateFails(c)
      PROVE  op'[d] = op[d] /\ ledger'[d] = ledger[d] /\ UNCHANGED <<late, pins>>
      BY <1>3, <1>t
         DEF Decide, Retain, Defer, JournalReleasing, RecordOutcome, UpdateFails, Await, Unlock, Save
<1>4. ASSUME PinRm(c) \/ PinRmRejected(c) \/ PinRmUncertain(c)
      PROVE  op'[d] = op[d] /\ ledger'[d] = ledger[d] /\ late'[d] = late[d] /\ (d \in pins <=> d \in pins')
      BY <1>4, <1>t DEF PinRm, PinRmRejected, PinRmUncertain, Await
<1>5. ASSUME Straggler(c) \/ ExternalPin(c) \/ ChangeReference(c)
      PROVE  op'[d] = op[d] /\ ledger'[d] = ledger[d] /\ late'[d] = late[d] /\ (d \in pins <=> d \in pins')
      BY <1>5, <1>t DEF Straggler, ExternalPin, ChangeReference
<1> QED BY <1>1, <1>2, <1>3, <1>4, <1>5 DEF PinStep

\* Every step preserves it, if sweeps visit no record under review.
LEMMA LedgerStep ==
  ASSUME FreshSweeps, PinsTypeOK, RemovalJustified, LedgerInv, [PinsNext]_pinVars
  PROVE  LedgerInv'
<1> SUFFICES ASSUME NEW d \in Cids PROVE Agrees(d)'
    BY DEF LedgerInv
<1>a. Agrees(d)
      BY DEF LedgerInv
<1>o. /\ op \in [Cids -> Operations] /\ ledger \in [Cids -> PinRecords]
      /\ late \in [Cids -> SUBSET {"add", "rm"}]
      BY DEF PinsTypeOK
<1>p. /\ {"idle", "decide", "add", "confirm", "retain", "defer", "releasing", "rm", "removed",
          "rejected", "uncertain"} \subseteq Pcs
      /\ {"pinned", "retained", "release_pending", "releasing", "released",
          "release_uncertain"} \subseteq PinStates
      BY DEF Pcs, RpcPcs, UpdatePcs, PinStates, UnderReview
<1>1. CASE UNCHANGED <<op, ledger, late>> /\ (d \in pins => d \in pins')
      BY <1>1, <1>a, AgreesKept
<1>2. ASSUME NEW o \in Owners, BeginAcquire(d, o) PROVE Agrees(d)'
  <2>1. op'[d].pc \in {"probe", "journal"} /\ UNCHANGED <<ledger, late, pins>>
        /\ ledger[d].state \notin UnderReview
        BY <1>2, <1>o DEF BeginAcquire
  <2> QED BY <2>1, <1>a DEF Agrees
<1>3. ASSUME NEW o \in Owners, Release(d, o) PROVE Agrees(d)'
  <2>1. op'[d].pc = "decide" /\ UNCHANGED <<late, pins>> /\ ledger[d].state \notin UnderReview
        BY <1>3, <1>o DEF Release, EnterDecide
  <2>2. /\ ledger'[d].state \in {"release_pending", ledger[d].state}
        BY <1>3, <1>o DEF Release
  <2> QED BY <2>1, <2>2, <1>a DEF Agrees, UnderReview
<1>4. CASE ProbeOwnership(d)
  <2>1. op[d].pc = "probe" /\ UNCHANGED <<ledger, late, pins>>
        BY <1>4 DEF ProbeOwnership
  <2>2. PICK answer : op' = [op EXCEPT ![d] = [pc |-> "journal", by |-> op[d].by, ownership |-> answer]]
        BY <1>4 DEF ProbeOwnership
  <2>3. op'[d].pc = "journal"
        BY <2>2, <1>o
  <2> QED BY <2>1, <2>3, <1>a DEF Agrees
<1>5. CASE JournalOwner(d)
  <2>1. op[d].pc = "journal" /\ UNCHANGED <<late, pins>>
        BY <1>5 DEF JournalOwner
  <2>3. ledger'[d].state = "pending"
        BY <1>5, <1>o DEF JournalOwner
  <2>2. op'[d].pc = "add"
        BY <1>5, <1>o, <1>p, AwaitFact DEF JournalOwner
  <2> QED BY <2>1, <2>2, <2>3, <1>a DEF Agrees, UnderReview
<1>6. CASE PinAdd(d)
  <2>1. op[d].pc = "add" /\ UNCHANGED <<ledger, late>> /\ d \in pins'
        BY <1>6 DEF PinAdd
  <2>2. op'[d].pc = "confirm"
        BY <1>6, <1>o, <1>p, AwaitFact DEF PinAdd
  <2> QED BY <2>1, <2>2, <1>a DEF Agrees
<1>7. CASE PinAddFails(d) \/ UpdateFails(d)
  <2>1. UNCHANGED <<ledger, pins>> /\ ("rm" \in late'[d] => "rm" \in late[d])
        BY <1>7, <1>o DEF PinAddFails, UpdateFails
  <2>2. op'[d].pc = "idle"
        BY <1>7, <1>o, FinishFact DEF PinAddFails, UpdateFails
  <2> QED BY <2>1, <2>2, <1>a DEF Agrees
<1>8. CASE ConfirmPinned(d)
  <2>1. op[d].pc = "confirm" /\ UNCHANGED <<late, pins>>
        BY <1>8 DEF ConfirmPinned
  <2>2. op'[d].pc = "idle" /\ ledger'[d].state = "pinned"
        BY <1>8, <1>o, <1>p, FinishFact, SaveFact DEF ConfirmPinned
  <2> QED BY <2>1, <2>2, <1>a DEF Agrees, UnderReview
<1>9. CASE Retain(d) \/ Defer(d)
  <2>1. op[d].pc \in {"retain", "defer"} /\ UNCHANGED <<late, pins>>
        BY <1>9 DEF Retain, Defer
  <2>2. op'[d].pc = "idle" /\ ledger'[d].state \in {"retained", "release_pending"}
        BY <1>9, <1>o, <1>p, FinishFact, SaveFact DEF Retain, Defer
  <2> QED BY <2>1, <2>2, <1>a DEF Agrees, UnderReview
<1>10. CASE RecordOutcome(d)
  <2>1. op[d].pc \in {"removed", "rejected", "uncertain"} /\ UNCHANGED <<late, pins>>
        BY <1>10 DEF RecordOutcome
  <2>2. op'[d].pc = "idle"
        BY <1>10, <1>o, FinishFact DEF RecordOutcome
  <2>3. /\ ledger'[d].ownership = ledger[d].ownership
        /\ ledger'[d].state \in {"released", "release_pending", "release_uncertain"}
        /\ ledger'[d].state # "release_uncertain" => op[d].pc # "uncertain"
        BY <1>10, <1>o, <1>p, SaveFact DEF RecordOutcome
  <2> QED BY <2>1, <2>2, <2>3, <1>a DEF Agrees, UnderReview
<1>11. CASE Decide(d)
  <2>1. op[d].pc = "decide" /\ UNCHANGED <<ledger, late, pins>>
        BY <1>11 DEF Decide
  <2>2. op'[d].pc \in {"idle", "retain", "releasing", "defer"}
        BY <1>11, <1>o, <1>p, FinishFact, AwaitFact DEF Decide
  <2> QED BY <2>1, <2>2, <1>a DEF Agrees
<1>12. CASE JournalReleasing(d)
  <2>1. op[d].pc = "releasing" /\ UNCHANGED <<late, pins>>
        BY <1>12 DEF JournalReleasing
  <2>2. op'[d].pc = "rm" /\ ledger'[d].state = "releasing" /\ ledger'[d].ownership = ledger[d].ownership
        BY <1>12, <1>o, <1>p, SaveFact, AwaitFact DEF JournalReleasing
  <2>3. ledger[d].ownership = "created"
        BY <2>1 DEF RemovalJustified, RemovalPcs
  <2> QED BY <2>1, <2>2, <2>3, <1>a DEF Agrees, UnderReview
<1>13. CASE PinRm(d) \/ PinRmRejected(d) \/ PinRmUncertain(d)
  <2>1. op[d].pc = "rm" /\ UNCHANGED ledger
        BY <1>13 DEF PinRm, PinRmRejected, PinRmUncertain
  <2>2. \/ op'[d].pc \in {"removed", "rejected"} /\ UNCHANGED late
        \/ op'[d].pc = "uncertain"
        BY <1>13, <1>o, <1>p, AwaitFact DEF PinRm, PinRmRejected, PinRmUncertain
  <2> QED BY <2>1, <2>2, <1>a DEF Agrees, UnderReview
<1>14. CASE Straggler(d)
  <2>1. /\ UNCHANGED <<op, ledger>> /\ ("rm" \in late'[d] => "rm" \in late[d])
        /\ "rm" \in late[d] \/ (d \in pins => d \in pins')
        BY <1>14, <1>o DEF Straggler
  <2> QED BY <2>1, <1>a DEF Agrees, UnderReview
<1>15. ASSUME NEW s \in Sweepers, SweepNext(s, d) PROVE Agrees(d)'
  <2>1. op'[d].pc = "decide" /\ UNCHANGED <<ledger, late, pins>> /\ d \in sweep[s]
        BY <1>15, <1>o DEF SweepNext, EnterDecide
  <2>2. ledger[d].state \notin UnderReview
        BY <2>1 DEF FreshSweeps
  <2> QED BY <2>1, <2>2, <1>a DEF Agrees
<1>16. CASE NodeCrash
  <2>1. op'[d].pc = "idle" /\ UNCHANGED <<ledger, pins>>
        BY <1>16 DEF NodeCrash, Unlocked
  <2>2. "rm" \in late'[d] => "rm" \in late[d] \/ op[d].pc = "rm"
        BY <1>16 DEF NodeCrash
  <2> QED BY <2>1, <2>2, <1>a DEF Agrees, UnderReview
<1>17. ASSUME NEW c \in Cids, c # d, PinStep(c) PROVE Agrees(d)'
  <2>1. op'[d] = op[d] /\ ledger'[d] = ledger[d] /\ late'[d] = late[d] /\ (d \in pins <=> d \in pins')
        BY <1>17, OtherCids
  <2> QED BY <2>1, <1>a, AgreesKept
<1>18. CASE PinStep(d)
  <2>1. CASE ExternalPin(d) \/ ChangeReference(d)
        BY <1>1, <2>1 DEF ExternalPin, ChangeReference
  <2> QED BY <1>18, <2>1, <1>2, <1>3, <1>4, <1>5, <1>6, <1>7, <1>8, <1>9, <1>10, <1>11, <1>12,
             <1>13, <1>14, <1>15 DEF PinStep
<1>19. CASE (\E s \in Sweepers : BeginSweep(s)) \/ UNCHANGED pinVars
       BY <1>1, <1>19 DEF BeginSweep, pinVars
<1> QED BY <1>16, <1>17, <1>18, <1>19 DEF PinsNext

LedgerAll == PinsTypeOK /\ RemovalJustified /\ LedgerInv /\ FreshSweeps

\* The inductive invariant of the ledger.
LEMMA LedgerCorrect == FreshSpec => []LedgerAll
<1>1. PinsInit => LedgerAll
  <2>1. PinsInit => RemovalJustified
        BY SMT DEF PinsInit, RemovalJustified, RemovalPcs, Unlocked
  <2>2. PinsInit => FreshSweeps
        BY DEF PinsInit, FreshSweeps
  <2> QED
      BY <2>1, <2>2, PinsTypeInit, LedgerInit DEF LedgerAll
<1>2. LedgerAll /\ [PinsNext /\ FreshSweeps']_pinVars => LedgerAll'
  <2> SUFFICES ASSUME LedgerAll, [PinsNext /\ FreshSweeps']_pinVars PROVE LedgerAll'
      OBVIOUS
  <2>1. [PinsNext]_pinVars
        OBVIOUS
  <2>2. FreshSweeps'
        BY DEF LedgerAll, FreshSweeps, pinVars
  <2> QED
      BY <2>1, <2>2, PinsTypeStep, RemovalStep, LedgerStep DEF LedgerAll
<1> QED
    BY <1>1, <1>2, PTL DEF FreshSpec

\* A 'pinned' record is backed by a pin that no abandoned removal threatens.
THEOREM PinnedRecordsAreBacked == FreshSpec => []PinnedIsPinned
<1>1. LedgerAll => PinnedIsPinned
      BY DEF LedgerAll, LedgerInv, Agrees, PinnedIsPinned, UnderReview
<1> QED
    BY <1>1, LedgerCorrect, PTL

\* A 'release_uncertain' record keeps that state for ever.
THEOREM UncertainOutcomesStay == FreshSpec => UncertainIsFinal
<1> DEFINE Final == \A c \in Cids : ledger[c].state = "release_uncertain" =>
                                      ledger'[c].state = "release_uncertain"
<1>1. ASSUME LedgerAll, [PinsNext /\ FreshSweeps']_pinVars PROVE Final
  <2> SUFFICES ASSUME NEW d \in Cids, ledger[d].state = "release_uncertain"
               PROVE  ledger'[d].state = "release_uncertain"
      OBVIOUS
  <2> USE <1>1 DEF LedgerAll, PinsTypeOK, LedgerInv, UnderReview
  <2>1. ASSUME NEW c \in Cids, NEW st \in PinStates, Save(c, st),
               op[c].pc \in UpdatePcs
        PROVE  ledger'[d].state = "release_uncertain"
        BY <2>1, SaveFact, SMT DEF Agrees, UpdatePcs
  <2>2. /\ {"pinned", "release_pending", "releasing", "retained",
            "released", "release_uncertain"} \subseteq PinStates
        BY DEF PinStates
  <2>3. ASSUME NEW c \in Cids,
               ConfirmPinned(c) \/ Retain(c) \/ Defer(c) \/ RecordOutcome(c)
                 \/ JournalReleasing(c)
        PROVE  ledger'[d].state = "release_uncertain"
        BY <2>1, <2>2, <2>3
           DEF ConfirmPinned, Retain, Defer, RecordOutcome, JournalReleasing, UpdatePcs
  <2>4. ASSUME NEW c \in Cids, NEW o \in Owners, Release(c, o)
        PROVE  ledger'[d].state = "release_uncertain"
        BY <2>4 DEF Release
  <2>5. ASSUME NEW c \in Cids, JournalOwner(c)
        PROVE  ledger'[d].state = "release_uncertain"
        BY <2>5 DEF JournalOwner, Agrees
  <2>6. CASE UNCHANGED ledger
        BY <2>6
  <2> QED
      BY <2>3, <2>4, <2>5, <2>6, ZenonT(30)
         DEF PinsNext, PinStep, pinVars, BeginAcquire, ProbeOwnership, PinAdd, PinAddFails,
             SweepNext, BeginSweep, Decide, PinRm, PinRmRejected, PinRmUncertain,
             UpdateFails, Straggler, ExternalPin, ChangeReference, NodeCrash
<1> QED
    BY <1>1, LedgerCorrect, PTL DEF FreshSpec, UncertainIsFinal

\* No pin whose record says preexisting or unknown is ever removed, not even by
\* an RPC that Kubo executes after its caller gave up.
THEOREM AdoptedPinsAreKept == FreshSpec => AdoptedPinsSurvive
<1> DEFINE Stays == \A c \in Cids : /\ ledger[c].state # "none"
                                    /\ ledger[c].ownership # "created"
                                    /\ c \in pins
                                    => c \in pins'
<1>1. ASSUME LedgerAll, [PinsNext /\ FreshSweeps']_pinVars PROVE Stays
  <2> SUFFICES ASSUME NEW d \in Cids, ledger[d].ownership # "created", d \in pins
               PROVE  d \in pins'
      OBVIOUS
  <2>1. ASSUME NEW c \in Cids, PinRm(c) PROVE d \in pins'
        BY <1>1, <2>1 DEF PinRm, LedgerAll, RemovalJustified, RemovalPcs
  <2>2. ASSUME NEW c \in Cids, Straggler(c) PROVE d \in pins'
        BY <1>1, <2>2 DEF Straggler, LedgerAll, LedgerInv, Agrees
  <2>3. ASSUME NEW c \in Cids, PinAdd(c) \/ ExternalPin(c) PROVE d \in pins'
        BY <2>3 DEF PinAdd, ExternalPin
  <2>4. CASE UNCHANGED pins
        BY <2>4
  <2> QED
      BY <1>1, <2>1, <2>2, <2>3, <2>4, ZenonT(30)
         DEF PinsNext, PinStep, pinVars, BeginAcquire, ProbeOwnership, JournalOwner, PinAddFails,
             ConfirmPinned, Release, Retain, Defer, JournalReleasing, RecordOutcome,
             SweepNext, BeginSweep, Decide, PinRmRejected, PinRmUncertain,
             UpdateFails, ChangeReference, NodeCrash
<1> QED
    BY <1>1, LedgerCorrect, PTL DEF FreshSpec, AdoptedPinsSurvive

==============================================================================
