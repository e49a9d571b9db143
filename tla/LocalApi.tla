------------------------------ MODULE LocalApi ------------------------------
(***************************************************************************)
(* The dispatcher that serves every operation of the node's local API      *)
(* (src/localApi/dispatch.ts), whatever transport the request came in on:  *)
(* pairing, the authorization of a request, the claim of its idempotency   *)
(* key, its operation, and the settling of the claim.                      *)
(*                                                                         *)
(* req[r] is a request being served.  Its awaits are the writes of the     *)
(* store and the steps of its operation; between them everything else that *)
(* the node serves may happen.                                             *)
(***************************************************************************)
EXTENDS Pairing, Idempotency, RemoteRequester

CONSTANTS
  Requests,     \* requests that are served at the same time
  Names,        \* idempotency keys, as clients send them
  Address,      \* where HTTP requests come from: loopback, lan, proxy
  AllowLan,     \* localApiAllowLan
  TrustProxy,   \* localApiRemoteUrl and localApiTrustedProxyAddresses
  MaxArrivals   \* bound: keyed requests

VARIABLES
  req,       \* the requests being served
  effects,   \* how often the operation of each key has been carried out
  arrivals

vars == <<pairingVars, idempotencyVars, requesterVars, req, effects, arrivals>>
untouched == <<effects, arrivals>>

NoInput == "no input"
Idle == [pc |-> "idle", session |-> "none", name |-> "none", op |-> "none", input |-> NoInput]
ReqSteps == {"idle", "issue", "attach", "touch", "again", "run", "remote", "settle"}
Request == [pc: ReqSteps, session: Sessions \cup {"none"}, name: Names \cup {"none"},
            op: Operations \cup {"none"}, input: Inputs \cup {NoInput}]
Mutating == {"touch", "again", "run", "remote", "settle"}
ScopedKeys == Sessions \X Names
ASSUME KeysAssumption == Keys = ScopedKeys
ASSUME RequestsAssumption == IsFiniteSet(Requests)
ASSUME ArrivalsAssumption == MaxArrivals \in Nat
Key(r) == <<req[r].session, req[r].name>>

TypeOK ==
  /\ PairingTypeOK /\ IdempotencyTypeOK /\ RequesterTypeOK
  /\ req \in [Requests -> Request]
  /\ \A r \in Requests :
       /\ req[r].pc # "idle" => req[r].session \in Sessions
       /\ req[r].pc \in Mutating => req[r].name \in Names /\ req[r].op \in Operations
  /\ effects \in [Keys -> Nat]
  /\ arrivals \in 0..MaxArrivals

Init ==
  /\ PairingInit /\ IdempotencyInit /\ RequesterInit
  /\ req = [r \in Requests |-> Idle]
  /\ effects = [k \in Keys |-> 0]
  /\ arrivals = 0

Is(r, pc) == req[r].pc = pc
To(r, pc) == req' = [req EXCEPT ![r].pc = pc]
Answered(r) == req' = [req EXCEPT ![r] = Idle]

-----------------------------------------------------------------------------
(* Transports *)

\* classifyPeer(): who may reach the HTTP listener at all.
Admitted(a) == a = "loopback" \/ (a = "lan" /\ AllowLan) \/ (a = "proxy" /\ TrustProxy)

\* A socket counts as having had the handshake; a data channel must have had
\* it when the request arrived.
Peers == {[kind |-> "http", handshake |-> TRUE] : a \in {x \in Address : Admitted(x)}}
           \cup [kind: {"webrtc"}, handshake: BOOLEAN]

-----------------------------------------------------------------------------
(* Routes: the scope of the path, the scope that the handler asks for, and
   what the handler does: read, change this node, or submit to another. *)

Route(op, scope, needs, does) == [op |-> op, scope |-> scope, needs |-> needs, does |-> does]

InfoRoutes == {Route("GET info", "content:read", "content:read", "read"),
               Route("GET content", "content:read", "content:read", "read")}

CaptureRoutes ==
  {Route(op, "captures:read", "captures:create", "local") :
     op \in {"POST captures", "POST drafts", "PUT draft file", "DELETE draft",
             "POST commit", "DELETE capture"}}
  \cup {Route("GET draft", "captures:read", "captures:read", "read")}

JobRoutes ==
  {Route(op, "jobs:read", "jobs:create", "local") :
     op \in {"POST jobs", "POST jobs cleanup", "POST job cancel"}}
  \cup {Route("GET jobs", "jobs:read", "jobs:read", "read")}

ComputeRoutes ==
  {Route("POST compute jobs", "jobs:read", "jobs:create", "remote")}
  \cup {Route(op, "jobs:read", "compute:manage", "local") :
          op \in {"POST compute cleanup", "PUT compute settings", "POST permission-update"}}
  \cup {Route(op, "jobs:read", "jobs:read", "local") :
          op \in {"POST candidates", "POST status", "POST retrieve", "POST acknowledge", "POST cancel"}}

SpatialRoutes == {Route("POST publish", "spatial:read", "spatial:publish-request", "local"),
                  Route("GET spatial", "spatial:read", "spatial:read", "read")}

Routes == InfoRoutes \cup CaptureRoutes \cup JobRoutes \cup ComputeRoutes \cup SpatialRoutes
RouteOf(op) == CHOOSE route \in Routes : route.op = op

-----------------------------------------------------------------------------
(* Pairing requests *)

PairingActivated(s) ==
  CreateSession(s) /\ UNCHANGED <<idempotencyVars, requesterVars, req, untouched>>

\* exchangePairing, up to the update of the store: a wrong secret, or a session
\* that the snapshot does not show as open, is a failed attempt.
ExchangeArrives(r, s, correct) ==
  /\ Is(r, "idle") /\ Admissible(s) /\ s \notin Grants /\ session[s] # "none"
  /\ Charged
  /\ IF ~WithinBudget(s) THEN UNCHANGED <<req, failures>>
     ELSE IF correct /\ Exchangeable(s)
     THEN req' = [req EXCEPT ![r] = [Idle EXCEPT !.pc = "issue", !.session = s]] /\ UNCHANGED failures
     ELSE Failed(s) /\ UNCHANGED req
  /\ UNCHANGED <<session, credential, issued, idempotencyVars, requesterVars, untouched>>

ExchangeIssues(r) ==
  LET s == req[r].session IN
  /\ Is(r, "issue")
  /\ \/ StillUnused(s) /\ Issue(s, "used") /\ Succeeded(s)
     \/ ~StillUnused(s) /\ Failed(s) /\ UNCHANGED <<session, credential, issued>>
     \/ UNCHANGED <<session, credential, issued, failures>>   \* the store fails
  /\ Answered(r)
  /\ UNCHANGED <<admitted, idempotencyVars, requesterVars, untouched>>

\* remote-attach, over a verified channel: the backend consumes the grant.  Its
\* answer may be lost, and it may answer a repeated call as it did the first.
AttachArrives(r, s, answered) ==
  /\ Is(r, "idle") /\ session[s] \in {"grant", "consumed"}
  /\ session' = [session EXCEPT ![s] = "consumed"]
  /\ req' = IF answered THEN [req EXCEPT ![r] = [Idle EXCEPT !.pc = "attach", !.session = s]] ELSE req
  /\ UNCHANGED <<credential, issued, failures, admitted, idempotencyVars, requesterVars, untouched>>

AttachIssues(r) ==
  LET s == req[r].session IN
  /\ Is(r, "attach")
  /\ IF NotReplayed(s) THEN Issue(s, "consumed") ELSE UNCHANGED <<session, credential, issued>>
  /\ Answered(r)
  /\ UNCHANGED <<failures, admitted, idempotencyVars, requesterVars, untouched>>

PairingStep ==
  \/ \E s \in Sessions : SessionExpires(s) \/ Revoke(s)
  \/ WindowEnds

-----------------------------------------------------------------------------
(* Keyed mutations *)

\* Bound: every submission takes a new input.
InputLeft == Cardinality({q \in Requests : req[q].op # "none" /\ req[q].input = NoInput})
               < Cardinality({x \in Inputs : journal[x] = "none"})

MutationArrives(r, s, n, op, peer) ==
  /\ Is(r, "idle") /\ arrivals < MaxArrivals
  /\ Authorized(s, RouteOf(op).scope)
  /\ peer.handshake
  /\ RouteOf(op).does = "remote" => InputLeft
  /\ req' = [req EXCEPT ![r] = [Idle EXCEPT !.pc = "touch", !.session = s, !.name = n, !.op = op]]
  /\ arrivals' = arrivals + 1
  /\ UNCHANGED <<pairingVars, idempotencyVars, requesterVars, effects>>

\* lastUsedAt has been written: the key is claimed and the handler's own scope
\* asked for, without an await between.
MutationClaims(r) ==
  LET k == Key(r)  op == req[r].op  s == req[r].session IN
  /\ Is(r, "touch")
  /\ credential' = Touched(s)
  /\ IF Answer(k, op) # "claim" THEN Answered(r) /\ UNCHANGED idempotencyVars
     ELSE IF Authorized(s, RouteOf(op).needs) THEN Claim(k, op) /\ To(r, "again")
     ELSE Answered(r) /\ UNCHANGED idempotencyVars
  /\ UNCHANGED <<session, issued, failures, admitted, requesterVars, untouched>>

\* dispatchLocalRequest's catch.
FailureSettles(r) == Release(Key(r))

\* The handler's authorize() has written lastUsedAt, or the store failed.
MutationRuns(r, ok) ==
  /\ Is(r, "again")
  /\ credential' = Touched(req[r].session)
  /\ IF ok THEN To(r, IF RouteOf(req[r].op).does = "remote" THEN "remote" ELSE "run")
           /\ UNCHANGED idempotencyVars
     ELSE Answered(r) /\ FailureSettles(r)
  /\ UNCHANGED <<session, issued, failures, admitted, requesterVars, untouched>>

\* An operation of this node: it is carried out, or fails.
LocalOperation(r, ok) ==
  /\ Is(r, "run")
  /\ IF ok THEN /\ effects' = [effects EXCEPT ![Key(r)] = @ + 1]
                /\ To(r, "settle") /\ UNCHANGED idempotencyVars
     ELSE Answered(r) /\ FailureSettles(r) /\ UNCHANGED effects
  /\ UNCHANGED <<pairingVars, requesterVars, arrivals>>

\* requestJob: its steps are RemoteRequester's.
RemoteBegins(r, x) ==
  /\ Is(r, "remote") /\ req[r].input = NoInput
  /\ Encrypt(x)
  /\ req' = [req EXCEPT ![r].input = x]
  /\ UNCHANGED <<pairingVars, idempotencyVars, untouched>>

RemoteEnds(r) ==
  LET x == req[r].input IN
  /\ Is(r, "remote") /\ x # NoInput /\ At(x, "")
  /\ IF journal[x] = "submitted" THEN To(r, "settle") /\ UNCHANGED idempotencyVars
     ELSE Answered(r) /\ FailureSettles(r)
  /\ UNCHANGED <<pairingVars, requesterVars, untouched>>

MutationSettles(r) ==
  /\ Is(r, "settle")
  /\ Complete(Key(r), req[r].op)
  /\ Answered(r)
  /\ UNCHANGED <<pairingVars, requesterVars, untouched>>

Serve(r) ==
  \/ ExchangeIssues(r) \/ AttachIssues(r) \/ MutationClaims(r)
  \/ (\E ok \in BOOLEAN : MutationRuns(r, ok) \/ LocalOperation(r, ok))
  \/ RemoteEnds(r) \/ MutationSettles(r)

RequesterStep(x) ==
  /\ \/ \E ok \in BOOLEAN : PinInput(x, ok) \/ RecordJob(x, ok) \/ UnconfirmJob(x, ok)
                              \/ ReleaseInput(x, ok) \/ RecordRelease(x, ok)
     \/ \E committed, answered \in BOOLEAN : SubmitJob(x, committed, answered)
  /\ UNCHANGED <<pairingVars, idempotencyVars, req, untouched>>

\* The user and the backend; a submission's own request is over by then.
UserStep(x) ==
  /\ \/ JobEnds(x)
     \/ /\ \A r \in Requests : req[r].input # x
        /\ \E ends, answered \in BOOLEAN : EndJob(x, ends, answered)
  /\ UNCHANGED <<pairingVars, idempotencyVars, req, untouched>>

Arrive(r) ==
  \/ \E s \in Sessions : \E b \in BOOLEAN : ExchangeArrives(r, s, b) \/ AttachArrives(r, s, b)
  \/ \E s \in Sessions, n \in Names, op \in Operations, peer \in Peers :
       MutationArrives(r, s, n, op, peer)

EntryExpires ==
  /\ \E i \in 1..MaxEntries : Expire(i)
  /\ UNCHANGED <<pairingVars, requesterVars, req, untouched>>

\* The process ends, and with it the requests, the limiter and the store of keys.
Restart ==
  /\ \E r \in Requests : ~Is(r, "idle")
  /\ req' = [r \in Requests |-> Idle]
  /\ Forget /\ RequesterRestart
  /\ failures' = [s \in Sessions |-> 0] /\ admitted' = 0
  /\ UNCHANGED <<session, credential, issued, untouched>>

Next ==
  \/ \E s \in Sessions : PairingActivated(s)
  \/ PairingStep /\ UNCHANGED <<idempotencyVars, requesterVars, req, untouched>>
  \/ \E r \in Requests : Arrive(r) \/ Serve(r) \/ (\E x \in Inputs : RemoteBegins(r, x))
  \/ \E x \in Inputs : RequesterStep(x) \/ UserStep(x)
  \/ EntryExpires \/ Restart

Spec == Init /\ [][Next]_vars

-----------------------------------------------------------------------------
(* Properties *)

\* A retried mutation is applied once: a second effect under the same key takes
\* an entry that expired, was pushed out by others, or died with the process.
AppliedOnce == \A k \in Keys : effects[k] <= 1 + lost[k]

\* A pairing session, or a grant, produces one credential, however many
\* requests present it at the same time.
OneCredential == \A s \in Sessions : issued[s] <= 1

\* A revoked credential stays revoked: an authorization that was under way
\* when it was revoked does not write the old record back.
RevokedStaysRevoked ==
  [][\A s \in Sessions : credential[s] = "revoked" => credential'[s] = "revoked"]_vars

\* The provider of an open job can read its input from this node, also when
\* the answer to the submission was lost or the node restarted.
InputsStayPinned == \A x \in Inputs : job[x] = "open" => x \in pinned

=============================================================================
