------------------------------ MODULE Pairing ------------------------------
(***************************************************************************)
(* Pairing of devices (src/localApi/pairingService.ts): one-time sessions, *)
(* the credentials they are exchanged for, and the limits on attempts.     *)
(*                                                                         *)
(* Sessions and credentials are durable.  Every change to them is one      *)
(* LocalStore.update, whose mutator sees the latest state; every check     *)
(* before it read a snapshot that may be stale by then.                    *)
(***************************************************************************)
EXTENDS Naturals, FiniteSets

CONSTANTS
  Sessions,      \* ids of pairing sessions and of remote-attach grants
  Grants,        \* the ids that are grants, given by the backend
  MaxAttempts,   \* maxAttempts: failures of one client in a window
  MaxGlobal      \* maxGlobalAttempts: attempts of all clients in a window

ASSUME GlobalAssumption == MaxGlobal \in Nat

VARIABLES
  session,     \* pairingSessions, and the grants at the backend
  credential,  \* localCredentials: the one issued for each session
  issued,      \* how many credentials each session has produced
  failures,    \* the failed attempts of each session's client, this window
  admitted     \* the attempts admitted in this window

pairingVars == <<session, credential, issued, failures, admitted>>

PairingTypeOK ==
  /\ session \in [Sessions -> {"none", "open", "expired", "used", "gone", "grant", "consumed"}]
  /\ credential \in [Sessions -> {"none", "live", "revoked"}]
  /\ issued \in [Sessions -> Nat]
  /\ failures \in [Sessions -> Nat]
  /\ admitted \in 0..MaxGlobal

PairingInit ==
  /\ session = [s \in Sessions |-> IF s \in Grants THEN "grant" ELSE "none"]
  /\ credential = [s \in Sessions |-> "none"]
  /\ issued = [s \in Sessions |-> 0]
  /\ failures = [s \in Sessions |-> 0]
  /\ admitted = 0

-----------------------------------------------------------------------------
\* createSession(): sessions that have expired or been used are deleted.
CreateSession(s) ==
  /\ s \notin Grants /\ session[s] = "none"
  /\ session' = [t \in Sessions |-> IF t = s THEN "open"
                                    ELSE IF session[t] \in {"expired", "used"} THEN "gone"
                                    ELSE session[t]]
  /\ UNCHANGED <<credential, issued, failures, admitted>>

SessionExpires(s) ==
  /\ session[s] = "open"
  /\ session' = [session EXCEPT ![s] = "expired"]
  /\ UNCHANGED <<credential, issued, failures, admitted>>

\* PairingAttemptLimiter: the shared allowance is charged first.
Admissible(s) == admitted < MaxGlobal
WithinBudget(s) == failures[s] < MaxAttempts
Charged == admitted' = admitted + 1
Failed(s) == failures' = [failures EXCEPT ![s] = @ + 1]
Succeeded(s) == failures' = [failures EXCEPT ![s] = 0]

WindowEnds ==
  /\ admitted > 0
  /\ admitted' = 0
  /\ failures' = [s \in Sessions |-> 0]
  /\ UNCHANGED <<session, credential, issued>>

\* exchange(): what the snapshot must show.
Exchangeable(s) == session[s] = "open"

\* Fault: the session is not looked at again in the update.
StillUnused_Assumed(s) == TRUE

\* The update looks again: another exchange, or createSession, came first.
StillUnused(s) == session[s] \in {"open", "expired"}

Issue(s, after) ==
  /\ session' = [session EXCEPT ![s] = after]
  /\ credential' = [credential EXCEPT ![s] = "live"]
  /\ issued' = [issued EXCEPT ![s] = @ + 1]

\* issueRemoteCredential(): a grant whose credential exists is a replay.
NotReplayed(s) == credential[s] = "none"

Revoke(s) ==
  /\ credential[s] = "live"
  /\ credential' = [credential EXCEPT ![s] = "revoked"]
  /\ UNCHANGED <<session, issued, failures, admitted>>

\* authorize(): the snapshot's credential is live; issueCredential gives every
\* credential the scopes of LOCAL_SCOPES.
LOCAL_SCOPES == {"content:read", "captures:create", "captures:read", "jobs:create",
                 "jobs:read", "spatial:read", "spatial:publish-request", "compute:manage"}
Authorized(s, scope) == credential[s] = "live" /\ scope \in LOCAL_SCOPES

\* Fault: the credential that the snapshot showed is written back.
Touched_FromSnapshot(s) == [credential EXCEPT ![s] = "live"]

\* lastUsedAt is set on the credential that the update finds.
Touched(s) == credential

=============================================================================
