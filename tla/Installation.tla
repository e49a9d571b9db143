---------------------------- MODULE Installation ----------------------------
(***************************************************************************)
(* Account-authorized installation: the grants of the backend as the node  *)
(* uses them (src/setup/installationClient.ts).  The backend is external;  *)
(* what the client relies on is that a grant is claimed once, that a       *)
(* claimed credential works from then on, and that only a confirmation     *)
(* retires the credential it replaces.                                     *)
(*                                                                         *)
(* A grant is named by a number and so is the credential it delivers.      *)
(* Every call is answered, refused, or lost: a call that is lost may have  *)
(* reached the backend, and a confirmation may still reach it later.       *)
(***************************************************************************)
EXTENDS Naturals

CONSTANTS Pasted,     \* a credential that was typed in, not granted
          NoToken,
          MaxGrants,  \* bound: installations started
          MaxFaults   \* bound: calls lost, reads and writes that fail

ASSUME GrantsAssumption == MaxGrants \in Nat /\ MaxFaults \in Nat
ASSUME TokensAssumption == Pasted # NoToken /\ {Pasted, NoToken} \cap 1..MaxGrants = {}

VARIABLES grant,      \* state of every installation
          replaces,   \* the credential each one is to replace
          signer,     \* the key each one was started with
          live,       \* credentials the backend accepts
          wire,       \* confirmations sent and not yet received
          faults

backend == <<grant, replaces, signer, live, wire>>

Grants == 1..MaxGrants

InstallationInit ==
    /\ grant = [g \in Grants |-> "unused"]
    /\ replaces = [g \in Grants |-> NoToken]
    /\ signer = [g \in Grants |-> 0]
    /\ live = {Pasted}
    /\ wire = {}
    /\ faults = 0

Fault == faults < MaxFaults /\ faults' = faults + 1

\* A call that fails before the backend takes it, or that the backend has no grant left for.
NotTaken ==
    \/ Fault
    \/ (\A g \in Grants : grant[g] # "unused") /\ UNCHANGED faults

Unused == {g \in Grants : grant[g] = "unused" /\ \A h \in 1..(g - 1) : grant[h] # "unused"}

\* startInstallation: a new grant, signed with the identity, for the credential to replace.
StartInstallation(g, key, previous) ==
    /\ g \in Unused
    /\ grant' = [grant EXCEPT ![g] = "PENDING"]
    /\ replaces' = [replaces EXCEPT ![g] = previous]
    /\ signer' = [signer EXCEPT ![g] = key]
    /\ UNCHANGED <<live, wire>>

\* claimInstallation: the credential is handed over once, to the key that asked for it.
Claimable(g, key) == grant[g] = "AUTHORIZED" /\ signer[g] = key

ClaimInstallation(g, key) ==
    /\ Claimable(g, key)
    /\ grant' = [grant EXCEPT ![g] = "DELIVERED"]
    /\ live' = live \cup {g}
    /\ UNCHANGED <<replaces, signer, wire>>

\* confirmInstallation: the request leaves the node.
ConfirmInstallation(g) ==
    /\ wire' = wire \cup {g}
    /\ UNCHANGED <<grant, replaces, signer, live>>

\* The confirmation is received: the superseded credential is retired.
BackendConfirms(g) ==
    /\ g \in wire
    /\ wire' = wire \ {g}
    /\ \/ /\ grant[g] = "DELIVERED"
          /\ grant' = [grant EXCEPT ![g] = "CONFIRMED"]
          /\ live' = live \ {replaces[g]}
       \/ /\ grant[g] # "DELIVERED"
          /\ UNCHANGED <<grant, live>>
    /\ UNCHANGED <<replaces, signer>>

\* The account holder answers, or does not in time.
OwnerAnswers(g) ==
    /\ \/ grant[g] = "PENDING" /\ \E s \in {"AUTHORIZED", "DECLINED", "EXPIRED"} : grant' = [grant EXCEPT ![g] = s]
       \/ grant[g] = "AUTHORIZED" /\ grant' = [grant EXCEPT ![g] = "EXPIRED"]
    /\ UNCHANGED <<replaces, signer, live, wire>>
=============================================================================
