---------------------------- MODULE NodeIdentity ----------------------------
(***************************************************************************)
(* The durable identity of the node (src/identity/nodeIdentity.ts): a key  *)
(* pair that is minted once, whichever of the processes that share the     *)
(* state directory comes first, and read by all of them ever after.        *)
(*                                                                         *)
(* A key is a number, the count of the pairs minted up to it.  `mint` is   *)
(* the entry a process keeps in its cache for the state directory: the     *)
(* promise of an identity, and how far the load behind it has come.        *)
(***************************************************************************)
EXTENDS Naturals

CONSTANTS Processes, \* the processes that use the state directory
          NoKey,
          MaxKeys    \* bound: key pairs minted

ASSUME KeysAssumption == MaxKeys \in Nat /\ NoKey \notin 1..MaxKeys

VARIABLES keyFile,   \* the identity file
          mint,      \* the cached load of each process
          keys       \* key pairs minted so far

idVars == <<keyFile, mint, keys>>

NotLoaded == [at |-> "none", key |-> NoKey]

IdentityInit ==
    /\ keyFile = NoKey
    /\ mint = [p \in Processes |-> NotLoaded]
    /\ keys = 0

Loaded(p) == mint[p].at = "loaded"

\* The cache after loadOrCreateNodeIdentity is called: a load that is under way or
\* over is shared.
Cached(p) ==
    IF mint[p].at = "none" THEN [mint EXCEPT ![p].at = "read"] ELSE mint

\* The file is read.  When there is none, a key pair is made and written beside it.
ReadIdentity(p) ==
    /\ mint[p].at = "read"
    /\ \/ /\ keyFile # NoKey
          /\ mint' = [mint EXCEPT ![p] = [at |-> "loaded", key |-> keyFile]]
          /\ UNCHANGED keys
       \/ /\ keyFile = NoKey /\ keys < MaxKeys
          /\ keys' = keys + 1
          /\ mint' = [mint EXCEPT ![p] = [at |-> "link", key |-> keys + 1]]
    /\ UNCHANGED keyFile

\* Fault: rename(2) instead of link(2) replaces the pair that was there.
Promote_Renames(p) ==
    /\ mint[p].at = "link"
    /\ keyFile' = mint[p].key
    /\ mint' = [mint EXCEPT ![p].at = "loaded"]
    /\ UNCHANGED keys
\* The new pair becomes the identity only where there is none: link(2) fails with
\* EEXIST, and the load then takes the pair that was first.
Promote(p) ==
    /\ mint[p].at = "link"
    /\ keyFile' = IF keyFile = NoKey THEN mint[p].key ELSE keyFile
    /\ mint' = [mint EXCEPT ![p] = [at |-> "loaded", key |-> keyFile']]
    /\ UNCHANGED keys

\* A read, a write or a link fails: the cache entry goes, and the next call loads again.
LoadFails(p) ==
    /\ mint[p].at \in {"read", "link"}
    /\ mint' = [mint EXCEPT ![p] = NotLoaded]
    /\ UNCHANGED <<keyFile, keys>>

\* A process ends, and its cache with it.
ForgetIdentity(p) == mint' = [mint EXCEPT ![p] = NotLoaded]

IdentityStep(p) == ReadIdentity(p) \/ Promote(p)
=============================================================================
