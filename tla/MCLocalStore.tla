---------------------------- MODULE MCLocalStore ----------------------------
(***************************************************************************)
(* A small instance of LocalStore: the processes of MCRuntimeLease and two *)
(* updates of the state.                                                   *)
(***************************************************************************)
EXTENDS LocalStore, MCRuntimeLease

CONSTANTS u1, u2
=============================================================================
