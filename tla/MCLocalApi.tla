---------------------------- MODULE MCLocalApi ----------------------------
(* LocalApi for TLC: the requests in service are interchangeable. *)
EXTENDS LocalApi, TLC

RequestSymmetry == Permutations(Requests)

=============================================================================
