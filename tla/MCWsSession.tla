---------------------------- MODULE MCWsSession ----------------------------
(* Model checking of WsSession: requests, ids and evolvers are interchangeable.      *)
EXTENDS WsSession, TLC

Symmetry == Permutations(Reqs) \cup Permutations(Ids) \cup Permutations(Evolvers)

=============================================================================
