---------------------------- MODULE MCBlacklist ----------------------------
(* Model checking of Blacklist: one connection at a time of any address,   *)
(* and a second one that always comes from the first address.              *)
EXTENDS Blacklist, TLC

CONSTANTS a1, a2, a3, c1, c2

MCAddrs == {a1, a2, a3}
MCConns == {c1, c2}
MCFrom == c1 :> MCAddrs @@ c2 :> {a1}

=============================================================================
