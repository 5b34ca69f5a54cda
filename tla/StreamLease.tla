---------------------------- MODULE StreamLease ----------------------------
(***************************************************************************)
(* What an HTTP client is promised about its stream (HRANA_3_SPEC, "Hrana  *)
(* over HTTP"), with the baton store, its locks and its sweep left out: a  *)
(* stream is in the hands of exactly one request, or parked under exactly  *)
(* one baton that one later request may redeem, or gone.  Only a parked    *)
(* stream may expire; a stream a request holds is given up by that request *)
(* alone.                                                                  *)
(***************************************************************************)
CONSTANTS Requests, None

VARIABLE lease      \* stream -> who has it, and how

Fresh == [how |-> "fresh", by |-> None]
Released == [how |-> "released", by |-> None]
Expired == [how |-> "expired", by |-> None]
Held(r) == [how |-> "held", by |-> r]
Parked(b) == [how |-> "parked", by |-> b]

Init == lease = [s \in Requests |-> Fresh]

\* A request without a baton is given a stream of its own.
Grant(s) ==
    /\ lease[s] = Fresh
    /\ lease' = [lease EXCEPT ![s] = Held(s)]

\* The answer carries a baton named after the request.
Park(s, r) ==
    /\ lease[s] = Held(r)
    /\ lease' = [lease EXCEPT ![s] = Parked(r)]

\* Another request redeems baton b.
Redeem(s, b, r) ==
    /\ lease[s] = Parked(b)
    /\ r # b
    /\ \A t \in Requests : lease[t] # Held(r)
    /\ lease' = [lease EXCEPT ![s] = Held(r)]

\* The request that holds the stream closes it.
Release(s, r) ==
    /\ lease[s] = Held(r)
    /\ lease' = [lease EXCEPT ![s] = Released]

\* Nobody came back for it in time.
Expire(s, b) ==
    /\ lease[s] = Parked(b)
    /\ lease' = [lease EXCEPT ![s] = Expired]

Next ==
    \E s \in Requests :
        \/ Grant(s)
        \/ \E r \in Requests : Park(s, r) \/ Release(s, r) \/ Expire(s, r)
        \/ \E b, r \in Requests : Redeem(s, b, r)

Spec == Init /\ [][Next]_lease

=============================================================================
