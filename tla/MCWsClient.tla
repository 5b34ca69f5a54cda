----------------------------- MODULE MCWsClient -----------------------------
(* Model checking of WsClient: the first call may be cancelled, and the    *)
(* first recovery it causes may time out.                                  *)
EXTENDS WsClient

MCExpiring == {Call(1), OpenOf(<<1, 0>>)}

=============================================================================
