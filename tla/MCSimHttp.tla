--------------------------- MODULE MCSimHttp ---------------------------
(* Model values for SimHttp. *)
EXTENDS SimHttp

CONSTANTS c1, c2

TwoConns == {c1, c2}
OneConn == {c1}
Nobody == {}
Nothing == {}
=============================================================================
