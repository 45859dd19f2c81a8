-------------------------- MODULE MCHttpServer --------------------------
(* Model values for HttpServer.  The two reactors are those of _count=2.    *)
EXTENDS HttpServer

CONSTANTS c1, c2, c3

TwoReactors == {0, 1}
OneConn == {c1}
TwoConns == {c1, c2}
ThreeConns == {c1, c2, c3}
OneFd == {4}
TwoFds == {4, 5}
NoConns == {}

(* Sound where no liveness is checked and Resetting is all or none. *)
Symmetry == Permutations(Conns)
=============================================================================
