--------------------------- MODULE Connections ---------------------------
(* What clients are promised: a connection is accepted once, answered at    *)
(* most once, and closed by the server only after its answer or after its   *)
(* client reset it, unless the server is being stopped.  HttpServer.tla     *)
(* and SimHttp.tla implement it.                                            *)
EXTENDS Naturals

CONSTANT Conns

VARIABLES
    phase,      \* how far each connection has come
    stopping    \* a reactor has begun to reset its connections

vars == <<phase, stopping>>

Init ==
    /\ phase = [c \in Conns |-> "new"]
    /\ stopping = FALSE

Move(c, from, to) ==
    /\ phase[c] = from
    /\ phase' = [phase EXCEPT ![c] = to]
    /\ UNCHANGED stopping

Accept(c) == Move(c, "new", "open")
Answer(c) == Move(c, "open", "answered")
ClientReset(c) == Move(c, "open", "reset") \/ Move(c, "answered", "reset")
Close(c) == Move(c, "answered", "closed") \/ Move(c, "reset", "closed")

(* Stopping resets any number of open connections, a few at a time. *)
Reset ==
    /\ stopping' = TRUE
    /\ phase' \in [Conns -> {"new", "open", "answered", "reset", "closed"}]
    /\ \A c \in Conns :
         phase'[c] # phase[c] => phase[c] # "new" /\ phase'[c] = "closed"

Next ==
    \/ \E c \in Conns : Accept(c) \/ Answer(c) \/ ClientReset(c) \/ Close(c)
    \/ Reset

Spec == Init /\ [][Next]_vars
=============================================================================
