----------------------------- MODULE Kernel -----------------------------
(* What the server uses of the operating system: the descriptor table, the  *)
(* state of the peers, and one epoll instance per reactor.  It stands for   *)
(* code outside the repository and is written from the calls the server     *)
(* makes: accept, close, epoll_ctl, epoll_wait.                             *)
EXTENDS Naturals, FiniteSets

CONSTANTS
    Conns,          \* the connections clients open, one element per connection
    NoConn,         \* what a free descriptor refers to
    Fds,            \* descriptor numbers left for connections (RLIMIT_NOFILE)
    Epolls          \* the epoll instances

ASSUME KernelAssumption ==
    /\ NoConn \notin Conns
    /\ Fds \subseteq Nat \ {0} /\ IsFiniteSet(Fds)

VARIABLES
    files,          \* the connection each descriptor refers to
    peer,           \* what the client at the other end has done
    interest        \* per epoll instance, what it reports about a connection

kernelVars == <<files, peer, interest>>

(* "out": EPOLLOUT, and errors; "mute": an event mask of 0, errors only *)
Interests == {"none", "out", "mute"}
CtlOps == {"add", "mod", "del"}

KernelTypeOK ==
    /\ files \in [Fds -> Conns \cup {NoConn}]
    /\ peer \in [Conns -> {"away", "up", "reset"}]
    /\ interest \in [Epolls -> [Conns -> Interests]]

KernelInit ==
    /\ files = [f \in Fds |-> NoConn]
    /\ peer = [c \in Conns |-> "away"]
    /\ interest = [e \in Epolls |-> [c \in Conns |-> "none"]]

Lowest(S) == CHOOSE f \in S : \A g \in S : f <= g

FreeFds == {f \in Fds : files[f] = NoConn}

(* accept() installs the connection at the lowest free descriptor. *)
Install(c) ==
    /\ FreeFds # {}
    /\ files' = [files EXCEPT ![Lowest(FreeFds)] = c]
    /\ peer' = [peer EXCEPT ![c] = "up"]
    /\ UNCHANGED interest

(* close() of every descriptor in F.  An epoll instance forgets a closed     *)
(* socket by itself; a descriptor that is not open gives EBADF.              *)
CloseFds(F) ==
    /\ files' = [f \in Fds |-> IF f \in F THEN NoConn ELSE files[f]]
    /\ interest' = [e \in Epolls |-> [c \in Conns |->
           IF \E f \in F : files[f] = c THEN "none" ELSE interest[e][c]]]
    /\ UNCHANGED peer

(* epoll_ctl() fails with EBADF, EEXIST or ENOENT and then changes nothing. *)
CtlFails(e, op, c) ==
    \/ c = NoConn
    \/ op = "add" /\ interest[e][c] # "none"
    \/ op \in {"mod", "del"} /\ interest[e][c] = "none"

EpollCtl(e, op, f, mask) ==
    /\ interest' = IF CtlFails(e, op, files[f]) THEN interest
                   ELSE [interest EXCEPT ![e][files[f]] =
                           IF op = "del" THEN "none" ELSE mask]
    /\ UNCHANGED <<files, peer>>

(* epoll_wait() is level-triggered: a socket that was reset is reported as  *)
(* an error, any other as writable, because the server answers at most once *)
(* and its send buffer is empty.                                            *)
EpollReady(e) ==
    {<<f, "err">> : f \in {g \in Fds : /\ files[g] # NoConn
                                       /\ interest[e][files[g]] # "none"
                                       /\ peer[files[g]] = "reset"}}
    \cup
    {<<f, "out">> : f \in {g \in Fds : /\ files[g] # NoConn
                                       /\ interest[e][files[g]] = "out"
                                       /\ peer[files[g]] = "up"}}

(* The client resets an established connection. *)
PeerReset(c) ==
    /\ peer[c] = "up"
    /\ peer' = [peer EXCEPT ![c] = "reset"]
    /\ UNCHANGED <<files, interest>>
=============================================================================
