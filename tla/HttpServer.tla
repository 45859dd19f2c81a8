--------------------------- MODULE HttpServer ---------------------------
(* The server of src/httpMPtest.cpp: the main thread accepts connections,   *)
(* puts a handler for each on the wait queue and sends SIGUSR1 to the       *)
(* signal thread; the reactor threads, started by the thread pool, take the *)
(* handlers from the queue when they see register_flag; SIGINT makes them   *)
(* reset their connections, and the last of them ends the process.          *)
EXTENDS Multiplexer

CONSTANTS
    BacklogQueue,       \* BACKLOG_Queue, the bound of the wait queue
    Resetting,          \* the connections whose client may reset them
    MaxInterrupts       \* bounds how often SIGINT arrives

ASSUME ServerAssumption ==
    /\ Reactors # {} /\ IsFiniteSet(Reactors)
    /\ Reactors = 0..(Cardinality(Reactors) - 1)
    /\ BacklogQueue \in Nat /\ MaxInterrupts \in Nat
    /\ Resetting \subseteq Conns

VARIABLES
    mpc,                \* where the main thread is
    accepted,           \* the connection it is busy with
    reactor_select,
    interrupts          \* how often SIGINT has arrived

mainVars == <<mpc, accepted, reactor_select, interrupts>>
vars == <<kernelVars, signalVars, reactorVars, mainVars>>

TypeOK ==
    /\ KernelTypeOK /\ SignalTypeOK /\ ReactorTypeOK
    /\ mpc \in {"accept", "push", "kill"}
    /\ accepted \in Conns \cup {NoConn}
    /\ reactor_select \in Reactors
    /\ interrupts \in 0..MaxInterrupts

Init ==
    /\ KernelInit /\ SignalInit /\ ReactorInit
    /\ mpc = "accept"
    /\ accepted = NoConn
    /\ reactor_select = 0
    /\ interrupts = 0

-----------------------------------------------------------------------------
(* start_server() *)

(* Mutant: the turn does not wrap around. *)
Mut_NextReactor == reactor_select + 1

NextReactor == (reactor_select + 1) % Cardinality(Reactors)

(* accept() succeeds: new TcpSocket, new EpollEventHandler for the reactor   *)
(* whose turn it is.                                                         *)
Accept(c) ==
    /\ mpc = "accept"
    /\ peer[c] = "away"
    /\ Install(c)
    /\ handler' = [handler EXCEPT ![c] =
           [fd |-> Lowest(FreeFds), home |-> NextReactor,
            connected |-> TRUE, live |-> TRUE]]
    /\ reactor_select' = NextReactor
    /\ accepted' = c
    /\ mpc' = "push"
    /\ UNCHANGED <<signalVars, queue, queueMtx, fds, rdy, rpc, cur, ctl, val,
                   answers, back, interrupts>>

(* accept() fails: no descriptor is left.  The turn is lost. *)
AcceptFails ==
    /\ mpc = "accept"
    /\ FreeFds = {}
    /\ \E c \in Conns : peer[c] = "away"
    /\ reactor_select' = NextReactor
    /\ UNCHANGED <<osVars, reactorVars, mpc, accepted, interrupts>>

(* enqueue_and_wait(): a full queue discards the handler and leaves the      *)
(* connection open.                                                          *)
Enqueue ==
    /\ mpc = "push" /\ queueMtx = Free
    /\ IF Len(queue) = BacklogQueue
         THEN mpc' = "accept" /\ UNCHANGED queue
         ELSE mpc' = "kill" /\ queue' = Append(queue, accepted)
    /\ accepted' = NoConn
    /\ UNCHANGED <<osVars, queueMtx, handler, fds, rdy, rpc, cur, ctl, val,
                   answers, back, reactor_select, interrupts>>

(* pthread_kill(signal_handle_thread, SIGUSR1) *)
Kill ==
    /\ mpc = "kill"
    /\ pending' = pending \cup {"USR1"}
    /\ mpc' = "accept"
    /\ UNCHANGED <<kernelVars, spc, sval, register_flag, quit_wait_flag, process,
                   reactorVars, accepted, reactor_select, interrupts>>

-----------------------------------------------------------------------------
(* The world outside *)

(* SIGINT to the process: whichever thread takes it, sig_tran() or sigwait   *)
(* brings it to the signal thread.  When the main thread takes it in         *)
(* accept(), which is not restarted, reactor_select moves on; when a reactor *)
(* takes it in pause(), quit_and_rst() returns to its caller.                *)
Interrupt ==
    /\ interrupts < MaxInterrupts
    /\ interrupts' = interrupts + 1
    /\ pending' = pending \cup {"INT"}
    /\ \/ UNCHANGED <<reactor_select, rpc>>
       \/ mpc = "accept" /\ reactor_select' = NextReactor /\ UNCHANGED rpc
       \/ /\ \E r \in Reactors : At(r, "paused") /\ Goto(r, back[r])
          /\ UNCHANGED reactor_select
    /\ UNCHANGED <<kernelVars, spc, sval, register_flag, quit_wait_flag, process,
                   queue, queueMtx, handler, fds, rdy, cur, ctl, val, answers, back,
                   mpc, accepted>>

ClientResets(c) ==
    /\ c \in Resetting
    /\ \E f \in Fds : files[f] = c
    /\ PeerReset(c)
    /\ UNCHANGED <<signalVars, reactorVars, mainVars>>

-----------------------------------------------------------------------------
Running == process = "running"

SignalStep == Running /\ SignalThread /\ UNCHANGED <<kernelVars, reactorVars, mainVars>>
ReactorStep(r) == Running /\ Reactor(r) /\ UNCHANGED mainVars
MainStep == Running /\ (Enqueue \/ Kill)
Environment ==
    /\ Running
    /\ \/ \E c \in Conns : Accept(c) \/ ClientResets(c)
       \/ AcceptFails
       \/ Interrupt

Next ==
    \/ SignalStep
    \/ \E r \in Reactors : ReactorStep(r)
    \/ MainStep
    \/ Environment

Spec == Init /\ [][Next]_vars

(* The scheduler runs every thread that can run, and a mutex that is         *)
(* released again and again is not refused to a waiter for ever; clients     *)
(* owe nothing.                                                              *)
Fairness ==
    /\ WF_vars(SignalStep)
    /\ \A r \in Reactors :
         /\ WF_vars(ReactorStep(r))
         /\ SF_vars(Running /\ LockQueue(r) /\ UNCHANGED mainVars)
    /\ WF_vars(MainStep)
    /\ SF_vars(Running /\ Enqueue)

FairSpec == Spec /\ Fairness

-----------------------------------------------------------------------------
(* Properties *)

(* A connection is the business of one thread at a time: no two reactors     *)
(* register, run or remove the same handler.                                 *)
OneReactorPerHandler ==
    \A r, s \in Reactors : cur[r] # NoConn /\ cur[r] = cur[s] => r = s

(* The process exits only after every reactor has reset its connections and  *)
(* left the map alone.  It takes that SIGINT arrives once: a second one can  *)
(* wake a reactor from pause(), which then counts itself a second time.      *)
ExitAfterReset == process = "exited" => \A r \in Reactors : rpc[r] = "paused"

(* The connection as its client sees it. *)
connPhase == [c \in Conns |->
    IF \E f \in Fds : files[f] = c
      THEN IF peer[c] = "reset" THEN "reset"
           ELSE IF \E h \in Conns : <<h, c>> \in answers THEN "answered" ELSE "open"
      ELSE IF peer[c] = "away" THEN "new" ELSE "closed"]
isStopping == \E r \in Reactors : rpc[r] \in {"quitLoad", "quitStore", "paused"}

Promise == INSTANCE Connections WITH phase <- connPhase, stopping <- isStopping

ImplementsConnections == Promise!Spec

(* A handler answers on its own connection, although the descriptor it       *)
(* writes to is a number that close() and accept() hand on.  Once a reactor  *)
(* has reset its connections this is lost: it also closes the descriptors of *)
(* entries remove_handler left behind, which other connections use by then.  *)
AnswersItsConnection == (\E p \in answers : p[1] # p[2]) => isStopping

(* A connection is in the interest list of one epoll instance at most: the    *)
(* number that is registered refers to the connection of the handler.  That   *)
(* is lost with AnswersItsConnection.                                         *)
OneEpollPerConnection ==
    ~isStopping =>
        \A c \in Conns, r, s \in Reactors :
            interest[r][c] # "none" /\ interest[s][c] # "none" => r = s

(* A connection is answered at most once, although its handler stays in the  *)
(* map when remove_handler() is refused; lost, like AnswersItsConnection,    *)
(* once a reactor has reset its connections.                                 *)
AnsweredOnce ==
    ~isStopping =>
        \A r \in Reactors, h \in Conns :
            At(r, "write") /\ handler[cur[r]].connected =>
                <<h, files[FdOf(r)]>> \notin answers

(* A registered connection does not wait for ever: it is answered or reset,  *)
(* or loses its registration, or the process is gone.                        *)
RegisteredIsServed ==
    \A c \in Conns, r \in Reactors :
        interest[r][c] = "out" ~>
            (interest[r][c] # "out" \/ peer[c] = "reset" \/ ~Running)

(* Once quit_wait_flag is set every reactor resets its connections, or the   *)
(* process dies first.                                                       *)
ReactorsQuit ==
    quit_wait_flag # 0 ~> ((\A r \in Reactors : rpc[r] = "paused") \/ ~Running)

-----------------------------------------------------------------------------
(* What the comments of the code say of it. *)

(* EventManager.h:216, of _fds: connections are registered and removed by    *)
(* their descriptor.  So a number whose earlier handlers remove_handler()    *)
(* has all removed and deleted can be registered like a new one: epoll_ctl   *)
(* is not asked to modify what is not there.                                 *)
RegisteredAfterRemoval ==
    \A r \in Reactors :
        At(r, "regCtl") /\ (\A h \in Conns \ {cur[r]} :
                                handler[h].fd = FdOf(r) => ~handler[h].live)
            => ~CtlFails(r, ctl[r].op, files[FdOf(r)])
=============================================================================
