--------------------------- MODULE Multiplexer ---------------------------
(* The reactor threads of src/ztHttp/ztHttp/EventManager.cpp: EMTask::run   *)
(* over one Reactor, which delegates to its EpollMultiplexer, and the       *)
(* EpollEventHandlers they call back.  Each reactor owns a map _fds from    *)
(* descriptors to handlers, but a handler is removed from the map of the    *)
(* reactor it was created for (_p_reactor), by the thread that ran it.      *)
(*                                                                          *)
(* A critical section of _mtx is one step: everything in it is on the map.  *)
(* wait_queue_mtx is held across several steps and is a variable.           *)
EXTENDS Kernel, SignalPlane, SequencesExt

CONSTANTS
    Reactors,       \* the reactors, each with the thread that runs it
    Free,           \* the owner of an unlocked mutex
    Absent,         \* no entry in _fds
    Null            \* an entry (0, nullptr), as operator[] inserts it

ASSUME MultiplexerAssumption ==
    /\ Epolls = Reactors
    /\ Free \notin Reactors
    /\ {Absent, Null} \cap Conns = {} /\ Absent # Null

VARIABLES
    queue,          \* *p_wait_queue: connections to register, newest last
    queueMtx,       \* wait_queue_mtx
    handler,        \* the EpollEventHandler of each accepted connection
    fds,            \* _fds of each reactor
    rdy,            \* the part of rdy handle_events() has yet to go through
    rpc,            \* where each reactor thread is
    cur,            \* the handler it registers, runs or removes
    ctl,            \* the arguments of its epoll_ctl
    val,            \* the register of its --register_flag, --quit_wait_flag
    answers,        \* <<h, c>>: handler h wrote an answer to connection c
    back            \* where quit_and_rst() was called from

reactorVars == <<queue, queueMtx, handler, fds, rdy, rpc, cur, ctl, val, answers, back>>
osVars == <<kernelVars, signalVars>>

RegisterPCs == {"reg", "regRead", "regCtl", "regPop", "regDec"}
RemovePCs == {"rm", "rmScan", "rmErase", "rmRead", "rmCtl"}
HandlerPCs == {"write", "close"} \cup RemovePCs
QuitPCs == {"quit", "quitLoad", "quitStore", "paused"}
ReactorPCs == {"select", "epoll", "regTest", "regLock", "handle", "next"}
                \cup RegisterPCs \cup HandlerPCs \cup QuitPCs

NoHandler == [fd |-> 0, home |-> Free, connected |-> FALSE, live |-> FALSE]
NoCtl == [op |-> "add", mask |-> "none"]

ReactorTypeOK ==
    /\ queue \in Seq(Conns)
    /\ queueMtx \in Reactors \cup {Free}
    /\ handler \in [Conns -> [fd : Fds \cup {0}, home : Reactors \cup {Free},
                              connected : BOOLEAN, live : BOOLEAN]]
    /\ fds \in [Reactors -> [Fds -> Conns \cup {Absent, Null}]]
    /\ rdy \in [Reactors -> SUBSET (Fds \X {"out", "err"})]
    /\ rpc \in [Reactors -> ReactorPCs]
    /\ cur \in [Reactors -> Conns \cup {NoConn}]
    /\ ctl \in [Reactors -> [op : CtlOps, mask : Interests]]
    /\ val \in [Reactors -> Int]
    /\ answers \subseteq Conns \X Conns
    /\ back \in [Reactors -> {"epoll", "next"}]

ReactorInit ==
    /\ queue = <<>>
    /\ queueMtx = Free
    /\ handler = [c \in Conns |-> NoHandler]
    /\ fds = [r \in Reactors |-> [f \in Fds |-> Absent]]
    /\ rdy = [r \in Reactors |-> {}]
    /\ rpc = [r \in Reactors |-> "select"]
    /\ cur = [r \in Reactors |-> NoConn]
    /\ ctl = [r \in Reactors |-> NoCtl]
    /\ val = [r \in Reactors |-> 0]
    /\ answers = {}
    /\ back = [r \in Reactors |-> "epoll"]

At(r, pc) == rpc[r] = pc
Goto(r, pc) == rpc' = [rpc EXCEPT ![r] = pc]
FdOf(r) == handler[cur[r]].fd
HomeOf(r) == handler[cur[r]].home
Put(m, f, e) == fds' = [fds EXCEPT ![m][f] = e]

-----------------------------------------------------------------------------
(* select() *)

(* Mutant: only the count SIGINT sets makes a reactor quit. *)
Mut_QuitSet == quit_wait_flag = 2

QuitSet == quit_wait_flag # 0

(* if(quit_wait_flag) at the top of select() and of handle_events() *)
TestQuitAt(r, pc, next) ==
    /\ At(r, pc)
    /\ Goto(r, IF QuitSet THEN "quit" ELSE next)
    /\ back' = IF QuitSet THEN [back EXCEPT ![r] = next] ELSE back

TestQuit(r) ==
    /\ TestQuitAt(r, "select", "epoll") \/ TestQuitAt(r, "handle", "next")
    /\ UNCHANGED <<osVars, queue, queueMtx, handler, fds, rdy, cur, ctl, val, answers>>

(* epoll_wait, and the copy of what it returns into rdy *)
EpollWait(r) ==
    /\ At(r, "epoll")
    /\ rdy' = [rdy EXCEPT ![r] = EpollReady(r)]
    /\ Goto(r, "regTest")
    /\ UNCHANGED <<osVars, queue, queueMtx, handler, fds, cur, ctl, val, answers, back>>

-----------------------------------------------------------------------------
(* EMTask::registerEvents() and EpollMultiplexer::register_handler() *)

TestRegister(r) ==
    /\ At(r, "regTest")
    /\ Goto(r, IF register_flag # 0 THEN "regLock" ELSE "handle")
    /\ UNCHANGED <<osVars, queue, queueMtx, handler, fds, rdy, cur, ctl, val, answers, back>>

(* Mutant: the reactor does not wait for the owner of the mutex. *)
Mut_LockQueue(r) ==
    /\ At(r, "regLock")
    /\ queueMtx' = r
    /\ Goto(r, "reg")
    /\ UNCHANGED <<osVars, queue, handler, fds, rdy, cur, ctl, val, answers, back>>

LockQueue(r) ==
    /\ At(r, "regLock")
    /\ queueMtx = Free
    /\ queueMtx' = r
    /\ Goto(r, "reg")
    /\ UNCHANGED <<osVars, queue, handler, fds, rdy, cur, ctl, val, answers, back>>

(* Mutant: the mutex is not released when the queue is empty. *)
Mut_UnlockQueue(r) ==
    /\ At(r, "reg")
    /\ queue = <<>>
    /\ Goto(r, "handle")
    /\ UNCHANGED <<osVars, queue, queueMtx, handler, fds, rdy, cur, ctl, val, answers, back>>

UnlockQueue(r) ==
    /\ At(r, "reg")
    /\ queue = <<>>
    /\ queueMtx' = Free
    /\ Goto(r, "handle")
    /\ UNCHANGED <<osVars, queue, handler, fds, rdy, cur, ctl, val, answers, back>>

(* The newest handler of the queue goes into _fds; whether its descriptor    *)
(* was there decides between EPOLL_CTL_ADD and EPOLL_CTL_MOD.                *)
RegisterHandler(r) ==
    /\ At(r, "reg")
    /\ queue # <<>>
    /\ LET c == Last(queue)
           f == handler[c].fd
       IN  /\ cur' = [cur EXCEPT ![r] = c]
           /\ ctl' = [ctl EXCEPT ![r].op =
                        IF fds[r][f] = Absent THEN "add" ELSE "mod"]
           /\ Put(r, f, c)
    /\ Goto(r, "regRead")
    /\ UNCHANGED <<osVars, queue, queueMtx, handler, rdy, val, answers, back>>

(* pop_back, then the load of --register_flag ... *)
RegisterPop(r) ==
    /\ At(r, "regPop")
    /\ queue' = Front(queue)
    /\ cur' = [cur EXCEPT ![r] = NoConn]
    /\ val' = [val EXCEPT ![r] = register_flag]
    /\ Goto(r, "regDec")
    /\ UNCHANGED <<osVars, queueMtx, handler, fds, rdy, ctl, answers, back>>

(* ... and its store *)
RegisterDec(r) ==
    /\ At(r, "regDec")
    /\ register_flag' = val[r] - 1
    /\ val' = [val EXCEPT ![r] = 0]
    /\ Goto(r, "reg")
    /\ UNCHANGED <<kernelVars, pending, spc, sval, quit_wait_flag, process,
                   queue, queueMtx, handler, fds, rdy, cur, ctl, answers, back>>

-----------------------------------------------------------------------------
(* epollUpdate(), called by register_handler and remove_handler *)

(* ev.events = _fds[fd].first: operator[] inserts (0, nullptr) when the      *)
(* descriptor is not in the map, as after the erase of remove_handler.       *)
Entry(m, f) == IF fds[m][f] = Absent THEN Null ELSE fds[m][f]

ReadEntry(r, m, next) ==
    LET e == Entry(m, FdOf(r)) IN
    /\ Put(m, FdOf(r), e)
    /\ ctl' = [ctl EXCEPT ![r].mask = IF e = Null THEN "mute" ELSE "out"]
    /\ Goto(r, next)

UpdateRead(r) ==
    /\ \/ At(r, "regRead") /\ ReadEntry(r, r, "regCtl")
       \/ At(r, "rmRead") /\ ReadEntry(r, HomeOf(r), "rmCtl")
    /\ UNCHANGED <<osVars, queue, queueMtx, handler, rdy, cur, val, answers, back>>

(* epoll_ctl of register_handler *)
RegisterCtl(r) ==
    /\ At(r, "regCtl")
    /\ EpollCtl(r, ctl[r].op, FdOf(r), ctl[r].mask)
    /\ ctl' = [ctl EXCEPT ![r] = NoCtl]
    /\ Goto(r, "regPop")
    /\ UNCHANGED <<signalVars, queue, queueMtx, handler, fds, rdy, cur, val, answers, back>>

(* Mutant: the deleted handler closes its descriptor again. *)
Mut_RemoveCtl(r) ==
    /\ At(r, "rmCtl")
    /\ CloseFds({FdOf(r)})
    /\ handler' = [handler EXCEPT ![cur[r]].live = FALSE]
    /\ ctl' = [ctl EXCEPT ![r] = NoCtl]
    /\ cur' = [cur EXCEPT ![r] = NoConn]
    /\ Goto(r, "next")
    /\ UNCHANGED <<signalVars, queue, queueMtx, fds, rdy, val, answers, back>>

(* epoll_ctl of remove_handler, on the epoll instance of the handler's        *)
(* reactor; then delete p_handler                                            *)
RemoveCtl(r) ==
    /\ At(r, "rmCtl")
    /\ EpollCtl(HomeOf(r), "del", FdOf(r), ctl[r].mask)
    /\ handler' = [handler EXCEPT ![cur[r]].live = FALSE]
    /\ ctl' = [ctl EXCEPT ![r] = NoCtl]
    /\ cur' = [cur EXCEPT ![r] = NoConn]
    /\ Goto(r, "next")
    /\ UNCHANGED <<signalVars, queue, queueMtx, fds, rdy, val, answers, back>>

-----------------------------------------------------------------------------
(* EpollMultiplexer::handle_events() and EpollEventHandler::handle_event() *)

(* A descriptor that is not in the map unlocks twice and follows end(), a    *)
(* null handler or a deleted one is written to: the process dies.            *)
Dangling(e) == e \in {Absent, Null} \/ ~handler[e].live

NextReady(r) ==
    /\ At(r, "next") /\ rdy[r] # {}
    /\ \E p \in rdy[r] :
         /\ p[1] = Lowest({q[1] : q \in rdy[r]})
         /\ rdy' = [rdy EXCEPT ![r] = @ \ {p}]
         /\ LET e == fds[r][p[1]] IN
            IF Dangling(e)
              THEN process' = "crashed" /\ UNCHANGED <<rpc, cur>>
              ELSE /\ cur' = [cur EXCEPT ![r] = e]
                   /\ Goto(r, IF p[2] = "err" THEN "rm" ELSE "write")
                   /\ UNCHANGED process
    /\ UNCHANGED <<kernelVars, pending, spc, sval, register_flag, quit_wait_flag,
                   queue, queueMtx, handler, fds, ctl, val, answers, back>>

EndOfReady(r) ==
    /\ At(r, "next") /\ rdy[r] = {}
    /\ Goto(r, "select")
    /\ UNCHANGED <<osVars, queue, queueMtx, handler, fds, rdy, cur, ctl, val, answers, back>>

(* Mutant: the handler is removed but its socket is not closed. *)
Mut_WriteOnly(r) ==
    /\ At(r, "write")
    /\ answers' = answers \cup {<<cur[r], c>> : c \in {files[FdOf(r)]} \ {NoConn}}
    /\ Goto(r, "rm")
    /\ UNCHANGED <<osVars, queue, queueMtx, handler, fds, rdy, cur, ctl, val, back>>

(* Mutant: the connection is closed without its answer. *)
Mut_CloseUnanswered(r) ==
    /\ At(r, "write")
    /\ Goto(r, IF handler[cur[r]].connected THEN "close" ELSE "rm")
    /\ UNCHANGED <<osVars, queue, queueMtx, handler, fds, rdy, cur, ctl, val, answers, back>>

(* handle_write(): TcpSocket::write() answers on the descriptor, whatever    *)
(* it refers to by now, and returns -1 only on a socket it closed itself.    *)
HandleWrite(r) ==
    /\ At(r, "write")
    /\ IF handler[cur[r]].connected
         THEN /\ answers' = answers \cup
                   {<<cur[r], c>> : c \in {files[FdOf(r)]} \ {NoConn}}
              /\ Goto(r, "close")
         ELSE Goto(r, "rm") /\ UNCHANGED answers
    /\ UNCHANGED <<osVars, queue, queueMtx, handler, fds, rdy, cur, ctl, val, back>>

(* disConnected() *)
DisConnected(r) ==
    /\ At(r, "close")
    /\ CloseFds({FdOf(r)})
    /\ handler' = [handler EXCEPT ![cur[r]].connected = FALSE]
    /\ Goto(r, "rm")
    /\ UNCHANGED <<signalVars, queue, queueMtx, fds, rdy, cur, ctl, val, answers, back>>

(* remove_handler(): refused while register_flag is set; then a find in the  *)
(* map without its mutex, and nothing to remove if that fails.               *)
RemoveTest(r) ==
    /\ \/ /\ At(r, "rm")
          /\ Goto(r, IF register_flag # 0 THEN "next" ELSE "rmScan")
       \/ /\ At(r, "rmScan")
          /\ Goto(r, IF fds[HomeOf(r)][FdOf(r)] = Absent THEN "next" ELSE "rmErase")
    /\ cur' = IF rpc'[r] = "next" THEN [cur EXCEPT ![r] = NoConn] ELSE cur
    /\ UNCHANGED <<osVars, queue, queueMtx, handler, fds, rdy, ctl, val, answers, back>>

RemoveErase(r) ==
    /\ At(r, "rmErase")
    /\ Put(HomeOf(r), FdOf(r), Absent)
    /\ Goto(r, "rmRead")
    /\ UNCHANGED <<osVars, queue, queueMtx, handler, rdy, cur, ctl, val, answers, back>>

-----------------------------------------------------------------------------
(* quit_and_rst() *)

(* Mutant: the reactor goes on after the reset. *)
Mut_ResetAll(r) ==
    /\ At(r, "quit")
    /\ CloseFds({f \in Fds : fds[r][f] # Absent})
    /\ fds' = [fds EXCEPT ![r] = [f \in Fds |-> Absent]]
    /\ rdy' = [rdy EXCEPT ![r] = {}]
    /\ Goto(r, "select")
    /\ UNCHANGED <<signalVars, queue, queueMtx, handler, cur, ctl, val, answers, back>>

(* Every descriptor in the map is reset, phantom entries included; nobody    *)
(* sees the map in the middle, because the loop holds _mtx.                  *)
ResetAll(r) ==
    /\ At(r, "quit")
    /\ CloseFds({f \in Fds : fds[r][f] # Absent})
    /\ fds' = [fds EXCEPT ![r] = [f \in Fds |-> Absent]]
    /\ rdy' = [rdy EXCEPT ![r] = {}]
    /\ Goto(r, "quitLoad")
    /\ UNCHANGED <<signalVars, queue, queueMtx, handler, cur, ctl, val, answers, back>>

(* if(!--quit_wait_flag): load, then store and test of the register *)
QuitLoad(r) ==
    /\ At(r, "quitLoad")
    /\ val' = [val EXCEPT ![r] = quit_wait_flag]
    /\ Goto(r, "quitStore")
    /\ UNCHANGED <<osVars, queue, queueMtx, handler, fds, rdy, cur, ctl, answers, back>>

(* pthread_kill(SIGUSR2) by the last reactor; pause(), until a signal        *)
(* handler runs in this thread.                                              *)
QuitStore(r) ==
    /\ At(r, "quitStore")
    /\ quit_wait_flag' = val[r] - 1
    /\ pending' = IF val[r] - 1 = 0 THEN pending \cup {"USR2"} ELSE pending
    /\ val' = [val EXCEPT ![r] = 0]
    /\ Goto(r, "paused")
    /\ UNCHANGED <<kernelVars, spc, sval, register_flag, process, queue, queueMtx,
                   handler, fds, rdy, cur, ctl, answers, back>>

Reactor(r) ==
    \/ TestQuit(r) \/ EpollWait(r)
    \/ TestRegister(r) \/ LockQueue(r) \/ RegisterHandler(r) \/ RegisterPop(r)
    \/ RegisterDec(r) \/ UnlockQueue(r)
    \/ UpdateRead(r) \/ RegisterCtl(r) \/ RemoveCtl(r)
    \/ NextReady(r) \/ EndOfReady(r) \/ HandleWrite(r) \/ DisConnected(r)
    \/ RemoveTest(r) \/ RemoveErase(r)
    \/ ResetAll(r) \/ QuitLoad(r) \/ QuitStore(r)
=============================================================================
