--------------------- MODULE HttpServerPromise_proofs ---------------------
(* Proofs of what the reactor server promises its clients, for any clients,  *)
(* descriptors, reactors and bounds, and at most one SIGINT: until a reactor *)
(* resets its connections a descriptor number means one connection to its    *)
(* handler, the kernel and the epoll instances alike, and the server as a    *)
(* whole implements Connections.                                             *)
EXTENDS HttpServer_proofs

-----------------------------------------------------------------------------
(* The inductive invariant *)

(* A connection the kernel knows by a number, or that was answered, arrived. *)
KnownInv ==
    \A c \in Conns : peer[c] = "away" =>
        /\ \A f \in Fds : files[f] # c
        /\ \A h \in Conns : <<h, c>> \notin answers

(* Nobody quits before SIGINT has arrived. *)
AskedInv ==
    interrupts = 0 =>
        /\ "INT" \notin pending /\ spc # "int" /\ quit_wait_flag = 0
        /\ \A r \in Reactors : rpc[r] \notin QuitPCs

(* The descriptor table and the handlers agree: _isConnected says that the   *)
(* number of the handler is its connection's.                                *)
OpenInv ==
    \A c \in Conns, f \in Fds :
        files[f] = c <=> handler[c].connected /\ handler[c].fd = f

(* disConnected() follows the answer, on a connection that is still open. *)
CloseInv ==
    \A r \in Reactors : rpc[r] = "close" =>
        handler[cur[r]].connected /\ <<cur[r], cur[r]>> \in answers

(* An answered connection is closed, or about to be by the reactor that      *)
(* answered it.                                                              *)
Closing(c) == \E r \in Reactors : rpc[r] = "close" /\ cur[r] = c
OnceInv ==
    \A h, c \in Conns : <<h, c>> \in answers =>
        h = c /\ (handler[h].connected => Closing(h))

(* A connection that nobody has registered yet is open, and in no interest   *)
(* list but that of the reactor that registers it.                           *)
Waiting(c) == peer[c] = "away" \/ accepted = c \/ InQueue(c)
WaitInv ==
    \A c \in Conns : Waiting(c) =>
        /\ peer[c] # "away" => handler[c].connected
        /\ \A r \in Reactors :
             interest[r][c] # "none" => rpc[r] = "regPop" /\ cur[r] = c

OneEpoll ==
    \A c \in Conns, r, s \in Reactors :
        interest[r][c] # "none" /\ interest[s][c] # "none" => r = s

Agrees == OpenInv /\ CloseInv /\ OnceInv /\ WaitInv /\ OneEpoll

PInv == KnownInv /\ AskedInv /\ (~isStopping => Agrees)

-----------------------------------------------------------------------------
(* What the steps of a reactor do to its place *)

Stops(pc) == pc \in {"quitLoad", "quitStore", "paused"}

(* Only quit_and_rst() makes a reactor stop, and nothing resumes it. *)
Steady(r) ==
    /\ Stops(rpc'[r]) <=> Stops(rpc[r])
    /\ \A s \in Reactors : s # r => rpc'[s] = rpc[s]

LEMMA SteadySteps ==
    ASSUME TypeOK, NEW r \in Reactors, Reactor(r), ~ResetAll(r)
    PROVE  Steady(r)
<1>0. rpc \in [Reactors -> ReactorPCs]
  BY DEF TypeOK, ReactorTypeOK
<1>1. ASSUME TestQuit(r) PROVE Steady(r)
  BY <1>1, <1>0 DEF TestQuit, TestQuitAt, At, Goto, Steady, Stops
<1>2. ASSUME EpollWait(r) PROVE Steady(r)
  BY <1>2, <1>0 DEF EpollWait, At, Goto, Steady, Stops
<1>3. ASSUME TestRegister(r) PROVE Steady(r)
  BY <1>3, <1>0 DEF TestRegister, At, Goto, Steady, Stops
<1>4. ASSUME LockQueue(r) PROVE Steady(r)
  BY <1>4, <1>0 DEF LockQueue, At, Goto, Steady, Stops
<1>5. ASSUME UnlockQueue(r) PROVE Steady(r)
  BY <1>5, <1>0 DEF UnlockQueue, At, Goto, Steady, Stops
<1>6. ASSUME RegisterHandler(r) PROVE Steady(r)
  BY <1>6, <1>0 DEF RegisterHandler, At, Goto, Steady, Stops
<1>7. ASSUME RegisterPop(r) PROVE Steady(r)
  BY <1>7, <1>0 DEF RegisterPop, At, Goto, Steady, Stops
<1>8. ASSUME RegisterDec(r) PROVE Steady(r)
  BY <1>8, <1>0 DEF RegisterDec, At, Goto, Steady, Stops
<1>9. ASSUME UpdateRead(r) PROVE Steady(r)
  BY <1>9, <1>0 DEF UpdateRead, ReadEntry, At, Goto, Steady, Stops
<1>10. ASSUME RegisterCtl(r) PROVE Steady(r)
  BY <1>10, <1>0 DEF RegisterCtl, At, Goto, Steady, Stops
<1>11. ASSUME RemoveCtl(r) PROVE Steady(r)
  BY <1>11, <1>0 DEF RemoveCtl, At, Goto, Steady, Stops
<1>12. ASSUME NextReady(r) PROVE Steady(r)
  <2>1. rpc[r] = "next" /\ (UNCHANGED rpc \/ Goto(r, "rm") \/ Goto(r, "write"))
    BY <1>12 DEF NextReady, At
  <2> QED
    BY <1>0, <2>1 DEF Goto, Steady, Stops
<1>13. ASSUME EndOfReady(r) PROVE Steady(r)
  BY <1>13, <1>0 DEF EndOfReady, At, Goto, Steady, Stops
<1>14. ASSUME HandleWrite(r) PROVE Steady(r)
  BY <1>14, <1>0 DEF HandleWrite, At, Goto, Steady, Stops
<1>15. ASSUME DisConnected(r) PROVE Steady(r)
  BY <1>15, <1>0 DEF DisConnected, At, Goto, Steady, Stops
<1>16. ASSUME RemoveTest(r) PROVE Steady(r)
  BY <1>16, <1>0 DEF RemoveTest, At, Goto, Steady, Stops
<1>17. ASSUME RemoveErase(r) PROVE Steady(r)
  BY <1>17, <1>0 DEF RemoveErase, At, Goto, Steady, Stops
<1>18. ASSUME QuitLoad(r) PROVE Steady(r)
  BY <1>18, <1>0 DEF QuitLoad, At, Goto, Steady, Stops
<1>19. ASSUME QuitStore(r) PROVE Steady(r)
  BY <1>19, <1>0 DEF QuitStore, At, Goto, Steady, Stops
<1> QED
  BY <1>1, <1>2, <1>3, <1>4, <1>5, <1>6, <1>7, <1>8, <1>9, <1>10, <1>11, <1>12, <1>13, <1>14,
     <1>15, <1>16, <1>17, <1>18, <1>19 DEF Reactor

(* The places where a reactor has answered or registered a connection and    *)
(* has yet to close it or to take it off the queue.                          *)
Acts(pc) == pc \in {"close", "regPop"}

(* The other steps keep the books and touch no connection. *)
Bookkeeps(r) ==
    /\ UNCHANGED <<kernelVars, queue, handler, answers>>
    /\ ~Acts(rpc[r]) /\ ~Acts(rpc'[r])
    /\ \A s \in Reactors : s # r => rpc'[s] = rpc[s] /\ cur'[s] = cur[s]

LEMMA BookSteps ==
    ASSUME TypeOK, NEW r \in Reactors, Reactor(r),
           ~RegisterPop(r), ~RegisterCtl(r), ~RemoveCtl(r), ~HandleWrite(r),
           ~DisConnected(r), ~ResetAll(r)
    PROVE  Bookkeeps(r)
<1>0. rpc \in [Reactors -> ReactorPCs] /\ cur \in [Reactors -> Conns \cup {NoConn}]
  BY DEF TypeOK, ReactorTypeOK
<1>1. ASSUME TestQuit(r) PROVE Bookkeeps(r)
  BY <1>1, <1>0 DEF TestQuit, TestQuitAt, At, Goto, Bookkeeps, Acts, osVars, kernelVars
<1>2. ASSUME EpollWait(r) PROVE Bookkeeps(r)
  BY <1>2, <1>0 DEF EpollWait, At, Goto, Bookkeeps, Acts, osVars, kernelVars
<1>3. ASSUME TestRegister(r) PROVE Bookkeeps(r)
  BY <1>3, <1>0 DEF TestRegister, At, Goto, Bookkeeps, Acts, osVars, kernelVars
<1>4. ASSUME LockQueue(r) PROVE Bookkeeps(r)
  BY <1>4, <1>0 DEF LockQueue, At, Goto, Bookkeeps, Acts, osVars, kernelVars
<1>5. ASSUME UnlockQueue(r) PROVE Bookkeeps(r)
  BY <1>5, <1>0 DEF UnlockQueue, At, Goto, Bookkeeps, Acts, osVars, kernelVars
<1>6. ASSUME RegisterHandler(r) PROVE Bookkeeps(r)
  BY <1>6, <1>0 DEF RegisterHandler, At, Goto, Bookkeeps, Acts, osVars, kernelVars
<1>7. ASSUME RegisterDec(r) PROVE Bookkeeps(r)
  BY <1>7, <1>0 DEF RegisterDec, At, Goto, Bookkeeps, Acts, osVars, kernelVars
<1>8. ASSUME UpdateRead(r) PROVE Bookkeeps(r)
  BY <1>8, <1>0 DEF UpdateRead, ReadEntry, At, Goto, Bookkeeps, Acts, osVars, kernelVars
<1>9. ASSUME NextReady(r) PROVE Bookkeeps(r)
  <2>1. /\ UNCHANGED <<kernelVars, queue, handler, answers>> /\ rpc[r] = "next"
        /\ UNCHANGED rpc \/ Goto(r, "rm") \/ Goto(r, "write")
        /\ UNCHANGED cur \/ \E e : cur' = [cur EXCEPT ![r] = e]
    BY <1>9 DEF NextReady, At
  <2>2. /\ rpc'[r] \in {"next", "rm", "write"}
        /\ \A s \in Reactors : s # r => rpc'[s] = rpc[s]
    BY <1>0, <2>1 DEF Goto
  <2>3. \A s \in Reactors : s # r => cur'[s] = cur[s]
    BY <1>0, <2>1
  <2> QED
    BY <2>1, <2>2, <2>3 DEF Bookkeeps, Acts
<1>10. ASSUME EndOfReady(r) PROVE Bookkeeps(r)
  BY <1>10, <1>0 DEF EndOfReady, At, Goto, Bookkeeps, Acts, osVars, kernelVars
<1>11. ASSUME RemoveTest(r) PROVE Bookkeeps(r)
  BY <1>11, <1>0 DEF RemoveTest, At, Goto, Bookkeeps, Acts, osVars, kernelVars
<1>12. ASSUME RemoveErase(r) PROVE Bookkeeps(r)
  BY <1>12, <1>0 DEF RemoveErase, At, Goto, Bookkeeps, Acts, osVars, kernelVars
<1>13. ASSUME QuitLoad(r) PROVE Bookkeeps(r)
  BY <1>13, <1>0 DEF QuitLoad, At, Goto, Bookkeeps, Acts, osVars, kernelVars
<1>14. ASSUME QuitStore(r) PROVE Bookkeeps(r)
  BY <1>14, <1>0 DEF QuitStore, At, Goto, Bookkeeps, Acts, osVars, kernelVars
<1> QED
  BY <1>1, <1>2, <1>3, <1>4, <1>5, <1>6, <1>7, <1>8, <1>9, <1>10, <1>11, <1>12, <1>13,
     <1>14 DEF Reactor

-----------------------------------------------------------------------------
(* What the calls of the kernel do *)

LEMMA CloseFdsDoes ==
    ASSUME KernelTypeOK, NEW F \in SUBSET Fds, CloseFds(F)
    PROVE  /\ peer' = peer
           /\ \A f \in Fds : files'[f] = IF f \in F THEN NoConn ELSE files[f]
           /\ \A s \in Reactors, c \in Conns :
                interest'[s][c] = IF \E f \in F : files[f] = c THEN "none"
                                  ELSE interest[s][c]
  BY MultiplexerAssumption DEF CloseFds, KernelTypeOK

LEMMA EpollCtlDoes ==
    ASSUME KernelTypeOK, NEW e \in Reactors, NEW op \in CtlOps, NEW f \in Fds,
           NEW mask \in Interests, EpollCtl(e, op, f, mask)
    PROVE  /\ files' = files /\ peer' = peer
           /\ \A s \in Reactors, c \in Conns :
                \/ interest'[s][c] = interest[s][c]
                \/ /\ s = e /\ c = files[f]
                   /\ interest'[s][c] = IF op = "del" THEN "none" ELSE mask
<1>1. interest \in [Reactors -> [Conns -> Interests]]
  BY MultiplexerAssumption DEF KernelTypeOK
<1>2. files' = files /\ peer' = peer
  BY DEF EpollCtl
<1>3. CASE CtlFails(e, op, files[f])
  BY <1>2, <1>3 DEF EpollCtl
<1>4. CASE ~CtlFails(e, op, files[f])
  <2>1. files[f] \in Conns
    BY <1>4 DEF CtlFails, KernelTypeOK
  <2>2. interest' = [interest EXCEPT ![e][files[f]] = IF op = "del" THEN "none" ELSE mask]
    BY <1>4 DEF EpollCtl
  <2> QED
    BY <1>1, <1>2, <2>1, <2>2
<1> QED
  BY <1>3, <1>4

-----------------------------------------------------------------------------
(* Each action keeps what the reactors agree on *)

LEMMA BookAgrees ==
    ASSUME TypeOK, Agrees, UNCHANGED accepted, NEW r \in Reactors, Bookkeeps(r)
    PROVE  Agrees'
<1>1. /\ UNCHANGED <<files, peer, interest, queue, handler, answers>>
      /\ ~Acts(rpc[r]) /\ ~Acts(rpc'[r])
      /\ \A s \in Reactors : s # r => rpc'[s] = rpc[s] /\ cur'[s] = cur[s]
  BY DEF Bookkeeps, kernelVars
<1>2. OpenInv'
  BY <1>1 DEF Agrees, OpenInv
<1>3. CloseInv'
  BY <1>1 DEF Agrees, CloseInv, Acts
<1>4. \A c \in Conns : Closing(c) => Closing(c)'
  BY <1>1 DEF Closing, Acts
<1>5. OnceInv'
  BY <1>1, <1>4 DEF Agrees, OnceInv
<1>6. \A c \in Conns : Waiting(c)' => Waiting(c)
  BY <1>1 DEF Waiting, InQueue
<1>7. WaitInv'
  BY <1>1, <1>6 DEF Agrees, WaitInv, Acts
<1>8. OneEpoll'
  BY <1>1 DEF Agrees, OneEpoll
<1> QED
  BY <1>2, <1>3, <1>5, <1>7, <1>8 DEF Agrees

(* A reactor that has a connection has one that nobody else waits for,       *)
(* unless it registers it.                                                   *)
LEMMA BusyIsNotWaiting ==
    ASSUME TypeOK, Owners, NEW r \in Reactors, rpc[r] \in HandlerPCs
    PROVE  /\ cur[r] \in Conns /\ FdOf(r) \in Fds /\ HomeOf(r) \in Reactors
           /\ ~Waiting(cur[r])
           /\ \A s \in Reactors : s # r => cur[s] # cur[r]
<1>1. /\ cur[r] \in Conns /\ peer[cur[r]] # "away"
      /\ FdOf(r) \in Fds /\ HomeOf(r) \in Reactors
  BY BusyHandler DEF Busy, TypeOK
<1>2. Has(r, cur[r])
  BY DEF Has
<1>3. ~InQueue(cur[r])
  BY <1>1, <1>2 DEF Owners, QueuedInv, Registering, HandlerPCs, RemovePCs
<1>4. accepted # cur[r]
  BY <1>1, <1>2 DEF Owners, AcceptedInv, Fresh
<1>5. \A s \in Reactors : s # r => cur[s] # cur[r]
  BY <1>1 DEF Owners, OneHolder, Has
<1> QED
  BY <1>1, <1>3, <1>4, <1>5 DEF Waiting

LEMMA RegisterCtlAgrees ==
    ASSUME TypeOK, Owners, Agrees, UNCHANGED accepted, NEW r \in Reactors, RegisterCtl(r)
    PROVE  Agrees'
<1>1. /\ UNCHANGED <<queue, handler, answers, cur>>
      /\ rpc[r] = "regCtl" /\ rpc'[r] = "regPop"
      /\ \A s \in Reactors : s # r => rpc'[s] = rpc[s]
  BY DEF RegisterCtl, At, Goto, TypeOK, ReactorTypeOK
<1>2. cur[r] \in Conns /\ peer[cur[r]] # "away" /\ FdOf(r) \in Fds
  BY <1>1, BusyHandler DEF Busy, Registering, TypeOK
<1>3. Waiting(cur[r])
  <2>1. queue # <<>> /\ cur[r] = queue[Len(queue)]
    BY <1>1 DEF Owners, LastInv, Registering
  <2>2. Len(queue) \in 1..Len(queue)
    BY <2>1, QueueLast DEF TypeOK, ReactorTypeOK
  <2> QED
    BY <2>1, <2>2 DEF Waiting, InQueue
<1>4. \A s \in Reactors : rpc[s] # "regPop"
  BY <1>1, OneRegisters DEF RegisterPCs
<1>5. files[FdOf(r)] = cur[r] /\ \A s \in Reactors : interest[s][cur[r]] = "none"
  <2>1. /\ handler[cur[r]].connected
        /\ \A s \in Reactors : interest[s][cur[r]] = "none"
    BY <1>2, <1>3, <1>4 DEF Agrees, WaitInv
  <2> QED
    BY <1>2, <2>1 DEF Agrees, OpenInv, FdOf
<1>6. /\ UNCHANGED <<files, peer>>
      /\ \A s \in Reactors, c \in Conns :
           interest'[s][c] = interest[s][c] \/ (s = r /\ c = cur[r])
  <2>1. ctl[r].op \in CtlOps /\ ctl[r].mask \in Interests
    BY DEF TypeOK, ReactorTypeOK
  <2>2. EpollCtl(r, ctl[r].op, FdOf(r), ctl[r].mask)
    BY DEF RegisterCtl
  <2> QED
    BY <1>2, <1>5, <2>1, <2>2, EpollCtlDoes DEF TypeOK
<1>7. OpenInv'
  BY <1>1, <1>6 DEF Agrees, OpenInv
<1>8. CloseInv'
  BY <1>1 DEF Agrees, CloseInv
<1>9. OnceInv'
  BY <1>1 DEF Agrees, OnceInv, Closing
<1>10. WaitInv'
  <2>1. \A c \in Conns : Waiting(c)' => Waiting(c)
    BY <1>1, <1>6 DEF Waiting, InQueue
  <2> QED
    BY <1>1, <1>4, <1>6, <2>1 DEF Agrees, WaitInv
<1>11. OneEpoll'
  BY <1>5, <1>6 DEF Agrees, OneEpoll
<1> QED
  BY <1>7, <1>8, <1>9, <1>10, <1>11 DEF Agrees

LEMMA RegisterPopAgrees ==
    ASSUME TypeOK, Owners, Agrees, UNCHANGED accepted, NEW r \in Reactors, RegisterPop(r)
    PROVE  Agrees'
<1>1. /\ UNCHANGED <<files, peer, interest, handler, answers>>
      /\ rpc[r] = "regPop" /\ rpc'[r] = "regDec"
      /\ \A s \in Reactors : s # r => rpc'[s] = rpc[s] /\ cur'[s] = cur[s]
  BY DEF RegisterPop, At, Goto, TypeOK, ReactorTypeOK, osVars, kernelVars
<1>2. cur[r] \in Conns /\ peer[cur[r]] # "away"
  BY <1>1, BusyHandler DEF Busy, Registering, TypeOK
<1>3. accepted # cur[r]
  BY <1>2 DEF Owners, AcceptedInv, Fresh, Has
<1>4. \A c \in Conns : Waiting(c)' => Waiting(c) /\ c # cur[r]
  BY <1>1, <1>2, <1>3, PopLeaves DEF Waiting
<1>5. OpenInv'
  BY <1>1 DEF Agrees, OpenInv
<1>6. CloseInv'
  BY <1>1 DEF Agrees, CloseInv
<1>7. \A c \in Conns : Closing(c) => Closing(c)'
  BY <1>1 DEF Closing
<1>8. OnceInv'
  BY <1>1, <1>7 DEF Agrees, OnceInv
<1>9. WaitInv'
  BY <1>1, <1>4 DEF Agrees, WaitInv
<1>10. OneEpoll'
  BY <1>1 DEF Agrees, OneEpoll
<1> QED
  BY <1>5, <1>6, <1>8, <1>9, <1>10 DEF Agrees

LEMMA RemoveCtlAgrees ==
    ASSUME TypeOK, Owners, Agrees, UNCHANGED accepted, NEW r \in Reactors, RemoveCtl(r)
    PROVE  Agrees'
<1>1. /\ UNCHANGED <<queue, answers>>
      /\ rpc[r] = "rmCtl" /\ rpc'[r] = "next"
      /\ \A s \in Reactors : s # r => rpc'[s] = rpc[s] /\ cur'[s] = cur[s]
      /\ handler' = [handler EXCEPT ![cur[r]].live = FALSE]
  BY DEF RemoveCtl, At, Goto, TypeOK, ReactorTypeOK
<1>2. cur[r] \in Conns /\ FdOf(r) \in Fds /\ HomeOf(r) \in Reactors
  BY <1>1, BusyIsNotWaiting DEF HandlerPCs, RemovePCs
<1>3. \A c \in Conns : /\ handler'[c].connected = handler[c].connected
                        /\ handler'[c].fd = handler[c].fd
  <2>1. handler \in [Conns -> Handlers]
    BY DEF TypeOK, ReactorTypeOK, Handlers
  <2>2. \A h \in Handlers : /\ [h EXCEPT !.live = FALSE].connected = h.connected
                            /\ [h EXCEPT !.live = FALSE].fd = h.fd
    BY DEF Handlers
  <2> QED
    BY <1>1, <1>2, <2>1, <2>2
<1>4. /\ UNCHANGED <<files, peer>>
      /\ \A s \in Reactors, c \in Conns :
           interest'[s][c] = interest[s][c] \/ interest'[s][c] = "none"
  <2>1. "del" \in CtlOps /\ ctl[r].mask \in Interests
    BY DEF TypeOK, ReactorTypeOK, CtlOps
  <2>2. EpollCtl(HomeOf(r), "del", FdOf(r), ctl[r].mask)
    BY DEF RemoveCtl
  <2> QED
    BY <1>2, <2>1, <2>2, EpollCtlDoes DEF TypeOK
<1>5. OpenInv'
  BY <1>3, <1>4 DEF Agrees, OpenInv
<1>6. CloseInv'
  <2>1. \A s \in Reactors : rpc[s] = "close" => cur[s] \in Conns
    BY BusyIsNotWaiting DEF HandlerPCs
  <2> QED
    BY <1>1, <1>3, <2>1 DEF Agrees, CloseInv
<1>7. \A c \in Conns : Closing(c) => Closing(c)'
  BY <1>1 DEF Closing
<1>8. OnceInv'
  BY <1>1, <1>3, <1>7 DEF Agrees, OnceInv
<1>9. \A c \in Conns : Waiting(c)' => Waiting(c)
  BY <1>1, <1>4 DEF Waiting, InQueue
<1>10. WaitInv'
  BY <1>1, <1>3, <1>4, <1>9 DEF Agrees, WaitInv
<1>11. OneEpoll'
  BY <1>4 DEF Agrees, OneEpoll
<1> QED
  BY <1>5, <1>6, <1>8, <1>10, <1>11 DEF Agrees

(* handle_write() answers the connection its handler was made for. *)
LEMMA HandleWriteAgrees ==
    ASSUME TypeOK, Owners, Agrees, UNCHANGED accepted, NEW r \in Reactors, HandleWrite(r)
    PROVE  Agrees'
<1>1. /\ UNCHANGED <<files, peer, interest, queue, handler, cur>>
      /\ rpc[r] = "write" /\ rpc'[r] \in {"close", "rm"}
      /\ \A s \in Reactors : s # r => rpc'[s] = rpc[s]
  BY DEF HandleWrite, At, Goto, TypeOK, ReactorTypeOK, osVars, kernelVars
<1>2. PICK c \in Conns : c = cur[r] /\ FdOf(r) \in Fds
  BY <1>1, BusyIsNotWaiting DEF HandlerPCs
<1>3. \/ /\ handler[c].connected /\ rpc'[r] = "close"
         /\ answers' = answers \cup {<<c, c>>}
      \/ ~handler[c].connected /\ rpc'[r] = "rm" /\ answers' = answers
  <2>1. CASE handler[c].connected
    <3>1. files[FdOf(r)] = c
      BY <1>2, <2>1 DEF Agrees, OpenInv, FdOf
    <3>2. {files[FdOf(r)]} \ {NoConn} = {c}
      BY <1>2, <3>1, KernelAssumption
    <3>3. answers' = answers \cup {<<c, d>> : d \in {c}} /\ Goto(r, "close")
      BY <1>2, <2>1, <3>2 DEF HandleWrite
    <3> QED
      BY <2>1, <3>3 DEF Goto, TypeOK, ReactorTypeOK
  <2>2. CASE ~handler[c].connected
    BY <1>2, <2>2 DEF HandleWrite, Goto, TypeOK, ReactorTypeOK
  <2> QED
    BY <2>1, <2>2
<1>4. OpenInv'
  BY <1>1 DEF Agrees, OpenInv
<1>5. CloseInv'
  BY <1>1, <1>2, <1>3 DEF Agrees, CloseInv
<1>6. \A d \in Conns : Closing(d) => Closing(d)'
  BY <1>1 DEF Closing
<1>7. OnceInv'
  <2>1. CASE handler[c].connected /\ rpc'[r] = "close" /\ answers' = answers \cup {<<c, c>>}
    <3>1. Closing(c)'
      BY <1>1, <1>2, <2>1 DEF Closing
    <3>2. \A h, d \in Conns : <<h, d>> \in answers' =>
            <<h, d>> \in answers \/ (h = c /\ d = c)
      BY <2>1
    <3>3. ASSUME NEW h \in Conns, NEW d \in Conns, <<h, d>> \in answers'
          PROVE  h = d /\ (handler'[h].connected => Closing(h)')
      <4>1. CASE <<h, d>> \in answers
        BY <1>1, <1>6, <4>1 DEF Agrees, OnceInv
      <4>2. CASE h = c /\ d = c
        BY <3>1, <4>2
      <4> QED
        BY <3>2, <3>3, <4>1, <4>2
    <3> QED
      BY <3>3 DEF OnceInv
  <2>2. CASE answers' = answers
    BY <1>1, <1>6, <2>2 DEF Agrees, OnceInv
  <2> QED
    BY <1>3, <2>1, <2>2
<1>8. WaitInv'
  <2>1. \A d \in Conns : Waiting(d)' => Waiting(d)
    BY <1>1 DEF Waiting, InQueue
  <2> QED
    BY <1>1, <2>1 DEF Agrees, WaitInv
<1>9. OneEpoll'
  BY <1>1 DEF Agrees, OneEpoll
<1> QED
  BY <1>4, <1>5, <1>7, <1>8, <1>9 DEF Agrees

(* disConnected() closes the connection its handler was made for, and the    *)
(* number is nobody's afterwards.                                            *)
LEMMA DisConnectedAgrees ==
    ASSUME TypeOK, Owners, Agrees, UNCHANGED accepted, NEW r \in Reactors, DisConnected(r)
    PROVE  Agrees'
<1>1. /\ UNCHANGED <<queue, answers, cur>>
      /\ rpc[r] = "close" /\ rpc'[r] = "rm"
      /\ \A s \in Reactors : s # r => rpc'[s] = rpc[s]
      /\ handler' = [handler EXCEPT ![cur[r]].connected = FALSE]
      /\ CloseFds({FdOf(r)})
  BY DEF DisConnected, At, Goto, TypeOK, ReactorTypeOK
<1>2. PICK c \in Conns :
        /\ c = cur[r] /\ FdOf(r) \in Fds /\ ~Waiting(c)
        /\ \A s \in Reactors : s # r => cur[s] # c
  BY <1>1, BusyIsNotWaiting DEF HandlerPCs
<1>3. /\ \A d \in Conns : handler'[d].fd = handler[d].fd
      /\ \A d \in Conns : d # c => handler'[d].connected = handler[d].connected
      /\ handler'[c].connected = FALSE
  <2>1. handler \in [Conns -> Handlers]
    BY DEF TypeOK, ReactorTypeOK, Handlers
  <2>2. \A h \in Handlers : /\ [h EXCEPT !.connected = FALSE].connected = FALSE
                            /\ [h EXCEPT !.connected = FALSE].fd = h.fd
    BY DEF Handlers
  <2> QED
    BY <1>1, <1>2, <2>1, <2>2
<1>4. handler[c].connected /\ FdOf(r) = handler[c].fd
  BY <1>1, <1>2 DEF Agrees, CloseInv, FdOf
<1>5. /\ UNCHANGED peer
      /\ \A f \in Fds : files'[f] = IF f = FdOf(r) THEN NoConn ELSE files[f]
      /\ \A s \in Reactors, d \in Conns :
           interest'[s][d] = interest[s][d] \/ interest'[s][d] = "none"
  <2>1. {FdOf(r)} \in SUBSET Fds
    BY <1>2
  <2> QED
    BY <1>1, <2>1, CloseFdsDoes DEF TypeOK
<1>6. OpenInv'
  <2>1. ASSUME NEW d \in Conns, NEW f \in Fds
        PROVE  files'[f] = d <=> handler'[d].connected /\ handler'[d].fd = f
    <3>1. files[f] = d <=> handler[d].connected /\ handler[d].fd = f
      BY DEF Agrees, OpenInv
    <3>2. files[FdOf(r)] = c
      BY <1>2, <1>4 DEF Agrees, OpenInv
    <3>3. files'[f] = d <=> files[f] = d /\ d # c
      <4>1. files[f] = c => f = FdOf(r)
        BY <1>2, <1>4 DEF Agrees, OpenInv
      <4> QED
        BY <1>5, <3>2, <4>1, KernelAssumption
    <3> QED
      BY <1>3, <3>1, <3>3
  <2> QED
    BY <2>1 DEF OpenInv
<1>7. CloseInv'
  <2>1. \A s \in Reactors : rpc[s] = "close" => cur[s] \in Conns
    BY BusyIsNotWaiting DEF HandlerPCs
  <2> QED
    BY <1>1, <1>2, <1>3, <2>1 DEF Agrees, CloseInv
<1>8. \A d \in Conns : Closing(d) => d = c \/ Closing(d)'
  BY <1>1, <1>2 DEF Closing
<1>9. OnceInv'
  BY <1>1, <1>3, <1>8 DEF Agrees, OnceInv
<1>10. \A d \in Conns : Waiting(d)' => Waiting(d)
  BY <1>1, <1>5 DEF Waiting, InQueue
<1>11. WaitInv'
  BY <1>1, <1>2, <1>3, <1>5, <1>10 DEF Agrees, WaitInv
<1>12. OneEpoll'
  BY <1>5 DEF Agrees, OneEpoll
<1> QED
  BY <1>6, <1>7, <1>9, <1>11, <1>12 DEF Agrees

(* accept() gives out a number that is nobody's. *)
LEMMA AcceptDoes ==
    ASSUME TypeOK, NEW c \in Conns, Accept(c)
    PROVE  /\ peer[c] = "away" /\ accepted' = c
           /\ UNCHANGED <<interest, queue, rpc, cur, answers>>
           /\ \A d \in Conns : peer'[d] = IF d = c THEN "up" ELSE peer[d]
           /\ \E f \in Fds :
                /\ files[f] = NoConn
                /\ \A g \in Fds : files'[g] = IF g = f THEN c ELSE files[g]
                /\ handler'[c].connected /\ handler'[c].fd = f
           /\ \A d \in Conns : d # c => handler'[d] = handler[d]
<1>1. /\ peer[c] = "away" /\ accepted' = c
      /\ UNCHANGED <<interest, queue, rpc, cur, answers>>
      /\ peer' = [peer EXCEPT ![c] = "up"]
      /\ files' = [files EXCEPT ![Lowest(FreeFds)] = c]
      /\ handler' = [handler EXCEPT ![c] =
             [fd |-> Lowest(FreeFds), home |-> NextReactor,
              connected |-> TRUE, live |-> TRUE]]
  BY DEF Accept, Install
<1>2. Lowest(FreeFds) \in FreeFds
  <2>1. FreeFds \in SUBSET Nat /\ FreeFds # {}
    BY KernelAssumption DEF Accept, Install, FreeFds
  <2> QED
    BY <2>1, LowestIsIn
<1>3. PICK f \in Fds : f = Lowest(FreeFds) /\ files[f] = NoConn
  BY <1>2 DEF FreeFds
<1>4. \A g \in Fds : files'[g] = IF g = f THEN c ELSE files[g]
  BY <1>1, <1>3 DEF TypeOK, KernelTypeOK
<1>5. /\ handler'[c].connected /\ handler'[c].fd = f
      /\ \A d \in Conns : d # c => handler'[d] = handler[d]
  BY <1>1, <1>3 DEF TypeOK, ReactorTypeOK
<1>6. \A d \in Conns : peer'[d] = IF d = c THEN "up" ELSE peer[d]
  BY <1>1 DEF TypeOK, KernelTypeOK
<1> QED
  BY <1>1, <1>3, <1>4, <1>5, <1>6

LEMMA AcceptAgrees ==
    ASSUME TypeOK, Owners, KnownInv, Agrees, NEW c \in Conns, Accept(c)
    PROVE  Agrees'
<1>1. /\ peer[c] = "away" /\ accepted' = c
      /\ UNCHANGED <<interest, queue, rpc, cur, answers>>
      /\ \A d \in Conns : peer'[d] = IF d = c THEN "up" ELSE peer[d]
      /\ \A d \in Conns : d # c => handler'[d] = handler[d]
  BY AcceptDoes
<1>2. PICK f \in Fds :
        /\ files[f] = NoConn
        /\ \A g \in Fds : files'[g] = IF g = f THEN c ELSE files[g]
        /\ handler'[c].connected /\ handler'[c].fd = f
  BY AcceptDoes
<1>3. /\ \A g \in Fds : files[g] # c
      /\ \A h \in Conns : <<h, c>> \notin answers
      /\ \A s \in Reactors : cur[s] # c
  BY <1>1 DEF KnownInv, Owners, AwayInv, Fresh, Has
<1>4. OpenInv'
  <2>1. ASSUME NEW d \in Conns, NEW g \in Fds
        PROVE  files'[g] = d <=> handler'[d].connected /\ handler'[d].fd = g
    <3>1. CASE d = c
      BY <1>2, <1>3, <3>1
    <3>2. CASE d # c
      <4>1. files[g] = d <=> handler[d].connected /\ handler[d].fd = g
        BY DEF Agrees, OpenInv
      <4>2. files'[g] = d <=> files[g] = d
        BY <1>2, <3>2, KernelAssumption
      <4> QED
        BY <1>1, <3>2, <4>1, <4>2
    <3> QED
      BY <3>1, <3>2
  <2> QED
    BY <2>1 DEF OpenInv
<1>5. CloseInv'
  <2>1. \A s \in Reactors : rpc[s] = "close" => cur[s] \in Conns
    BY BusyIsNotWaiting DEF HandlerPCs
  <2> QED
    BY <1>1, <1>3, <2>1 DEF Agrees, CloseInv
<1>6. OnceInv'
  <2>1. \A d \in Conns : Closing(d)' <=> Closing(d)
    BY <1>1 DEF Closing
  <2> QED
    BY <1>1, <1>3, <2>1 DEF Agrees, OnceInv
<1>7. WaitInv'
  <2>1. \A d \in Conns : Waiting(d)' => Waiting(d)
    BY <1>1 DEF Waiting, InQueue
  <2>2. ASSUME NEW d \in Conns, Waiting(d)', peer'[d] # "away" PROVE handler'[d].connected
    <3>1. CASE d = c
      BY <1>2, <3>1
    <3>2. CASE d # c
      BY <1>1, <2>1, <2>2, <3>2 DEF Agrees, WaitInv
    <3> QED
      BY <3>1, <3>2
  <2> QED
    BY <1>1, <2>1, <2>2 DEF Agrees, WaitInv
<1>8. OneEpoll'
  BY <1>1 DEF Agrees, OneEpoll
<1> QED
  BY <1>4, <1>5, <1>6, <1>7, <1>8 DEF Agrees

(* The steps of the other threads and of the clients touch neither the       *)
(* descriptors nor the places of the reactors.                               *)
LEMMA StillAgrees ==
    ASSUME Agrees, UNCHANGED <<files, interest, handler, answers, rpc, cur>>,
           \A c \in Conns : peer'[c] = "away" <=> peer[c] = "away",
           \A c \in Conns : Waiting(c)' => Waiting(c)
    PROVE  Agrees'
<1>1. OpenInv'
  BY DEF Agrees, OpenInv
<1>2. CloseInv'
  BY DEF Agrees, CloseInv
<1>3. OnceInv'
  BY DEF Agrees, OnceInv, Closing
<1>4. WaitInv'
  BY DEF Agrees, WaitInv
<1>5. OneEpoll'
  BY DEF Agrees, OneEpoll
<1> QED
  BY <1>1, <1>2, <1>3, <1>4, <1>5 DEF Agrees

LEMMA EnqueueAgrees ==
    ASSUME TypeOK, Owners, Agrees, Enqueue
    PROVE  Agrees'
<1>1. /\ UNCHANGED <<files, peer, interest, handler, answers, rpc, cur>>
      /\ mpc = "push" /\ accepted' = NoConn
      /\ queue' = queue \/ queue' = Append(queue, accepted)
  BY DEF Enqueue, osVars, kernelVars
<1>2. ASSUME NEW c \in Conns, InQueue(c)' PROVE InQueue(c) \/ accepted = c
  <2>1. CASE queue' = queue
    BY <1>2, <2>1 DEF InQueue
  <2>2. CASE queue' = Append(queue, accepted)
    <3>1. queue \in Seq(Conns) /\ accepted \in Conns
      BY <1>1 DEF TypeOK, ReactorTypeOK, Owners, AcceptedInv
    <3>2. /\ Len(queue') = Len(queue) + 1 /\ Len(queue) \in Nat
          /\ \A i \in 1..Len(queue) : queue'[i] = queue[i]
          /\ queue'[Len(queue) + 1] = accepted
      BY <2>2, <3>1
    <3>3. PICK i \in 1..(Len(queue) + 1) : queue'[i] = c
      BY <1>2, <3>2 DEF InQueue
    <3>4. i \in 1..Len(queue) \/ i = Len(queue) + 1
      BY <3>2
    <3> QED
      BY <3>2, <3>3, <3>4 DEF InQueue
  <2> QED
    BY <1>1, <2>1, <2>2
<1>3. \A c \in Conns : Waiting(c)' => Waiting(c)
  BY <1>1, <1>2, KernelAssumption DEF Waiting
<1> QED
  BY <1>1, <1>3, StillAgrees

-----------------------------------------------------------------------------
(* When reactors stop *)

LEMMA AskedKeeps ==
    ASSUME TypeOK, AskedInv, [Next]_vars
    PROVE  AskedInv'
<1>0. interrupts \in Nat
  BY ServerAssumption DEF TypeOK
<1>1. ASSUME SignalStep PROVE AskedInv'
  <2>1. SignalThread /\ UNCHANGED <<rpc, interrupts>>
    BY <1>1 DEF SignalStep, reactorVars, mainVars
  <2>2. CASE SigWait
    <3>1. /\ pending' \subseteq pending /\ UNCHANGED quit_wait_flag
          /\ spc' = "int" => "INT" \in pending
      BY <2>2 DEF SigWait, FirstPending
    <3> QED
      BY <2>1, <3>1 DEF AskedInv
  <2>3. CASE HandleInt
    BY <2>1, <2>3 DEF HandleInt, AskedInv
  <2>4. CASE LoadFlag \/ StoreFlag \/ HandleUsr2
    BY <2>1, <2>4 DEF LoadFlag, StoreFlag, HandleUsr2, AskedInv
  <2> QED
    BY <2>1, <2>2, <2>3, <2>4 DEF SignalThread
<1>2. ASSUME NEW r \in Reactors, ReactorStep(r) PROVE AskedInv'
  <2>1. Reactor(r) /\ UNCHANGED interrupts
    BY <1>2 DEF ReactorStep, mainVars
  <2>2. SUFFICES ASSUME interrupts = 0
                 PROVE  /\ "INT" \notin pending' /\ spc' # "int" /\ quit_wait_flag' = 0
                        /\ \A s \in Reactors : rpc'[s] \notin QuitPCs
    BY <2>1 DEF AskedInv
  <2>3. ~QuitLoad(r) /\ ~QuitStore(r)
    BY <2>2 DEF AskedInv, QuitPCs, QuitLoad, QuitStore, At
  <2>4. Quiet(r)
    BY <2>1, <2>3, QuietSteps
  <2> QED
    BY <2>2, <2>4 DEF Quiet, AskedInv
<1>3. ASSUME MainStep PROVE AskedInv'
  <2>1. /\ UNCHANGED <<spc, quit_wait_flag, rpc, interrupts>>
        /\ pending' \in {pending, pending \cup {"USR1"}}
    BY <1>3 DEF MainStep, Enqueue, Kill, osVars, signalVars, reactorVars
  <2> QED
    BY <2>1 DEF AskedInv
<1>4. ASSUME Environment PROVE AskedInv'
  <2>1. CASE Interrupt
    BY <1>0, <2>1 DEF Interrupt, AskedInv
  <2>2. CASE ~Interrupt
    <3>1. UNCHANGED <<pending, spc, quit_wait_flag, rpc, interrupts>>
      BY <1>4, <2>2 DEF Environment, Accept, ClientResets, AcceptFails, osVars, signalVars,
         reactorVars, mainVars
    <3> QED
      BY <3>1 DEF AskedInv
  <2> QED
    BY <2>1, <2>2
<1>5. ASSUME UNCHANGED vars PROVE AskedInv'
  BY <1>5 DEF vars, signalVars, reactorVars, mainVars, AskedInv
<1> QED
  BY <1>1, <1>2, <1>3, <1>4, <1>5 DEF Next

(* A SIGINT that wakes a reactor from pause() is the second one. *)
LEMMA InterruptKeepsPlaces ==
    ASSUME TypeOK, AskedInv, MaxInterrupts <= 1, Interrupt
    PROVE  UNCHANGED rpc
<1>1. interrupts = 0
  BY ServerAssumption DEF TypeOK, Interrupt
<1>2. \A r \in Reactors : ~At(r, "paused")
  BY <1>1 DEF AskedInv, At, QuitPCs
<1> QED
  BY <1>2 DEF Interrupt

LEMMA OthersKeepPlaces ==
    ASSUME TypeOK, AskedInv, MaxInterrupts <= 1,
           SignalStep \/ MainStep \/ Environment \/ UNCHANGED vars
    PROVE  UNCHANGED rpc
<1>1. CASE Interrupt
  BY <1>1, InterruptKeepsPlaces
<1>2. CASE ~Interrupt
  BY <1>2 DEF SignalStep, MainStep, Enqueue, Kill, Environment, Accept, ClientResets,
     AcceptFails, reactorVars, vars
<1> QED
  BY <1>1, <1>2

LEMMA ReactorKeepsPlaces ==
    ASSUME TypeOK, NEW r \in Reactors, Reactor(r), ~ResetAll(r)
    PROVE  isStopping' <=> isStopping
<1>1. Steady(r)
  BY SteadySteps
<1>2. isStopping <=> \E s \in Reactors : Stops(rpc[s])
  BY DEF isStopping, Stops
<1>3. isStopping' <=> \E s \in Reactors : Stops(rpc'[s])
  BY DEF isStopping, Stops
<1> QED
  BY <1>1, <1>2, <1>3 DEF Steady

LEMMA ResetStops ==
    ASSUME TypeOK, NEW r \in Reactors, ResetAll(r)
    PROVE  isStopping'
<1>1. rpc'[r] = "quitLoad"
  BY DEF ResetAll, Goto, TypeOK, ReactorTypeOK
<1> QED
  BY <1>1 DEF isStopping

(* With one SIGINT, stopping is for ever. *)
LEMMA StoppingStays ==
    ASSUME TypeOK, AskedInv, MaxInterrupts <= 1, [Next]_vars, isStopping
    PROVE  isStopping'
<1>1. ASSUME NEW r \in Reactors, ReactorStep(r) PROVE isStopping'
  <2>1. Reactor(r)
    BY <1>1 DEF ReactorStep
  <2> QED
    BY <2>1, ReactorKeepsPlaces, ResetStops
<1>2. ASSUME SignalStep \/ MainStep \/ Environment \/ UNCHANGED vars PROVE isStopping'
  BY <1>2, OthersKeepPlaces DEF isStopping
<1> QED
  BY <1>1, <1>2 DEF Next

-----------------------------------------------------------------------------
(* KnownInv *)

LEMMA KnownKeeps ==
    ASSUME TypeOK, Owners, KnownInv, [Next]_vars
    PROVE  KnownInv'
<1>1. ASSUME UNCHANGED <<files, peer, answers>> PROVE KnownInv'
  BY <1>1 DEF KnownInv
<1>2. ASSUME NEW r \in Reactors, ReactorStep(r) PROVE KnownInv'
  <2>0. Reactor(r)
    BY <1>2 DEF ReactorStep
  <2>1. CASE HandleWrite(r)
    <3>1. FdOf(r) \in Fds /\ UNCHANGED <<files, peer>>
      BY <2>1, BusyIsNotWaiting DEF HandleWrite, At, HandlerPCs, osVars, kernelVars
    <3>2. \A h, c \in Conns : <<h, c>> \in answers' =>
            <<h, c>> \in answers \/ c = files[FdOf(r)]
      BY <2>1 DEF HandleWrite
    <3> QED
      BY <3>1, <3>2 DEF KnownInv
  <2>2. ASSUME NEW F \in SUBSET Fds, CloseFds(F), UNCHANGED answers PROVE KnownInv'
    <3>1. /\ peer' = peer
          /\ \A f \in Fds : files'[f] = IF f \in F THEN NoConn ELSE files[f]
      BY <2>2, CloseFdsDoes DEF TypeOK
    <3> QED
      BY <2>2, <3>1, KernelAssumption DEF KnownInv
  <2>3. CASE DisConnected(r)
    <3>1. {FdOf(r)} \in SUBSET Fds
      BY <2>3, BusyIsNotWaiting DEF DisConnected, At, HandlerPCs
    <3> QED
      BY <2>2, <2>3, <3>1 DEF DisConnected
  <2>4. CASE ResetAll(r)
    BY <2>2, <2>4 DEF ResetAll
  <2>5. CASE RegisterCtl(r) \/ RemoveCtl(r)
    BY <1>1, <2>5 DEF RegisterCtl, RemoveCtl, EpollCtl
  <2>6. CASE RegisterPop(r)
    BY <1>1, <2>6 DEF RegisterPop, osVars, kernelVars
  <2>7. CASE Bookkeeps(r)
    BY <1>1, <2>7 DEF Bookkeeps, kernelVars
  <2> QED
    BY <2>0, <2>1, <2>3, <2>4, <2>5, <2>6, <2>7, BookSteps
<1>3. ASSUME SignalStep \/ MainStep \/ AcceptFails \/ Interrupt PROVE KnownInv'
  BY <1>1, <1>3 DEF SignalStep, MainStep, Enqueue, Kill, AcceptFails, Interrupt, osVars,
     kernelVars, reactorVars
<1>4. ASSUME NEW c \in Conns, Accept(c) PROVE KnownInv'
  <2>1. PICK f \in Fds : \A g \in Fds : files'[g] = IF g = f THEN c ELSE files[g]
    BY <1>4, AcceptDoes
  <2>2. /\ UNCHANGED answers
        /\ \A d \in Conns : peer'[d] = IF d = c THEN "up" ELSE peer[d]
    BY <1>4, AcceptDoes
  <2> QED
    BY <2>1, <2>2 DEF KnownInv
<1>5. ASSUME NEW c \in Conns, ClientResets(c) PROVE KnownInv'
  <2>1. UNCHANGED <<files, answers>> /\ peer' = [peer EXCEPT ![c] = "reset"]
    BY <1>5 DEF ClientResets, PeerReset, reactorVars
  <2>2. \A d \in Conns : peer'[d] = IF d = c THEN "reset" ELSE peer[d]
    BY <2>1 DEF TypeOK, KernelTypeOK
  <2> QED
    BY <2>1, <2>2 DEF KnownInv
<1>6. ASSUME UNCHANGED vars PROVE KnownInv'
  BY <1>1, <1>6 DEF vars, kernelVars, reactorVars
<1> QED
  BY <1>2, <1>3, <1>4, <1>5, <1>6 DEF Next, Environment

-----------------------------------------------------------------------------
(* The invariant *)

LEMMA ReactorAgrees ==
    ASSUME TypeOK, Owners, Agrees, NEW r \in Reactors, ReactorStep(r), ~isStopping'
    PROVE  Agrees'
<1>1. Reactor(r) /\ UNCHANGED accepted
  BY DEF ReactorStep, mainVars
<1>2. ~ResetAll(r)
  BY ResetStops
<1> QED
  BY <1>1, <1>2, BookSteps, BookAgrees, RegisterCtlAgrees, RegisterPopAgrees, RemoveCtlAgrees,
     HandleWriteAgrees, DisConnectedAgrees

LEMMA OthersAgree ==
    ASSUME TypeOK, Owners, KnownInv, AskedInv, Agrees, MaxInterrupts <= 1,
           SignalStep \/ MainStep \/ Environment \/ UNCHANGED vars
    PROVE  Agrees'
<1>1. CASE Enqueue
  BY <1>1, EnqueueAgrees
<1>2. ASSUME NEW c \in Conns, Accept(c) PROVE Agrees'
  BY <1>2, AcceptAgrees
<1>3. ASSUME NEW c \in Conns, ClientResets(c) PROVE Agrees'
  <2>1. /\ UNCHANGED <<files, interest, handler, answers, rpc, cur, queue, accepted>>
        /\ peer[c] = "up" /\ peer' = [peer EXCEPT ![c] = "reset"]
    BY <1>3 DEF ClientResets, PeerReset, reactorVars, mainVars
  <2>2. \A d \in Conns : peer'[d] = "away" <=> peer[d] = "away"
    BY <2>1 DEF TypeOK, KernelTypeOK
  <2>3. \A d \in Conns : Waiting(d)' => Waiting(d)
    BY <2>1, <2>2 DEF Waiting, InQueue
  <2> QED
    BY <2>1, <2>2, <2>3, StillAgrees
<1>4. CASE SignalStep \/ Kill \/ AcceptFails \/ Interrupt \/ UNCHANGED vars
  <2>1. UNCHANGED <<files, peer, interest, handler, answers, cur, queue, accepted>>
    BY <1>4 DEF SignalStep, Kill, AcceptFails, Interrupt, osVars, kernelVars, reactorVars,
       mainVars, vars
  <2>2. UNCHANGED rpc
    <3>1. CASE Interrupt
      BY <3>1, InterruptKeepsPlaces
    <3>2. CASE ~Interrupt
      BY <1>4, <3>2 DEF SignalStep, Kill, AcceptFails, reactorVars, vars
    <3> QED
      BY <3>1, <3>2
  <2>3. \A d \in Conns : Waiting(d)' => Waiting(d)
    BY <2>1 DEF Waiting, InQueue
  <2> QED
    BY <2>1, <2>2, <2>3, StillAgrees
<1> QED
  BY <1>1, <1>2, <1>3, <1>4 DEF MainStep, Environment

LEMMA InitAgrees == Init => PInv
<1> SUFFICES ASSUME Init PROVE PInv
  OBVIOUS
<1>1. /\ \A f \in Fds : files[f] = NoConn
      /\ \A c \in Conns : peer[c] = "away" /\ ~handler[c].connected
      /\ \A r \in Reactors, c \in Conns : interest[r][c] = "none"
  BY MultiplexerAssumption DEF Init, KernelInit, ReactorInit, NoHandler
<1>2. answers = {} /\ \A r \in Reactors : rpc[r] = "select"
  BY DEF Init, ReactorInit
<1>3. KnownInv
  BY <1>1, <1>2, KernelAssumption DEF KnownInv
<1>4. AskedInv
  BY <1>2 DEF AskedInv, Init, SignalInit, QuitPCs
<1>5. OpenInv /\ CloseInv /\ OnceInv
  BY <1>1, <1>2, KernelAssumption DEF OpenInv, CloseInv, OnceInv
<1>6. WaitInv /\ OneEpoll
  BY <1>1 DEF WaitInv, OneEpoll
<1> QED
  BY <1>3, <1>4, <1>5, <1>6 DEF PInv, Agrees

LEMMA StepAgrees ==
    ASSUME IInv, PInv, [Next]_vars, MaxInterrupts <= 1
    PROVE  PInv'
<1>0. TypeOK /\ Owners
  BY DEF IInv
<1>1. KnownInv' /\ AskedInv'
  BY <1>0, KnownKeeps, AskedKeeps DEF PInv
<1>2. ASSUME ~isStopping' PROVE Agrees'
  <2>1. ~isStopping
    BY <1>0, <1>2, StoppingStays DEF PInv
  <2>2. Agrees
    BY <2>1 DEF PInv
  <2> QED
    BY <1>0, <1>2, <2>2, ReactorAgrees, OthersAgree DEF PInv, Next
<1> QED
  BY <1>1, <1>2 DEF PInv

(* With at most one SIGINT handlers, descriptor numbers and epoll instances   *)
(* agree until a reactor has reset its connections.                          *)
THEOREM AgreesUntilReset ==
    ASSUME MaxInterrupts <= 1
    PROVE  Spec => []PInv
<1>1. IInv /\ PInv /\ [Next]_vars => PInv'
  BY StepAgrees
<1> QED
  BY <1>1, InitAgrees, Invariant, PTL DEF Spec

(* A connection is in the interest list of one epoll instance at most, for    *)
(* any number of reactors: register_handler() never takes a number that       *)
(* another reactor's epoll instance still watches.                           *)
THEOREM OneEpollEach ==
    ASSUME MaxInterrupts <= 1
    PROVE  Spec => []OneEpollPerConnection
<1>1. PInv => OneEpollPerConnection
  BY DEF PInv, Agrees, OneEpoll, OneEpollPerConnection
<1> QED
  BY <1>1, AgreesUntilReset, PTL

(* TcpSocket::write() on the number of a handler reaches the connection of    *)
(* that handler, although close() and accept() hand the number on.           *)
THEOREM AnswersItsOwn ==
    ASSUME MaxInterrupts <= 1
    PROVE  Spec => []AnswersItsConnection
<1>1. ASSUME IInv, PInv PROVE AnswersItsConnection
  <2>1. answers \subseteq Conns \X Conns
    BY <1>1 DEF IInv, TypeOK, ReactorTypeOK
  <2> QED
    BY <1>1, <2>1 DEF PInv, Agrees, OnceInv, AnswersItsConnection
<1> QED
  BY <1>1, AgreesUntilReset, Invariant, PTL

(* handle_write() is entered for a connected handler only while its           *)
(* connection has no answer yet, although the handler may stay in the map     *)
(* after remove_handler() and be reported again.                             *)
THEOREM AnsweredAtMostOnce ==
    ASSUME MaxInterrupts <= 1
    PROVE  Spec => []AnsweredOnce
<1>1. ASSUME IInv, PInv PROVE AnsweredOnce
  <2>1. SUFFICES ASSUME ~isStopping, NEW r \in Reactors, NEW h \in Conns,
                        rpc[r] = "write", handler[cur[r]].connected,
                        <<h, files[FdOf(r)]>> \in answers
                 PROVE  FALSE
    BY DEF AnsweredOnce, At
  <2>2. TypeOK /\ Owners /\ Agrees
    BY <1>1, <2>1 DEF IInv, PInv
  <2>3. /\ cur[r] \in Conns /\ FdOf(r) \in Fds
        /\ \A s \in Reactors : s # r => cur[s] # cur[r]
    BY <2>1, <2>2, BusyIsNotWaiting DEF HandlerPCs
  <2>4. files[FdOf(r)] = cur[r]
    BY <2>1, <2>2, <2>3 DEF Agrees, OpenInv, FdOf
  <2>5. h = cur[r] /\ Closing(h)
    BY <2>1, <2>2, <2>3, <2>4 DEF Agrees, OnceInv
  <2> QED
    BY <2>1, <2>3, <2>5 DEF Closing
<1> QED
  BY <1>1, AgreesUntilReset, Invariant, PTL

-----------------------------------------------------------------------------
(* The server keeps the promise of Connections *)

Phases == {"new", "open", "answered", "reset", "closed"}

Open(c) == \E f \in Fds : files[f] = c
Answered(c) == \E h \in Conns : <<h, c>> \in answers

LEMMA PhaseIs ==
    ASSUME NEW c \in Conns
    PROVE  /\ connPhase[c] =
                IF Open(c)
                  THEN IF peer[c] = "reset" THEN "reset"
                       ELSE IF Answered(c) THEN "answered" ELSE "open"
                  ELSE IF peer[c] = "away" THEN "new" ELSE "closed"
           /\ connPhase'[c] =
                IF Open(c)'
                  THEN IF peer'[c] = "reset" THEN "reset"
                       ELSE IF Answered(c)' THEN "answered" ELSE "open"
                  ELSE IF peer'[c] = "away" THEN "new" ELSE "closed"
  BY DEF connPhase, Open, Answered

LEMMA PhaseType == connPhase \in [Conns -> Phases] /\ connPhase' \in [Conns -> Phases]
  BY DEF connPhase, Phases

LEMMA PhaseStays ==
    ASSUME NEW c \in Conns, Open(c)' <=> Open(c), Answered(c)' <=> Answered(c),
           peer'[c] = peer[c]
    PROVE  connPhase'[c] = connPhase[c]
  BY PhaseIs

LEMMA InitMaps == Init => Promise!Init
<1> SUFFICES ASSUME Init PROVE Promise!Init
  OBVIOUS
<1>1. \A c \in Conns : ~Open(c) /\ peer[c] = "away"
  BY KernelAssumption DEF Init, KernelInit, Open
<1>2. \A c \in Conns : connPhase[c] = "new"
  BY <1>1, PhaseIs
<1>3. isStopping = FALSE
  BY DEF Init, ReactorInit, isStopping
<1> QED
  BY <1>2, <1>3 DEF Promise!Init, connPhase

(* When the phase of one connection changes the step is an action of          *)
(* Connections.                                                               *)
LEMMA OneAct ==
    ASSUME NEW c \in Conns, isStopping' = isStopping,
           \A d \in Conns : d # c => connPhase'[d] = connPhase[d],
           \/ connPhase'[c] = connPhase[c]
           \/ connPhase[c] = "new" /\ connPhase'[c] = "open"
           \/ connPhase[c] = "open" /\ connPhase'[c] \in {"answered", "reset"}
           \/ connPhase[c] = "answered" /\ connPhase'[c] \in {"reset", "closed"}
           \/ connPhase[c] = "reset" /\ connPhase'[c] = "closed"
    PROVE  [Promise!Next]_Promise!vars
<1>1. connPhase' = [connPhase EXCEPT ![c] = connPhase'[c]]
  BY PhaseType
<1>2. CASE connPhase'[c] = connPhase[c]
  <2>1. connPhase' = connPhase
    BY <1>1, <1>2, PhaseType
  <2> QED
    BY <2>1 DEF Promise!vars
<1>3. CASE connPhase'[c] # connPhase[c]
  BY <1>1, <1>3 DEF Promise!Next, Promise!Accept, Promise!Answer, Promise!ClientReset,
     Promise!Close, Promise!Move
<1> QED
  BY <1>2, <1>3

LEMMA NobodyActs ==
    ASSUME isStopping' = isStopping, UNCHANGED <<files, peer, answers>>
    PROVE  [Promise!Next]_Promise!vars
  BY DEF Promise!vars, connPhase

(* Closing descriptors closes the connections that have lost theirs. *)
LEMMA CloseFdsPhases ==
    ASSUME TypeOK, KnownInv, NEW F \in SUBSET Fds, CloseFds(F), UNCHANGED answers
    PROVE  /\ \A c \in Conns :
                \/ connPhase'[c] = connPhase[c]
                \/ connPhase[c] # "new" /\ connPhase'[c] = "closed"
           /\ \A c \in Conns : (\A f \in F : files[f] # c) => connPhase'[c] = connPhase[c]
<1>1. /\ peer' = peer
      /\ \A f \in Fds : files'[f] = IF f \in F THEN NoConn ELSE files[f]
  BY CloseFdsDoes DEF TypeOK
<1>2. ASSUME NEW c \in Conns
      PROVE  /\ Answered(c)' <=> Answered(c)
             /\ Open(c)' => Open(c)
             /\ (\A f \in F : files[f] # c) => (Open(c)' <=> Open(c))
             /\ Open(c) => peer[c] # "away"
  <2>1. Answered(c)' <=> Answered(c)
    BY DEF Answered
  <2>2. Open(c)' => Open(c)
    BY <1>1, KernelAssumption DEF Open
  <2>3. (\A f \in F : files[f] # c) /\ Open(c) => Open(c)'
    BY <1>1 DEF Open
  <2>4. Open(c) => peer[c] # "away"
    BY DEF Open, KnownInv
  <2> QED
    BY <2>1, <2>2, <2>3, <2>4
<1>3. ASSUME NEW c \in Conns, Open(c)' <=> Open(c) PROVE connPhase'[c] = connPhase[c]
  BY <1>1, <1>2, <1>3, PhaseStays
<1>4. ASSUME NEW c \in Conns, ~(Open(c)' <=> Open(c))
      PROVE  connPhase[c] # "new" /\ connPhase'[c] = "closed"
  BY <1>1, <1>2, <1>4, PhaseIs
<1> QED
  BY <1>2, <1>3, <1>4

LEMMA ResetActs ==
    ASSUME isStopping', \A c \in Conns : \/ connPhase'[c] = connPhase[c]
                                         \/ connPhase[c] # "new" /\ connPhase'[c] = "closed"
    PROVE  [Promise!Next]_Promise!vars
<1>1. isStopping' = TRUE
  BY DEF isStopping
<1> QED
  BY <1>1, PhaseType DEF Promise!Next, Promise!Reset, Phases

(* handle_write() answers an open connection, once. *)
LEMMA HandleWriteActs ==
    ASSUME TypeOK, Owners, isStopping' = isStopping, NEW r \in Reactors, HandleWrite(r)
    PROVE  [Promise!Next]_Promise!vars
<1>1. /\ UNCHANGED <<files, peer>>
      /\ cur[r] \in Conns /\ FdOf(r) \in Fds
  BY BusyIsNotWaiting DEF HandleWrite, At, HandlerPCs, osVars, kernelVars
<1>2. CASE handler[cur[r]].connected /\ files[FdOf(r)] # NoConn
  <2>1. PICK c \in Conns : c = files[FdOf(r)]
    BY <1>1, <1>2 DEF TypeOK, KernelTypeOK
  <2>2. {files[FdOf(r)]} \ {NoConn} = {c}
    BY <1>2, <2>1
  <2>3. answers' = answers \cup {<<cur[r], d>> : d \in {c}}
    BY <1>2, <2>2 DEF HandleWrite
  <2>4. \A h, d : <<h, d>> \in answers' <=> <<h, d>> \in answers \/ (h = cur[r] /\ d = c)
    BY <2>3
  <2>5. \A d \in Conns : Open(d)' <=> Open(d)
    BY <1>1 DEF Open
  <2>6. \A d \in Conns : d # c => connPhase'[d] = connPhase[d]
    BY <1>1, <2>4, <2>5, PhaseStays DEF Answered
  <2>7. Open(c) /\ Answered(c)'
    BY <1>1, <2>1, <2>4 DEF Open, Answered
  <2>8. connPhase'[c] = connPhase[c] \/ (connPhase[c] = "open" /\ connPhase'[c] = "answered")
    BY <1>1, <2>5, <2>7, PhaseIs
  <2> QED
    BY <2>6, <2>8, OneAct
<1>3. CASE ~(handler[cur[r]].connected /\ files[FdOf(r)] # NoConn)
  <2>1. answers' = answers
    BY <1>3 DEF HandleWrite
  <2> QED
    BY <1>1, <2>1, NobodyActs
<1> QED
  BY <1>2, <1>3

(* disConnected() closes an answered connection, or the server is stopping. *)
LEMMA DisConnectedActs ==
    ASSUME TypeOK, Owners, PInv, isStopping' = isStopping, NEW r \in Reactors, DisConnected(r)
    PROVE  [Promise!Next]_Promise!vars
<1>1. /\ rpc[r] = "close" /\ UNCHANGED answers /\ CloseFds({FdOf(r)})
  BY DEF DisConnected, At
<1>2. cur[r] \in Conns /\ FdOf(r) \in Fds
  BY <1>1, BusyIsNotWaiting DEF HandlerPCs
<1>3. /\ \A c \in Conns : \/ connPhase'[c] = connPhase[c]
                          \/ connPhase[c] # "new" /\ connPhase'[c] = "closed"
      /\ \A c \in Conns : files[FdOf(r)] # c => connPhase'[c] = connPhase[c]
  <2>1. PICK F \in SUBSET Fds : F = {FdOf(r)}
    BY <1>2
  <2>2. KnownInv /\ CloseFds(F)
    BY <1>1, <2>1 DEF PInv
  <2>3. /\ \A c \in Conns : \/ connPhase'[c] = connPhase[c]
                            \/ connPhase[c] # "new" /\ connPhase'[c] = "closed"
        /\ \A c \in Conns : (\A f \in F : files[f] # c) => connPhase'[c] = connPhase[c]
    BY <1>1, <2>2, CloseFdsPhases
  <2> QED
    BY <2>1, <2>3
<1>4. CASE isStopping
  BY <1>3, <1>4, ResetActs
<1>5. CASE ~isStopping
  <2>1. PICK c \in Conns : c = cur[r]
    BY <1>2
  <2>2. handler[c].connected /\ <<c, c>> \in answers /\ FdOf(r) = handler[c].fd
    BY <1>1, <1>5, <2>1 DEF PInv, Agrees, CloseInv, FdOf
  <2>3. files[FdOf(r)] = c
    BY <1>2, <1>5, <2>2 DEF PInv, Agrees, OpenInv
  <2>4. connPhase[c] \in {"answered", "reset"}
    BY <1>2, <2>2, <2>3, PhaseIs DEF Open, Answered
  <2> QED
    BY <1>3, <2>3, <2>4, OneAct
<1> QED
  BY <1>4, <1>5

LEMMA AcceptActs ==
    ASSUME TypeOK, KnownInv, isStopping' = isStopping, NEW c \in Conns, Accept(c)
    PROVE  [Promise!Next]_Promise!vars
<1>1. /\ peer[c] = "away" /\ UNCHANGED answers
      /\ \A d \in Conns : peer'[d] = IF d = c THEN "up" ELSE peer[d]
  BY AcceptDoes
<1>2. PICK f \in Fds :
        /\ files[f] = NoConn
        /\ \A g \in Fds : files'[g] = IF g = f THEN c ELSE files[g]
  BY AcceptDoes
<1>3. \A d \in Conns : Answered(d)' <=> Answered(d)
  BY <1>1 DEF Answered
<1>4. Open(c)' /\ ~Open(c) /\ ~Answered(c)
  BY <1>1, <1>2 DEF Open, Answered, KnownInv
<1>5. connPhase[c] = "new" /\ connPhase'[c] = "open"
  BY <1>1, <1>3, <1>4, PhaseIs
<1>6. \A d \in Conns : d # c => (Open(d)' <=> Open(d))
  BY <1>2, KernelAssumption DEF Open
<1>7. \A d \in Conns : d # c => connPhase'[d] = connPhase[d]
  BY <1>1, <1>3, <1>6, PhaseStays
<1> QED
  BY <1>5, <1>7, OneAct

LEMMA ClientResetsActs ==
    ASSUME TypeOK, isStopping' = isStopping, NEW c \in Conns, ClientResets(c)
    PROVE  [Promise!Next]_Promise!vars
<1>1. /\ UNCHANGED <<files, answers>> /\ peer[c] = "up"
      /\ peer' = [peer EXCEPT ![c] = "reset"]
  BY DEF ClientResets, PeerReset, reactorVars
<1>2. Open(c)
  BY DEF ClientResets, Open
<1>3. \A d \in Conns : (Open(d)' <=> Open(d)) /\ (Answered(d)' <=> Answered(d))
  BY <1>1 DEF Open, Answered
<1>4. peer'[c] = "reset" /\ \A d \in Conns : d # c => peer'[d] = peer[d]
  BY <1>1 DEF TypeOK, KernelTypeOK
<1>5. connPhase[c] \in {"open", "answered"} /\ connPhase'[c] = "reset"
  BY <1>1, <1>2, <1>3, <1>4, PhaseIs
<1>6. \A d \in Conns : d # c => connPhase'[d] = connPhase[d]
  BY <1>3, <1>4, PhaseStays
<1> QED
  BY <1>5, <1>6, OneAct

LEMMA StepMaps ==
    ASSUME IInv, PInv, [Next]_vars, MaxInterrupts <= 1
    PROVE  [Promise!Next]_Promise!vars
<1>0. TypeOK /\ Owners /\ KnownInv /\ AskedInv
  BY DEF IInv, PInv
<1>1. ASSUME NEW r \in Reactors, ReactorStep(r) PROVE [Promise!Next]_Promise!vars
  <2>1. Reactor(r)
    BY <1>1 DEF ReactorStep
  <2>2. CASE ResetAll(r)
    <3>1. \A c \in Conns : \/ connPhase'[c] = connPhase[c]
                           \/ connPhase[c] # "new" /\ connPhase'[c] = "closed"
      BY <1>0, <2>2, CloseFdsPhases DEF ResetAll
    <3> QED
      BY <1>0, <2>2, <3>1, ResetStops, ResetActs
  <2>3. CASE ~ResetAll(r)
    <3>1. isStopping' = isStopping
      BY <1>0, <2>1, <2>3, ReactorKeepsPlaces DEF isStopping
    <3>2. CASE RegisterCtl(r) \/ RemoveCtl(r) \/ RegisterPop(r) \/ Bookkeeps(r)
      BY <3>1, <3>2, NobodyActs DEF RegisterCtl, RemoveCtl, RegisterPop, Bookkeeps, EpollCtl,
         osVars, kernelVars
    <3> QED
      BY <1>0, <2>1, <2>3, <3>1, <3>2, BookSteps, HandleWriteActs, DisConnectedActs
  <2> QED
    BY <2>2, <2>3
<1>2. ASSUME SignalStep \/ MainStep \/ Environment \/ UNCHANGED vars
      PROVE  [Promise!Next]_Promise!vars
  <2>1. isStopping' = isStopping
    BY <1>0, <1>2, OthersKeepPlaces DEF isStopping
  <2>2. CASE SignalStep \/ MainStep \/ AcceptFails \/ Interrupt \/ UNCHANGED vars
    BY <2>1, <2>2, NobodyActs DEF SignalStep, MainStep, Enqueue, Kill, AcceptFails, Interrupt,
       osVars, kernelVars, reactorVars, vars
  <2> QED
    BY <1>0, <1>2, <2>1, <2>2, AcceptActs, ClientResetsActs DEF Environment
<1> QED
  BY <1>1, <1>2 DEF Next

(* Every step of the server is a step of Connections or leaves it alone: a    *)
(* connection is answered at most once, and closed only after its answer,    *)
(* after its client reset it, or when a reactor quits.                       *)
THEOREM HttpServerImplementsConnections ==
    ASSUME MaxInterrupts <= 1
    PROVE  Spec => ImplementsConnections
<1>1. IInv /\ PInv /\ [Next]_vars => [Promise!Next]_Promise!vars
  BY StepMaps
<1> QED
  BY <1>1, InitMaps, Invariant, AgreesUntilReset, PTL
     DEF Spec, Promise!Spec, ImplementsConnections
=============================================================================
