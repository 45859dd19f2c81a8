------------------------ MODULE HttpServer_proofs ------------------------
(* Proofs about the server, for any clients, descriptors, reactors and      *)
(* bounds: its types, that wait_queue_mtx excludes, that a handler is the   *)
(* business of one reactor, and, for the two reactors of the program and    *)
(* one SIGINT, that the process exits only after both have quit.            *)
EXTENDS HttpServer, FiniteSetTheorems, SequenceTheorems, WellFoundedInduction, TLAPS

-----------------------------------------------------------------------------
(* The inductive invariant *)

Registering == {"regRead", "regCtl", "regPop"}
Entries == Conns \cup {Absent, Null}
Handlers == [fd : Fds \cup {0}, home : Reactors \cup {Free},
             connected : BOOLEAN, live : BOOLEAN]
Ctls == [op : CtlOps, mask : Interests]

(* A reactor has a connection when it registers, runs or removes its handler, *)
(* or when its map leads there.                                              *)
Has(r, c) == cur[r] = c \/ \E f \in Fds : fds[r][f] = c
InQueue(c) == \E i \in 1..Len(queue) : queue[i] = c

(* wait_queue_mtx is held by the reactor that empties the queue. *)
MutexInv == \A r \in Reactors : queueMtx = r <=> rpc[r] \in RegisterPCs

(* A reactor is busy with a handler where it registers or runs one. *)
Busy(r) == rpc[r] \in Registering \cup HandlerPCs
CurInv == \A r \in Reactors : Busy(r) <=> cur[r] # NoConn

(* What is being registered is still the last of the queue. *)
LastInv ==
    \A r \in Reactors : rpc[r] \in Registering =>
        queue # <<>> /\ cur[r] = queue[Len(queue)]

OneHolder ==
    \A r, s \in Reactors, c \in Conns : Has(r, c) /\ Has(s, c) => r = s

(* A connection leaves the queue before anything else happens to it. *)
QueuedInv ==
    \A r \in Reactors, c \in Conns :
        Has(r, c) /\ InQueue(c) => rpc[r] \in Registering /\ cur[r] = c

Distinct == \A i, k \in 1..Len(queue) : queue[i] = queue[k] => i = k

(* The connection the main thread is about to queue is nobody's yet, and so  *)
(* is one that has not arrived.                                              *)
Fresh(c) == ~InQueue(c) /\ \A r \in Reactors : ~Has(r, c)
AcceptedInv ==
    /\ mpc = "push" => accepted \in Conns
    /\ accepted \in Conns => peer[accepted] # "away" /\ Fresh(accepted)
AwayInv == \A c \in Conns : peer[c] = "away" => Fresh(c)

(* A connection that was accepted has a descriptor and a reactor. *)
HandlerInv ==
    \A c \in Conns : peer[c] # "away" =>
        handler[c].fd \in Fds /\ handler[c].home \in Reactors

Owners ==
    /\ MutexInv /\ CurInv /\ LastInv
    /\ OneHolder /\ QueuedInv /\ Distinct
    /\ AcceptedInv /\ AwayInv /\ HandlerInv

IInv == TypeOK /\ Owners

-----------------------------------------------------------------------------
-----------------------------------------------------------------------------
(* Types *)

(* accept() takes a descriptor that is free. *)
LEMMA LowestIsIn ==
    ASSUME NEW S \in SUBSET Nat, S # {}
    PROVE  Lowest(S) \in S
<1> DEFINE R == OpToRel(<, Nat)
<1>1. \E f \in S : \A g \in S : ~(<<g, f>> \in R)
  BY Zenon, NatLessThanWellFounded, WFMin
<1>2. \A f, g \in Nat : g < f => <<g, f>> \in R
  BY Zenon DEF OpToRel
<1>3. PICK f \in S : \A g \in S : ~(<<g, f>> \in R)
  BY Zenon, <1>1
<1> HIDE DEF R
<1>4. ASSUME NEW g \in S PROVE f <= g
  <2>1. f \in Nat /\ g \in Nat /\ ~(g < f)
    BY <1>2, <1>3
  <2> QED
    BY <2>1
<1> QED
  BY <1>4 DEF Lowest

LEMMA NextReactorIsOne ==
    ASSUME reactor_select \in Reactors
    PROVE  NextReactor \in Reactors
<1>1. Cardinality(Reactors) \in Nat
  BY ServerAssumption, FS_CardinalityType
<1>2. Cardinality(Reactors) # 0
  BY ServerAssumption, FS_EmptySet
<1>3. reactor_select \in 0..(Cardinality(Reactors) - 1)
  BY ServerAssumption
<1>4. \A x \in Int, n \in Nat : n > 0 => x % n \in 0..(n - 1)
  OBVIOUS
<1>5. NextReactor \in 0..(Cardinality(Reactors) - 1)
  BY <1>1, <1>2, <1>3, <1>4 DEF NextReactor
<1> QED
  BY <1>5, ServerAssumption

(* What the operators of the model do to the state. *)
LEMMA PutDoes ==
    ASSUME ReactorTypeOK, NEW m \in Reactors, NEW f \in Fds, NEW e \in Entries, Put(m, f, e)
    PROVE  /\ fds' \in [Reactors -> [Fds -> Entries]]
           /\ \A s \in Reactors, g \in Fds :
                fds'[s][g] = IF s = m /\ g = f THEN e ELSE fds[s][g]
  BY DEF ReactorTypeOK, Put, Entries

LEMMA GotoDoes ==
    ASSUME ReactorTypeOK, NEW r \in Reactors, NEW pc \in ReactorPCs, Goto(r, pc)
    PROVE  /\ rpc' \in [Reactors -> ReactorPCs]
           /\ rpc'[r] = pc
           /\ \A s \in Reactors : s # r => rpc'[s] = rpc[s]
  BY DEF ReactorTypeOK, Goto

LEMMA CloseFdsType ==
    ASSUME KernelTypeOK, NEW F, CloseFds(F)
    PROVE  KernelTypeOK' /\ peer' = peer
  BY KernelAssumption DEF KernelTypeOK, CloseFds, Interests

LEMMA EpollCtlType ==
    ASSUME KernelTypeOK, NEW e, NEW op, NEW f, NEW mask \in Interests, EpollCtl(e, op, f, mask)
    PROVE  KernelTypeOK' /\ peer' = peer
  BY KernelAssumption DEF KernelTypeOK, EpollCtl, Interests

(* A handler keeps its descriptor and its reactor. *)
LEMMA HandlerDoes ==
    ASSUME handler \in [Conns -> Handlers], NEW c \in Conns,
           \/ handler' = [handler EXCEPT ![c].live = FALSE]
           \/ handler' = [handler EXCEPT ![c].connected = FALSE]
    PROVE  /\ handler' \in [Conns -> Handlers]
           /\ \A d \in Conns : handler'[d].fd = handler[d].fd /\ handler'[d].home = handler[d].home
<1>1. ASSUME NEW h \in Handlers
      PROVE  /\ [h EXCEPT !.live = FALSE] \in Handlers
             /\ [h EXCEPT !.live = FALSE].fd = h.fd /\ [h EXCEPT !.live = FALSE].home = h.home
             /\ [h EXCEPT !.connected = FALSE] \in Handlers
             /\ [h EXCEPT !.connected = FALSE].fd = h.fd
             /\ [h EXCEPT !.connected = FALSE].home = h.home
  BY DEF Handlers
<1>2. handler[c] \in Handlers
  OBVIOUS
<1>3. PICK g \in Handlers : /\ handler' = [handler EXCEPT ![c] = g]
                            /\ g.fd = handler[c].fd /\ g.home = handler[c].home
  BY <1>1, <1>2
<1> QED
  BY <1>3

LEMMA QueueLast ==
    ASSUME queue \in Seq(Conns), queue # <<>>
    PROVE  /\ Len(queue) \in Nat \ {0}
           /\ Last(queue) = queue[Len(queue)] /\ Last(queue) \in Conns
           /\ Front(queue) \in Seq(Conns)
           /\ Len(Front(queue)) = Len(queue) - 1
           /\ \A i \in 1..(Len(queue) - 1) : Front(queue)[i] = queue[i]
<1>1. Len(queue) \in Nat /\ Len(queue) > 0
  OBVIOUS
<1>2. Last(queue) = queue[Len(queue)] /\ Last(queue) \in Conns
  BY <1>1 DEF Last
<1>3. \A i \in 1..(Len(queue) - 1) : queue[i] \in Conns
  BY <1>1
<1>4. /\ SubSeq(queue, 1, Len(queue) - 1) \in Seq(Conns)
      /\ Len(SubSeq(queue, 1, Len(queue) - 1)) =
           IF 1 <= Len(queue) - 1 THEN Len(queue) - 1 - 1 + 1 ELSE 0
      /\ \A i \in 1..(Len(queue) - 1 - 1 + 1) :
           SubSeq(queue, 1, Len(queue) - 1)[i] = queue[1 + i - 1]
  BY <1>1, <1>3, SubSeqProperties
<1>5. /\ Len(queue) - 1 - 1 + 1 = Len(queue) - 1
      /\ \A i \in 1..(Len(queue) - 1) : 1 + i - 1 = i
      /\ (IF 1 <= Len(queue) - 1 THEN Len(queue) - 1 - 1 + 1 ELSE 0) = Len(queue) - 1
  <2>1. ASSUME NEW n \in Nat, n > 0
        PROVE  /\ n - 1 - 1 + 1 = n - 1 /\ \A i \in 1..(n - 1) : 1 + i - 1 = i
               /\ (IF 1 <= n - 1 THEN n - 1 - 1 + 1 ELSE 0) = n - 1
    BY <2>1
  <2> QED
    BY <1>1, <2>1
<1>6. Front(queue) = SubSeq(queue, 1, Len(queue) - 1)
  BY DEF Front
<1>7. ASSUME NEW i \in 1..(Len(queue) - 1) PROVE Front(queue)[i] = queue[i]
  BY <1>4, <1>5, <1>6
<1>8. Front(queue) \in Seq(Conns) /\ Len(Front(queue)) = Len(queue) - 1
  BY <1>4, <1>5, <1>6
<1> QED
  BY <1>1, <1>2, <1>7, <1>8

LEMMA CtlDoes ==
    ASSUME ctl \in [Reactors -> Ctls], NEW r \in Reactors,
           \/ \E op \in CtlOps : ctl' = [ctl EXCEPT ![r].op = op]
           \/ \E mask \in Interests : ctl' = [ctl EXCEPT ![r].mask = mask]
    PROVE  ctl' \in [Reactors -> Ctls]
<1>1. ASSUME NEW k \in Ctls, NEW op \in CtlOps, NEW mask \in Interests
      PROVE  [k EXCEPT !.op = op] \in Ctls /\ [k EXCEPT !.mask = mask] \in Ctls
  BY <1>1 DEF Ctls
<1>2. PICK k \in Ctls : ctl' = [ctl EXCEPT ![r] = k]
  <2>1. ctl[r] \in Ctls /\ "add" \in CtlOps /\ "none" \in Interests
    BY DEF CtlOps, Interests
  <2> QED
    BY <1>1, <2>1
<1> QED
  BY <1>2

(* A reactor that is busy with a handler is busy with an accepted one. *)
LEMMA BusyHandler ==
    ASSUME KernelTypeOK, ReactorTypeOK, Owners, NEW r \in Reactors, Busy(r)
    PROVE  /\ cur[r] \in Conns /\ peer[cur[r]] # "away"
           /\ FdOf(r) \in Fds /\ HomeOf(r) \in Reactors
<1>1. cur[r] \in Conns
  BY DEF ReactorTypeOK, Owners, CurInv
<1>2. peer[cur[r]] # "away"
  BY <1>1 DEF Owners, AwayInv, Fresh, Has
<1> QED
  BY <1>1, <1>2 DEF Owners, HandlerInv, FdOf, HomeOf

(* So is the one that is registered next. *)
LEMMA QueuedHandler ==
    ASSUME KernelTypeOK, ReactorTypeOK, Owners, queue # <<>>
    PROVE  /\ Last(queue) \in Conns /\ InQueue(Last(queue))
           /\ peer[Last(queue)] # "away"
           /\ handler[Last(queue)].fd \in Fds
<1>1. /\ Len(queue) \in Nat \ {0}
      /\ Last(queue) = queue[Len(queue)] /\ Last(queue) \in Conns
  BY QueueLast DEF ReactorTypeOK
<1>2. InQueue(Last(queue))
  <2>1. Len(queue) \in 1..Len(queue)
    BY <1>1
  <2> QED
    BY <1>1, <2>1 DEF InQueue
<1>3. peer[Last(queue)] # "away"
  BY <1>1, <1>2 DEF Owners, AwayInv, Fresh
<1> QED
  BY <1>1, <1>2, <1>3 DEF Owners, HandlerInv

LEMMA InitTypes == Init => TypeOK
<1> SUFFICES ASSUME Init PROVE TypeOK
  OBVIOUS
<1>1. KernelTypeOK
  BY DEF Init, KernelInit, KernelTypeOK, Interests
<1>2. SignalTypeOK
  BY DEF Init, SignalInit, SignalTypeOK, SignalPCs, Signals
<1>3. <<>> \in Seq(Conns)
  BY EmptySeq
<1>4. ReactorTypeOK
  BY <1>3 DEF Init, ReactorInit, ReactorTypeOK, NoHandler, NoCtl, ReactorPCs, CtlOps, Interests
<1>5. 0 \in Reactors
  <2>1. Cardinality(Reactors) \in Nat /\ Cardinality(Reactors) # 0
    BY ServerAssumption, FS_CardinalityType, FS_EmptySet
  <2>2. 0 \in 0..(Cardinality(Reactors) - 1)
    BY <2>1
  <2> QED
    BY <2>2, ServerAssumption
<1>6. interrupts \in 0..MaxInterrupts
  BY ServerAssumption DEF Init
<1> QED
  BY <1>1, <1>2, <1>4, <1>5, <1>6 DEF Init, TypeOK

(* A step of a reactor keeps the types. *)
LEMMA ReactorTypes ==
    ASSUME KernelTypeOK, SignalTypeOK, ReactorTypeOK, Owners,
           NEW r \in Reactors, Reactor(r)
    PROVE  KernelTypeOK' /\ SignalTypeOK' /\ ReactorTypeOK'
<1>1. ASSUME TestQuit(r) PROVE KernelTypeOK' /\ SignalTypeOK' /\ ReactorTypeOK'
  <2>0. UNCHANGED <<osVars, queue, queueMtx, handler, fds, rdy, cur, ctl, val, answers>>
    BY <1>1 DEF TestQuit
  <2>1. rpc' \in [Reactors -> ReactorPCs]
    BY <1>1, GotoDoes DEF TestQuit, TestQuitAt, At, ReactorPCs, RegisterPCs, HandlerPCs,
       RemovePCs, QuitPCs
  <2>2. back' \in [Reactors -> {"epoll", "next"}]
    BY <1>1 DEF TestQuit, TestQuitAt, ReactorTypeOK
  <2> QED
    BY <2>0, <2>1, <2>2 DEF ReactorTypeOK, KernelTypeOK, SignalTypeOK, osVars,
       kernelVars, signalVars, Entries, Handlers, Ctls
<1>2. ASSUME EpollWait(r) PROVE KernelTypeOK' /\ SignalTypeOK' /\ ReactorTypeOK'
  <2>0. UNCHANGED <<osVars, queue, queueMtx, handler, fds, cur, ctl, val, answers, back>>
    BY <1>2 DEF EpollWait
  <2>1. rpc' \in [Reactors -> ReactorPCs]
    BY <1>2, GotoDoes DEF EpollWait, At, ReactorPCs, RegisterPCs, HandlerPCs, RemovePCs, QuitPCs
  <2>2. EpollReady(r) \subseteq Fds \X {"out", "err"}
    BY DEF EpollReady
  <2>3. rdy' \in [Reactors -> SUBSET (Fds \X {"out", "err"})]
    BY <1>2, <2>2 DEF EpollWait, ReactorTypeOK
  <2> QED
    BY <2>0, <2>1, <2>2, <2>3 DEF ReactorTypeOK, KernelTypeOK, SignalTypeOK, osVars,
       kernelVars, signalVars, Entries, Handlers, Ctls
<1>3. ASSUME TestRegister(r) PROVE KernelTypeOK' /\ SignalTypeOK' /\ ReactorTypeOK'
  <2>0. UNCHANGED <<osVars, queue, queueMtx, handler, fds, rdy, cur, ctl, val, answers, back>>
    BY <1>3 DEF TestRegister
  <2>1. rpc' \in [Reactors -> ReactorPCs]
    BY <1>3, GotoDoes DEF TestRegister, At, ReactorPCs, RegisterPCs, HandlerPCs, RemovePCs,
       QuitPCs
  <2> QED
    BY <2>0, <2>1 DEF ReactorTypeOK, KernelTypeOK, SignalTypeOK, osVars,
       kernelVars, signalVars, Entries, Handlers, Ctls
<1>4. ASSUME LockQueue(r) PROVE KernelTypeOK' /\ SignalTypeOK' /\ ReactorTypeOK'
  <2>0. UNCHANGED <<osVars, queue, handler, fds, rdy, cur, ctl, val, answers, back>>
    BY <1>4 DEF LockQueue
  <2>1. rpc' \in [Reactors -> ReactorPCs]
    BY <1>4, GotoDoes DEF LockQueue, At, ReactorPCs, RegisterPCs, HandlerPCs, RemovePCs, QuitPCs
  <2>2. queueMtx' \in Reactors \cup {Free}
    BY <1>4 DEF LockQueue
  <2> QED
    BY <2>0, <2>1, <2>2 DEF ReactorTypeOK, KernelTypeOK, SignalTypeOK, osVars,
       kernelVars, signalVars, Entries, Handlers, Ctls
<1>5. ASSUME UnlockQueue(r) PROVE KernelTypeOK' /\ SignalTypeOK' /\ ReactorTypeOK'
  <2>0. UNCHANGED <<osVars, queue, handler, fds, rdy, cur, ctl, val, answers, back>>
    BY <1>5 DEF UnlockQueue
  <2>1. rpc' \in [Reactors -> ReactorPCs]
    BY <1>5, GotoDoes DEF UnlockQueue, At, ReactorPCs, RegisterPCs, HandlerPCs, RemovePCs,
       QuitPCs
  <2>2. queueMtx' \in Reactors \cup {Free}
    BY <1>5 DEF UnlockQueue
  <2> QED
    BY <2>0, <2>1, <2>2 DEF ReactorTypeOK, KernelTypeOK, SignalTypeOK, osVars,
       kernelVars, signalVars, Entries, Handlers, Ctls
<1>6. ASSUME RegisterHandler(r) PROVE KernelTypeOK' /\ SignalTypeOK' /\ ReactorTypeOK'
  <2>0. UNCHANGED <<osVars, queue, queueMtx, handler, rdy, val, answers, back>>
    BY <1>6 DEF RegisterHandler
  <2>1. rpc' \in [Reactors -> ReactorPCs]
    BY <1>6, GotoDoes DEF RegisterHandler, At, ReactorPCs, RegisterPCs, HandlerPCs, RemovePCs,
       QuitPCs
  <2>2. Last(queue) \in Conns /\ handler[Last(queue)].fd \in Fds
    BY <1>6, QueuedHandler DEF RegisterHandler
  <2>3. cur' \in [Reactors -> Conns \cup {NoConn}]
    BY <1>6, <2>2 DEF RegisterHandler, ReactorTypeOK
  <2>4. \E op \in CtlOps : ctl' = [ctl EXCEPT ![r].op = op]
    BY <1>6 DEF RegisterHandler, CtlOps
  <2>5. ctl' \in [Reactors -> Ctls]
    BY <2>4, CtlDoes DEF ReactorTypeOK, Ctls
  <2>6. Put(r, handler[Last(queue)].fd, Last(queue))
    BY <1>6 DEF RegisterHandler
  <2>7. fds' \in [Reactors -> [Fds -> Entries]]
    BY <2>2, <2>6, PutDoes DEF Entries
  <2> QED
    BY <2>0, <2>1, <2>2, <2>3, <2>4, <2>5, <2>6, <2>7 DEF ReactorTypeOK, KernelTypeOK,
       SignalTypeOK, osVars,
       kernelVars, signalVars, Entries, Handlers, Ctls
<1>7. ASSUME RegisterPop(r) PROVE KernelTypeOK' /\ SignalTypeOK' /\ ReactorTypeOK'
  <2>0. UNCHANGED <<osVars, queueMtx, handler, fds, rdy, ctl, answers, back>>
    BY <1>7 DEF RegisterPop
  <2>1. rpc' \in [Reactors -> ReactorPCs]
    BY <1>7, GotoDoes DEF RegisterPop, At, ReactorPCs, RegisterPCs, HandlerPCs, RemovePCs,
       QuitPCs
  <2>2. queue # <<>>
    BY <1>7 DEF RegisterPop, At, Owners, LastInv, Registering
  <2>3. queue' \in Seq(Conns)
    BY <1>7, <2>2, QueueLast DEF RegisterPop, ReactorTypeOK
  <2>4. cur' \in [Reactors -> Conns \cup {NoConn}]
    BY <1>7 DEF RegisterPop, ReactorTypeOK
  <2>5. val' \in [Reactors -> Int]
    BY <1>7 DEF RegisterPop, ReactorTypeOK, SignalTypeOK
  <2> QED
    BY <2>0, <2>1, <2>2, <2>3, <2>4, <2>5 DEF ReactorTypeOK, KernelTypeOK, SignalTypeOK, osVars,
       kernelVars, signalVars, Entries, Handlers, Ctls
<1>8. ASSUME RegisterDec(r) PROVE KernelTypeOK' /\ SignalTypeOK' /\ ReactorTypeOK'
  <2>0. UNCHANGED <<kernelVars, pending, spc, sval, quit_wait_flag, process, queue, queueMtx,
     handler, fds, rdy, cur, ctl, answers, back>>
    BY <1>8 DEF RegisterDec
  <2>1. rpc' \in [Reactors -> ReactorPCs]
    BY <1>8, GotoDoes DEF RegisterDec, At, ReactorPCs, RegisterPCs, HandlerPCs, RemovePCs,
       QuitPCs
  <2>2. val[r] - 1 \in Int
    <3>1. val[r] \in Int
      BY DEF ReactorTypeOK
    <3> QED
      BY <3>1
  <2>3. SignalTypeOK'
    BY <1>8, <2>2 DEF RegisterDec, SignalTypeOK
  <2>4. val' \in [Reactors -> Int]
    <3>1. 0 \in Int
      OBVIOUS
    <3> QED
      BY <1>8, <3>1 DEF RegisterDec, ReactorTypeOK
  <2> QED
    BY <2>0, <2>1, <2>2, <2>3, <2>4 DEF ReactorTypeOK, KernelTypeOK, SignalTypeOK, osVars,
       kernelVars, signalVars, Entries, Handlers, Ctls
<1>9. ASSUME UpdateRead(r) PROVE KernelTypeOK' /\ SignalTypeOK' /\ ReactorTypeOK'
  <2>0. UNCHANGED <<osVars, queue, queueMtx, handler, rdy, cur, val, answers, back>>
    BY <1>9 DEF UpdateRead
  <2>1. rpc' \in [Reactors -> ReactorPCs]
    BY <1>9, GotoDoes DEF UpdateRead, ReadEntry, At, ReactorPCs, RegisterPCs, HandlerPCs,
       RemovePCs, QuitPCs
  <2>2. PICK mm \in Reactors, mf \in Fds : Put(mm, mf, Entry(mm, mf))
    <3>1. CASE At(r, "regRead") /\ ReadEntry(r, r, "regCtl")
      BY <3>1, BusyHandler DEF ReadEntry, At, Busy, Registering
    <3>2. CASE At(r, "rmRead") /\ ReadEntry(r, HomeOf(r), "rmCtl")
      BY <3>2, BusyHandler DEF ReadEntry, At, Busy, HandlerPCs, RemovePCs
    <3> QED
      BY <1>9, <3>1, <3>2 DEF UpdateRead
  <2>3. Entry(mm, mf) \in Entries
    BY DEF Entry, Entries, ReactorTypeOK
  <2>4. fds' \in [Reactors -> [Fds -> Entries]]
    BY <2>2, <2>3, PutDoes
  <2>5. \E mask \in Interests : ctl' = [ctl EXCEPT ![r].mask = mask]
    BY <1>9 DEF UpdateRead, ReadEntry, Interests
  <2>6. ctl' \in [Reactors -> Ctls]
    BY <2>5, CtlDoes DEF ReactorTypeOK, Ctls
  <2> QED
    BY <2>0, <2>1, <2>2, <2>3, <2>4, <2>5, <2>6 DEF ReactorTypeOK, KernelTypeOK, SignalTypeOK,
       osVars,
       kernelVars, signalVars, Entries, Handlers, Ctls
<1>10. ASSUME RegisterCtl(r) PROVE KernelTypeOK' /\ SignalTypeOK' /\ ReactorTypeOK'
  <2>0. UNCHANGED <<signalVars, queue, queueMtx, handler, fds, rdy, cur, val, answers, back>>
    BY <1>10 DEF RegisterCtl
  <2>1. rpc' \in [Reactors -> ReactorPCs]
    BY <1>10, GotoDoes DEF RegisterCtl, At, ReactorPCs, RegisterPCs, HandlerPCs, RemovePCs,
       QuitPCs
  <2>2. ctl[r].mask \in Interests
    BY DEF ReactorTypeOK
  <2>3. KernelTypeOK'
    BY <1>10, <2>2, EpollCtlType DEF RegisterCtl
  <2>4. ctl' \in [Reactors -> Ctls]
    BY <1>10 DEF RegisterCtl, NoCtl, Ctls, CtlOps, Interests, ReactorTypeOK
  <2> QED
    BY <2>0, <2>1, <2>2, <2>3, <2>4 DEF ReactorTypeOK, KernelTypeOK, SignalTypeOK, osVars,
       kernelVars, signalVars, Entries, Handlers, Ctls
<1>11. ASSUME RemoveCtl(r) PROVE KernelTypeOK' /\ SignalTypeOK' /\ ReactorTypeOK'
  <2>0. UNCHANGED <<signalVars, queue, queueMtx, fds, rdy, val, answers, back>>
    BY <1>11 DEF RemoveCtl
  <2>1. rpc' \in [Reactors -> ReactorPCs]
    BY <1>11, GotoDoes DEF RemoveCtl, At, ReactorPCs, RegisterPCs, HandlerPCs, RemovePCs,
       QuitPCs
  <2>2. ctl[r].mask \in Interests
    BY DEF ReactorTypeOK
  <2>3. KernelTypeOK'
    BY <1>11, <2>2, EpollCtlType DEF RemoveCtl
  <2>4. ctl' \in [Reactors -> Ctls]
    BY <1>11 DEF RemoveCtl, NoCtl, Ctls, CtlOps, Interests, ReactorTypeOK
  <2>5. cur[r] \in Conns
    BY <1>11, BusyHandler DEF RemoveCtl, At, Busy, HandlerPCs, RemovePCs
  <2>6. handler' \in [Conns -> Handlers]
    BY <1>11, <2>5, HandlerDoes DEF RemoveCtl, ReactorTypeOK, Handlers
  <2>7. cur' \in [Reactors -> Conns \cup {NoConn}]
    BY <1>11 DEF RemoveCtl, ReactorTypeOK
  <2> QED
    BY <2>0, <2>1, <2>2, <2>3, <2>4, <2>5, <2>6, <2>7 DEF ReactorTypeOK, KernelTypeOK,
       SignalTypeOK, osVars,
       kernelVars, signalVars, Entries, Handlers, Ctls
<1>12. ASSUME NextReady(r) PROVE KernelTypeOK' /\ SignalTypeOK' /\ ReactorTypeOK'
  <2>0. UNCHANGED <<kernelVars, pending, spc, sval, register_flag, quit_wait_flag, queue,
     queueMtx, handler, fds, ctl, val, answers, back>>
    BY <1>12 DEF NextReady
  <2>1. PICK p \in rdy[r] : /\ rdy' = [rdy EXCEPT ![r] = @ \ {p}]
                       /\ IF Dangling(fds[r][p[1]])
                            THEN process' = "crashed" /\ UNCHANGED <<rpc, cur>>
                            ELSE /\ cur' = [cur EXCEPT ![r] = fds[r][p[1]]]
                                 /\ Goto(r, IF p[2] = "err" THEN "rm" ELSE "write")
                                 /\ UNCHANGED process
    BY <1>12 DEF NextReady
  <2>2. rpc' \in [Reactors -> ReactorPCs]
    BY <2>1, GotoDoes DEF ReactorPCs, RegisterPCs, HandlerPCs, RemovePCs, QuitPCs, ReactorTypeOK
  <2>3. p[1] \in Fds
    BY DEF ReactorTypeOK
  <2>4. cur' \in [Reactors -> Conns \cup {NoConn}]
    <3>1. fds[r][p[1]] \in Conns \cup {Absent, Null}
      BY <2>3 DEF ReactorTypeOK
    <3>2. CASE Dangling(fds[r][p[1]])
      BY <2>1, <3>2 DEF ReactorTypeOK
    <3>3. CASE ~Dangling(fds[r][p[1]])
      <4>1. fds[r][p[1]] \in Conns
        BY <3>1, <3>3 DEF Dangling
      <4> QED
        BY <2>1, <3>3, <4>1 DEF ReactorTypeOK
    <3> QED
      BY <3>2, <3>3
  <2>5. rdy' \in [Reactors -> SUBSET (Fds \X {"out", "err"})]
    BY <2>1 DEF ReactorTypeOK
  <2>6. SignalTypeOK'
    BY <1>12, <2>1 DEF NextReady, SignalTypeOK
  <2> QED
    BY <2>0, <2>1, <2>2, <2>3, <2>4, <2>5, <2>6 DEF ReactorTypeOK, KernelTypeOK, SignalTypeOK,
       osVars,
       kernelVars, signalVars, Entries, Handlers, Ctls
<1>13. ASSUME EndOfReady(r) PROVE KernelTypeOK' /\ SignalTypeOK' /\ ReactorTypeOK'
  <2>0. UNCHANGED <<osVars, queue, queueMtx, handler, fds, rdy, cur, ctl, val, answers, back>>
    BY <1>13 DEF EndOfReady
  <2>1. rpc' \in [Reactors -> ReactorPCs]
    BY <1>13, GotoDoes DEF EndOfReady, At, ReactorPCs, RegisterPCs, HandlerPCs, RemovePCs,
       QuitPCs
  <2> QED
    BY <2>0, <2>1 DEF ReactorTypeOK, KernelTypeOK, SignalTypeOK, osVars,
       kernelVars, signalVars, Entries, Handlers, Ctls
<1>14. ASSUME HandleWrite(r) PROVE KernelTypeOK' /\ SignalTypeOK' /\ ReactorTypeOK'
  <2>0. UNCHANGED <<osVars, queue, queueMtx, handler, fds, rdy, cur, ctl, val, back>>
    BY <1>14 DEF HandleWrite
  <2>1. rpc' \in [Reactors -> ReactorPCs]
    BY <1>14, GotoDoes DEF HandleWrite, At, ReactorPCs, RegisterPCs, HandlerPCs, RemovePCs,
       QuitPCs
  <2>2. cur[r] \in Conns /\ FdOf(r) \in Fds
    BY <1>14, BusyHandler DEF HandleWrite, At, Busy, HandlerPCs
  <2>3. files[FdOf(r)] \in Conns \cup {NoConn}
    BY <2>2 DEF KernelTypeOK
  <2>4. answers' \subseteq Conns \X Conns
    BY <1>14, <2>2, <2>3 DEF HandleWrite, ReactorTypeOK
  <2> QED
    BY <2>0, <2>1, <2>2, <2>3, <2>4 DEF ReactorTypeOK, KernelTypeOK, SignalTypeOK, osVars,
       kernelVars, signalVars, Entries, Handlers, Ctls
<1>15. ASSUME DisConnected(r) PROVE KernelTypeOK' /\ SignalTypeOK' /\ ReactorTypeOK'
  <2>0. UNCHANGED <<signalVars, queue, queueMtx, fds, rdy, cur, ctl, val, answers, back>>
    BY <1>15 DEF DisConnected
  <2>1. rpc' \in [Reactors -> ReactorPCs]
    BY <1>15, GotoDoes DEF DisConnected, At, ReactorPCs, RegisterPCs, HandlerPCs, RemovePCs,
       QuitPCs
  <2>2. cur[r] \in Conns
    BY <1>15, BusyHandler DEF DisConnected, At, Busy, HandlerPCs
  <2>3. KernelTypeOK'
    BY <1>15, CloseFdsType DEF DisConnected
  <2>4. handler' \in [Conns -> Handlers]
    BY <1>15, <2>2, HandlerDoes DEF DisConnected, ReactorTypeOK, Handlers
  <2> QED
    BY <2>0, <2>1, <2>2, <2>3, <2>4 DEF ReactorTypeOK, KernelTypeOK, SignalTypeOK, osVars,
       kernelVars, signalVars, Entries, Handlers, Ctls
<1>16. ASSUME RemoveTest(r) PROVE KernelTypeOK' /\ SignalTypeOK' /\ ReactorTypeOK'
  <2>0. UNCHANGED <<osVars, queue, queueMtx, handler, fds, rdy, ctl, val, answers, back>>
    BY <1>16 DEF RemoveTest
  <2>1. rpc' \in [Reactors -> ReactorPCs]
    BY <1>16, GotoDoes DEF RemoveTest, At, ReactorPCs, RegisterPCs, HandlerPCs, RemovePCs,
       QuitPCs
  <2>2. cur' \in [Reactors -> Conns \cup {NoConn}]
    BY <1>16 DEF RemoveTest, ReactorTypeOK
  <2> QED
    BY <2>0, <2>1, <2>2 DEF ReactorTypeOK, KernelTypeOK, SignalTypeOK, osVars,
       kernelVars, signalVars, Entries, Handlers, Ctls
<1>17. ASSUME RemoveErase(r) PROVE KernelTypeOK' /\ SignalTypeOK' /\ ReactorTypeOK'
  <2>0. UNCHANGED <<osVars, queue, queueMtx, handler, rdy, cur, ctl, val, answers, back>>
    BY <1>17 DEF RemoveErase
  <2>1. rpc' \in [Reactors -> ReactorPCs]
    BY <1>17, GotoDoes DEF RemoveErase, At, ReactorPCs, RegisterPCs, HandlerPCs, RemovePCs,
       QuitPCs
  <2>2. FdOf(r) \in Fds /\ HomeOf(r) \in Reactors
    BY <1>17, BusyHandler DEF RemoveErase, At, Busy, HandlerPCs, RemovePCs
  <2>3. fds' \in [Reactors -> [Fds -> Entries]]
    BY <1>17, <2>2, PutDoes DEF RemoveErase, Entries
  <2> QED
    BY <2>0, <2>1, <2>2, <2>3 DEF ReactorTypeOK, KernelTypeOK, SignalTypeOK, osVars,
       kernelVars, signalVars, Entries, Handlers, Ctls
<1>18. ASSUME ResetAll(r) PROVE KernelTypeOK' /\ SignalTypeOK' /\ ReactorTypeOK'
  <2>0. UNCHANGED <<signalVars, queue, queueMtx, handler, cur, ctl, val, answers, back>>
    BY <1>18 DEF ResetAll
  <2>1. rpc' \in [Reactors -> ReactorPCs]
    BY <1>18, GotoDoes DEF ResetAll, At, ReactorPCs, RegisterPCs, HandlerPCs, RemovePCs, QuitPCs
  <2>2. KernelTypeOK'
    BY <1>18, CloseFdsType DEF ResetAll
  <2>3. fds' \in [Reactors -> [Fds -> Entries]]
    BY <1>18 DEF ResetAll, ReactorTypeOK, Entries
  <2>4. rdy' \in [Reactors -> SUBSET (Fds \X {"out", "err"})]
    BY <1>18 DEF ResetAll, ReactorTypeOK
  <2> QED
    BY <2>0, <2>1, <2>2, <2>3, <2>4 DEF ReactorTypeOK, KernelTypeOK, SignalTypeOK, osVars,
       kernelVars, signalVars, Entries, Handlers, Ctls
<1>19. ASSUME QuitLoad(r) PROVE KernelTypeOK' /\ SignalTypeOK' /\ ReactorTypeOK'
  <2>0. UNCHANGED <<osVars, queue, queueMtx, handler, fds, rdy, cur, ctl, answers, back>>
    BY <1>19 DEF QuitLoad
  <2>1. rpc' \in [Reactors -> ReactorPCs]
    BY <1>19, GotoDoes DEF QuitLoad, At, ReactorPCs, RegisterPCs, HandlerPCs, RemovePCs, QuitPCs
  <2>2. val' \in [Reactors -> Int]
    BY <1>19 DEF QuitLoad, ReactorTypeOK, SignalTypeOK
  <2> QED
    BY <2>0, <2>1, <2>2 DEF ReactorTypeOK, KernelTypeOK, SignalTypeOK, osVars,
       kernelVars, signalVars, Entries, Handlers, Ctls
<1>20. ASSUME QuitStore(r) PROVE KernelTypeOK' /\ SignalTypeOK' /\ ReactorTypeOK'
  <2>0. UNCHANGED <<kernelVars, spc, sval, register_flag, process, queue, queueMtx, handler,
     fds, rdy, cur, ctl, answers, back>>
    BY <1>20 DEF QuitStore
  <2>1. rpc' \in [Reactors -> ReactorPCs]
    BY <1>20, GotoDoes DEF QuitStore, At, ReactorPCs, RegisterPCs, HandlerPCs, RemovePCs,
       QuitPCs
  <2>2. val[r] - 1 \in Int
    <3>1. val[r] \in Int
      BY DEF ReactorTypeOK
    <3> QED
      BY <3>1
  <2>3. SignalTypeOK'
    BY <1>20, <2>2 DEF QuitStore, SignalTypeOK, Signals
  <2>4. val' \in [Reactors -> Int]
    <3>1. 0 \in Int
      OBVIOUS
    <3> QED
      BY <1>20, <3>1 DEF QuitStore, ReactorTypeOK
  <2> QED
    BY <2>0, <2>1, <2>2, <2>3, <2>4 DEF ReactorTypeOK, KernelTypeOK, SignalTypeOK, osVars,
       kernelVars, signalVars, Entries, Handlers, Ctls
<1> QED
  BY <1>1, <1>2, <1>3, <1>4, <1>5, <1>6, <1>7, <1>8, <1>9, <1>10, <1>11, <1>12, <1>13, <1>14,
     <1>15, <1>16, <1>17, <1>18, <1>19, <1>20 DEF Reactor

-----------------------------------------------------------------------------
(* Steps that take no connection *)

(* The thread moves as CurInv and LastInv allow ... *)
Turns(s) ==
    /\ rpc'[s] \in Registering <=> rpc[s] \in Registering
    /\ rpc[s] \in Registering => cur'[s] = cur[s]
    /\ Busy(s)' <=> cur'[s] # NoConn

(* ... and neither takes nor releases wait_queue_mtx. *)
Moves(s) == Turns(s) /\ (rpc'[s] \in RegisterPCs <=> rpc[s] \in RegisterPCs)

Shrinks(s, c) == Has(s, c)' => Has(s, c)

(* A step that lets nobody have more connections than before keeps Owners. *)
LEMMA KeepsButMutex ==
    ASSUME Owners, MutexInv', UNCHANGED <<queue, accepted>>,
           mpc' = "push" => mpc = "push",
           \A c \in Conns : /\ peer'[c] = "away" <=> peer[c] = "away"
                            /\ handler'[c].fd = handler[c].fd
                            /\ handler'[c].home = handler[c].home,
           \A s \in Reactors : Turns(s),
           \A s \in Reactors, c \in Conns : Shrinks(s, c)
    PROVE  Owners'
<1>1. \A c \in Conns : (InQueue(c)' <=> InQueue(c)) /\ (Fresh(c) => Fresh(c)')
  <2>1. ASSUME NEW c \in Conns PROVE InQueue(c)' <=> InQueue(c)
    BY DEF InQueue
  <2>2. ASSUME NEW c \in Conns, Fresh(c) PROVE Fresh(c)'
    BY <2>1, <2>2 DEF Fresh, Shrinks
  <2> QED
    BY <2>1, <2>2
<1>3. CurInv'
  BY DEF CurInv, Turns
<1>4. LastInv'
  BY DEF Owners, LastInv, Turns
<1>5. OneHolder'
  BY DEF Owners, OneHolder, Shrinks
<1>6. QueuedInv'
  <2>1. ASSUME NEW s \in Reactors, NEW c \in Conns, Has(s, c)', InQueue(c)'
        PROVE  rpc'[s] \in Registering /\ cur'[s] = c
    <3>1. Has(s, c) /\ InQueue(c)
      BY <1>1, <2>1 DEF Shrinks
    <3>2. rpc[s] \in Registering /\ cur[s] = c
      BY <3>1 DEF Owners, QueuedInv
    <3> QED
      BY <3>2 DEF Turns
  <2> QED
    BY <2>1 DEF QueuedInv
<1>7. Distinct'
  BY DEF Owners, Distinct
<1>8. AcceptedInv'
  BY <1>1 DEF Owners, AcceptedInv
<1>9. AwayInv'
  BY <1>1 DEF Owners, AwayInv
<1>10. HandlerInv'
  BY DEF Owners, HandlerInv
<1> QED
  BY <1>3, <1>4, <1>5, <1>6, <1>7, <1>8, <1>9, <1>10 DEF Owners

LEMMA Keeps ==
    ASSUME Owners, UNCHANGED <<queue, queueMtx, accepted>>,
           mpc' = "push" => mpc = "push",
           \A c \in Conns : /\ peer'[c] = "away" <=> peer[c] = "away"
                            /\ handler'[c].fd = handler[c].fd
                            /\ handler'[c].home = handler[c].home,
           \A s \in Reactors : Moves(s),
           \A s \in Reactors, c \in Conns : Shrinks(s, c)
    PROVE  Owners'
<1>1. MutexInv'
  BY DEF Owners, MutexInv, Moves
<1>2. \A s \in Reactors : Turns(s)
  BY DEF Moves
<1> QED
  BY <1>1, <1>2, KeepsButMutex

(* What a reactor has shrinks when its thread takes nothing but what its map *)
(* holds and the maps only lose connections.                                 *)
LEMMA HasShrinks ==
    ASSUME \A s \in Reactors : \/ cur'[s] \in {cur[s], NoConn}
                               \/ \E f \in Fds : cur'[s] = fds[s][f],
           \A s \in Reactors, f \in Fds : fds'[s][f] \in {fds[s][f], Absent, Null}
    PROVE  \A s \in Reactors, c \in Conns : Shrinks(s, c)
<1> SUFFICES ASSUME NEW s \in Reactors, NEW c \in Conns, Has(s, c)'
             PROVE  Has(s, c)
  BY DEF Shrinks
<1>1. CASE cur'[s] = c
  BY <1>1, KernelAssumption DEF Has
<1>2. CASE \E f \in Fds : fds'[s][f] = c
  BY <1>2, MultiplexerAssumption DEF Has
<1> QED
  BY <1>1, <1>2 DEF Has

LEMMA MovesOne ==
    ASSUME Owners, NEW r \in Reactors,
           \A s \in Reactors : s # r => rpc'[s] = rpc[s] /\ cur'[s] = cur[s],
           Moves(r)
    PROVE  \A s \in Reactors : Moves(s)
  BY DEF Owners, CurInv, Moves, Turns, Busy

(* The steps of a reactor that neither take the mutex nor change the queue. *)
LEMMA ReactorKeeps ==
    ASSUME TypeOK, TypeOK', Owners, UNCHANGED mainVars,
           NEW r \in Reactors, Reactor(r),
           ~LockQueue(r), ~UnlockQueue(r), ~RegisterHandler(r), ~RegisterPop(r)
    PROVE  Owners'
<1> USE DEF At
<1>0. /\ rpc \in [Reactors -> ReactorPCs] /\ cur \in [Reactors -> Conns \cup {NoConn}]
      /\ fds \in [Reactors -> [Fds -> Entries]] /\ handler \in [Conns -> Handlers]
      /\ peer \in [Conns -> {"away", "up", "reset"}]
  BY DEF TypeOK, ReactorTypeOK, KernelTypeOK, Entries, Handlers
<1>1. ASSUME TestQuit(r) PROVE Owners'
  <2>1. UNCHANGED <<queue, queueMtx, cur, fds, handler, peer, accepted, mpc>>
    BY <1>1 DEF TestQuit, mainVars, osVars, kernelVars
  <2>2. /\ rpc[r] \in {"select", "handle"} /\ rpc'[r] \in {"epoll", "next", "quit"}
        /\ \A s \in Reactors : s # r => rpc'[s] = rpc[s]
    BY <1>1, <1>0 DEF TestQuit, Goto, TestQuitAt
  <2>3. Moves(r)
    BY <2>1, <2>2 DEF Moves, Turns, Busy, Registering, RegisterPCs, HandlerPCs, RemovePCs,
       QuitPCs, Owners, CurInv
  <2>4. \A s \in Reactors : Moves(s)
    BY <2>1, <2>2, <2>3, MovesOne
  <2>5. \A s \in Reactors, c \in Conns : Shrinks(s, c)
    BY <2>1 DEF Shrinks, Has
  <2> QED
    BY <2>1, <2>4, <2>5, Keeps
<1>2. ASSUME EpollWait(r) PROVE Owners'
  <2>1. UNCHANGED <<queue, queueMtx, cur, fds, handler, peer, accepted, mpc>>
    BY <1>2 DEF EpollWait, mainVars, osVars, kernelVars
  <2>2. /\ rpc[r] = "epoll" /\ rpc'[r] = "regTest"
        /\ \A s \in Reactors : s # r => rpc'[s] = rpc[s]
    BY <1>2, <1>0 DEF EpollWait, Goto
  <2>3. Moves(r)
    BY <2>1, <2>2 DEF Moves, Turns, Busy, Registering, RegisterPCs, HandlerPCs, RemovePCs,
       QuitPCs, Owners, CurInv
  <2>4. \A s \in Reactors : Moves(s)
    BY <2>1, <2>2, <2>3, MovesOne
  <2>5. \A s \in Reactors, c \in Conns : Shrinks(s, c)
    BY <2>1 DEF Shrinks, Has
  <2> QED
    BY <2>1, <2>4, <2>5, Keeps
<1>3. ASSUME TestRegister(r) PROVE Owners'
  <2>1. UNCHANGED <<queue, queueMtx, cur, fds, handler, peer, accepted, mpc>>
    BY <1>3 DEF TestRegister, mainVars, osVars, kernelVars
  <2>2. /\ rpc[r] = "regTest" /\ rpc'[r] \in {"regLock", "handle"}
        /\ \A s \in Reactors : s # r => rpc'[s] = rpc[s]
    BY <1>3, <1>0 DEF TestRegister, Goto
  <2>3. Moves(r)
    BY <2>1, <2>2 DEF Moves, Turns, Busy, Registering, RegisterPCs, HandlerPCs, RemovePCs,
       QuitPCs, Owners, CurInv
  <2>4. \A s \in Reactors : Moves(s)
    BY <2>1, <2>2, <2>3, MovesOne
  <2>5. \A s \in Reactors, c \in Conns : Shrinks(s, c)
    BY <2>1 DEF Shrinks, Has
  <2> QED
    BY <2>1, <2>4, <2>5, Keeps
<1>4. ASSUME RegisterDec(r) PROVE Owners'
  <2>1. UNCHANGED <<queue, queueMtx, cur, fds, handler, peer, accepted, mpc>>
    BY <1>4 DEF RegisterDec, mainVars, osVars, kernelVars
  <2>2. /\ rpc[r] = "regDec" /\ rpc'[r] = "reg"
        /\ \A s \in Reactors : s # r => rpc'[s] = rpc[s]
    BY <1>4, <1>0 DEF RegisterDec, Goto
  <2>3. Moves(r)
    BY <2>1, <2>2 DEF Moves, Turns, Busy, Registering, RegisterPCs, HandlerPCs, RemovePCs,
       QuitPCs, Owners, CurInv
  <2>4. \A s \in Reactors : Moves(s)
    BY <2>1, <2>2, <2>3, MovesOne
  <2>5. \A s \in Reactors, c \in Conns : Shrinks(s, c)
    BY <2>1 DEF Shrinks, Has
  <2> QED
    BY <2>1, <2>4, <2>5, Keeps
<1>5. ASSUME UpdateRead(r) PROVE Owners'
  <2>1. UNCHANGED <<queue, queueMtx, cur, handler, peer, accepted, mpc>>
    BY <1>5 DEF UpdateRead, mainVars, osVars, kernelVars
  <2>2. /\ \/ rpc[r] = "regRead" /\ rpc'[r] = "regCtl"
           \/ rpc[r] = "rmRead" /\ rpc'[r] = "rmCtl"
        /\ \A s \in Reactors : s # r => rpc'[s] = rpc[s]
    BY <1>5, <1>0 DEF UpdateRead, ReadEntry, Goto
  <2>3. Moves(r)
    BY <2>1, <2>2 DEF Moves, Turns, Busy, Registering, RegisterPCs, HandlerPCs, RemovePCs,
       QuitPCs, Owners, CurInv
  <2>4. \A s \in Reactors : Moves(s)
    BY <2>1, <2>2, <2>3, MovesOne
  <2>50. \A s \in Reactors, f \in Fds : fds'[s][f] \in {fds[s][f], Absent, Null}
    <3>1. ASSUME NEW m, NEW g PROVE Entry(m, g) \in {fds[m][g], Null}
      BY DEF Entry
    <3>2. \E m, g : Put(m, g, Entry(m, g))
      BY <1>5 DEF UpdateRead, ReadEntry
    <3> QED
      BY <1>0, <3>1, <3>2 DEF Put
  <2>5. \A s \in Reactors, c \in Conns : Shrinks(s, c)
    BY <2>1, <2>50, HasShrinks
  <2> QED
    BY <2>1, <2>4, <2>5, Keeps
<1>6. ASSUME RegisterCtl(r) PROVE Owners'
  <2>1. UNCHANGED <<queue, queueMtx, cur, fds, handler, accepted, mpc>>
    BY <1>6 DEF RegisterCtl, mainVars, osVars, kernelVars
  <2>2. /\ rpc[r] = "regCtl" /\ rpc'[r] = "regPop"
        /\ \A s \in Reactors : s # r => rpc'[s] = rpc[s]
    BY <1>6, <1>0 DEF RegisterCtl, Goto
  <2>3. Moves(r)
    BY <2>1, <2>2 DEF Moves, Turns, Busy, Registering, RegisterPCs, HandlerPCs, RemovePCs,
       QuitPCs, Owners, CurInv
  <2>4. \A s \in Reactors : Moves(s)
    BY <2>1, <2>2, <2>3, MovesOne
  <2>5. \A s \in Reactors, c \in Conns : Shrinks(s, c)
    BY <2>1 DEF Shrinks, Has
  <2>6. peer' = peer
    BY <1>6 DEF RegisterCtl, EpollCtl
  <2> QED
    BY <2>1, <2>6, <2>4, <2>5, Keeps
<1>7. ASSUME RemoveCtl(r) PROVE Owners'
  <2>1. UNCHANGED <<queue, queueMtx, fds, accepted, mpc>>
    BY <1>7 DEF RemoveCtl, mainVars, osVars, kernelVars
  <2>2. /\ rpc[r] = "rmCtl" /\ rpc'[r] = "next"
        /\ \A s \in Reactors : s # r => rpc'[s] = rpc[s]
    BY <1>7, <1>0 DEF RemoveCtl, Goto
  <2>3. Moves(r) /\ cur'[r] = NoConn /\ \A s \in Reactors : s # r => cur'[s] = cur[s]
    BY <1>7, <1>0, <2>2 DEF RemoveCtl, Moves, Turns, Busy, Registering, RegisterPCs,
       HandlerPCs, RemovePCs, QuitPCs
  <2>4. \A s \in Reactors : Moves(s)
    BY <2>1, <2>2, <2>3, MovesOne
  <2>5. \A s \in Reactors, c \in Conns : Shrinks(s, c)
    BY <2>1, <2>3, HasShrinks
  <2>6. peer' = peer
    BY <1>7 DEF RemoveCtl, EpollCtl
  <2>7. \A c \in Conns : handler'[c].fd = handler[c].fd /\ handler'[c].home = handler[c].home
    <3>1. cur[r] \in Conns
      BY <1>7, <2>2, BusyHandler DEF TypeOK, Busy, HandlerPCs, RemovePCs
    <3> QED
      BY <1>7, <1>0, <3>1, HandlerDoes DEF RemoveCtl
  <2> QED
    BY <2>1, <2>6, <2>7, <2>4, <2>5, Keeps
<1>8. ASSUME NextReady(r) PROVE Owners'
  <2>1. UNCHANGED <<queue, queueMtx, fds, handler, peer, accepted, mpc>>
    BY <1>8 DEF NextReady, mainVars, osVars, kernelVars
  <2>2. PICK f \in Fds :
           \/ UNCHANGED <<rpc, cur>>
           \/ /\ fds[r][f] \in Conns /\ cur' = [cur EXCEPT ![r] = fds[r][f]]
              /\ Goto(r, "rm") \/ Goto(r, "write")
    <3>1. PICK p \in rdy[r] :
             IF Dangling(fds[r][p[1]]) THEN UNCHANGED <<rpc, cur>>
             ELSE /\ cur' = [cur EXCEPT ![r] = fds[r][p[1]]]
                  /\ Goto(r, IF p[2] = "err" THEN "rm" ELSE "write")
      BY <1>8 DEF NextReady
    <3>2. p[1] \in Fds
      BY DEF TypeOK, ReactorTypeOK
    <3>3. fds[r][p[1]] \in Entries
      BY <1>0, <3>2
    <3>4. ~Dangling(fds[r][p[1]]) => fds[r][p[1]] \in Conns
      BY <3>3 DEF Dangling, Entries
    <3> QED
      BY <3>1, <3>2, <3>4
  <2>3. /\ rpc[r] = "next"
        /\ \A s \in Reactors : s # r => rpc'[s] = rpc[s] /\ cur'[s] = cur[s]
        /\ \/ UNCHANGED <<rpc, cur>>
           \/ /\ rpc'[r] \in {"rm", "write"} /\ cur'[r] \in Conns
              /\ cur'[r] = fds[r][f]
    BY <1>8, <1>0, <2>2 DEF NextReady, Goto
  <2>31. Moves(r)
    BY <2>3, KernelAssumption DEF Moves, Turns, Busy, Registering, RegisterPCs, HandlerPCs,
       RemovePCs, QuitPCs, Owners, CurInv
  <2>4. \A s \in Reactors : Moves(s)
    BY <2>2, <2>3, <2>31, MovesOne
  <2>5. \A s \in Reactors, c \in Conns : Shrinks(s, c)
    BY <2>1, <2>3, HasShrinks
  <2> QED
    BY <2>1, <2>4, <2>5, Keeps
<1>9. ASSUME EndOfReady(r) PROVE Owners'
  <2>1. UNCHANGED <<queue, queueMtx, cur, fds, handler, peer, accepted, mpc>>
    BY <1>9 DEF EndOfReady, mainVars, osVars, kernelVars
  <2>2. /\ rpc[r] = "next" /\ rpc'[r] = "select"
        /\ \A s \in Reactors : s # r => rpc'[s] = rpc[s]
    BY <1>9, <1>0 DEF EndOfReady, Goto
  <2>3. Moves(r)
    BY <2>1, <2>2 DEF Moves, Turns, Busy, Registering, RegisterPCs, HandlerPCs, RemovePCs,
       QuitPCs, Owners, CurInv
  <2>4. \A s \in Reactors : Moves(s)
    BY <2>1, <2>2, <2>3, MovesOne
  <2>5. \A s \in Reactors, c \in Conns : Shrinks(s, c)
    BY <2>1 DEF Shrinks, Has
  <2> QED
    BY <2>1, <2>4, <2>5, Keeps
<1>10. ASSUME HandleWrite(r) PROVE Owners'
  <2>1. UNCHANGED <<queue, queueMtx, cur, fds, handler, peer, accepted, mpc>>
    BY <1>10 DEF HandleWrite, mainVars, osVars, kernelVars
  <2>2. /\ rpc[r] = "write" /\ rpc'[r] \in {"close", "rm"}
        /\ \A s \in Reactors : s # r => rpc'[s] = rpc[s]
    BY <1>10, <1>0 DEF HandleWrite, Goto
  <2>3. Moves(r)
    BY <2>1, <2>2 DEF Moves, Turns, Busy, Registering, RegisterPCs, HandlerPCs, RemovePCs,
       QuitPCs, Owners, CurInv
  <2>4. \A s \in Reactors : Moves(s)
    BY <2>1, <2>2, <2>3, MovesOne
  <2>5. \A s \in Reactors, c \in Conns : Shrinks(s, c)
    BY <2>1 DEF Shrinks, Has
  <2> QED
    BY <2>1, <2>4, <2>5, Keeps
<1>11. ASSUME DisConnected(r) PROVE Owners'
  <2>1. UNCHANGED <<queue, queueMtx, cur, fds, accepted, mpc>>
    BY <1>11 DEF DisConnected, mainVars, osVars, kernelVars
  <2>2. /\ rpc[r] = "close" /\ rpc'[r] = "rm"
        /\ \A s \in Reactors : s # r => rpc'[s] = rpc[s]
    BY <1>11, <1>0 DEF DisConnected, Goto
  <2>3. Moves(r)
    BY <2>1, <2>2 DEF Moves, Turns, Busy, Registering, RegisterPCs, HandlerPCs, RemovePCs,
       QuitPCs, Owners, CurInv
  <2>4. \A s \in Reactors : Moves(s)
    BY <2>1, <2>2, <2>3, MovesOne
  <2>5. \A s \in Reactors, c \in Conns : Shrinks(s, c)
    BY <2>1 DEF Shrinks, Has
  <2>6. peer' = peer
    BY <1>11 DEF DisConnected, CloseFds
  <2>7. \A c \in Conns : handler'[c].fd = handler[c].fd /\ handler'[c].home = handler[c].home
    <3>1. cur[r] \in Conns
      BY <1>11, <2>2, BusyHandler DEF TypeOK, Busy, HandlerPCs, RemovePCs
    <3> QED
      BY <1>11, <1>0, <3>1, HandlerDoes DEF DisConnected
  <2> QED
    BY <2>1, <2>6, <2>7, <2>4, <2>5, Keeps
<1>12. ASSUME RemoveTest(r) PROVE Owners'
  <2>1. UNCHANGED <<queue, queueMtx, fds, handler, peer, accepted, mpc>>
    BY <1>12 DEF RemoveTest, mainVars, osVars, kernelVars
  <2>2. /\ rpc[r] \in {"rm", "rmScan"} /\ rpc'[r] \in {"next", "rmScan", "rmErase"}
        /\ \A s \in Reactors : s # r => rpc'[s] = rpc[s]
        /\ cur' = IF rpc'[r] = "next" THEN [cur EXCEPT ![r] = NoConn] ELSE cur
    BY <1>12, <1>0 DEF RemoveTest, Goto
  <2>3. /\ Moves(r) /\ cur'[r] \in {cur[r], NoConn}
        /\ \A s \in Reactors : s # r => cur'[s] = cur[s]
    BY <1>0, <2>2 DEF Moves, Turns, Busy, Registering, RegisterPCs, HandlerPCs, RemovePCs,
       QuitPCs, Owners, CurInv
  <2>4. \A s \in Reactors : Moves(s)
    BY <2>1, <2>2, <2>3, MovesOne
  <2>5. \A s \in Reactors, c \in Conns : Shrinks(s, c)
    BY <2>1, <2>3, HasShrinks
  <2> QED
    BY <2>1, <2>4, <2>5, Keeps
<1>13. ASSUME RemoveErase(r) PROVE Owners'
  <2>1. UNCHANGED <<queue, queueMtx, cur, handler, peer, accepted, mpc>>
    BY <1>13 DEF RemoveErase, mainVars, osVars, kernelVars
  <2>2. /\ rpc[r] = "rmErase" /\ rpc'[r] = "rmRead"
        /\ \A s \in Reactors : s # r => rpc'[s] = rpc[s]
    BY <1>13, <1>0 DEF RemoveErase, Goto
  <2>3. Moves(r)
    BY <2>1, <2>2 DEF Moves, Turns, Busy, Registering, RegisterPCs, HandlerPCs, RemovePCs,
       QuitPCs, Owners, CurInv
  <2>4. \A s \in Reactors : Moves(s)
    BY <2>1, <2>2, <2>3, MovesOne
  <2>50. \A s \in Reactors, f \in Fds : fds'[s][f] \in {fds[s][f], Absent, Null}
    BY <1>13, <1>0 DEF RemoveErase, Put
  <2>5. \A s \in Reactors, c \in Conns : Shrinks(s, c)
    BY <2>1, <2>50, HasShrinks
  <2> QED
    BY <2>1, <2>4, <2>5, Keeps
<1>14. ASSUME ResetAll(r) PROVE Owners'
  <2>1. UNCHANGED <<queue, queueMtx, cur, handler, accepted, mpc>>
    BY <1>14 DEF ResetAll, mainVars, osVars, kernelVars
  <2>2. /\ rpc[r] = "quit" /\ rpc'[r] = "quitLoad"
        /\ \A s \in Reactors : s # r => rpc'[s] = rpc[s]
    BY <1>14, <1>0 DEF ResetAll, Goto
  <2>3. Moves(r)
    BY <2>1, <2>2 DEF Moves, Turns, Busy, Registering, RegisterPCs, HandlerPCs, RemovePCs,
       QuitPCs, Owners, CurInv
  <2>4. \A s \in Reactors : Moves(s)
    BY <2>1, <2>2, <2>3, MovesOne
  <2>50. \A s \in Reactors, f \in Fds : fds'[s][f] \in {fds[s][f], Absent, Null}
    BY <1>14, <1>0 DEF ResetAll
  <2>5. \A s \in Reactors, c \in Conns : Shrinks(s, c)
    BY <2>1, <2>50, HasShrinks
  <2>6. peer' = peer
    BY <1>14 DEF ResetAll, CloseFds
  <2> QED
    BY <2>1, <2>6, <2>4, <2>5, Keeps
<1>15. ASSUME QuitLoad(r) PROVE Owners'
  <2>1. UNCHANGED <<queue, queueMtx, cur, fds, handler, peer, accepted, mpc>>
    BY <1>15 DEF QuitLoad, mainVars, osVars, kernelVars
  <2>2. /\ rpc[r] = "quitLoad" /\ rpc'[r] = "quitStore"
        /\ \A s \in Reactors : s # r => rpc'[s] = rpc[s]
    BY <1>15, <1>0 DEF QuitLoad, Goto
  <2>3. Moves(r)
    BY <2>1, <2>2 DEF Moves, Turns, Busy, Registering, RegisterPCs, HandlerPCs, RemovePCs,
       QuitPCs, Owners, CurInv
  <2>4. \A s \in Reactors : Moves(s)
    BY <2>1, <2>2, <2>3, MovesOne
  <2>5. \A s \in Reactors, c \in Conns : Shrinks(s, c)
    BY <2>1 DEF Shrinks, Has
  <2> QED
    BY <2>1, <2>4, <2>5, Keeps
<1>16. ASSUME QuitStore(r) PROVE Owners'
  <2>1. UNCHANGED <<queue, queueMtx, cur, fds, handler, peer, accepted, mpc>>
    BY <1>16 DEF QuitStore, mainVars, osVars, kernelVars
  <2>2. /\ rpc[r] = "quitStore" /\ rpc'[r] = "paused"
        /\ \A s \in Reactors : s # r => rpc'[s] = rpc[s]
    BY <1>16, <1>0 DEF QuitStore, Goto
  <2>3. Moves(r)
    BY <2>1, <2>2 DEF Moves, Turns, Busy, Registering, RegisterPCs, HandlerPCs, RemovePCs,
       QuitPCs, Owners, CurInv
  <2>4. \A s \in Reactors : Moves(s)
    BY <2>1, <2>2, <2>3, MovesOne
  <2>5. \A s \in Reactors, c \in Conns : Shrinks(s, c)
    BY <2>1 DEF Shrinks, Has
  <2> QED
    BY <2>1, <2>4, <2>5, Keeps
<1> QED
  BY <1>1, <1>2, <1>3, <1>4, <1>5, <1>6, <1>7, <1>8, <1>9, <1>10, <1>11, <1>12, <1>13, <1>14,
     <1>15, <1>16 DEF Reactor

-----------------------------------------------------------------------------
(* Steps that take the mutex or a connection *)

LEMMA LockKeeps ==
    ASSUME TypeOK, Owners, UNCHANGED mainVars, NEW r \in Reactors,
           LockQueue(r) \/ UnlockQueue(r)
    PROVE  Owners'
<1>1. /\ UNCHANGED <<queue, cur, fds, handler, peer, accepted, mpc>>
      /\ rpc \in [Reactors -> ReactorPCs]
  BY DEF LockQueue, UnlockQueue, osVars, kernelVars, mainVars, TypeOK, ReactorTypeOK
<1>2. ASSUME LockQueue(r) PROVE MutexInv' /\ Turns(r)
  <2>1. /\ rpc[r] = "regLock" /\ rpc'[r] = "reg" /\ queueMtx = Free /\ queueMtx' = r
        /\ \A s \in Reactors : s # r => rpc'[s] = rpc[s]
    BY <1>1, <1>2 DEF LockQueue, At, Goto
  <2>2. \A s \in Reactors : rpc[s] \notin RegisterPCs
    BY <2>1, MultiplexerAssumption DEF Owners, MutexInv
  <2>3. MutexInv'
    BY <2>1, <2>2 DEF MutexInv, RegisterPCs
  <2> QED
    BY <1>1, <2>1, <2>3 DEF Turns, Busy, Registering, HandlerPCs, RemovePCs, Owners, CurInv
<1>3. ASSUME UnlockQueue(r) PROVE MutexInv' /\ Turns(r)
  <2>1. /\ rpc[r] = "reg" /\ rpc'[r] = "handle" /\ queueMtx' = Free
        /\ \A s \in Reactors : s # r => rpc'[s] = rpc[s]
    BY <1>1, <1>3 DEF UnlockQueue, At, Goto
  <2>2. \A s \in Reactors : rpc[s] \in RegisterPCs => s = r
    BY <2>1 DEF Owners, MutexInv, RegisterPCs
  <2>3. MutexInv'
    BY <2>1, <2>2, MultiplexerAssumption DEF MutexInv, RegisterPCs
  <2> QED
    BY <1>1, <2>1, <2>3 DEF Turns, Busy, Registering, HandlerPCs, RemovePCs, Owners, CurInv
<1>4. \A s \in Reactors : s # r => rpc'[s] = rpc[s]
  BY <1>1 DEF LockQueue, UnlockQueue, Goto
<1>5. \A s \in Reactors : Turns(s)
  BY <1>1, <1>2, <1>3, <1>4 DEF Turns, Busy, Owners, CurInv
<1>6. \A s \in Reactors, c \in Conns : Shrinks(s, c)
  BY <1>1 DEF Shrinks, Has
<1> QED
  BY <1>1, <1>2, <1>3, <1>5, <1>6, KeepsButMutex

(* A reactor that registers is the one that holds the mutex. *)
LEMMA OneRegisters ==
    ASSUME Owners, NEW r \in Reactors, rpc[r] \in RegisterPCs,
           NEW s \in Reactors, rpc[s] \in RegisterPCs
    PROVE  r = s
  BY DEF Owners, MutexInv

LEMMA RegisterKeeps ==
    ASSUME TypeOK, Owners, UNCHANGED mainVars, NEW r \in Reactors, RegisterHandler(r)
    PROVE  Owners'
<1> DEFINE c == Last(queue)
<1>1. /\ UNCHANGED <<queue, queueMtx, handler, peer, accepted, mpc>>
      /\ rpc[r] = "reg" /\ queue # <<>>
  BY DEF RegisterHandler, osVars, kernelVars, mainVars, At
<1>2. c \in Conns /\ InQueue(c) /\ handler[c].fd \in Fds /\ c = queue[Len(queue)]
  BY <1>1, QueuedHandler, QueueLast DEF TypeOK, ReactorTypeOK
<1>3. /\ cur'[r] = c /\ \A s \in Reactors : s # r => cur'[s] = cur[s]
      /\ rpc'[r] = "regRead" /\ \A s \in Reactors : s # r => rpc'[s] = rpc[s]
      /\ Put(r, handler[c].fd, c)
  BY DEF RegisterHandler, Goto, TypeOK, ReactorTypeOK
<1>4. \A s \in Reactors, f \in Fds : fds'[s][f] = fds[s][f] \/ (s = r /\ fds'[s][f] = c)
  BY <1>2, <1>3, PutDoes DEF TypeOK, Entries
<1> HIDE DEF c
<1>5. \A s \in Reactors, d \in Conns : Has(s, d)' => Has(s, d) \/ (s = r /\ d = c)
  BY <1>2, <1>3, <1>4 DEF Has
<1>6. ASSUME NEW s \in Reactors, Has(s, c) PROVE FALSE
  <2>1. rpc[s] \in Registering
    BY <1>2, <1>6 DEF Owners, QueuedInv
  <2>2. s = r
    BY <1>1, <2>1, OneRegisters DEF Registering, RegisterPCs
  <2> QED
    BY <1>1, <2>1, <2>2 DEF Registering
<1>7. \A d \in Conns : Fresh(d) => d # c /\ Fresh(d)'
  <2>1. ASSUME NEW d \in Conns, Fresh(d) PROVE d # c /\ Fresh(d)'
    <3>1. d # c
      BY <1>2, <2>1 DEF Fresh
    <3> QED
      BY <1>1, <1>5, <2>1, <3>1 DEF Fresh, InQueue
  <2> QED
    BY <2>1
<1>8. MutexInv'
  BY <1>1, <1>3 DEF Owners, MutexInv, RegisterPCs
<1>9. CurInv'
  BY <1>2, <1>3, KernelAssumption DEF Owners, CurInv, Busy, Registering
<1>10. LastInv'
  BY <1>1, <1>2, <1>3 DEF Owners, LastInv
<1>11. OneHolder'
  BY <1>5, <1>6 DEF Owners, OneHolder
<1>12. QueuedInv'
  <2>1. ASSUME NEW s \in Reactors, NEW d \in Conns, Has(s, d)', InQueue(d)'
        PROVE  rpc'[s] \in Registering /\ cur'[s] = d
    <3>1. CASE s = r /\ d = c
      BY <1>3, <3>1 DEF Registering
    <3>2. CASE Has(s, d)
      <4>1. rpc[s] \in Registering /\ cur[s] = d
        BY <1>1, <2>1, <3>2 DEF Owners, QueuedInv, InQueue
      <4>2. s # r
        BY <1>1, <4>1 DEF Registering
      <4> QED
        BY <1>3, <4>1, <4>2
    <3> QED
      BY <1>5, <2>1, <3>1, <3>2
  <2> QED
    BY <2>1 DEF QueuedInv
<1>13. Distinct'
  BY <1>1 DEF Owners, Distinct
<1>14. AcceptedInv'
  BY <1>1, <1>7 DEF Owners, AcceptedInv
<1>15. AwayInv'
  BY <1>1, <1>7 DEF Owners, AwayInv
<1>16. HandlerInv'
  BY <1>1 DEF Owners, HandlerInv
<1> QED
  BY <1>8, <1>9, <1>10, <1>11, <1>12, <1>13, <1>14, <1>15, <1>16 DEF Owners

(* pop_back takes the handler that was registered off the queue. *)
LEMMA PopLeaves ==
    ASSUME TypeOK, Owners, NEW r \in Reactors, RegisterPop(r)
    PROVE  /\ \A i \in 1..Len(queue') :
                i \in 1..Len(queue) /\ i # Len(queue) /\ queue'[i] = queue[i]
           /\ \A d : InQueue(d)' => InQueue(d) /\ d # cur[r]
<1>1. rpc[r] = "regPop" /\ queue' = Front(queue)
  BY DEF RegisterPop, At
<1>2. queue # <<>> /\ cur[r] = queue[Len(queue)]
  BY <1>1 DEF Owners, LastInv, Registering
<1>3. /\ Len(queue) \in Nat \ {0} /\ Len(queue') = Len(queue) - 1
      /\ \A i \in 1..(Len(queue) - 1) : queue'[i] = queue[i]
  BY <1>1, <1>2, QueueLast DEF TypeOK, ReactorTypeOK
<1>4. ASSUME NEW i \in 1..Len(queue')
      PROVE  i \in 1..Len(queue) /\ i # Len(queue) /\ queue'[i] = queue[i]
  <2>1. i \in 1..(Len(queue) - 1)
    BY <1>3
  <2>2. i \in 1..Len(queue) /\ i # Len(queue)
    BY <1>3, <2>1
  <2> QED
    BY <1>3, <2>1, <2>2
<1>5. ASSUME NEW d, InQueue(d)' PROVE InQueue(d) /\ d # cur[r]
  <2>1. PICK i \in 1..Len(queue') : queue'[i] = d
    BY <1>5 DEF InQueue
  <2>2. i \in 1..Len(queue) /\ i # Len(queue) /\ queue[i] = d
    BY <1>4, <2>1
  <2>3. Len(queue) \in 1..Len(queue)
    BY <1>3
  <2>4. queue[i] # queue[Len(queue)]
    BY <2>2, <2>3 DEF Owners, Distinct
  <2> QED
    BY <1>2, <2>2, <2>4 DEF InQueue
<1> QED
  BY <1>4, <1>5

LEMMA PopKeeps ==
    ASSUME TypeOK, Owners, UNCHANGED mainVars, NEW r \in Reactors, RegisterPop(r)
    PROVE  Owners'
<1>1. /\ UNCHANGED <<queueMtx, handler, fds, peer, accepted, mpc>>
      /\ rpc[r] = "regPop"
  BY DEF RegisterPop, osVars, kernelVars, mainVars, At
<1>3. /\ cur'[r] = NoConn /\ \A s \in Reactors : s # r => cur'[s] = cur[s]
      /\ rpc'[r] = "regDec" /\ \A s \in Reactors : s # r => rpc'[s] = rpc[s]
  BY DEF RegisterPop, Goto, TypeOK, ReactorTypeOK
<1>5. \A i \in 1..Len(queue') :
        i \in 1..Len(queue) /\ i # Len(queue) /\ queue'[i] = queue[i]
  BY PopLeaves
<1>6. \A d : InQueue(d)' => InQueue(d) /\ d # cur[r]
  BY PopLeaves
<1>7. \A s \in Reactors, d \in Conns : Shrinks(s, d)
  <2>1. \A s \in Reactors : cur'[s] \in {cur[s], NoConn}
    BY <1>3
  <2> QED
    BY <1>1, <2>1, HasShrinks
<1>8. \A d \in Conns : Fresh(d) => Fresh(d)'
  BY <1>6, <1>7 DEF Fresh, Shrinks
<1>9. \A s \in Reactors : rpc[s] \in Registering => s = r
  BY <1>1, OneRegisters DEF Registering, RegisterPCs
<1>10. MutexInv'
  BY <1>1, <1>3 DEF Owners, MutexInv, RegisterPCs
<1>11. CurInv'
  BY <1>3 DEF Owners, CurInv, Busy, Registering, HandlerPCs, RemovePCs
<1>12. LastInv'
  BY <1>3, <1>9 DEF LastInv, Registering
<1>13. OneHolder'
  BY <1>7 DEF Owners, OneHolder, Shrinks
<1>14. QueuedInv'
  <2>1. ASSUME NEW s \in Reactors, NEW d \in Conns, Has(s, d)', InQueue(d)'
        PROVE  FALSE
    <3>1. Has(s, d) /\ InQueue(d) /\ d # cur[r]
      BY <1>6, <1>7, <2>1 DEF Shrinks
    <3>2. rpc[s] \in Registering /\ cur[s] = d
      BY <3>1 DEF Owners, QueuedInv
    <3> QED
      BY <1>9, <3>1, <3>2
  <2> QED
    BY <2>1 DEF QueuedInv
<1>15. Distinct'
  <2>1. ASSUME NEW i \in 1..Len(queue'), NEW k \in 1..Len(queue'), queue'[i] = queue'[k]
        PROVE  i = k
    <3>1. /\ i \in 1..Len(queue) /\ k \in 1..Len(queue)
          /\ queue[i] = queue[k]
      BY <1>5, <2>1
    <3> QED
      BY <3>1 DEF Owners, Distinct
  <2> QED
    BY <2>1 DEF Distinct
<1>16. AcceptedInv'
  BY <1>1, <1>8 DEF Owners, AcceptedInv
<1>17. AwayInv'
  BY <1>1, <1>8 DEF Owners, AwayInv
<1>18. HandlerInv'
  BY <1>1 DEF Owners, HandlerInv
<1> QED
  BY <1>10, <1>11, <1>12, <1>13, <1>14, <1>15, <1>16, <1>17, <1>18 DEF Owners

(* What nobody's variables say of who has what. *)
LEMMA Unmoved ==
    ASSUME Owners, UNCHANGED <<queueMtx, rpc, cur, fds>>
    PROVE  /\ MutexInv' /\ CurInv' /\ OneHolder'
           /\ \A s \in Reactors, c \in Conns : Has(s, c)' <=> Has(s, c)
  BY DEF Owners, MutexInv, CurInv, Busy, OneHolder, Has

LEMMA AcceptKeeps ==
    ASSUME TypeOK, Owners, NEW c \in Conns, Accept(c)
    PROVE  Owners'
<1>1. /\ UNCHANGED <<queue, queueMtx, rpc, cur, fds>>
      /\ peer[c] = "away" /\ accepted' = c
      /\ peer' = [peer EXCEPT ![c] = "up"]
      /\ handler' = [handler EXCEPT ![c] =
             [fd |-> Lowest(FreeFds), home |-> NextReactor,
              connected |-> TRUE, live |-> TRUE]]
  BY DEF Accept, Install
<1>2. Lowest(FreeFds) \in Fds /\ NextReactor \in Reactors
  <2>1. FreeFds \in SUBSET Nat /\ FreeFds # {} /\ FreeFds \subseteq Fds
    BY KernelAssumption DEF Accept, Install, FreeFds
  <2> QED
    BY <2>1, LowestIsIn, NextReactorIsOne DEF TypeOK
<1>3. /\ peer'[c] = "up" /\ \A d \in Conns : d # c => peer'[d] = peer[d]
      /\ handler'[c].fd = Lowest(FreeFds) /\ handler'[c].home = NextReactor
      /\ \A d \in Conns : d # c => handler'[d] = handler[d]
  BY <1>1 DEF TypeOK, KernelTypeOK, ReactorTypeOK
<1>4. /\ MutexInv' /\ CurInv' /\ OneHolder'
      /\ \A s \in Reactors, d \in Conns : Has(s, d)' <=> Has(s, d)
  BY <1>1, Unmoved
<1>5. \A d \in Conns : (InQueue(d)' <=> InQueue(d)) /\ (Fresh(d)' <=> Fresh(d))
  BY <1>1, <1>4 DEF InQueue, Fresh
<1>6. LastInv'
  BY <1>1 DEF Owners, LastInv
<1>7. QueuedInv'
  BY <1>1, <1>4, <1>5 DEF Owners, QueuedInv
<1>8. Distinct'
  BY <1>1 DEF Owners, Distinct
<1>9. AcceptedInv'
  BY <1>1, <1>3, <1>5 DEF Owners, AwayInv, AcceptedInv
<1>10. AwayInv'
  BY <1>3, <1>5 DEF Owners, AwayInv
<1>11. HandlerInv'
  BY <1>2, <1>3 DEF Owners, HandlerInv
<1> QED
  BY <1>4, <1>6, <1>7, <1>8, <1>9, <1>10, <1>11 DEF Owners

LEMMA EnqueueKeeps ==
    ASSUME TypeOK, Owners, Enqueue
    PROVE  Owners'
<1>1. /\ UNCHANGED <<queueMtx, rpc, cur, fds, handler, peer>>
      /\ mpc = "push" /\ queueMtx = Free /\ accepted' = NoConn
      /\ mpc' \in {"accept", "kill"}
  BY DEF Enqueue, osVars, kernelVars
<1>2. accepted \in Conns /\ peer[accepted] # "away" /\ Fresh(accepted)
  BY <1>1 DEF Owners, AcceptedInv
<1>3. /\ MutexInv' /\ CurInv' /\ OneHolder'
      /\ \A s \in Reactors, d \in Conns : Has(s, d)' <=> Has(s, d)
  BY <1>1, Unmoved
<1>4. \A s \in Reactors : rpc'[s] \notin Registering
  BY <1>1, MultiplexerAssumption DEF Owners, MutexInv, Registering, RegisterPCs
<1>5. LastInv'
  BY <1>4 DEF LastInv
<1>6. AcceptedInv'
  BY <1>1, KernelAssumption DEF AcceptedInv
<1>7. HandlerInv'
  BY <1>1 DEF Owners, HandlerInv
<1>8. /\ Distinct'
      /\ \A d \in Conns : InQueue(d)' => InQueue(d) \/ d = accepted
  <2>1. CASE UNCHANGED queue
    BY <2>1 DEF Owners, Distinct, InQueue
  <2>2. CASE queue' = Append(queue, accepted)
    <3>1. /\ Len(queue) \in Nat /\ Len(queue') = Len(queue) + 1
          /\ queue'[Len(queue) + 1] = accepted
          /\ \A i \in 1..Len(queue) : queue'[i] = queue[i]
      BY <1>2, <2>2, AppendProperties DEF TypeOK, ReactorTypeOK
    <3>2. ASSUME NEW i \in 1..Len(queue')
          PROVE  \/ i \in 1..Len(queue) /\ queue'[i] = queue[i]
                 \/ i = Len(queue) + 1 /\ queue'[i] = accepted
      <4>1. i \in 1..Len(queue) \/ i = Len(queue) + 1
        BY <3>1
      <4> QED
        BY <3>1, <4>1
    <3>3. \A i \in 1..Len(queue) : queue[i] # accepted
      BY <1>2 DEF Fresh, InQueue
    <3>4. Distinct'
      BY <3>2, <3>3 DEF Owners, Distinct
    <3>5. \A d \in Conns : InQueue(d)' => InQueue(d) \/ d = accepted
      BY <3>2 DEF InQueue
    <3> QED
      BY <3>4, <3>5
  <2> QED
    BY <2>1, <2>2 DEF Enqueue
<1>9. QueuedInv'
  BY <1>1, <1>2, <1>3, <1>8 DEF Owners, QueuedInv, Fresh
<1>10. AwayInv'
  BY <1>1, <1>2, <1>3, <1>8 DEF Owners, AwayInv, Fresh
<1> QED
  BY <1>3, <1>5, <1>6, <1>7, <1>8, <1>9, <1>10 DEF Owners

-----------------------------------------------------------------------------
(* Every step *)

LEMMA ReactorStepKeeps ==
    ASSUME IInv, NEW r \in Reactors, ReactorStep(r)
    PROVE  IInv'
<1>1. Reactor(r) /\ UNCHANGED mainVars
  BY DEF ReactorStep
<1>2. TypeOK'
  <2>1. KernelTypeOK' /\ SignalTypeOK' /\ ReactorTypeOK'
    BY <1>1, ReactorTypes DEF IInv, TypeOK
  <2> QED
    BY <1>1, <2>1 DEF IInv, TypeOK, mainVars
<1>3. Owners'
  <2>1. CASE LockQueue(r) \/ UnlockQueue(r)
    BY <1>1, <2>1, LockKeeps DEF IInv
  <2>2. CASE RegisterHandler(r)
    BY <1>1, <2>2, RegisterKeeps DEF IInv
  <2>3. CASE RegisterPop(r)
    BY <1>1, <2>3, PopKeeps DEF IInv
  <2> QED
    BY <1>1, <1>2, <2>1, <2>2, <2>3, ReactorKeeps DEF IInv
<1> QED
  BY <1>2, <1>3 DEF IInv

(* The signal thread, and the steps of the main thread and of the clients    *)
(* that hand no connection on.                                               *)
LEMMA IdleKeeps ==
    ASSUME Owners, UNCHANGED <<queue, queueMtx, handler, fds, rpc, cur, accepted>>,
           mpc' = "push" => mpc = "push",
           \A c \in Conns : peer'[c] = "away" <=> peer[c] = "away"
    PROVE  Owners'
<1>1. \A s \in Reactors : Moves(s)
  BY DEF Owners, CurInv, Busy, Moves, Turns
<1>2. \A s \in Reactors, c \in Conns : Shrinks(s, c)
  BY DEF Shrinks, Has
<1> QED
  BY <1>1, <1>2, Keeps

LEMMA SignalStepKeeps ==
    ASSUME IInv, SignalStep
    PROVE  IInv'
<1>1. SignalThread /\ UNCHANGED <<kernelVars, reactorVars, mainVars>>
  BY DEF SignalStep
<1>2. SignalTypeOK'
  <2>1. sval \in Int /\ register_flag \in Int /\ SignalTypeOK
    BY DEF IInv, TypeOK, SignalTypeOK
  <2>2. sval + 1 \in Int /\ 0 \in Int /\ 2 \in Int
    BY <2>1
  <2>3. CASE SigWait
    BY <2>1, <2>3 DEF SigWait, SignalTypeOK, SignalPCs, Signals, FirstPending
  <2>4. CASE HandleInt
    BY <2>1, <2>2, <2>4 DEF HandleInt, ReactorsToQuit, SignalTypeOK, SignalPCs
  <2>5. CASE LoadFlag
    BY <2>1, <2>5 DEF LoadFlag, SignalTypeOK, SignalPCs
  <2>6. CASE StoreFlag
    BY <2>1, <2>2, <2>6 DEF StoreFlag, SignalTypeOK, SignalPCs
  <2>7. CASE HandleUsr2
    BY <2>1, <2>7 DEF HandleUsr2, SignalTypeOK
  <2> QED
    BY <1>1, <2>3, <2>4, <2>5, <2>6, <2>7 DEF SignalThread
<1>3. TypeOK'
  BY <1>1, <1>2 DEF IInv, TypeOK, KernelTypeOK, ReactorTypeOK, kernelVars, reactorVars, mainVars
<1>4. Owners'
  BY <1>1, IdleKeeps DEF IInv, kernelVars, reactorVars, mainVars
<1> QED
  BY <1>3, <1>4 DEF IInv

LEMMA MainStepKeeps ==
    ASSUME IInv, MainStep
    PROVE  IInv'
<1>1. ASSUME Enqueue PROVE IInv'
  <2>1. Owners'
    BY <1>1, EnqueueKeeps DEF IInv
  <2>2. accepted \in Conns
    BY <1>1 DEF IInv, Owners, AcceptedInv, Enqueue
  <2>3. queue' \in Seq(Conns)
    <3>1. CASE UNCHANGED queue
      BY <3>1 DEF IInv, TypeOK, ReactorTypeOK
    <3>2. CASE queue' = Append(queue, accepted)
      BY <2>2, <3>2, AppendProperties DEF IInv, TypeOK, ReactorTypeOK
    <3> QED
      BY <1>1, <3>1, <3>2 DEF Enqueue
  <2>4. UNCHANGED <<osVars, queueMtx, handler, fds, rdy, rpc, cur, ctl, val,
                    answers, back, reactor_select, interrupts>>
        /\ accepted' = NoConn /\ mpc' \in {"accept", "kill"}
    BY <1>1 DEF Enqueue
  <2>5. KernelTypeOK' /\ SignalTypeOK' /\ ReactorTypeOK'
    BY <2>3, <2>4 DEF IInv, TypeOK, KernelTypeOK, SignalTypeOK, ReactorTypeOK,
       osVars, kernelVars, signalVars
  <2> QED
    BY <2>1, <2>4, <2>5 DEF IInv, TypeOK
<1>2. ASSUME Kill PROVE IInv'
  <2>1. /\ pending' = pending \cup {"USR1"} /\ mpc = "kill" /\ mpc' = "accept"
        /\ UNCHANGED <<kernelVars, spc, sval, register_flag, quit_wait_flag, process,
                       reactorVars, accepted, reactor_select, interrupts>>
    BY <1>2 DEF Kill
  <2>2. SignalTypeOK'
    BY <2>1 DEF IInv, TypeOK, SignalTypeOK, Signals
  <2>3. TypeOK'
    BY <2>1, <2>2 DEF IInv, TypeOK, KernelTypeOK, ReactorTypeOK, kernelVars, reactorVars
  <2>4. Owners'
    BY <2>1, IdleKeeps DEF IInv, kernelVars, reactorVars
  <2> QED
    BY <2>3, <2>4 DEF IInv
<1> QED
  BY <1>1, <1>2 DEF MainStep

(* pause() returns to where quit_and_rst() was called from. *)
LEMMA InterruptKeeps ==
    ASSUME IInv, Interrupt
    PROVE  IInv'
<1>1. /\ UNCHANGED <<kernelVars, spc, sval, register_flag, quit_wait_flag, process,
                     queue, queueMtx, handler, fds, rdy, cur, ctl, val, answers, back,
                     mpc, accepted>>
      /\ pending' = pending \cup {"INT"}
      /\ interrupts < MaxInterrupts /\ interrupts' = interrupts + 1
  BY DEF Interrupt
<1>2. reactor_select' \in Reactors
  BY NextReactorIsOne DEF Interrupt, IInv, TypeOK
<1>3. interrupts' \in 0..MaxInterrupts
  <2>1. interrupts \in 0..MaxInterrupts /\ MaxInterrupts \in Nat
    BY ServerAssumption DEF IInv, TypeOK
  <2> QED
    BY <1>1, <2>1
<1>4. /\ rpc' \in [Reactors -> ReactorPCs]
      /\ \A s \in Reactors : \/ rpc'[s] = rpc[s]
                             \/ rpc[s] = "paused" /\ rpc'[s] \in {"epoll", "next"}
  <2>1. CASE UNCHANGED rpc
    BY <2>1 DEF IInv, TypeOK, ReactorTypeOK
  <2>2. CASE \E r \in Reactors : At(r, "paused") /\ Goto(r, back[r])
    BY <2>2 DEF IInv, TypeOK, ReactorTypeOK, At, Goto, ReactorPCs
  <2> QED
    BY <2>1, <2>2 DEF Interrupt
<1>5. SignalTypeOK'
  BY <1>1 DEF IInv, TypeOK, SignalTypeOK, Signals
<1>6. TypeOK'
  BY <1>1, <1>2, <1>3, <1>4, <1>5 DEF IInv, TypeOK, KernelTypeOK, ReactorTypeOK, kernelVars
<1>7. \A s \in Reactors : Moves(s)
  BY <1>1, <1>4 DEF IInv, Owners, CurInv, Busy, Moves, Turns, Registering, RegisterPCs,
     HandlerPCs, RemovePCs
<1>8. \A s \in Reactors, c \in Conns : Shrinks(s, c)
  BY <1>1 DEF Shrinks, Has
<1>9. Owners'
  BY <1>1, <1>7, <1>8, Keeps DEF IInv, kernelVars
<1> QED
  BY <1>6, <1>9 DEF IInv

LEMMA EnvironmentKeeps ==
    ASSUME IInv, Environment
    PROVE  IInv'
<1>1. ASSUME NEW c \in Conns, Accept(c) PROVE IInv'
  <2>1. Owners'
    BY <1>1, AcceptKeeps DEF IInv
  <2>2. Lowest(FreeFds) \in Fds /\ NextReactor \in Reactors
    <3>1. FreeFds \in SUBSET Nat /\ FreeFds # {} /\ FreeFds \subseteq Fds
      BY <1>1, KernelAssumption DEF Accept, Install, FreeFds
    <3> QED
      BY <3>1, LowestIsIn, NextReactorIsOne DEF IInv, TypeOK
  <2>3. KernelTypeOK'
    BY <1>1, <2>2 DEF Accept, Install, IInv, TypeOK, KernelTypeOK
  <2>4. handler' \in [Conns -> Handlers]
    <3>1. [fd |-> Lowest(FreeFds), home |-> NextReactor,
           connected |-> TRUE, live |-> TRUE] \in Handlers
      BY <2>2 DEF Handlers
    <3> QED
      BY <1>1, <3>1 DEF Accept, IInv, TypeOK, ReactorTypeOK, Handlers
  <2>5. /\ UNCHANGED <<signalVars, queue, queueMtx, fds, rdy, rpc, cur, ctl, val,
                       answers, back, interrupts>>
        /\ reactor_select' = NextReactor /\ accepted' = c /\ mpc' = "push"
    BY <1>1 DEF Accept
  <2>6. ReactorTypeOK' /\ SignalTypeOK'
    BY <2>4, <2>5 DEF IInv, TypeOK, ReactorTypeOK, SignalTypeOK, signalVars, Handlers
  <2> QED
    BY <2>1, <2>2, <2>3, <2>5, <2>6 DEF IInv, TypeOK
<1>2. ASSUME NEW c \in Conns, ClientResets(c) PROVE IInv'
  <2>1. /\ UNCHANGED <<signalVars, reactorVars, mainVars, files, interest>>
        /\ peer[c] = "up" /\ peer' = [peer EXCEPT ![c] = "reset"]
    BY <1>2 DEF ClientResets, PeerReset
  <2>2. TypeOK' /\ \A d \in Conns : peer'[d] = "away" <=> peer[d] = "away"
    BY <2>1 DEF IInv, TypeOK, KernelTypeOK, SignalTypeOK, ReactorTypeOK,
       signalVars, reactorVars, mainVars
  <2>3. Owners'
    BY <2>1, <2>2, IdleKeeps DEF IInv, reactorVars, mainVars
  <2> QED
    BY <2>2, <2>3 DEF IInv
<1>3. ASSUME AcceptFails PROVE IInv'
  <2>1. /\ UNCHANGED <<osVars, reactorVars, mpc, accepted, interrupts>>
        /\ reactor_select' = NextReactor
    BY <1>3 DEF AcceptFails
  <2>2. TypeOK'
    BY <2>1, NextReactorIsOne DEF IInv, TypeOK, KernelTypeOK, SignalTypeOK, ReactorTypeOK,
       osVars, kernelVars, signalVars, reactorVars
  <2>3. Owners'
    BY <2>1, IdleKeeps DEF IInv, osVars, kernelVars, reactorVars
  <2> QED
    BY <2>2, <2>3 DEF IInv
<1>4. ASSUME Interrupt PROVE IInv'
  BY <1>4, InterruptKeeps
<1> QED
  BY <1>1, <1>2, <1>3, <1>4 DEF Environment

LEMMA InitOwners == Init => Owners
<1> SUFFICES ASSUME Init PROVE Owners
  OBVIOUS
<1>1. /\ queue = <<>> /\ queueMtx = Free /\ accepted = NoConn /\ mpc = "accept"
      /\ \A r \in Reactors : cur[r] = NoConn /\ rpc[r] = "select"
      /\ \A r \in Reactors, f \in Fds : fds[r][f] = Absent
      /\ \A c \in Conns : peer[c] = "away"
  BY DEF Init, KernelInit, ReactorInit
<1>2. \A r \in Reactors, c \in Conns : ~Has(r, c)
  BY <1>1, KernelAssumption, MultiplexerAssumption DEF Has
<1>3. Len(queue) = 0 /\ 1..Len(queue) = {}
  BY <1>1
<1>4. \A c \in Conns : Fresh(c)
  BY <1>2, <1>3 DEF Fresh, InQueue
<1>5. MutexInv /\ CurInv /\ LastInv
  BY <1>1, MultiplexerAssumption DEF MutexInv, CurInv, LastInv, Busy, Registering,
     RegisterPCs, HandlerPCs, RemovePCs
<1>6. OneHolder /\ QueuedInv
  BY <1>2 DEF OneHolder, QueuedInv
<1>7. Distinct
  BY <1>3 DEF Distinct
<1>8. AcceptedInv /\ AwayInv /\ HandlerInv
  BY <1>1, <1>4, KernelAssumption DEF AcceptedInv, AwayInv, HandlerInv
<1> QED
  BY <1>5, <1>6, <1>7, <1>8 DEF Owners

(* The inductive invariant: the types, and who has which connection.         *)
THEOREM Invariant == Spec => []IInv
<1>1. Init => IInv
  BY InitTypes, InitOwners DEF IInv
<1>2. IInv /\ [Next]_vars => IInv'
  <2> SUFFICES ASSUME IInv, [Next]_vars PROVE IInv'
    OBVIOUS
  <2>1. CASE SignalStep
    BY <2>1, SignalStepKeeps
  <2>2. CASE \E r \in Reactors : ReactorStep(r)
    BY <2>2, ReactorStepKeeps
  <2>3. CASE MainStep
    BY <2>3, MainStepKeeps
  <2>4. CASE Environment
    BY <2>4, EnvironmentKeeps
  <2>5. CASE UNCHANGED vars
    <3>1. UNCHANGED <<kernelVars, signalVars, reactorVars, mainVars>>
      BY <2>5 DEF vars
    <3>2. TypeOK'
      BY <3>1 DEF IInv, TypeOK, KernelTypeOK, SignalTypeOK, ReactorTypeOK,
         kernelVars, signalVars, reactorVars, mainVars
    <3>3. Owners'
      BY <3>1, IdleKeeps DEF IInv, kernelVars, reactorVars, mainVars
    <3> QED
      BY <3>2, <3>3 DEF IInv
  <2> QED
    BY <2>1, <2>2, <2>3, <2>4, <2>5 DEF Next
<1> QED
  BY <1>1, <1>2, PTL DEF Spec

-----------------------------------------------------------------------------
(* The theorems *)

(* The variables of the server keep their types, so the handler a reactor      *)
(* runs is one that was accepted and its answers go to connections.          *)
THEOREM TypeCorrect == Spec => []TypeOK
<1>1. IInv => TypeOK
  BY DEF IInv
<1> QED
  BY <1>1, Invariant, PTL

(* wait_queue_mtx does what it is for: two reactors are never both between    *)
(* its lock and its unlock in register_handler's loop.                       *)
THEOREM QueueMutexExcludes ==
    Spec => [](\A r, s \in Reactors :
                   rpc[r] \in RegisterPCs /\ rpc[s] \in RegisterPCs => r = s)
<1>1. IInv => \A r, s \in Reactors :
                  rpc[r] \in RegisterPCs /\ rpc[s] \in RegisterPCs => r = s
  BY OneRegisters DEF IInv
<1> QED
  BY <1>1, Invariant, PTL

(* No two reactors register, run or remove the same handler, although a       *)
(* handler is removed from the map of the reactor it was made for by the     *)
(* thread that ran it, without that map's mutex.                             *)
THEOREM OneReactor == Spec => []OneReactorPerHandler
<1>1. IInv => OneReactorPerHandler
  <2> SUFFICES ASSUME IInv, NEW r \in Reactors, NEW s \in Reactors,
                      cur[r] # NoConn, cur[r] = cur[s]
               PROVE  r = s
    BY DEF OneReactorPerHandler
  <2>1. cur[r] \in Conns
    BY DEF IInv, TypeOK, ReactorTypeOK
  <2>2. Has(r, cur[r]) /\ Has(s, cur[r])
    BY DEF Has
  <2> QED
    BY <2>1, <2>2 DEF IInv, Owners, OneHolder
<1> QED
  BY <1>1, Invariant, PTL

-----------------------------------------------------------------------------
(* The end of the process *)

(* Before SIGINT has been handled nobody quits. *)
Before ==
    /\ quit_wait_flag = 0
    /\ \A r \in Reactors : rpc[r] \notin QuitPCs
    /\ "USR2" \notin pending /\ spc # "usr2" /\ process # "exited"
    /\ interrupts = 0 => "INT" \notin pending /\ spc # "int"
    /\ ~("INT" \in pending /\ spc = "int")

AllPaused == \A r \in Reactors : rpc[r] = "paused"

(* After it the count says how many have paused, at least, and the reactor    *)
(* whose register leads to zero is the last.                                 *)
After ==
    /\ interrupts >= MaxInterrupts
    /\ "INT" \notin pending /\ spc # "int"
    /\ quit_wait_flag \in {0, 1, 2}
    /\ quit_wait_flag = 1 => \E r \in Reactors : rpc[r] = "paused"
    /\ quit_wait_flag = 0 => AllPaused
    /\ \A r \in Reactors : rpc[r] = "quitStore" =>
         /\ val[r] \in {1, 2}
         /\ val[r] = 1 => \A s \in Reactors \ {r} : rpc[s] = "paused"
    /\ "USR2" \in pending \/ spc = "usr2" \/ process = "exited" => AllPaused

QuitInv == Before \/ After

(* The steps of a reactor that leave the count alone. *)
Quiet(r) ==
    /\ UNCHANGED <<pending, spc, quit_wait_flag>>
    /\ process' \in {process, "crashed"}
    /\ rpc[r] # "paused" /\ rpc'[r] \notin {"paused", "quitStore"}
    /\ quit_wait_flag = 0 /\ rpc[r] \notin QuitPCs => rpc'[r] \notin QuitPCs
    /\ \A s \in Reactors : s # r => rpc'[s] = rpc[s] /\ val'[s] = val[s]

LEMMA QuietSteps ==
    ASSUME TypeOK, NEW r \in Reactors, Reactor(r), ~QuitLoad(r), ~QuitStore(r)
    PROVE  Quiet(r)
<1>0. rpc \in [Reactors -> ReactorPCs] /\ val \in [Reactors -> Int]
  BY DEF TypeOK, ReactorTypeOK
<1>1. ASSUME TestQuit(r) PROVE Quiet(r)
  BY <1>1, <1>0 DEF TestQuit, TestQuitAt, QuitSet, At, Goto, Quiet, QuitPCs, osVars, signalVars
<1>2. ASSUME EpollWait(r) PROVE Quiet(r)
  BY <1>2, <1>0 DEF EpollWait, At, Goto, Quiet, QuitPCs, osVars, signalVars
<1>3. ASSUME TestRegister(r) PROVE Quiet(r)
  BY <1>3, <1>0 DEF TestRegister, At, Goto, Quiet, QuitPCs, osVars, signalVars
<1>4. ASSUME LockQueue(r) PROVE Quiet(r)
  BY <1>4, <1>0 DEF LockQueue, At, Goto, Quiet, QuitPCs, osVars, signalVars
<1>5. ASSUME UnlockQueue(r) PROVE Quiet(r)
  BY <1>5, <1>0 DEF UnlockQueue, At, Goto, Quiet, QuitPCs, osVars, signalVars
<1>6. ASSUME RegisterHandler(r) PROVE Quiet(r)
  BY <1>6, <1>0 DEF RegisterHandler, At, Goto, Quiet, QuitPCs, osVars, signalVars
<1>7. ASSUME RegisterPop(r) PROVE Quiet(r)
  BY <1>7, <1>0 DEF RegisterPop, At, Goto, Quiet, QuitPCs, osVars, signalVars
<1>8. ASSUME RegisterDec(r) PROVE Quiet(r)
  BY <1>8, <1>0 DEF RegisterDec, At, Goto, Quiet, QuitPCs, osVars, signalVars
<1>9. ASSUME UpdateRead(r) PROVE Quiet(r)
  BY <1>9, <1>0 DEF UpdateRead, ReadEntry, At, Goto, Quiet, QuitPCs, osVars, signalVars
<1>10. ASSUME RegisterCtl(r) PROVE Quiet(r)
  BY <1>10, <1>0 DEF RegisterCtl, At, Goto, Quiet, QuitPCs, osVars, signalVars
<1>11. ASSUME RemoveCtl(r) PROVE Quiet(r)
  BY <1>11, <1>0 DEF RemoveCtl, At, Goto, Quiet, QuitPCs, osVars, signalVars
<1>12. ASSUME NextReady(r) PROVE Quiet(r)
  <2>1. /\ UNCHANGED <<pending, spc, quit_wait_flag, val>> /\ rpc[r] = "next"
        /\ \/ process' = "crashed" /\ UNCHANGED rpc
           \/ UNCHANGED process /\ (Goto(r, "rm") \/ Goto(r, "write"))
    BY <1>12 DEF NextReady, At
  <2>2. /\ process' \in {process, "crashed"} /\ rpc'[r] \in {"next", "rm", "write"}
        /\ \A s \in Reactors : s # r => rpc'[s] = rpc[s]
    BY <1>0, <2>1 DEF Goto
  <2> QED
    BY <2>1, <2>2 DEF Quiet, QuitPCs
<1>13. ASSUME EndOfReady(r) PROVE Quiet(r)
  BY <1>13, <1>0 DEF EndOfReady, At, Goto, Quiet, QuitPCs, osVars, signalVars
<1>14. ASSUME HandleWrite(r) PROVE Quiet(r)
  BY <1>14, <1>0 DEF HandleWrite, At, Goto, Quiet, QuitPCs, osVars, signalVars
<1>15. ASSUME DisConnected(r) PROVE Quiet(r)
  BY <1>15, <1>0 DEF DisConnected, At, Goto, Quiet, QuitPCs, osVars, signalVars
<1>16. ASSUME RemoveTest(r) PROVE Quiet(r)
  BY <1>16, <1>0 DEF RemoveTest, At, Goto, Quiet, QuitPCs, osVars, signalVars
<1>17. ASSUME RemoveErase(r) PROVE Quiet(r)
  BY <1>17, <1>0 DEF RemoveErase, At, Goto, Quiet, QuitPCs, osVars, signalVars
<1>18. ASSUME ResetAll(r) PROVE Quiet(r)
  BY <1>18, <1>0 DEF ResetAll, At, Goto, Quiet, QuitPCs, osVars, signalVars
<1> QED
  BY <1>1, <1>2, <1>3, <1>4, <1>5, <1>6, <1>7, <1>8, <1>9, <1>10, <1>11, <1>12, <1>13, <1>14,
     <1>15, <1>16, <1>17, <1>18 DEF Reactor

LEMMA ReactorStepQuits ==
    ASSUME TypeOK, QuitInv, Reactors = {0, 1}, NEW r \in Reactors, ReactorStep(r)
    PROVE  QuitInv'
<1>0. /\ rpc \in [Reactors -> ReactorPCs] /\ val \in [Reactors -> Int]
      /\ Reactor(r) /\ UNCHANGED interrupts
  BY DEF TypeOK, ReactorTypeOK, ReactorStep, mainVars
<1>1. ASSUME Quiet(r), Before PROVE Before'
  BY <1>0, <1>1 DEF Quiet, Before
<1>2. ASSUME Quiet(r), After PROVE After'
  <2>1. ~AllPaused /\ UNCHANGED <<pending, spc, quit_wait_flag>>
    BY <1>2 DEF Quiet, AllPaused
  <2>2. \A s \in Reactors : rpc[s] = "paused" => rpc'[s] = "paused"
    BY <1>2 DEF Quiet
  <2>3. \A s \in Reactors : rpc'[s] = "quitStore" => rpc[s] = "quitStore" /\ val'[s] = val[s]
    BY <1>2 DEF Quiet
  <2>4. process' = "exited" => process = "exited"
    BY <1>2 DEF Quiet
  <2> QED
    BY <1>0, <1>2, <2>1, <2>2, <2>3, <2>4 DEF After, AllPaused
<1>3. ASSUME QuitLoad(r), After PROVE After'
  <2>1. /\ UNCHANGED <<pending, spc, quit_wait_flag, process>>
        /\ rpc[r] = "quitLoad" /\ rpc'[r] = "quitStore" /\ val'[r] = quit_wait_flag
        /\ \A s \in Reactors : s # r => rpc'[s] = rpc[s] /\ val'[s] = val[s]
    BY <1>0, <1>3 DEF QuitLoad, At, Goto, osVars, signalVars
  <2>2. ~AllPaused /\ quit_wait_flag \in {1, 2}
    BY <1>3, <2>1 DEF AllPaused, After
  <2>3. quit_wait_flag = 1 => \A s \in Reactors \ {r} : rpc[s] = "paused"
    BY <1>3, <2>1 DEF After
  <2> QED
    BY <1>0, <1>3, <2>1, <2>2, <2>3 DEF After, AllPaused
<1>4. ASSUME QuitStore(r), After PROVE After'
  <2>1. /\ UNCHANGED <<spc, process>>
        /\ quit_wait_flag' = val[r] - 1
        /\ pending' = IF val[r] - 1 = 0 THEN pending \cup {"USR2"} ELSE pending
        /\ rpc[r] = "quitStore" /\ rpc'[r] = "paused"
        /\ \A s \in Reactors : s # r => rpc'[s] = rpc[s] /\ val'[s] = val[s]
    BY <1>0, <1>4 DEF QuitStore, At, Goto
  <2>2. /\ val[r] \in {1, 2}
        /\ val[r] = 1 => \A s \in Reactors \ {r} : rpc[s] = "paused"
        /\ ~AllPaused
    BY <1>4, <2>1 DEF After, AllPaused
  <2>3. ~("USR2" \in pending \/ spc = "usr2" \/ process = "exited")
    BY <1>4, <2>2 DEF After
  <2>4. ASSUME NEW s \in Reactors, rpc'[s] = "quitStore" PROVE val'[s] = 2
    <3>1. s # r /\ rpc[s] = "quitStore" /\ val'[s] = val[s]
      BY <2>1, <2>4
    <3>2. val[s] \in {1, 2} /\ (val[s] = 1 => rpc[r] = "paused")
      BY <1>4, <3>1 DEF After
    <3> QED
      BY <2>1, <3>1, <3>2
  <2>5. CASE val[r] = 1
    <3>1. quit_wait_flag' = 0 /\ AllPaused'
      BY <2>1, <2>2, <2>5 DEF AllPaused
    <3>2. "INT" \notin pending'
      BY <1>4, <2>1 DEF After
    <3> QED
      BY <1>0, <1>4, <2>1, <2>4, <3>1, <3>2 DEF After
  <2>6. CASE val[r] = 2
    <3>1. quit_wait_flag' = 1 /\ pending' = pending
      BY <2>1, <2>6
    <3> QED
      BY <1>0, <1>4, <2>1, <2>3, <2>4, <3>1 DEF After
  <2> QED
    BY <2>2, <2>5, <2>6
<1>5. ASSUME QuitLoad(r) \/ QuitStore(r) PROVE ~Before
  BY <1>5 DEF QuitLoad, QuitStore, At, Before, QuitPCs
<1> QED
  BY <1>0, <1>1, <1>2, <1>3, <1>4, <1>5, QuietSteps DEF QuitInv

LEMMA OtherStepQuits ==
    ASSUME TypeOK, QuitInv, MaxInterrupts <= 1,
           SignalStep \/ MainStep \/ Environment \/ UNCHANGED vars
    PROVE  QuitInv'
<1>0. pending \subseteq Signals /\ interrupts \in 0..MaxInterrupts /\ MaxInterrupts \in Nat
  BY ServerAssumption DEF TypeOK, SignalTypeOK
<1>1. ASSUME SignalStep PROVE QuitInv'
  <2>1. SignalThread /\ UNCHANGED <<rpc, val, interrupts>>
    BY <1>1 DEF SignalStep, reactorVars, mainVars
  <2>2. CASE SigWait
    <3>1. /\ spc = "sigwait" /\ UNCHANGED <<quit_wait_flag, process>>
          /\ \/ /\ "INT" \in pending /\ spc' = "int" /\ pending' = pending \ {"INT"}
             \/ /\ "USR1" \in pending /\ spc' = "load" /\ pending' = pending \ {"USR1"}
             \/ /\ "USR2" \in pending /\ spc' = "usr2" /\ pending' = pending \ {"USR2"}
      BY <1>0, <2>2 DEF SigWait, FirstPending, Signals
    <3>2. CASE Before
      BY <2>1, <3>1, <3>2 DEF Before, QuitInv
    <3>3. CASE After
      BY <2>1, <3>1, <3>3 DEF After, AllPaused, QuitInv
    <3> QED
      BY <3>2, <3>3 DEF QuitInv
  <2>3. CASE HandleInt
    <3>1. /\ spc = "int" /\ spc' = "sigwait" /\ quit_wait_flag' = 2
          /\ UNCHANGED <<pending, process>>
      BY <2>3 DEF HandleInt, ReactorsToQuit
    <3>2. Before
      BY <3>1 DEF QuitInv, After
    <3>3. interrupts >= MaxInterrupts
      BY <1>0, <3>1, <3>2 DEF Before
    <3> QED
      BY <2>1, <3>1, <3>2, <3>3 DEF Before, After, QuitInv, QuitPCs
  <2>4. CASE LoadFlag \/ StoreFlag
    <3>1. /\ spc \in {"load", "store"} /\ spc' \in {"store", "sigwait"}
          /\ UNCHANGED <<pending, quit_wait_flag, process>>
      BY <2>4 DEF LoadFlag, StoreFlag
    <3> QED
      BY <2>1, <3>1 DEF Before, After, AllPaused, QuitInv
  <2>5. CASE HandleUsr2
    <3>1. /\ spc = "usr2" /\ process' = "exited"
          /\ UNCHANGED <<pending, spc, quit_wait_flag>>
      BY <2>5 DEF HandleUsr2
    <3> QED
      BY <2>1, <3>1 DEF Before, After, AllPaused, QuitInv
  <2> QED
    BY <2>1, <2>2, <2>3, <2>4, <2>5 DEF SignalThread
<1>2. ASSUME MainStep PROVE QuitInv'
  <2>1. /\ UNCHANGED <<spc, quit_wait_flag, process, rpc, val, interrupts>>
        /\ pending' \in {pending, pending \cup {"USR1"}}
    BY <1>2 DEF MainStep, Enqueue, Kill, osVars, signalVars, reactorVars
  <2> QED
    BY <2>1 DEF Before, After, AllPaused, QuitInv
<1>3. ASSUME Environment PROVE QuitInv'
  <2>1. CASE Interrupt
    <3>1. /\ interrupts < MaxInterrupts /\ interrupts' = interrupts + 1
          /\ pending' = pending \cup {"INT"}
          /\ UNCHANGED <<spc, quit_wait_flag, process, val>>
          /\ UNCHANGED rpc \/ \E r \in Reactors : At(r, "paused")
      BY <2>1 DEF Interrupt
    <3>2. Before
      BY <1>0, <3>1 DEF QuitInv, After
    <3>3. UNCHANGED rpc
      BY <3>1, <3>2 DEF Before, At, QuitPCs
    <3>4. interrupts = 0 /\ interrupts' # 0
      BY <1>0, <3>1
    <3> QED
      BY <3>1, <3>2, <3>3, <3>4 DEF Before, QuitInv
  <2>2. CASE ~Interrupt
    <3>1. UNCHANGED <<pending, spc, quit_wait_flag, process, rpc, val, interrupts>>
      BY <1>3, <2>2 DEF Environment, Accept, ClientResets, AcceptFails, osVars, signalVars,
         reactorVars, mainVars
    <3> QED
      BY <3>1 DEF Before, After, AllPaused, QuitInv
  <2> QED
    BY <2>1, <2>2
<1>4. ASSUME UNCHANGED vars PROVE QuitInv'
  BY <1>4 DEF vars, signalVars, reactorVars, mainVars, Before, After, AllPaused, QuitInv
<1> QED
  BY <1>1, <1>2, <1>3, <1>4

(* With the two reactors of the program and one SIGINT the process exits      *)
(* only when both reactors have reset their connections and wait in pause(), *)
(* although --quit_wait_flag is no atomic step: a decrement that is lost     *)
(* keeps the process alive, it never ends it early.                          *)
THEOREM ExitsAfterReset ==
    ASSUME Reactors = {0, 1}, MaxInterrupts <= 1
    PROVE  Spec => []ExitAfterReset
<1>1. Init => QuitInv
  BY DEF Init, SignalInit, ReactorInit, QuitInv, Before, QuitPCs
<1>2. IInv /\ QuitInv /\ [Next]_vars => QuitInv'
  BY ReactorStepQuits, OtherStepQuits DEF Next, IInv
<1>3. QuitInv => ExitAfterReset
  BY DEF QuitInv, Before, After, AllPaused, ExitAfterReset
<1> QED
  BY <1>1, <1>2, <1>3, Invariant, PTL DEF Spec

=============================================================================
