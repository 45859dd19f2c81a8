------------------------ MODULE ThreadPool_proofs ------------------------
(* Proofs about the thread pool, for every number of workers, clients and   *)
(* jobs.  The argument is an inductive invariant in four parts: the types,  *)
(* the ownership of the mutex, the account of where every job is, and the   *)
(* absence of lost wake-ups.  The last theorem uses it to show that the     *)
(* pool implements TaskPool.                                                *)
EXTENDS ThreadPool, SequenceTheorems, TLAPS

(* A worker that runs has a task, and so has a client about to push one. *)
JobTyped ==
    /\ \A w \in Workers : wpc[w] = "run" => wjob[w] \in Jobs
    /\ \A c \in Clients : cpc[c] = "push" => cjob[c] \in Jobs

(* The mutex is held by exactly the workers inside the critical section. *)
MutexInv == \A w \in Workers : wpc[w] \in {"test", "pop"} <=> mutex = w

(* No task is in the list twice. *)
QueueDistinct ==
    \A i, k \in 1..Len(tasks) : tasks[i] = tasks[k] => i = k

(* Every job is in one place: with the client that pushes it, in the list,  *)
(* with one worker, or among those that returned.                           *)
OnePlace ==
    /\ QueueDistinct
    /\ \A i \in 1..Len(tasks) : tasks[i] \notin finished
    /\ \A w \in Workers : wpc[w] = "run" =>
         /\ wjob[w] \notin finished
         /\ \A i \in 1..Len(tasks) : tasks[i] # wjob[w]
         /\ \A v \in Workers : wpc[v] = "run" /\ wjob[v] = wjob[w] => v = w
    /\ \A c \in Clients : cpc[c] = "push" =>
         /\ cjob[c] \notin finished
         /\ \A i \in 1..Len(tasks) : tasks[i] # cjob[c]
         /\ \A w \in Workers : wpc[w] = "run" => wjob[w] # cjob[c]
         /\ \A d \in Clients : cpc[d] = "push" /\ cjob[d] = cjob[c] => d = c

TInv == TypeOK /\ JobTyped
IInv == TInv /\ MutexInv /\ OnePlace /\ NoLostWakeup

-----------------------------------------------------------------------------
(* What taking the newest task does to the list. *)
LEMMA TakeLast ==
    ASSUME NEW S, NEW s \in Seq(S), s # <<>>
    PROVE  /\ Len(s) \in Nat /\ Len(s) > 0
           /\ Last(s) = s[Len(s)]
           /\ Last(s) \in S
           /\ Front(s) \in Seq(S)
           /\ Len(Front(s)) = Len(s) - 1
           /\ \A i \in 1..(Len(s) - 1) : Front(s)[i] = s[i]
<1>1. Len(s) \in Nat /\ Len(s) > 0
  OBVIOUS
<1>2. Last(s) = s[Len(s)] /\ Last(s) \in S
  BY <1>1 DEF Last
<1>3. Front(s) = SubSeq(s, 1, Len(s) - 1)
  BY DEF Front
<1>4. \A i \in 1..(Len(s) - 1) : s[i] \in S
  BY <1>1
<1>5. /\ SubSeq(s, 1, Len(s) - 1) \in Seq(S)
      /\ Len(SubSeq(s, 1, Len(s) - 1)) =
           IF 1 <= Len(s) - 1 THEN Len(s) - 1 - 1 + 1 ELSE 0
      /\ \A i \in 1..(Len(s) - 1 - 1 + 1) :
           SubSeq(s, 1, Len(s) - 1)[i] = s[1 + i - 1]
  BY <1>1, <1>4, SubSeqProperties
<1>6. /\ Front(s) \in Seq(S)
      /\ Len(Front(s)) = Len(s) - 1
      /\ \A i \in 1..(Len(s) - 1) : Front(s)[i] = s[i]
  <2>1. /\ Len(s) - 1 - 1 + 1 = Len(s) - 1
        /\ \A i \in 1..(Len(s) - 1) : 1 + i - 1 = i
    BY <1>1
  <2>2. ASSUME NEW n \in Nat, n > 0
        PROVE  (IF 1 <= n - 1 THEN n - 1 - 1 + 1 ELSE 0) = n - 1
    BY <2>2
  <2>3. ASSUME NEW i \in 1..(Len(s) - 1) PROVE Front(s)[i] = s[i]
    BY <1>3, <1>5, <2>1
  <2>4. Len(Front(s)) = Len(s) - 1
    <3>1. (IF 1 <= Len(s) - 1 THEN Len(s) - 1 - 1 + 1 ELSE 0) = Len(s) - 1
      BY <1>1, <2>2, Zenon
    <3> QED
      BY <1>3, <1>5, <3>1, Zenon
  <2> QED
    BY <1>3, <1>5, <2>3, <2>4
<1> QED
  BY <1>1, <1>2, <1>6

(* What pushing a task does to the list. *)
LEMMA PushLast ==
    ASSUME NEW S, NEW s \in Seq(S), NEW e \in S
    PROVE  /\ Append(s, e) \in Seq(S)
           /\ Len(Append(s, e)) = Len(s) + 1
           /\ Append(s, e)[Len(s) + 1] = e
           /\ \A i \in 1..Len(s) : Append(s, e)[i] = s[i]
           /\ Append(s, e) # <<>>
  OBVIOUS

(* A broadcast changes the state of the waiting workers only. *)
LEMMA Broadcast ==
    ASSUME TypeOK
    PROVE  /\ WakeAll(wpc) \in [Workers -> WorkerPCs]
           /\ \A w \in Workers :
                /\ WakeAll(wpc)[w] # "waiting"
                /\ wpc[w] # "waiting" => WakeAll(wpc)[w] = wpc[w]
                /\ wpc[w] = "waiting" => WakeAll(wpc)[w] = "woken"
  BY DEF TypeOK, WakeAll, WorkerPCs

-----------------------------------------------------------------------------
(* The initial state satisfies the invariant. *)
LEMMA InitIInv == Init => IInv
<1> SUFFICES ASSUME Init PROVE IInv
  OBVIOUS
<1>1. TInv
  BY EmptySeq DEF Init, TInv, TypeOK, JobTyped, WorkerPCs, ClientPCs, Faults
<1>2. MutexInv /\ NoLostWakeup
  BY PoolAssumption DEF Init, MutexInv, NoLostWakeup, Waiters
<1>3. 1..Len(tasks) = {}
  BY EmptySeq DEF Init
<1>4. OnePlace
  BY <1>3 DEF Init, OnePlace, QueueDistinct
<1> QED
  BY <1>1, <1>2, <1>4 DEF IInv

(* Every step keeps the types. *)
LEMMA StepTInv == TInv /\ [Next]_vars => TInv'
<1> SUFFICES ASSUME TInv, [Next]_vars
           PROVE  TInv'
  OBVIOUS
<1>1. ASSUME NEW w \in Workers, Check(w)
      PROVE  TInv'
  BY <1>1, TakeLast, PushLast, Broadcast
  DEF Check, TInv, TypeOK, JobTyped, WorkerPCs, ClientPCs, Faults,
      workers, callers, flags, outcome
<1>2. ASSUME NEW w \in Workers, Block(w)
      PROVE  TInv'
  BY <1>2, TakeLast, PushLast, Broadcast
  DEF Block, TInv, TypeOK, JobTyped, WorkerPCs, ClientPCs, Faults,
      workers, callers, flags, outcome
<1>3. ASSUME NEW w \in Workers, Enter(w)
      PROVE  TInv'
  BY <1>3, TakeLast, PushLast, Broadcast
  DEF Enter, TInv, TypeOK, JobTyped, WorkerPCs, ClientPCs, Faults,
      workers, callers, flags, outcome
<1>4. ASSUME NEW w \in Workers, SpuriousWake(w)
      PROVE  TInv'
  BY <1>4, TakeLast, PushLast, Broadcast
  DEF SpuriousWake, TInv, TypeOK, JobTyped, WorkerPCs, ClientPCs, Faults,
      workers, callers, flags, outcome
<1>5. ASSUME NEW w \in Workers, Test(w)
      PROVE  TInv'
  BY <1>5, SMTT(60)
  DEF Test, TInv, TypeOK, JobTyped, WorkerPCs, ClientPCs, Faults,
      workers, callers, flags, outcome
<1>6. ASSUME NEW w \in Workers, Leave(w)
      PROVE  TInv'
  BY <1>6, TakeLast, PushLast, Broadcast
  DEF Leave, TInv, TypeOK, JobTyped, WorkerPCs, ClientPCs, Faults,
      workers, callers, flags, outcome
<1>7. ASSUME NEW w \in Workers, Pop(w)
      PROVE  TInv'
  BY <1>7, TakeLast, PushLast, Broadcast
  DEF Pop, NextTask, TInv, TypeOK, JobTyped, WorkerPCs, ClientPCs, Faults,
      workers, callers, flags, outcome
<1>8. ASSUME NEW w \in Workers, EmptyPop(w)
      PROVE  TInv'
  BY <1>8, TakeLast, PushLast, Broadcast
  DEF EmptyPop, TInv, TypeOK, JobTyped, WorkerPCs, ClientPCs, Faults,
      workers, callers, flags, outcome
<1>9. ASSUME NEW w \in Workers, Return(w)
      PROVE  TInv'
  BY <1>9, TakeLast, PushLast, Broadcast
  DEF Return, TInv, TypeOK, JobTyped, WorkerPCs, ClientPCs, Faults,
      workers, callers, flags, outcome
<1>10. ASSUME NEW c \in Clients, EnqueueBegin(c)
      PROVE  TInv'
  BY <1>10, TakeLast, PushLast, Broadcast
  DEF EnqueueBegin, TInv, TypeOK, JobTyped, WorkerPCs, ClientPCs, Faults,
      workers, callers, flags, outcome
<1>11. ASSUME NEW c \in Clients, EnqueuePush(c)
      PROVE  TInv'
  BY <1>11, TakeLast, PushLast, Broadcast
  DEF EnqueuePush, TInv, TypeOK, JobTyped, WorkerPCs, ClientPCs, Faults,
      workers, callers, flags, outcome
<1>12. ASSUME NEW c \in Clients, EnqueueBroadcast(c)
      PROVE  TInv'
  BY <1>12, TakeLast, PushLast, Broadcast
  DEF EnqueueBroadcast, TInv, TypeOK, JobTyped, WorkerPCs, ClientPCs, Faults,
      workers, callers, flags, outcome
<1>13. ASSUME NEW c \in Clients, WaitBegin(c)
      PROVE  TInv'
  BY <1>13, TakeLast, PushLast, Broadcast
  DEF WaitBegin, TInv, TypeOK, JobTyped, WorkerPCs, ClientPCs, Faults,
      workers, callers, flags, outcome
<1>14. ASSUME NEW c \in Clients, WaitPoll(c)
      PROVE  TInv'
  BY <1>14, TakeLast, PushLast, Broadcast
  DEF WaitPoll, TInv, TypeOK, JobTyped, WorkerPCs, ClientPCs, Faults,
      workers, callers, flags, outcome
<1>15. ASSUME NEW c \in Clients, EndCancel(c)
      PROVE  TInv'
  BY <1>15, TakeLast, PushLast, Broadcast
  DEF EndCancel, TInv, TypeOK, JobTyped, WorkerPCs, ClientPCs, Faults,
      workers, callers, flags, outcome
<1>16. ASSUME NEW c \in Clients, EndBroadcast(c)
      PROVE  TInv'
  BY <1>16, TakeLast, PushLast, Broadcast
  DEF EndBroadcast, TInv, TypeOK, JobTyped, WorkerPCs, ClientPCs, Faults,
      workers, callers, flags, outcome
<1>17. ASSUME NEW c \in Clients, EndDestroy(c)
      PROVE  TInv'
  BY <1>17, TakeLast, PushLast, Broadcast
  DEF EndDestroy, TInv, TypeOK, JobTyped, WorkerPCs, ClientPCs, Faults,
      workers, callers, flags, outcome
<1>21. ASSUME NEW c \in Clients, EndDestroyCond(c)
      PROVE  TInv'
  BY <1>21, TakeLast, PushLast, Broadcast
  DEF EndDestroyCond, TInv, TypeOK, JobTyped, WorkerPCs, ClientPCs, Faults,
      workers, callers, flags, outcome
<1>18. ASSUME NEW c \in Clients, ReStart(c)
      PROVE  TInv'
  BY <1>18, TakeLast, PushLast, Broadcast
  DEF ReStart, TInv, TypeOK, JobTyped, WorkerPCs, ClientPCs, Faults,
      workers, callers, flags, outcome
<1>19. ASSUME NEW b, UseDestroyed(b)
      PROVE  TInv'
  BY <1>19, TakeLast, PushLast, Broadcast
  DEF UseDestroyed, TInv, TypeOK, JobTyped, WorkerPCs, ClientPCs, Faults,
      workers, callers, flags, outcome
<1>20. CASE UNCHANGED vars
  BY <1>20, TakeLast, PushLast, Broadcast
  DEF vars, TInv, TypeOK, JobTyped, WorkerPCs, ClientPCs, Faults,
      workers, callers, flags, outcome
<1> QED
  BY <1>1, <1>2, <1>3, <1>4, <1>5, <1>6, <1>7, <1>8, <1>9, <1>10, <1>11,
      <1>12, <1>13, <1>14, <1>15, <1>16, <1>17, <1>18, <1>19, <1>20, <1>21
  DEF Next, Worker, Proceed, Call

(* The mutex is held by one worker at most, the one in the critical section. *)
LEMMA StepMutexInv == TInv /\ MutexInv /\ [Next]_vars => MutexInv'
<1> SUFFICES ASSUME TInv /\ MutexInv, [Next]_vars
           PROVE  MutexInv'
  OBVIOUS
<1>1. ASSUME NEW w \in Workers, Check(w)
      PROVE  MutexInv'
  BY <1>1, PoolAssumption, Broadcast
  DEF Check, MutexInv, MutexFree, TInv, TypeOK, WorkerPCs, workers, callers,
      flags, outcome
<1>2. ASSUME NEW w \in Workers, Block(w)
      PROVE  MutexInv'
  BY <1>2, PoolAssumption, Broadcast
  DEF Block, MutexInv, MutexFree, TInv, TypeOK, WorkerPCs, workers, callers,
      flags, outcome
<1>3. ASSUME NEW w \in Workers, Enter(w)
      PROVE  MutexInv'
  BY <1>3, PoolAssumption, Broadcast
  DEF Enter, MutexInv, MutexFree, TInv, TypeOK, WorkerPCs, workers, callers,
      flags, outcome
<1>4. ASSUME NEW w \in Workers, SpuriousWake(w)
      PROVE  MutexInv'
  BY <1>4, PoolAssumption, Broadcast
  DEF SpuriousWake, MutexInv, MutexFree, TInv, TypeOK, WorkerPCs, workers,
      callers, flags, outcome
<1>5. ASSUME NEW w \in Workers, Test(w)
      PROVE  MutexInv'
  BY <1>5, PoolAssumption, Broadcast
  DEF Test, MutexInv, MutexFree, TInv, TypeOK, WorkerPCs, workers, callers,
      flags, outcome
<1>6. ASSUME NEW w \in Workers, Leave(w)
      PROVE  MutexInv'
  BY <1>6, PoolAssumption, Broadcast
  DEF Leave, MutexInv, MutexFree, TInv, TypeOK, WorkerPCs, workers, callers,
      flags, outcome
<1>7. ASSUME NEW w \in Workers, Pop(w)
      PROVE  MutexInv'
  BY <1>7, PoolAssumption, Broadcast
  DEF Pop, MutexInv, MutexFree, TInv, TypeOK, WorkerPCs, workers, callers,
      flags, outcome
<1>8. ASSUME NEW w \in Workers, EmptyPop(w)
      PROVE  MutexInv'
  BY <1>8, PoolAssumption, Broadcast
  DEF EmptyPop, MutexInv, MutexFree, TInv, TypeOK, WorkerPCs, workers,
      callers, flags, outcome
<1>9. ASSUME NEW w \in Workers, Return(w)
      PROVE  MutexInv'
  BY <1>9, PoolAssumption, Broadcast
  DEF Return, MutexInv, MutexFree, TInv, TypeOK, WorkerPCs, workers,
      callers, flags, outcome
<1>10. ASSUME NEW c \in Clients, EnqueueBegin(c)
      PROVE  MutexInv'
  BY <1>10, PoolAssumption, Broadcast
  DEF EnqueueBegin, MutexInv, MutexFree, TInv, TypeOK, WorkerPCs, workers,
      callers, flags, outcome
<1>11. ASSUME NEW c \in Clients, EnqueuePush(c)
      PROVE  MutexInv'
  BY <1>11, PoolAssumption, Broadcast
  DEF EnqueuePush, MutexInv, MutexFree, TInv, TypeOK, WorkerPCs, workers,
      callers, flags, outcome
<1>12. ASSUME NEW c \in Clients, EnqueueBroadcast(c)
      PROVE  MutexInv'
  BY <1>12, PoolAssumption, Broadcast
  DEF EnqueueBroadcast, MutexInv, MutexFree, TInv, TypeOK, WorkerPCs,
      workers, callers, flags, outcome
<1>13. ASSUME NEW c \in Clients, WaitBegin(c)
      PROVE  MutexInv'
  BY <1>13, PoolAssumption, Broadcast
  DEF WaitBegin, MutexInv, MutexFree, TInv, TypeOK, WorkerPCs, workers,
      callers, flags, outcome
<1>14. ASSUME NEW c \in Clients, WaitPoll(c)
      PROVE  MutexInv'
  BY <1>14, PoolAssumption, Broadcast
  DEF WaitPoll, MutexInv, MutexFree, TInv, TypeOK, WorkerPCs, workers,
      callers, flags, outcome
<1>15. ASSUME NEW c \in Clients, EndCancel(c)
      PROVE  MutexInv'
  BY <1>15, PoolAssumption, Broadcast
  DEF EndCancel, MutexInv, MutexFree, TInv, TypeOK, WorkerPCs, workers,
      callers, flags, outcome
<1>16. ASSUME NEW c \in Clients, EndBroadcast(c)
      PROVE  MutexInv'
  BY <1>16, PoolAssumption, Broadcast
  DEF EndBroadcast, MutexInv, MutexFree, TInv, TypeOK, WorkerPCs, workers,
      callers, flags, outcome
<1>17. ASSUME NEW c \in Clients, EndDestroy(c)
      PROVE  MutexInv'
  BY <1>17, PoolAssumption, Broadcast
  DEF EndDestroy, MutexInv, MutexFree, TInv, TypeOK, WorkerPCs, workers,
      callers, flags, outcome
<1>21. ASSUME NEW c \in Clients, EndDestroyCond(c)
      PROVE  MutexInv'
  BY <1>21, PoolAssumption, Broadcast
  DEF EndDestroyCond, MutexInv, MutexFree, TInv, TypeOK, WorkerPCs, workers,
      callers, flags, outcome
<1>18. ASSUME NEW c \in Clients, ReStart(c)
      PROVE  MutexInv'
  BY <1>18, PoolAssumption, Broadcast
  DEF ReStart, MutexInv, MutexFree, TInv, TypeOK, WorkerPCs, workers,
      callers, flags, outcome
<1>19. ASSUME NEW b, UseDestroyed(b)
      PROVE  MutexInv'
  BY <1>19, PoolAssumption, Broadcast
  DEF UseDestroyed, MutexInv, MutexFree, TInv, TypeOK, WorkerPCs, workers,
      callers, flags, outcome
<1>20. CASE UNCHANGED vars
  BY <1>20, PoolAssumption, Broadcast
  DEF vars, MutexInv, MutexFree, TInv, TypeOK, WorkerPCs, workers, callers,
      flags, outcome
<1> QED
  BY <1>1, <1>2, <1>3, <1>4, <1>5, <1>6, <1>7, <1>8, <1>9, <1>10, <1>11,
      <1>12, <1>13, <1>14, <1>15, <1>16, <1>17, <1>18, <1>19, <1>20, <1>21
  DEF Next, Worker, Proceed, Call

(* Every push is followed by a broadcast, and a worker waits only on an empty list. *)
LEMMA StepNoLostWakeup == TInv /\ MutexInv /\ NoLostWakeup /\ [Next]_vars => NoLostWakeup'
<1> SUFFICES ASSUME TInv /\ MutexInv /\ NoLostWakeup, [Next]_vars
           PROVE  NoLostWakeup'
  OBVIOUS
<1>1. ASSUME NEW w \in Workers, Check(w)
      PROVE  NoLostWakeup'
  BY <1>1, Broadcast, TakeLast
  DEF Check, NoLostWakeup, Waiters, TInv, TypeOK, workers, callers, flags,
      outcome
<1>2. ASSUME NEW w \in Workers, Block(w)
      PROVE  NoLostWakeup'
  BY <1>2, Broadcast, TakeLast
  DEF Block, NoLostWakeup, Waiters, TInv, TypeOK, workers, callers, flags,
      outcome
<1>3. ASSUME NEW w \in Workers, Enter(w)
      PROVE  NoLostWakeup'
  BY <1>3, Broadcast, TakeLast
  DEF Enter, NoLostWakeup, Waiters, TInv, TypeOK, workers, callers, flags,
      outcome
<1>4. ASSUME NEW w \in Workers, SpuriousWake(w)
      PROVE  NoLostWakeup'
  BY <1>4, Broadcast, TakeLast
  DEF SpuriousWake, NoLostWakeup, Waiters, TInv, TypeOK, workers, callers,
      flags, outcome
<1>5. ASSUME NEW w \in Workers, Test(w)
      PROVE  NoLostWakeup'
  BY <1>5, Broadcast, TakeLast
  DEF Test, NoLostWakeup, Waiters, TInv, TypeOK, workers, callers, flags,
      outcome
<1>6. ASSUME NEW w \in Workers, Leave(w)
      PROVE  NoLostWakeup'
  BY <1>6, Broadcast, TakeLast
  DEF Leave, NoLostWakeup, Waiters, TInv, TypeOK, workers, callers, flags,
      outcome
<1>7. ASSUME NEW w \in Workers, Pop(w)
      PROVE  NoLostWakeup'
  BY <1>7, Broadcast, TakeLast
  DEF Pop, NoLostWakeup, Waiters, TInv, TypeOK, workers, callers, flags,
      outcome
<1>8. ASSUME NEW w \in Workers, EmptyPop(w)
      PROVE  NoLostWakeup'
  BY <1>8, Broadcast, TakeLast
  DEF EmptyPop, NoLostWakeup, Waiters, TInv, TypeOK, workers, callers,
      flags, outcome
<1>9. ASSUME NEW w \in Workers, Return(w)
      PROVE  NoLostWakeup'
  BY <1>9, Broadcast, TakeLast
  DEF Return, NoLostWakeup, Waiters, TInv, TypeOK, workers, callers, flags,
      outcome
<1>10. ASSUME NEW c \in Clients, EnqueueBegin(c)
      PROVE  NoLostWakeup'
  BY <1>10, Broadcast, TakeLast
  DEF EnqueueBegin, NoLostWakeup, Waiters, TInv, TypeOK, workers, callers,
      flags, outcome
<1>11. ASSUME NEW c \in Clients, EnqueuePush(c)
      PROVE  NoLostWakeup'
  BY <1>11, Broadcast, TakeLast
  DEF EnqueuePush, NoLostWakeup, Waiters, TInv, TypeOK, workers, callers,
      flags, outcome
<1>12. ASSUME NEW c \in Clients, EnqueueBroadcast(c)
      PROVE  NoLostWakeup'
  BY <1>12, Broadcast, TakeLast
  DEF EnqueueBroadcast, NoLostWakeup, Waiters, TInv, TypeOK, workers,
      callers, flags, outcome
<1>13. ASSUME NEW c \in Clients, WaitBegin(c)
      PROVE  NoLostWakeup'
  BY <1>13, Broadcast, TakeLast
  DEF WaitBegin, NoLostWakeup, Waiters, TInv, TypeOK, workers, callers,
      flags, outcome
<1>14. ASSUME NEW c \in Clients, WaitPoll(c)
      PROVE  NoLostWakeup'
  BY <1>14, Broadcast, TakeLast
  DEF WaitPoll, NoLostWakeup, Waiters, TInv, TypeOK, workers, callers,
      flags, outcome
<1>15. ASSUME NEW c \in Clients, EndCancel(c)
      PROVE  NoLostWakeup'
  BY <1>15, Broadcast, TakeLast
  DEF EndCancel, NoLostWakeup, Waiters, TInv, TypeOK, workers, callers,
      flags, outcome
<1>16. ASSUME NEW c \in Clients, EndBroadcast(c)
      PROVE  NoLostWakeup'
  BY <1>16, Broadcast, TakeLast
  DEF EndBroadcast, NoLostWakeup, Waiters, TInv, TypeOK, workers, callers,
      flags, outcome
<1>17. ASSUME NEW c \in Clients, EndDestroy(c)
      PROVE  NoLostWakeup'
  BY <1>17, Broadcast, TakeLast
  DEF EndDestroy, NoLostWakeup, Waiters, TInv, TypeOK, workers, callers,
      flags, outcome
<1>21. ASSUME NEW c \in Clients, EndDestroyCond(c)
      PROVE  NoLostWakeup'
  BY <1>21, Broadcast, TakeLast
  DEF EndDestroyCond, NoLostWakeup, Waiters, TInv, TypeOK, workers, callers,
      flags, outcome
<1>18. ASSUME NEW c \in Clients, ReStart(c)
      PROVE  NoLostWakeup'
  BY <1>18, Broadcast, TakeLast
  DEF ReStart, NoLostWakeup, Waiters, TInv, TypeOK, workers, callers, flags,
      outcome
<1>19. ASSUME NEW b, UseDestroyed(b)
      PROVE  NoLostWakeup'
  BY <1>19, Broadcast, TakeLast
  DEF UseDestroyed, NoLostWakeup, Waiters, TInv, TypeOK, workers, callers,
      flags, outcome
<1>20. CASE UNCHANGED vars
  BY <1>20, Broadcast, TakeLast
  DEF vars, NoLostWakeup, Waiters, TInv, TypeOK, workers, callers, flags,
      outcome
<1> QED
  BY <1>1, <1>2, <1>3, <1>4, <1>5, <1>6, <1>7, <1>8, <1>9, <1>10, <1>11,
      <1>12, <1>13, <1>14, <1>15, <1>16, <1>17, <1>18, <1>19, <1>20, <1>21
  DEF Next, Worker, Proceed, Call

(* A job moves from place to place and is never copied. *)
LEMMA StepOnePlace == TInv /\ OnePlace /\ [Next]_vars => OnePlace'
<1> SUFFICES ASSUME TInv /\ OnePlace, [Next]_vars
           PROVE  OnePlace'
  OBVIOUS
<1>1. ASSUME NEW w \in Workers, Check(w)
      PROVE  OnePlace'
  BY <1>1, Broadcast
  DEF Check, OnePlace, QueueDistinct, TInv, TypeOK, JobTyped, workers,
      callers, flags, outcome
<1>2. ASSUME NEW w \in Workers, Block(w)
      PROVE  OnePlace'
  BY <1>2, Broadcast
  DEF Block, OnePlace, QueueDistinct, TInv, TypeOK, JobTyped, workers,
      callers, flags, outcome
<1>3. ASSUME NEW w \in Workers, Enter(w)
      PROVE  OnePlace'
  BY <1>3, Broadcast
  DEF Enter, OnePlace, QueueDistinct, TInv, TypeOK, JobTyped, workers,
      callers, flags, outcome
<1>4. ASSUME NEW w \in Workers, SpuriousWake(w)
      PROVE  OnePlace'
  BY <1>4, Broadcast
  DEF SpuriousWake, OnePlace, QueueDistinct, TInv, TypeOK, JobTyped,
      workers, callers, flags, outcome
<1>5. ASSUME NEW w \in Workers, Test(w)
      PROVE  OnePlace'
  BY <1>5, Broadcast
  DEF Test, OnePlace, QueueDistinct, TInv, TypeOK, JobTyped, workers,
      callers, flags, outcome
<1>6. ASSUME NEW w \in Workers, Leave(w)
      PROVE  OnePlace'
  BY <1>6, Broadcast
  DEF Leave, OnePlace, QueueDistinct, TInv, TypeOK, JobTyped, workers,
      callers, flags, outcome
<1>7. ASSUME NEW w \in Workers, Pop(w)
      PROVE  OnePlace'
  <2>1. /\ Len(tasks) \in Nat /\ Len(tasks) > 0
        /\ NextTask = tasks[Len(tasks)]
        /\ Len(Front(tasks)) = Len(tasks) - 1
        /\ \A i \in 1..(Len(tasks) - 1) : Front(tasks)[i] = tasks[i]
    BY <1>7, TakeLast DEF Pop, NextTask, TInv, TypeOK
  <2>2. /\ 1..Len(tasks') \subseteq 1..Len(tasks)
        /\ \A i \in 1..Len(tasks') : i # Len(tasks)
        /\ \A i \in 1..Len(tasks') : tasks'[i] = tasks[i]
        /\ Len(tasks) \in 1..Len(tasks)
    BY <1>7, <2>1 DEF Pop
  <2>3. /\ wjob' = [wjob EXCEPT ![w] = tasks[Len(tasks)]]
        /\ wpc' = [wpc EXCEPT ![w] = "run"]
        /\ UNCHANGED <<cpc, cjob, finished>>
    BY <1>7, <2>1 DEF Pop, callers, outcome
  <2>4. QueueDistinct'
    BY <2>2 DEF OnePlace, QueueDistinct
  <2>5. \A i \in 1..Len(tasks') : tasks'[i] # tasks[Len(tasks)]
    BY <2>2 DEF OnePlace, QueueDistinct
  <2>6. \A v \in Workers : wpc[v] = "run" => wjob[v] # tasks[Len(tasks)]
    BY <2>2 DEF OnePlace
  <2> QED
    BY <2>2, <2>3, <2>4, <2>5, <2>6 DEF OnePlace, TInv, TypeOK
<1>8. ASSUME NEW w \in Workers, EmptyPop(w)
      PROVE  OnePlace'
  BY <1>8, Broadcast
  DEF EmptyPop, OnePlace, QueueDistinct, TInv, TypeOK, JobTyped, workers,
      callers, flags, outcome
<1>9. ASSUME NEW w \in Workers, Return(w)
      PROVE  OnePlace'
  BY <1>9, Broadcast
  DEF Return, OnePlace, QueueDistinct, TInv, TypeOK, JobTyped, workers,
      callers, flags, outcome
<1>10. ASSUME NEW c \in Clients, EnqueueBegin(c)
      PROVE  OnePlace'
  <2>1. PICK j \in Jobs : Fresh(j) /\ cjob' = [cjob EXCEPT ![c] = j]
    BY <1>10 DEF EnqueueBegin
  <2>2. /\ j \notin finished
        /\ \A i \in 1..Len(tasks) : tasks[i] # j
        /\ \A w \in Workers : wpc[w] = "run" => wjob[w] # j
        /\ \A d \in Clients : cpc[d] = "push" => cjob[d] # j
    BY <2>1 DEF Fresh, Queued, Running, Pending
  <2> QED
    BY <1>10, <2>1, <2>2
    DEF EnqueueBegin, OnePlace, QueueDistinct, TInv, TypeOK, workers, outcome
<1>11. ASSUME NEW c \in Clients, EnqueuePush(c)
      PROVE  OnePlace'
  BY <1>11, Broadcast
  DEF EnqueuePush, OnePlace, QueueDistinct, TInv, TypeOK, JobTyped, workers,
      callers, flags, outcome
<1>12. ASSUME NEW c \in Clients, EnqueueBroadcast(c)
      PROVE  OnePlace'
  BY <1>12, Broadcast
  DEF EnqueueBroadcast, OnePlace, QueueDistinct, TInv, TypeOK, JobTyped,
      workers, callers, flags, outcome
<1>13. ASSUME NEW c \in Clients, WaitBegin(c)
      PROVE  OnePlace'
  BY <1>13, Broadcast
  DEF WaitBegin, OnePlace, QueueDistinct, TInv, TypeOK, JobTyped, workers,
      callers, flags, outcome
<1>14. ASSUME NEW c \in Clients, WaitPoll(c)
      PROVE  OnePlace'
  BY <1>14, Broadcast
  DEF WaitPoll, OnePlace, QueueDistinct, TInv, TypeOK, JobTyped, workers,
      callers, flags, outcome
<1>15. ASSUME NEW c \in Clients, EndCancel(c)
      PROVE  OnePlace'
  BY <1>15, Broadcast
  DEF EndCancel, OnePlace, QueueDistinct, TInv, TypeOK, JobTyped, workers,
      callers, flags, outcome
<1>16. ASSUME NEW c \in Clients, EndBroadcast(c)
      PROVE  OnePlace'
  BY <1>16, Broadcast
  DEF EndBroadcast, OnePlace, QueueDistinct, TInv, TypeOK, JobTyped,
      workers, callers, flags, outcome
<1>17. ASSUME NEW c \in Clients, EndDestroy(c)
      PROVE  OnePlace'
  BY <1>17, Broadcast
  DEF EndDestroy, OnePlace, QueueDistinct, TInv, TypeOK, JobTyped, workers,
      callers, flags, outcome
<1>21. ASSUME NEW c \in Clients, EndDestroyCond(c)
      PROVE  OnePlace'
  BY <1>21, Broadcast
  DEF EndDestroyCond, OnePlace, QueueDistinct, TInv, TypeOK, JobTyped, workers,
      callers, flags, outcome
<1>18. ASSUME NEW c \in Clients, ReStart(c)
      PROVE  OnePlace'
  BY <1>18, Broadcast
  DEF ReStart, OnePlace, QueueDistinct, TInv, TypeOK, JobTyped, workers,
      callers, flags, outcome
<1>19. ASSUME NEW b, UseDestroyed(b)
      PROVE  OnePlace'
  BY <1>19, Broadcast
  DEF UseDestroyed, OnePlace, QueueDistinct, TInv, TypeOK, JobTyped,
      workers, callers, flags, outcome
<1>20. CASE UNCHANGED vars
  BY <1>20, Broadcast
  DEF vars, OnePlace, QueueDistinct, TInv, TypeOK, JobTyped, workers,
      callers, flags, outcome
<1> QED
  BY <1>1, <1>2, <1>3, <1>4, <1>5, <1>6, <1>7, <1>8, <1>9, <1>10, <1>11,
      <1>12, <1>13, <1>14, <1>15, <1>16, <1>17, <1>18, <1>19, <1>20, <1>21
  DEF Next, Worker, Proceed, Call

(* The invariant is inductive. *)
LEMMA StepIInv == IInv /\ [Next]_vars => IInv'
  BY StepTInv, StepMutexInv, StepNoLostWakeup, StepOnePlace DEF IInv

THEOREM Inductive == Spec => []IInv
<1>1. Init => IInv
  BY InitIInv
<1>2. IInv /\ [Next]_vars => IInv'
  BY StepIInv
<1> QED
  BY <1>1, <1>2, PTL DEF Spec

(* Every variable of the pool keeps its type. *)
THEOREM TypeCorrect == Spec => []TypeOK
<1>1. IInv => TypeOK
  BY DEF IInv, TInv
<1> QED
  BY <1>1, Inductive, PTL

(* At most one worker is between pthread_mutex_lock and the unlock. *)
THEOREM MutualExclusion ==
    Spec => [](\A v, w \in Workers :
                 wpc[v] \in {"test", "pop"} /\ wpc[w] \in {"test", "pop"} => v = w)
<1>1. IInv => \A v, w \in Workers :
                wpc[v] \in {"test", "pop"} /\ wpc[w] \in {"test", "pop"} => v = w
  BY DEF IInv, MutexInv
<1> QED
  BY <1>1, Inductive, PTL

(* A worker never sleeps beside a task whose enqueue() is over. *)
THEOREM WakeupsAreNotLost == Spec => []NoLostWakeup
<1>1. IInv => NoLostWakeup
  BY DEF IInv
<1> QED
  BY <1>1, Inductive, PTL

-----------------------------------------------------------------------------
(* The implementation of TaskPool. *)

LEMMA InitAbstract == Init => Abstract!Init
<1> SUFFICES ASSUME Init PROVE Abstract!Init
  OBVIOUS
<1>1. Queued = {} /\ Running = {} /\ jobRuns = {}
  BY EmptySeq DEF Init, Queued, Running, jobRuns
<1>2. jobPhase = [j \in Jobs |-> "new"]
  BY <1>1 DEF Init, jobPhase
<1> QED
  BY <1>1, <1>2 DEF Abstract!Init

(* A step that leaves the list, the set of returned tasks and the workers   *)
(* that run where they are is a stutter of TaskPool.                        *)
LEMMA SameView ==
    ASSUME UNCHANGED <<tasks, finished, wjob>>,
           \A w \in Workers : wpc'[w] = "run" <=> wpc[w] = "run"
    PROVE  UNCHANGED Abstract!vars
<1>1. {v \in Workers : wpc'[v] = "run"} = {v \in Workers : wpc[v] = "run"}
  OBVIOUS
<1>2. Queued' = Queued /\ Running' = Running /\ jobRuns' = jobRuns
  BY <1>1 DEF Queued, Running, jobRuns
<1>3. jobPhase' = jobPhase
  BY <1>2 DEF jobPhase
<1> QED
  BY <1>2, <1>3 DEF Abstract!vars

(* EnqueuePush is Accept: the task enters the list, and was nowhere before. *)
LEMMA PushIsAccept ==
    ASSUME IInv, NEW c \in Clients, EnqueuePush(c)
    PROVE  Abstract!Accept(cjob[c])
<1> DEFINE e == cjob[c]
<1>1. /\ e \in Jobs /\ e \notin finished /\ e \notin Queued /\ e \notin Running
  BY DEF IInv, TInv, JobTyped, OnePlace, EnqueuePush, Queued, Running
<1>2. Running' = Running /\ jobRuns' = jobRuns
  BY DEF EnqueuePush, Running, jobRuns, workers
<1>3. Queued' = Queued \cup {e}
  <2>1. tasks \in Seq(Jobs) /\ tasks' = Append(tasks, e)
    BY DEF IInv, TInv, TypeOK, EnqueuePush
  <2>2. /\ Len(tasks) \in Nat /\ Len(tasks') = Len(tasks) + 1
        /\ tasks'[Len(tasks) + 1] = e
        /\ \A i \in 1..Len(tasks) : tasks'[i] = tasks[i]
    BY <1>1, <2>1, PushLast
  <2>3. 1..Len(tasks') = (1..Len(tasks)) \cup {Len(tasks) + 1}
    BY <2>2
  <2> HIDE DEF e
  <2> QED
    BY <2>2, <2>3 DEF Queued
<1>4. jobPhase[e] = "new"
  BY <1>1 DEF jobPhase
<1>5. jobPhase' = [jobPhase EXCEPT ![e] = "queued"]
  <2>1. finished' = finished
    BY DEF EnqueuePush, outcome
  <2> HIDE DEF e
  <2> QED
    BY <1>1, <1>2, <1>3, <2>1 DEF jobPhase
<1> QED
  BY <1>2, <1>4, <1>5 DEF Abstract!Accept

(* Pop is Start: the newest task leaves the list for the worker. *)
LEMMA PopIsStart ==
    ASSUME IInv, NEW w \in Workers, Pop(w)
    PROVE  NextTask \in Jobs /\ Abstract!Start(w, NextTask)
<1> DEFINE e == tasks[Len(tasks)]
<1>1. /\ Len(tasks) \in Nat /\ Len(tasks) > 0
      /\ NextTask = e /\ e \in Jobs
      /\ Len(Front(tasks)) = Len(tasks) - 1
      /\ \A i \in 1..(Len(tasks) - 1) : Front(tasks)[i] = tasks[i]
  BY TakeLast DEF Pop, NextTask, IInv, TInv, TypeOK
<1>2. /\ Len(tasks') = Len(tasks) - 1
      /\ \A i \in 1..Len(tasks') : tasks'[i] = tasks[i]
      /\ 1..Len(tasks) = (1..Len(tasks')) \cup {Len(tasks)}
      /\ Len(tasks) \notin 1..Len(tasks')
      /\ finished' = finished
  BY <1>1 DEF Pop, outcome
<1>3. Queued = Queued' \cup {e} /\ e \notin Queued'
  BY <1>2 DEF Queued, IInv, OnePlace, QueueDistinct
<1>4. /\ wpc' = [wpc EXCEPT ![w] = "run"]
      /\ wjob' = [wjob EXCEPT ![w] = e]
      /\ wpc[w] # "run"
  BY <1>1 DEF Pop
<1>5. /\ {v \in Workers : wpc'[v] = "run"} = {v \in Workers : wpc[v] = "run"} \cup {w}
      /\ \A v \in Workers : wpc[v] = "run" => wjob'[v] = wjob[v]
      /\ wjob'[w] = e
  BY <1>4 DEF IInv, TInv, TypeOK
<1> HIDE DEF e
<1>6. Running' = Running \cup {e} /\ jobRuns' = jobRuns \cup {<<w, e>>}
  BY <1>5 DEF Running, jobRuns
<1>7. e \notin finished /\ e \notin Running /\ e \in Queued
  <2>1. Len(tasks) \in 1..Len(tasks)
    BY <1>1
  <2> QED
    BY <1>3, <2>1 DEF IInv, OnePlace, Running, e
<1>8. jobPhase[e] = "queued" /\ jobPhase' = [jobPhase EXCEPT ![e] = "running"]
  BY <1>1, <1>2, <1>3, <1>6, <1>7 DEF jobPhase
<1>9. \A i \in Jobs : <<w, i>> \notin jobRuns
  BY <1>4 DEF jobRuns
<1> QED
  BY <1>1, <1>6, <1>8, <1>9 DEF Abstract!Start

(* Return is Finish: the worker's task is done. *)
LEMMA ReturnIsFinish ==
    ASSUME IInv, NEW w \in Workers, Return(w)
    PROVE  wjob[w] \in Jobs /\ Abstract!Finish(w, wjob[w])
<1> DEFINE e == wjob[w]
<1>1. e \in Jobs /\ wpc[w] = "run" /\ e \in Running /\ <<w, e>> \in jobRuns
  BY DEF Return, IInv, TInv, JobTyped, Running, jobRuns
<1>2. /\ {v \in Workers : wpc'[v] = "run"} = {v \in Workers : wpc[v] = "run"} \ {w}
      /\ \A v \in Workers \ {w} : wjob'[v] = wjob[v]
      /\ Queued' = Queued /\ finished' = finished \cup {e}
  BY DEF Return, IInv, TInv, TypeOK, Queued
<1>3. \A v \in Workers : wpc[v] = "run" /\ wjob[v] = e => v = w
  BY <1>1 DEF IInv, OnePlace
<1> HIDE DEF e
<1>4. Running' = Running \ {e} /\ jobRuns' = jobRuns \ {<<w, e>>}
  BY <1>1, <1>2, <1>3 DEF Running, jobRuns, e
<1>5. jobPhase' = [jobPhase EXCEPT ![e] = "done"]
  BY <1>1, <1>2, <1>4 DEF jobPhase
<1> QED
  BY <1>1, <1>4, <1>5 DEF Abstract!Finish, e

(* The pool implements TaskPool, whatever the sets of workers, clients and *)
(* jobs: no interleaving runs an accepted task twice, or one that was not  *)
(* accepted, or two at once on a worker.                                   *)
THEOREM PoolImplementsTaskPool == Spec => ImplementsTaskPool
<1>1. Init => Abstract!Init
  BY InitAbstract
<1>2. IInv /\ [Next]_vars => [Abstract!Next]_(Abstract!vars)
  <2> SUFFICES ASSUME IInv, [Next]_vars
               PROVE  Abstract!Next \/ UNCHANGED Abstract!vars
    OBVIOUS
  <2>1. ASSUME NEW c \in Clients, EnqueuePush(c) PROVE Abstract!Next
    <3>1. cjob[c] \in Jobs
      BY <2>1 DEF IInv, TInv, JobTyped, EnqueuePush
    <3> QED
      BY <2>1, <3>1, PushIsAccept DEF Abstract!Next
  <2>2. ASSUME NEW w \in Workers, Pop(w) PROVE Abstract!Next
    BY <2>2, PopIsStart DEF Abstract!Next
  <2>3. ASSUME NEW w \in Workers, Return(w) PROVE Abstract!Next
    BY <2>3, ReturnIsFinish DEF Abstract!Next
  <2>4. ASSUME NEW w \in Workers,
               \/ Check(w) \/ Block(w) \/ Enter(w) \/ SpuriousWake(w) \/ Test(w)
               \/ EmptyPop(w)
        PROVE  UNCHANGED Abstract!vars
    BY <2>4, SameView
    DEF Check, Block, Enter, SpuriousWake, Test, EmptyPop, IInv, TInv, TypeOK,
        workers, outcome
  <2>5. ASSUME NEW w \in Workers, Leave(w) PROVE UNCHANGED Abstract!vars
    BY <2>5, SameView, Broadcast DEF Leave, IInv, TInv, TypeOK, outcome
  <2>6. ASSUME NEW c \in Clients, EnqueueBroadcast(c) \/ EndBroadcast(c)
        PROVE  UNCHANGED Abstract!vars
    BY <2>6, SameView, Broadcast
    DEF EnqueueBroadcast, EndBroadcast, IInv, TInv, TypeOK, outcome
  <2>7. ASSUME NEW c \in Clients,
               \/ EnqueueBegin(c) \/ WaitBegin(c) \/ WaitPoll(c) \/ EndCancel(c)
               \/ EndDestroy(c) \/ EndDestroyCond(c) \/ ReStart(c)
        PROVE  UNCHANGED Abstract!vars
    BY <2>7, SameView
    DEF EnqueueBegin, WaitBegin, WaitPoll, EndCancel, EndDestroy,
        EndDestroyCond, ReStart,
        workers, outcome
  <2>8. ASSUME NEW b, UseDestroyed(b) PROVE UNCHANGED Abstract!vars
    BY <2>8, SameView DEF UseDestroyed, workers
  <2>9. CASE UNCHANGED vars
    BY <2>9, SameView DEF vars, workers, outcome
  <2> QED
    BY <2>1, <2>2, <2>3, <2>4, <2>5, <2>6, <2>7, <2>8, <2>9
    DEF Next, Worker, Proceed, Call
<1> QED
  BY <1>1, <1>2, Inductive, PTL DEF Spec, ImplementsTaskPool, Abstract!Spec
=============================================================================
