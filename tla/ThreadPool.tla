--------------------------- MODULE ThreadPool ---------------------------
(* The thread pool of src/pthread_poolv1.{h,cpp}: a LIFO list of tasks, one *)
(* mutex, one condition variable, and two flags that are read and written   *)
(* without the mutex.                                                       *)
(*                                                                          *)
(* A worker is a thread in runThread(); a client is a thread that calls     *)
(* enqueue(), waitPool(), reStart() or endPool().  A client's critical      *)
(* section (lock; one list operation; unlock) is one step: nothing of it is *)
(* visible before the unlock.  A worker's is not, because it reads the flag *)
(* isCancelled, which the mutex does not protect, while it holds the mutex. *)
EXTENDS Naturals, SequencesExt

CONSTANTS
    Workers,        \* the threads startUp() creates
    Clients,        \* the threads that have a reference to the pool
    Jobs,           \* one per successful enqueue(): bounds how often it is called
    Endless,        \* jobs whose run() does not return (EMTask::run)
    Free,           \* the owner of an unlocked mutex
    NoJob,          \* no task
    Spurious        \* whether pthread_cond_wait may return without a broadcast

ASSUME PoolAssumption ==
    /\ Free \notin Workers
    /\ NoJob \notin Jobs
    /\ Endless \subseteq Jobs
    /\ Spurious \in BOOLEAN

VARIABLES
    tasks,          \* list<ThreadAbstractClass*> tasks
    mutex,          \* the worker that holds mtx, or Free
    wpc,            \* where each worker is in runThread()
    wjob,           \* the task a worker has taken from the list
    cpc,            \* where each client is in the call it makes
    cjob,           \* the argument of a client's enqueue()
    isWaited,
    isCancelled,
    destroyed,      \* endPool() has destroyed mtx and cond
    finished,       \* jobs whose run() returned
    fault           \* the first undefined operation the process executed

workers == <<wpc, wjob>>
callers == <<cpc, cjob>>
flags == <<isWaited, isCancelled, destroyed>>
outcome == <<finished, fault>>
vars == <<tasks, mutex, workers, callers, flags, outcome>>

WorkerPCs == {"check", "lock", "waiting", "woken", "test", "pop", "run",
              "bcast", "done"}
ClientPCs == {"idle", "push", "signal", "poll", "endPoll", "cancel",
              "endBcast", "destroy", "destroyCond", "ended"}
EndPCs == {"endPoll", "cancel", "endBcast", "destroy", "destroyCond", "ended"}
Faults == {"none", "emptyPop", "destroyed"}

Waiters == {w \in Workers : wpc[w] = "waiting"}
Queued == {tasks[i] : i \in 1..Len(tasks)}
Running == {wjob[w] : w \in {v \in Workers : wpc[v] = "run"}}
Pending == {cjob[c] : c \in {d \in Clients : cpc[d] = "push"}}

(* A job no call of enqueue() has been made for yet. *)
Fresh(j) == j \notin Queued \cup Running \cup Pending \cup finished

Init ==
    /\ tasks = <<>>
    /\ mutex = Free
    /\ wpc = [w \in Workers |-> "check"]
    /\ wjob = [w \in Workers |-> NoJob]
    /\ cpc = [c \in Clients |-> "idle"]
    /\ cjob = [c \in Clients |-> NoJob]
    /\ isWaited = FALSE
    /\ isCancelled = FALSE
    /\ destroyed = FALSE
    /\ finished = {}
    /\ fault = "none"

-----------------------------------------------------------------------------
(* The pthread objects. *)

MutexFree == mutex = Free /\ ~destroyed

(* Mutant: the broadcast is missing. *)
Mut_WakeNobody(pc) == pc

(* pthread_cond_broadcast: every waiter has to re-acquire the mutex. *)
WakeAll(pc) == [w \in Workers |-> IF pc[w] = "waiting" THEN "woken" ELSE pc[w]]

(* Locking a destroyed mutex is undefined (glibc returns EINVAL and the     *)
(* caller, which ignores it, runs its critical section without the lock):   *)
(* nothing more is said of the process.                                     *)
UseDestroyed(atLock) ==
    /\ destroyed /\ atLock
    /\ fault' = "destroyed"
    /\ UNCHANGED <<tasks, mutex, workers, callers, flags, finished>>

-----------------------------------------------------------------------------
(* runThread() *)

(* while(!This->isCancelled), read without the mutex *)
Check(w) ==
    /\ wpc[w] = "check"
    /\ wpc' = [wpc EXCEPT ![w] = IF isCancelled THEN "done" ELSE "lock"]
    /\ UNCHANGED <<tasks, mutex, wjob, callers, flags, outcome>>

(* The list is empty: pthread_cond_wait releases the mutex and waits. *)
Block(w) ==
    /\ wpc[w] = "lock" /\ MutexFree
    /\ tasks = <<>>
    /\ wpc' = [wpc EXCEPT ![w] = "waiting"]
    /\ UNCHANGED <<tasks, mutex, wjob, callers, flags, outcome>>

(* Mutant: a worker that is woken looks at the list again, and only at it.   *)
Mut_Enter(w) ==
    /\ MutexFree
    /\ \/ /\ wpc[w] = "lock" /\ tasks # <<>>
          /\ mutex' = w
          /\ wpc' = [wpc EXCEPT ![w] = "test"]
       \/ /\ wpc[w] = "woken"
          /\ wpc' = [wpc EXCEPT ![w] = "lock"]
          /\ UNCHANGED mutex
    /\ UNCHANGED <<tasks, wjob, callers, flags, outcome>>

(* The list is not empty, or pthread_cond_wait returns: the worker goes on  *)
(* with the mutex held, and does not look at the list a second time.        *)
Enter(w) ==
    /\ \/ wpc[w] = "lock" /\ tasks # <<>>
       \/ wpc[w] = "woken"
    /\ MutexFree
    /\ mutex' = w
    /\ wpc' = [wpc EXCEPT ![w] = "test"]
    /\ UNCHANGED <<tasks, wjob, callers, flags, outcome>>

(* POSIX lets pthread_cond_wait return although nobody signalled. *)
SpuriousWake(w) ==
    /\ Spurious
    /\ wpc[w] = "waiting"
    /\ wpc' = [wpc EXCEPT ![w] = "woken"]
    /\ UNCHANGED <<tasks, mutex, wjob, callers, flags, outcome>>

(* if(This->isCancelled==1) { unlock *)
Test(w) ==
    /\ wpc[w] = "test"
    /\ IF isCancelled
         THEN wpc' = [wpc EXCEPT ![w] = "bcast"] /\ mutex' = Free
         ELSE wpc' = [wpc EXCEPT ![w] = "pop"] /\ UNCHANGED mutex
    /\ UNCHANGED <<tasks, wjob, callers, flags, outcome>>

(* ... broadcast; return 0; } *)
Leave(w) ==
    /\ wpc[w] = "bcast"
    /\ wpc' = [WakeAll(wpc) EXCEPT ![w] = "done"]
    /\ UNCHANGED <<tasks, mutex, wjob, callers, flags, outcome>>

(* task=tasks.back(), the newest task.  Mutant: front(), with pop_back() kept. *)
Mut_FrontTask == Head(tasks)
NextTask == Last(tasks)

(* tasks.pop_back(); unlock; task->run() begins *)
Pop(w) ==
    /\ wpc[w] = "pop"
    /\ tasks # <<>>
    /\ wjob' = [wjob EXCEPT ![w] = NextTask]
    /\ tasks' = Front(tasks)
    /\ mutex' = Free
    /\ wpc' = [wpc EXCEPT ![w] = "run"]
    /\ UNCHANGED <<callers, flags, outcome>>

(* back() and pop_back() of an empty list: with libstdc++ the task read is  *)
(* null and the node freed is the list head, so the process aborts.         *)
EmptyPop(w) ==
    /\ wpc[w] = "pop"
    /\ tasks = <<>>
    /\ fault' = "emptyPop"
    /\ UNCHANGED <<tasks, mutex, workers, callers, flags, finished>>

(* task->run() returns *)
Return(w) ==
    /\ wpc[w] = "run"
    /\ wjob[w] \notin Endless
    /\ finished' = finished \cup {wjob[w]}
    /\ wjob' = [wjob EXCEPT ![w] = NoJob]
    /\ wpc' = [wpc EXCEPT ![w] = "check"]
    /\ UNCHANGED <<tasks, mutex, callers, flags, fault>>

Worker(w) ==
    /\ fault = "none"
    /\ \/ Check(w) \/ Block(w) \/ Enter(w) \/ SpuriousWake(w)
       \/ Test(w) \/ Leave(w) \/ Pop(w) \/ EmptyPop(w) \/ Return(w)
       \/ UseDestroyed(wpc[w] \in {"lock", "woken"})

-----------------------------------------------------------------------------
(* The public operations.  A call that changes nothing is not a step: an    *)
(* enqueue() of a waited pool, which returns -1, and a reStart() of a       *)
(* cancelled one, which returns -1 too.  Clients do not call a pool that     *)
(* endPool() is taking down or has taken down, and call endPool() once.      *)

InService == \A c \in Clients : cpc[c] \notin {"destroyCond", "ended"}

(* enqueue(): isWaited is read before the mutex is taken. *)
EnqueueBegin(c) ==
    /\ cpc[c] = "idle" /\ InService
    /\ ~isWaited
    /\ \E j \in Jobs :
         /\ Fresh(j)
         /\ cjob' = [cjob EXCEPT ![c] = j]
    /\ cpc' = [cpc EXCEPT ![c] = "push"]
    /\ UNCHANGED <<tasks, mutex, workers, flags, outcome>>

(* Mutant: the argument is cleared before it is pushed. *)
Mut_PushCleared(c) ==
    /\ cpc[c] = "push" /\ MutexFree
    /\ cjob' = [cjob EXCEPT ![c] = NoJob]
    /\ tasks' = Append(tasks, cjob'[c])
    /\ cpc' = [cpc EXCEPT ![c] = "signal"]
    /\ UNCHANGED <<mutex, workers, flags, outcome>>

(* lock; tasks.push_back(aTask); unlock *)
EnqueuePush(c) ==
    /\ cpc[c] = "push" /\ MutexFree
    /\ tasks' = Append(tasks, cjob[c])
    /\ cjob' = [cjob EXCEPT ![c] = NoJob]
    /\ cpc' = [cpc EXCEPT ![c] = "signal"]
    /\ UNCHANGED <<mutex, workers, flags, outcome>>

EnqueueBroadcast(c) ==
    /\ cpc[c] = "signal"
    /\ wpc' = WakeAll(wpc)
    /\ cpc' = [cpc EXCEPT ![c] = "idle"]
    /\ UNCHANGED <<tasks, mutex, wjob, cjob, flags, outcome>>

(* waitPool(), called by a client or by endPool() *)
WaitBegin(c) ==
    /\ cpc[c] = "idle" /\ InService
    /\ \/ cpc' = [cpc EXCEPT ![c] = "poll"]
       \/ /\ \A d \in Clients : cpc[d] \notin EndPCs
          /\ cpc' = [cpc EXCEPT ![c] = "endPoll"]
    /\ isWaited' = TRUE
    /\ UNCHANGED <<tasks, mutex, workers, cjob, isCancelled, destroyed, outcome>>

(* The poll that finds the list empty; one that does not sleeps and polls   *)
(* again, which changes nothing.                                            *)
WaitPoll(c) ==
    /\ cpc[c] \in {"poll", "endPoll"} /\ MutexFree
    /\ tasks = <<>>
    /\ cpc' = [cpc EXCEPT ![c] = IF @ = "poll" THEN "idle" ELSE "cancel"]
    /\ UNCHANGED <<tasks, mutex, workers, cjob, flags, outcome>>

(* isCancelled=1, without the mutex *)
EndCancel(c) ==
    /\ cpc[c] = "cancel"
    /\ isCancelled' = TRUE
    /\ cpc' = [cpc EXCEPT ![c] = "endBcast"]
    /\ UNCHANGED <<tasks, mutex, workers, cjob, isWaited, destroyed, outcome>>

EndBroadcast(c) ==
    /\ cpc[c] = "endBcast"
    /\ wpc' = WakeAll(wpc)
    /\ cpc' = [cpc EXCEPT ![c] = "destroy"]
    /\ UNCHANGED <<tasks, mutex, wjob, cjob, flags, outcome>>

(* After sleep(5), and no join, the mutex goes.  Five seconds order nothing: *)
(* the step may come at any time.  Destroying a mutex in use is undefined,   *)
(* and glibc leaves it as it was.                                            *)
EndDestroy(c) ==
    /\ cpc[c] = "destroy"
    /\ destroyed' \in IF mutex = Free THEN {TRUE} ELSE BOOLEAN
    /\ cpc' = [cpc EXCEPT ![c] = "destroyCond"]
    /\ UNCHANGED <<tasks, mutex, workers, cjob, isWaited, isCancelled, outcome>>

(* pthread_cond_destroy, and endPool() returns.  While a worker waits this    *)
(* is undefined: glibc blocks until the worker has left, others return.       *)
EndDestroyCond(c) ==
    /\ cpc[c] = "destroyCond"
    /\ cpc' = [cpc EXCEPT ![c] = "ended"]
    /\ UNCHANGED <<tasks, mutex, workers, cjob, flags, outcome>>

ReStart(c) ==
    /\ cpc[c] = "idle" /\ InService
    /\ ~isCancelled
    /\ isWaited' = FALSE
    /\ UNCHANGED <<tasks, mutex, workers, callers, isCancelled, destroyed, outcome>>

(* What a client does in the middle of a call ... *)
Proceed(c) ==
    /\ fault = "none"
    /\ \/ EnqueuePush(c) \/ EnqueueBroadcast(c) \/ WaitPoll(c)
       \/ EndCancel(c) \/ EndBroadcast(c) \/ EndDestroy(c) \/ EndDestroyCond(c)
       \/ UseDestroyed(cpc[c] \in {"push", "poll"})

(* ... and the calls it may make. *)
Call(c) ==
    /\ fault = "none"
    /\ EnqueueBegin(c) \/ WaitBegin(c) \/ ReStart(c)

Next ==
    \/ \E w \in Workers : Worker(w)
    \/ \E c \in Clients : Proceed(c) \/ Call(c)

Spec == Init /\ [][Next]_vars

(* The scheduler runs every thread that can run; a waiting thread is not     *)
(* owed a spurious wake-up, nor endPool() a return from the destruction of a *)
(* condition on which a worker waits, and a client owes no call.             *)
WorkerStep(w) == Worker(w) /\ ~(wpc[w] = "waiting" /\ wpc'[w] = "woken")
ClientStep(c) == Proceed(c) /\ ~(cpc[c] = "destroyCond" /\ Waiters # {})

Fairness ==
    /\ \A w \in Workers : WF_vars(WorkerStep(w))
    /\ \A c \in Clients : WF_vars(ClientStep(c))

FairSpec == Spec /\ Fairness

-----------------------------------------------------------------------------
(* Properties *)

(* Every variable has its type. *)
TypeOK ==
    /\ tasks \in Seq(Jobs)
    /\ mutex \in Workers \cup {Free}
    /\ wpc \in [Workers -> WorkerPCs]
    /\ wjob \in [Workers -> Jobs \cup {NoJob}]
    /\ cpc \in [Clients -> ClientPCs]
    /\ cjob \in [Clients -> Jobs \cup {NoJob}]
    /\ isWaited \in BOOLEAN /\ isCancelled \in BOOLEAN
    /\ destroyed \in BOOLEAN
    /\ finished \subseteq Jobs
    /\ fault \in Faults

(* No wake-up for a task is lost: whenever a worker sleeps in               *)
(* pthread_cond_wait although the list has a task, some enqueue() has yet   *)
(* to broadcast.  enqueue() broadcasts after its unlock, so this rests on   *)
(* the worker testing the list under the mutex that the push needs.         *)
NoLostWakeup ==
    Waiters # {} /\ tasks # <<>> => \E c \in Clients : cpc[c] = "signal"

(* What the pool makes of a job, for the abstract pool: the list, the       *)
(* worker that took it, or the set of those that returned.                  *)
jobPhase == [j \in Jobs |->
    IF j \in finished THEN "done"
    ELSE IF j \in Running THEN "running"
    ELSE IF j \in Queued THEN "queued"
    ELSE "new"]
jobRuns == {<<w, wjob[w]>> : w \in {v \in Workers : wpc[v] = "run"}}

Abstract == INSTANCE TaskPool WITH phase <- jobPhase, runs <- jobRuns

(* The pool implements TaskPool: an accepted task is handed to one worker,  *)
(* once, and never returns to the list, whatever the interleaving of        *)
(* enqueue(), waitPool(), endPool() and the workers.                        *)
ImplementsTaskPool == Abstract!Spec

(* A task in the list does not stay there while workers sleep: the list     *)
(* becomes empty, unless the pool is cancelled or the process has died.     *)
(* It needs fewer endless tasks than workers, and the bound on the number   *)
(* of calls: under an endless supply the LIFO order starves the oldest.     *)
QueueDrains ==
    tasks # <<>> ~> (tasks = <<>> \/ isCancelled \/ fault # "none")

(* waitPool() returns to its caller, unless the pool is cancelled under it  *)
(* or the process has died.                                                 *)
WaitReturns ==
    \A c \in Clients :
        cpc[c] = "poll" ~> (cpc[c] # "poll" \/ isCancelled \/ fault # "none")

(* endPool() returns, unless the process has died or some worker waits for    *)
(* ever on the condition it destroys: one that tested isCancelled before it  *)
(* was set and began to wait after the last broadcast.  Nothing else, no      *)
(* endless task and no late enqueue(), keeps it in its poll or after it.      *)
EndReturns ==
    \A c \in Clients :
        cpc[c] \in EndPCs ~>
            \/ cpc[c] = "ended" \/ fault # "none"
            \/ [](cpc[c] = "destroyCond" /\ Waiters # {})

(* A worker that is woken once endPool() has set isCancelled returns: it does *)
(* not wait again, and the broadcast of every worker that returns reaches the *)
(* next.  A worker that begins to wait after the last broadcast is not woken. *)
WokenReturn ==
    \A w \in Workers :
        isCancelled /\ wpc[w] = "woken" ~> (wpc[w] = "done" \/ fault # "none")

-----------------------------------------------------------------------------
(* What the comments of the pool say of it. *)

(* pthread_poolv1.h:41, startUp(): a thread of the pool blocks until there  *)
(* is a message, so it never takes one from an empty list.                  *)
BlocksUntilMessage == fault # "emptyPop"
=============================================================================
