---------------------------- MODULE TaskPool ----------------------------
(* What a pool of threads promises about the jobs handed to it, whatever   *)
(* locks, condition variables and queues it uses: an accepted job is       *)
(* started at most once, only after it was accepted, and runs on one       *)
(* thread, which runs nothing else, until it returns.  ThreadPool.tla      *)
(* implements it.                                                          *)

CONSTANTS
    Jobs,       \* one element per successful call of enqueue()
    Workers     \* the threads of the pool

VARIABLES
    phase,      \* how far each job has come
    runs        \* the pairs <<thread, job it runs>>

vars == <<phase, runs>>

Init ==
    /\ phase = [j \in Jobs |-> "new"]
    /\ runs = {}

(* enqueue() made the job the pool's. *)
Accept(j) ==
    /\ phase[j] = "new"
    /\ phase' = [phase EXCEPT ![j] = "queued"]
    /\ UNCHANGED runs

(* A thread that runs nothing else takes the job. *)
Start(w, j) ==
    /\ phase[j] = "queued"
    /\ \A i \in Jobs : <<w, i>> \notin runs
    /\ phase' = [phase EXCEPT ![j] = "running"]
    /\ runs' = runs \cup {<<w, j>>}

(* The job's run() returned. *)
Finish(w, j) ==
    /\ <<w, j>> \in runs
    /\ phase' = [phase EXCEPT ![j] = "done"]
    /\ runs' = runs \ {<<w, j>>}

Next ==
    \E j \in Jobs : \/ Accept(j)
                    \/ \E w \in Workers : Start(w, j) \/ Finish(w, j)

Spec == Init /\ [][Next]_vars
=============================================================================
