--------------------------- MODULE SignalPlane ---------------------------
(* The signals of the server (src/ztHttp/ztHttp/zcsIO.cpp): the thread that *)
(* runs signal_handle(), the signals pending for it, and the two counters   *)
(* it shares with the reactors.                                             *)
(*                                                                          *)
(* The three signals are not blocked in any thread (the pthread_sigmask     *)
(* call of httpMPtest.cpp is commented out) and have sig_tran() as their    *)
(* handler, which sends the signal to the signal thread again.  In sigwait  *)
(* that thread takes a pending signal.  Anywhere else the handler runs in   *)
(* it, makes the same signal pending, and runs again as soon as it returns: *)
(* the thread never gets back to its loop.  Trapped says so, and is why     *)
(* every step outside sigwait requires that nothing is pending.             *)
EXTENDS Integers

VARIABLES
    pending,            \* signals sent to the thread; a second one merges
    spc,                \* where the signal thread is in its loop
    sval,               \* the register of its ++register_flag
    register_flag,
    quit_wait_flag,
    process             \* "running", "exited" or "crashed"

signalVars == <<pending, spc, sval, register_flag, quit_wait_flag, process>>

Signals == {"INT", "USR1", "USR2"}
SignalPCs == {"sigwait", "int", "load", "store", "usr2"}

SignalTypeOK ==
    /\ pending \subseteq Signals
    /\ spc \in SignalPCs
    /\ sval \in Int /\ register_flag \in Int
    /\ quit_wait_flag \in Int
    /\ process \in {"running", "exited", "crashed"}

SignalInit ==
    /\ pending = {}
    /\ spc = "sigwait"
    /\ sval = 0
    /\ register_flag = 0
    /\ quit_wait_flag = 0
    /\ process = "running"

Trapped == spc # "sigwait" /\ pending # {}

(* sigwait takes the pending signal with the lowest number: SIGINT is 2,    *)
(* SIGUSR1 10 and SIGUSR2 12.                                               *)
FirstPending ==
    IF "INT" \in pending THEN "INT"
    ELSE IF "USR1" \in pending THEN "USR1" ELSE "USR2"

SigWait ==
    /\ spc = "sigwait" /\ pending # {}
    /\ pending' = pending \ {FirstPending}
    /\ spc' = CASE FirstPending = "INT" -> "int"
                [] FirstPending = "USR1" -> "load"
                [] FirstPending = "USR2" -> "usr2"
    /\ UNCHANGED <<sval, register_flag, quit_wait_flag, process>>

(* Mutant: the count is that of one reactor. *)
Mut_ReactorsToQuit == 1

(* case SIGINT: quit_wait_flag=2 *)
ReactorsToQuit == 2

HandleInt ==
    /\ spc = "int" /\ ~Trapped
    /\ quit_wait_flag' = ReactorsToQuit
    /\ spc' = "sigwait"
    /\ UNCHANGED <<pending, sval, register_flag, process>>

(* case SIGUSR1: ++register_flag is a load and a store of a volatile *)
LoadFlag ==
    /\ spc = "load" /\ ~Trapped
    /\ sval' = register_flag
    /\ spc' = "store"
    /\ UNCHANGED <<pending, register_flag, quit_wait_flag, process>>

StoreFlag ==
    /\ spc = "store" /\ ~Trapped
    /\ register_flag' = sval + 1
    /\ sval' = 0
    /\ spc' = "sigwait"
    /\ UNCHANGED <<pending, quit_wait_flag, process>>

(* case SIGUSR2: exit(0) *)
HandleUsr2 ==
    /\ spc = "usr2" /\ ~Trapped
    /\ process' = "exited"
    /\ UNCHANGED <<pending, spc, sval, register_flag, quit_wait_flag>>

SignalThread == SigWait \/ HandleInt \/ LoadFlag \/ StoreFlag \/ HandleUsr2
=============================================================================
