# TLA+ specifications of ztHttp

ztHttp is a small HTTP server in C++: a thread pool, reactors over epoll that run
in it, a signal thread by which the acceptor and the reactors talk to each other,
and buffers, sockets and a request parser. Beside it there is simHttp, a server
with a thread for every connection and CGI scripts in child processes. This
directory holds TLA+ modules of both, the TLC configurations that check them and
proofs about them. Paths below are relative to `src/`; `EM` is
`ztHttp/ztHttp/EventManager.cpp`, `SH` is `ztHttp/ztHttp/simHttp.cpp`, `TC` is
`ztHttp/ztHttp/tcp.cpp`.

## 1. The system

| component | state | operations | in touch with |
|---|---|---|---|
| thread pool (`pthread_poolv1.{h,cpp}`) | list `tasks`, `mtx`, `cond`, flags `isWaited`, `isCancelled` (not protected by `mtx`) | `startUp`, `runThread`, `enqueue`, `waitPool`, `reStart`, `endPool` | runs one `EMTask` per reactor |
| reactors (`EventManager.{h,cpp}`): `EMTask`, `Reactor`, `EpollMultiplexer`, `EpollEventHandler` | per reactor a map `_fds` (descriptor to handler), a map `rdy`, `_mtx`, an epoll instance; per connection a handler | `select`, `registerEvents`, `register_handler`, `remove_handler`, `handle_events`, `handle_event`, `quit_and_rst` | take handlers from the wait queue, read and write both flags |
| signal plane (`zcsIO.cpp`, `sig_tran`) | `register_flag`, `quit_wait_flag`, pending signals | `signal_handle`, `sig_tran` | SIGUSR1 from the acceptor, SIGINT from outside, SIGUSR2 from the last reactor |
| acceptor (`httpMPtest.cpp`) | `p_wait_queue`, `wait_queue_mtx`, `reactor_select` | `start_server`, `enqueue_and_wait` | creates handlers, queues them, signals |
| `IOBuffer` (`IOBuffer.cpp`) | list of chunks, `_size` | `append` (2), `pullDown`, `consume`, `size` | send and receive buffer of a socket |
| `TcpSocket`, `Http` (`tcp.cpp`) | two buffers, `_isConnected`, callbacks, `_in_buffer` | `read`, `write`, `disConnected`, request parsing | called by the handler |
| `simHttp.cpp` | descriptors, pipes, child processes; per thread a line buffer | accept loop, `accept_request`, `get_line`, `serve_file`, `execute_cgi`, its child | a second server of its own, with the accept loop `main11` that no program calls; clients, CGI scripts |
| event v1 (`Event.{h,cpp}`) | `waitedQueue`, `selectedQueue` | register, remove, select, handle | an earlier reactor |
| wrappers, scratch programs, load tests, CGI scripts | none | | |

What makes it hard: two reactor threads, a signal thread and the acceptor share two
`volatile` counters that they increment and decrement without a lock. Descriptor
numbers are handed on by `close` and `accept` while stale map entries still name
them. A handler is run by the reactor that happened to empty the wait queue and
removed from the map of the reactor it was made for. The pool reads its flags
outside its mutex, waits under an `if`, and never joins its threads. The only notice
of a new connection is a signal, and signals merge and interrupt.

What has to be right, by component:

- **pool**: no wake-up is lost; an accepted task is run by one worker, once; the list
  drains; `waitPool` returns, and `endPool` does unless a worker sleeps on for ever.
- **reactors and acceptor**: a connection is one reactor's business and in one epoll
  instance; it is answered at most once, on itself, and closed only afterwards;
  a registered connection is served; SIGINT resets every reactor before the exit.
- **IOBuffer**: no byte is lost, repeated or reordered; `_size` is the number of bytes;
  what was pulled down can be consumed.
- **sockets**: what is written goes out once and in order however little `send` takes;
  what comes in reaches the parser once and in order; the write end is not shut early.
- **simHttp**: an accepted connection gets a whole answer and is then closed; nothing of
  a request stays open; `SIGPIPE` needs a cause outside the scripts; a client sees the
  end of its answer although children inherit descriptors; lines, headers and body are
  taken apart where the client's text says.

## 2. Modules

| module | models | kind |
|---|---|---|
| `TaskPool` | what a pool promises: a task is new, queued, running on one worker, done | abstract |
| `ThreadPool` | `pthread_poolv1.{h,cpp}` | detailed, implements `TaskPool` |
| `Kernel` | descriptor table, peers, epoll instances | external, from the calls made |
| `SignalPlane` | `signal_handle`, flags, pending signals | component |
| `Multiplexer` | `EventManager.cpp`; extends the two above | component |
| `HttpServer` | `httpMPtest.cpp`; composes everything | system, implements `Connections` |
| `SimHttp` | `simHttp.cpp`: processes, threads, descriptors, pipes | system, implements `Connections` |
| `Connections` | what a client sees: new, open, answered, reset, closed | abstract |
| `RequestReader` | `simHttp.cpp`: `get_line`, header loops, body loop | component |
| `Socket` | `tcp.cpp`: `TcpSocket` with its parser, peer and kernel | component |
| `ByteStream` | what a user of a buffer relies on | abstract |
| `IOBuffer` | `IOBuffer.cpp` | detailed, implements `ByteStream` |
| `MCThreadPool`, `MCHttpServer`, `MCSimHttp`, `MCRequestReader` | model values | TLC |
| `ThreadPool_proofs`, `SimHttp_proofs`, `RequestReader_proofs`, `Socket_proofs`, `IOBuffer_proofs` | the module of that name | theorems |
| `HttpServer_proofs`, `HttpServerPromise_proofs` (extends it) | `HttpServer` and what it extends | theorems |

### ThreadPool

A worker is a thread in `runThread`; its program counter `wpc` has a value for every
point at which another thread can change what it sees: the unlocked test of
`isCancelled` (`check`), the lock, the wait (`waiting`, `woken`), the second test
(`test`), taking a task (`pop`), running it (`run`), the broadcast of a leaving thread
(`bcast`). A client is any thread with a reference to the pool. Its critical sections
are one step each: lock, one list operation, unlock. That `wait` returns and does not
look at the list again is `Enter`, from `woken` straight to `test`. `pop` of an empty
list and the use of the destroyed mutex are undefined; the model records the first in
`fault` and stops. `sleep(5)` in `endPool` orders nothing, so the destruction may
come at any time. It has two steps. `EndDestroy` is `pthread_mutex_destroy`, which may
leave a mutex that is in use as it was (`EBUSY`). `EndDestroyCond` is
`pthread_cond_destroy` and the return. Destroying a condition on which a worker waits is
undefined: glibc since 2.25 blocks until the worker has left, others return, so the
step may be taken and nobody owes it while a worker waits. Clients are assumed not to call a pool
that `endPool` is taking down and to call `endPool` once.

### Kernel, SignalPlane, Multiplexer, HttpServer

One reactor thread is a program counter `rpc` through `EMTask::run`: `select`,
`epoll`, the registration loop (`reg...`), `handle`, `next`, a handler (`write`,
`close`), `remove_handler` (`rm...`), `quit_and_rst` (`quit...`, `paused`). Both
counters are read and written in separate steps, because `++` and `--` of a
`volatile` are a load and a store. A section under `_mtx` is one step; `wait_queue_mtx`
is held across calls and is a variable. `epollUpdate` reads the map (`UpdateRead`) and
then calls `epoll_ctl` (`RegisterCtl`, `RemoveCtl`) outside the lock.
`HttpServer` begins where both reactor tasks run; whether the pool gets them there is
`ThreadPool`'s question, and `ThreadPool_emptyPop` shows how it may not.

The maps `_fds` take `Absent` (no entry), `Null` (the pair `(0, nullptr)` that
`operator[]` inserts when `epollUpdate` reads a descriptor that was just erased), or
the handler. A descriptor that is ready but not in the map, a null handler and a
deleted one end the process (`process = "crashed"`): `handle_events` only logs that the
descriptor was not found, and goes on with `end()`.

The signals are not blocked anywhere, because the call of `pthread_sigmask` is
commented out. `sig_tran` sends a signal on to the signal thread; when that thread is
not in `sigwait` the handler runs in it and sends it the same signal again, for ever
(`Trapped`). Signals merge (`pending` is a set), and `sigwait` takes the lowest number.
`accept` is not restarted after a signal, since `z_signal` never sets `SA_RESTART`
(`zcsIO.cpp:61` has `SA_RESTGART`): the turn moves on. `pause()` returns after a handler
ran in the thread, and `quit_and_rst` then returns to its caller (`back`).

What is merged or left out, and why it does not matter here: an interrupted
`epoll_wait` and one that timed out both leave `rdy` empty and are the same step; the
limit of 32 events is above the number of descriptors; EPOLLIN is not registered, so
`handle_read` does not run; EPOLLHUP and EPOLLERR do the same; a handler answers once
and has nothing else to send, so a socket is always writable.

### IOBuffer

`chunks` and `size` are the fields; `reply` is the last call with its result and
`pulled` a history variable: how many bytes are known to be contiguous. `Gather` is
the loop of `pullDown`, written by what it joins: the fewest chunks, at least one, that
have the bytes asked for. `broken` marks `consume` of an empty list (`begin()` is
dereferenced) and a `pullDown(0)` whose `at(0)` throws; nothing is said afterwards.

### SimHttp

A thread and its child are named by the connection whose `accept` led to them. `pc` is
where the thread is: created (`start`), after the route was decided (`route`), between
the system calls of `execute_cgi` (`pipe`, `pipe2`, `fork`, `closeEnds`), in its loops
(`write`, `read`), in `waitpid` (`wait`), before `close`. `child` is where the CGI
process is. `files` is what the server process has open, `holds` what each child has:
`fork` copies all of `files`, the pipes and connections of other threads included, and
a pipe or a connection ends only when nobody holds it (`Held`). `io` counts the bytes
through the two pipes of a request, which take `PipeSize` bytes. `answer` is what
the client was sent, in pieces: statuses, lines of a file, bytes of output; the child
sends one of the two status lines itself. `Cat` sends a line at a time and `Feof` is what its
loop tests: a file whose last line has no newline (`cutPage`) ends one line early. A
file that cannot be executed is a script that prints `Buffered` bytes, what `exit` flushes
of the standard output the child inherited (the `printf` of `SH:492` when it is no terminal).

`client_sock` is the one variable of the accept loop whose address every thread gets.
A thread that finds another connection there ends the model (`process = "misrouted"`):
nothing more is said of such a process, in which two threads share a connection.
`process` also records the exit of `error_die`, and the death by SIGPIPE.

Taken from outside: stdout's buffer fits in a pipe; a client sends its whole request, or goes away at any moment if it
is in `Leaving`; a script reads all of its input before it prints, as those of
`htdocs` do (`CGI->new`). The kind of a request stands for the route it takes, decided
from the first line and `stat`. The calls in `Failing` may fail; `sprintf`, `putenv`
and `dup2` do not.

### RequestReader

What one thread takes off its connection, character by character. A token stands for a
stretch of text where only its identity matters: `get` and `post` for a request line's
text, `length` for a `Content-Length` header, `x` for other text; line ends are the
characters they are. A client may send nothing, or begin with a line end or a header
(`Inputs`). `Lengths` is what `atoi` may find behind a header; it may find a number that is not
positive, for which the body loop does not run, and -1, which the code does not tell from
a request without the header. `BufSize` is `sizeof(buf)`, a few tokens instead of 1024. `recv` with `MSG_PEEK`
after a carriage return waits for the next character, so `Receive` does, too. A line that
fills the buffer returns without its line end, which is the next line. When the client
closes its end inside the body, `recv` leaves `c` as it was and it is written again
(`NextBytes`). `taken` is a history variable, all lines in one text.

### Socket

The operations of `TcpSocket` in any order, by one thread; `Http::read` and
`Http::write` are part of them. Bytes are numbered, so a stream is whole if it counts
upward. `Unsent` is what a `send` that took fewer bytes leaves; the three callbacks are
uninitialised (`"wild"`) until they are set, because the constructor the server uses
leaves them out, and a call through one ends the process. `Http::write` chooses by the
request line, but `get_line` (`TC:372`) writes every character to the same place, so
every request gets the same answer, "unimplemented": the choice is left out because no
input reaches it. The buffers are the streams of `ByteStream`, which `IOBuffer` implements.

## 3. What the runs check

Runs that pass:

| run | instance | states | shows |
|---|---|---|---|
| `ThreadPool_pool` | 2 workers, 2 clients, 3 jobs, one endless, spurious wake-ups, fair | 174 000 | `TypeOK`, `NoLostWakeup`, refinement of `TaskPool`, `QueueDrains`, `WaitReturns`, `EndReturns`, `WokenReturn` |
| `HttpServer_serve` | 3 connections, 2 descriptors, queue of 2 | 885 000 | `TypeOK`, `OneReactorPerHandler`, `OneEpollPerConnection`, `AnswersItsConnection`, `AnsweredOnce`, refinement of `Connections` |
| `HttpServer_stop` | 2 connections that may be reset, 2 descriptors, queue of 1, 1 SIGINT | 1 270 000 | `ExitAfterReset`, `AnsweredOnce`, `OneEpollPerConnection`, refinement of `Connections` |
| `HttpServer_served` | 2 connections, one may be reset, 2 descriptors, fair | 118 000 | `RegisteredIsServed` |
| `HttpServer_quit` | 2 connections, 1 descriptor, 1 SIGINT, fair | 336 000 | `ReactorsQuit` |
| `SimHttp_cgi` | 2 requests of any kind, body and output of 2 bytes, pages of 2 lines, pipes of 1, 1 byte in stdout's buffer, one client may leave, every call may fail, fair | 373 000 | `TypeOK`, `NothingLeftOpen`, `KilledForAReason`, refinement of `Connections`, `ClientSeesEnd` |
| `RequestReader_lines` | texts of up to 7 tokens, none too, buffer of 4, lengths of -2, 0 and 2, fair | 384 000 | `TypeOK`, `LinesKeepText`, `HeadersEndAtBlankLine`, `BodyFollowsHeaders`, `RequestIsRead` |
| `Socket_stream` | 3 bytes in, 6 out, 2 in a call | 53 000 | `TypeOK`, `OutputIsWhole`, `InputIsWhole`, `ShutWhenFinished` |
| `IOBuffer_stream` | 2 byte values, 4 bytes, 3 chunks | 7 000 | `SizeCountsBytes`, refinement of `ByteStream` |

Why the bounds are enough. Two workers are the least with which one can take the
task the other was woken for. Three jobs let a task be pushed while one runs and one
waits. Two reactors are what the program has (`_count=2`). Three connections over two
descriptors are the least in which a number is reused while another connection is
being removed and a third waits in the queue. A queue of one place is full at the
second connection, a queue of two shows the order of the queue. Two requests at once
let a child inherit the pipes of the other one between any two steps; two bytes through
a pipe of one fill it, block the writer and drain it; more requests only add holders. A
page of two lines has one that is sent whatever its end and one that need not be.
Seven tokens with a buffer of four are a request line, a header, a blank line and a
body, a line that fills the buffer, and every pair of line ends at the edge of it. Six
bytes out are several answers, each sent in parts. A buffer of three chunks lets
`pullDown` merge twice, with empty chunks in between. `CHECK_DEADLOCK FALSE` is in every
configuration: the pool stops when all clients have stopped calling, a server when it
has exited or every client was served, a reader when the request is read or its client
waits, and a bound on calls is reached.

The symmetry of `HttpServer_serve` and `HttpServer_stop` permutes connections, all
of which, or none, may be reset; the liveness runs use none.

Runs that find a comment of the code contradicted by what it does:

| run | the comment | what happens |
|---|---|---|
| `ThreadPool_emptyPop` | `pthread_poolv1.h:41` threads block until there is a message | one broadcast wakes two workers, the second takes from an empty list |
| `HttpServer_staleEntry` | `EventManager.h:216` registration and removal go by the descriptor | the read at `EM:255` puts an entry `(0, nullptr)` for a removed descriptor into the map; its handler is deleted, its number goes to the next connection, and the entry selects MOD, which fails: that connection is never served |
| `SimHttp_sharedArgument` | `SH:50` the thread processes the request of the client that was accepted | the loop overwrites the variable before the thread has read it: two threads serve one connection, the other is never served |

`RegisteredAfterRemoval` asks for nothing but what the comment says: only of a number all
of whose earlier handlers were removed and deleted. Two other ways to lose a registration
are in the models and not its subject. A handler is removed from the map of the reactor it
was made for, so one that another reactor registered stays in that reactor's map. And a
removal that is still under way when its number has been closed and handed on deletes the
registration of the new connection (EPOLL_CTL_DEL after `disConnected`, `EM:198`).

Other comments that do not hold in the models, for which no run is kept:

- pool: `waitPool` leaves nothing to add to the list (`pthread_poolv1.cpp:67`: an
  `enqueue` that had read `isWaited` earlier still adds); `endPool` waits for running
  tasks (`pthread_poolv1.h:42`: the join is commented out) and ends another's `waitPool`
  early (`:73`: it begins with the same wait); all threads return after it
  (`pthread_poolv1.cpp:102`: flag and broadcast miss a worker between its test and its
  wait, which is why `WokenReturn` speaks of the woken ones, and why `endPool` may itself
  be kept by `pthread_cond_destroy`, the one exception of `EndReturns`).
- server: the handler closes its descriptor (`EventManager.h:69`: not after EPOLLERR);
  reactors stop registering on SIGINT (`zcsIO.cpp:94`: `register_flag` is tested first);
  SIGINT ends the process (`zcsIO.cpp:107`: two `--quit_wait_flag` may lose an update,
  and nobody sends SIGUSR2); a signal registers connections asynchronously
  (`httpMPtest.cpp:38`: one outside `sigwait` traps the signal thread, and the queue is
  not looked at again).
- sockets: the read end is shut at the end of input (`TC:200`: it is the write end).
- simHttp: `cat` sends the entire file (`SH:157`: the last line is dropped when the file
  does not end in a newline, because `feof` is tested before the send). The refinement of
  `Connections` is stated with what the code sends (`Whole`): a page without that line, and
  for a file that cannot be executed what its child flushed.

`ExitAfterReset` needs SIGINT to arrive once: with `MaxInterrupts = 2` the second one
wakes a paused reactor, which counts itself down again, and the process exits before the
other reactor quits.

What holds in spite of all this is the point of the passing runs: every property of
`HttpServer` is checked over behaviours in which flags drift, removals are refused,
maps keep stale entries and the process may die; every property of `SimHttp` over
behaviours in which system calls fail, descriptors leak after a failure and a client
leaves. `AnswersItsConnection`, `AnsweredOnce` and `OneEpollPerConnection` end where a reactor
resets its connections:
`quit_and_rst` also closes the numbers of stale entries, which other connections use by
then. `NothingLeftOpen` excepts the answers after which the code has no `close`:
"500" for a failed `pipe` or `fork`, and "501". `HeadersEndAtBlankLine` is about lines
that do not fill the buffer: after one that does, `get_line` returns the line end alone and
the header loop takes it for the end. `RequestIsRead` has two parts. The headers are read of a client that closes
its end, whatever it sent, and of one that waits when it has sent a blank line, unless a
lone carriage return is all that is left of what it sent: the peek waits behind that. The body is
read when the client closes its end or has sent as many bytes as its header says; a
waiting client that has sent fewer is waited for.

### Fairness

`ThreadPool`: weak fairness for every worker and for a client in the middle of a call.
A client owes no call, nobody is owed a spurious wake-up, and no step is owed to
`pthread_cond_destroy` beside a waiting worker (`ClientStep`): where it blocks `endPool`
does not return, where it does not it may. `HttpServer`: weak
fairness for the signal thread, each reactor and the acceptor inside `enqueue_and_wait`
(the scheduler runs every thread that can run), and strong fairness for taking
`wait_queue_mtx`: a mutex that others release again and again is granted in the end.
POSIX does not promise that, Linux's futexes do it in practice, and no critical section
here is re-entered without other work in between. Clients and SIGINT owe nothing.
`SimHttp`: weak fairness for every thread and every child process; no call is owed a
failure, and no client owes a connection or its departure. `RequestReader`: weak
fairness of the one thread; it waits where `recv` has nothing for it.

## 4. What is proved

Seven modules hold proofs, of `Spec => []P` or `Spec => Q` for every value of the
constants that meets the named assumptions of the module. Each has an inductive
invariant that TLC has checked on the instances above, a lemma or a step for every
action, and short theorems that follow from it. Every invariant of a passing run, every
action property and every refinement is a theorem.

| module | theorems | assumes |
|---|---|---|
| `ThreadPool_proofs` | `TypeCorrect`, `MutualExclusion`, `WakeupsAreNotLost`, `PoolImplementsTaskPool` | `PoolAssumption` |
| `HttpServer_proofs` | `TypeCorrect`, `QueueMutexExcludes`, `OneReactor`, `ExitsAfterReset` (`Reactors = {0, 1}`, `MaxInterrupts <= 1`) | `KernelAssumption`, `MultiplexerAssumption`, `ServerAssumption` |
| `HttpServerPromise_proofs` | `AgreesUntilReset`, `OneEpollEach`, `AnswersItsOwn`, `AnsweredAtMostOnce`, `HttpServerImplementsConnections` (each `MaxInterrupts <= 1`) | the same |
| `SimHttp_proofs` | `TypeCorrect`, `NothingIsLeftOpen`, `KilledOnlyForAReason`, `SimHttpImplementsConnections` | `SimAssumption` |
| `RequestReader_proofs` | `TypeCorrect`, `LinesAreTheText`, `HeadersEndThere`, `BodyIsWhatFollows` | `ReaderAssumption` |
| `Socket_proofs` | `TypeCorrect`, `OutputStaysWhole`, `InputStaysWhole`, `ShutOnlyWhenFinished` | `SocketAssumption` |
| `IOBuffer_proofs` | `SizeIsRight`, `IOBufferImplementsStream` | `IOBufferAssumption` |

**Thread pool.** `IInv` has four parts. `TInv` is the types, with the jobs that workers
and clients hold tied to their program counters. `MutexInv` says who is inside the
critical section. `NoLostWakeup` is inductive with these two: the only steps that can
break it are a worker going to sleep, which needs the list empty with the mutex free,
and a push, which leaves its client about to broadcast. `OnePlace` says that the list
has no duplicates and that listed, running, pending and finished jobs are disjoint and
no job runs on two workers; without it a pop could hand out a job that is running
elsewhere, and the refinement would not follow. Each part has a lemma, one step per
action; `TakeLast`, `PushLast` and `Broadcast` are the facts about sequences and
wake-ups they share. The refinement is by `SameView` (steps that leave the abstract view
alone stutter) and one lemma for each of `Accept`, `Start` and `Finish`.

**Server.** A reactor *has* a connection when it registers, runs or removes its handler
or when its map leads there. `Owners` says that no two reactors have the same one
(`OneHolder`), that a connection in the wait queue is had by nobody but the reactor that
is registering it (`QueuedInv`, `LastInv`, `Distinct`), who therefore holds
`wait_queue_mtx` (`MutexInv`), and that one which was not accepted yet, or not queued yet,
is nobody's (`AwayInv`, `AcceptedInv`). The types are not inductive without it: that
a handler that runs has a descriptor follows from its having been accepted
(`HandlerInv`). Most steps let nobody have more than before; `Keeps` treats them all, and
`RegisterKeeps`, `PopKeeps`, `AcceptKeeps` and `EnqueueKeeps` those that hand a connection
on. `ExitsAfterReset` is for the reactors `{0, 1}` and at most one SIGINT, which is
what the code counts with (`quit_wait_flag=2`): until the signal is handled the count is
0 and nobody quits (`Before`); afterwards a count of 1 means that one reactor has
paused, and a register of 1 that the other has (`After`), so that a lost update can only
leave the count too high.

**What the server promises.** That an answer reaches its own connection is a fact about
descriptor numbers: a handler writes to a number, and a map, an interest list or a
handler may still know the number when `accept` has handed it to somebody else. `PInv`
says that until a reactor resets its connections (`isStopping`) they agree all the same:

- `OpenInv`: a number is a connection's in the descriptor table just when that
  connection's handler is connected and has this number. Stale entries lead to handlers
  that are no longer connected, and those do not write.
- `CloseInv`: a reactor that is about to call `disConnected()` has answered, and its handler
  is still connected. It rests on `OneHolder` of `IInv`: nobody else runs that handler.
- `OnceInv`: an answer was given by the connection's own handler, which has been
  disconnected since or is about to be, so that it is not run a second time.
- `WaitInv`: a connection that is being accepted, or is in the wait queue, is open, and in
  the interest list of nobody but the reactor that has just registered it and has yet to
  pop it. With `QueuedInv` a registration puts a connection in one list only (`OneEpoll`).
- `KnownInv`: what the kernel has a number for, or was answered, has arrived; `AskedInv`:
  before SIGINT nobody quits, so that the one SIGINT finds no reactor in `pause()` and
  `isStopping` lasts.

A step of a reactor either touches none of this (`BookSteps`) or is one of the six with a
lemma of their own (`RegisterPop`, `RegisterCtl`, `RemoveCtl`, `HandleWrite`,
`DisConnected`, `ResetAll`). The refinement maps a connection to its phase; the lemmas
`HandleWriteActs`, `DisConnectedActs`, `AcceptActs`, `ClientResetsActs` and `ResetActs` show one step
of `Connections` each, and every other step leaves the phases alone. After a reset
`Connections` allows the closing of any connection, so the refinement goes on holding
although the three invariants do not. The theorems take at most one SIGINT because a
second one wakes a reactor from `pause()` and lets it return to its loop after its reset;
TLC shows with `MaxInterrupts = 2` that the refinement is then lost.

**simHttp.** `IInv` says of every connection, by the place of its thread, which of its
descriptors the server has open (`Descriptors`), what its child holds and how far the
pipes are (`Process`), and which pieces its client was sent (`Answer`). An effect lemma
per action says what it does to one connection and that it leaves the others alone. The
refinement follows because a connection's answer is whole where its thread reaches
`close`: the end of the output pipe implies that the child, who sends one of the status
lines before it prints, is done and has printed all (`Total`), and of a page `n` lines were
sent (`FromFile(n)`), so that `Feof` holds just when those are the ones `cat` sends (`Shown`).

**RequestReader.** `TypeOK` is where a line and its null fit in the buffer, and the body in
its length; it needs that the body begins only below a positive length (`BodyInv`). For the text itself, `TextInv` names the place `k` in the input where
reading stands: what was read before it, lines taken and the line under way, is the plain
text of the first `k` characters (`Cut`), what the script was given is what follows
(`Copied`), and `rest` is what follows that (`Left`). `Plain` is the reference: every line
end a linefeed. It is defined without recursion, by the characters that are kept and the
place each gets, and the lemmas show that the plain text grows by at most one character
with each character read. `Cut` excludes a `k` between the two characters of one line end,
which is what the peek after a carriage return is for. `HeadersEndThere` adds that a
linefeed is only ever the last character of a line (`LineInv`), and that between two
header lines none was blank and a length is known just when its header was read
(`HeadersInv`, `LengthKnown`), unless a line fills the buffer.

**Socket.** The streams stay whole because each call takes from the front what it gives on.

**IOBuffer.** `IInv` is `SizeCountsBytes`, the types, and `PulledInv`: what was pulled down is
still in the first chunk, without which `consume` could not be shown to succeed. The bytes
of a list of chunks are `FlattenSeq` of the community modules, which recurses, so its laws
(`FlattenAppend`, `FlattenConcat`) need induction. The induction theorems of the library
take a predicate and are out of the provers' reach; `Induction` is the same fact about
sets of numbers, proved from the smallest element that a well-founded order gives every
nonempty set. `GatherIs` says that `pullDown` cuts the same bytes differently, and the
four steps of the refinement follow. The one assumption is that `MaxBytes`, the bound on
the bytes of the model, is a number.

Only model-checked: liveness (`QueueDrains`, `WaitReturns`, `EndReturns`, `WokenReturn`,
`RegisteredIsServed`, `ReactorsQuit`, `ClientSeesEnd`, `RequestIsRead`), which is beyond the
prover; and what two SIGINTs leave of the server's invariants.

## 5. Not modelled

- Event v1 (`Event.{h,cpp}`): not in the build (`ztHttp.cbp` does not list it), superseded by
  `EventManager`, and its one thread shares its queues with nobody.
- `TcpListeningSocket` and `handle_read`: the server does not use the one and registers no
  event that leads to the other.
- `myhttp.c`, `httpParse.cpp`, `HttpTaskThread.h`: unfinished copies of parts of
  `simHttp.cpp` and of a task class.
- `start_up`, `startup`, `z_signal`, `file_flg_set`: wrappers of system calls, the initial state of
  the models.
- Logging, the logging inside a signal handler included (`httpMPtest.cpp:166`): its lock is
  in a library. The text of HTTP answers.
- A data race on a `std::map` is undefined; the models give the unlocked search of
  `remove_handler` the map as it is.
- Starvation of the oldest task under an endless supply would take an unbounded number of
  calls.
- Scripts that print before they have read their input: parent and child may then both
  wait on a full pipe.
- Scratch programs, load tests and build products hold no state of the server.

## 6. Plan

1. *(done)* thread pool with `TaskPool`; its proofs.
2. *(done)* server core: `Kernel`, `SignalPlane`, `Multiplexer`, `HttpServer`, `Connections`.
3. *(done)* `IOBuffer` with `ByteStream`; `Socket`.
4. *(done)* `SimHttp` and `RequestReader`.
5. *(done)* proofs about the server, simHttp, the reader and the socket.
6. *(done)* proofs of what the server promises its clients, of the texts of the reader and of
   the buffer.
7. Next: the safety facts the liveness properties rest on, as theorems (who holds the
   pool's mutex or the wait queue's gives it back; a registration is lost only by an answer
   or a reset), and further lemmas about `Socket` over `ByteStream`.
