----------------------------- MODULE SimHttp -----------------------------
(* The server of src/ztHttp/ztHttp/simHttp.cpp: a thread for every          *)
(* connection, and for a CGI request a child process between two pipes.     *)
(* A thread is named by the connection whose accept() led to it.  What a    *)
(* thread reads from its connection is in RequestReader.                    *)
(*                                                                          *)
(* Descriptors are inherited: fork() copies all that the process has open,  *)
(* those of other threads too, and a pipe or a connection ends only when    *)
(* nobody holds it any more.                                                *)
EXTENDS Naturals, Sequences

CONSTANTS
    Conns,          \* the connections clients open
    NoConn,         \* client_sock before the first accept()
    Requests,       \* the kinds of request they make, of Kinds
    Leaving,        \* the connections whose client may go before the end
    Failing,        \* the calls that may fail: a limit of the system is reached
    Body,           \* content_length of a POST
    Output,         \* how many bytes a script prints
    PipeSize,       \* how many bytes a pipe takes
    Lines,          \* how many lines a plain file has
    Buffered        \* how many bytes printf() left in the server's stdout

(* "page" is a GET of a plain file, "cutPage" of one whose last line has no  *)
(* newline, "get" and "post" a request for a script, "getPage" a GET of a    *)
(* plain file with a query, or of a directory, "postPage" a POST to a plain  *)
(* file, "noLength" a POST without Content-Length, "missing" names no file,  *)
(* "other" is no GET and no POST.                                            *)
Pages == {"page", "cutPage"}
Scripts == {"get", "post"}
NoScripts == {"getPage", "postPage"}
Posts == {"post", "postPage"}
Kinds == {"missing", "noLength", "other"} \cup Pages \cup Scripts \cup NoScripts
Calls == {"accept", "thread", "fopen", "pipe", "fork"}

ASSUME SimAssumption ==
    /\ NoConn \notin Conns
    /\ Requests \subseteq Kinds /\ Leaving \subseteq Conns /\ Failing \subseteq Calls
    /\ Body \in Nat /\ Output \in Nat /\ PipeSize \in Nat \ {0}
    /\ Lines \in Nat \ {0} /\ Buffered \in 0..PipeSize

VARIABLES
    request,        \* what each client asks for
    left,           \* whether it has gone
    mpc,            \* where the accept loop is
    client_sock,
    pc,             \* where each thread is
    child,          \* where its CGI process is
    files,          \* what the server process has open
    holds,          \* what each CGI process has open
    io,             \* bytes through the pipes of each request
    answer,         \* what was sent to each client
    process         \* "up", or what became of it

clients == <<request, left>>
main == <<mpc, client_sock>>
vars == <<clients, main, pc, child, files, holds, io, answer, process>>

Objects == Conns \X {"sock", "outR", "outW", "inR", "inW"}
Ends(c, ends) == {c} \X ends

ThreadPCs == {"none", "accepted", "orphan", "start", "route", "pipe", "pipe2", "fork",
              "closeEnds", "write", "read", "wait", "cat", "close", "done"}
ChildPCs == {"none", "begin", "script", "gone"}
Fates == {"up", "exited", "killed", "crashed", "misrouted"}

(* The parts of an answer: a status, a line of a file, a byte of output. *)
Texts == {"200", "400", "404", "500", "501", "line", "out"}
Printed == 0..Output \cup 0..Buffered
Counts == [given : 0..Body, eaten : 0..Body, printed : Printed, got : Printed]

Held(o) == o \in files \/ \E d \in Conns : o \in holds[d]

Init ==
    /\ request \in [Conns -> Requests]
    /\ left = [c \in Conns |-> FALSE]
    /\ mpc = "accept"
    /\ client_sock = NoConn
    /\ pc = [c \in Conns |-> "none"]
    /\ child = [c \in Conns |-> "none"]
    /\ files = {}
    /\ holds = [c \in Conns |-> {}]
    /\ io = [c \in Conns |-> [given |-> 0, eaten |-> 0, printed |-> 0, got |-> 0]]
    /\ answer = [c \in Conns |-> <<>>]
    /\ process = "up"

At(c, where) == process = "up" /\ pc[c] = where
Goto(c, where) == pc' = [pc EXCEPT ![c] = where]
Send(c, msg) == answer' = [answer EXCEPT ![c] = @ \o msg]
Count(c, field) == io' = [io EXCEPT ![c][field] = @ + 1]

(* The process ends. *)
End(fate) ==
    /\ process' = fate
    /\ UNCHANGED <<clients, main, pc, child, files, holds, io, answer>>

-----------------------------------------------------------------------------
(* main11() *)

Accept(c) ==
    /\ process = "up" /\ mpc = "accept"
    /\ pc[c] = "none"
    /\ files' = files \cup Ends(c, {"sock"})
    /\ client_sock' = c
    /\ mpc' = "create"
    /\ Goto(c, "accepted")
    /\ UNCHANGED <<clients, child, holds, io, answer, process>>

(* error_die("accept") *)
AcceptFails ==
    /\ process = "up" /\ mpc = "accept"
    /\ "accept" \in Failing
    /\ End("exited")

(* pthread_create(..., &client_sock).  When it fails the connection stays    *)
(* open and nobody serves it.                                                *)
Create ==
    /\ process = "up" /\ mpc = "create"
    /\ \/ Goto(client_sock, "start")
       \/ "thread" \in Failing /\ Goto(client_sock, "orphan")
    /\ mpc' = "accept"
    /\ UNCHANGED <<clients, client_sock, child, files, holds, io, answer, process>>

-----------------------------------------------------------------------------
(* accept_request() *)

(* The argument of the thread points to client_sock.  Nothing more is said of a *)
(* process in which a thread took another's connection.                        *)
Start(c) ==
    /\ At(c, "start")
    /\ IF client_sock = c
         THEN /\ Goto(c, "route")
              /\ UNCHANGED <<clients, main, child, files, holds, io, answer, process>>
         ELSE End("misrouted")

(* An answer that needs no script, and where the thread goes on after it. *)
Reply(c, msg, next) ==
    /\ Send(c, msg)
    /\ Goto(c, next)
    /\ UNCHANGED <<clients, main, child, files, holds, io, process>>

(* unimplemented() is followed by a bare return: no close(). *)
Unimplemented(c) == Reply(c, <<"501">>, "done")
NotFound(c) == Reply(c, <<"404">>, "close")
BadRequest(c) == Reply(c, <<"400">>, "close")

Headers == <<"200">>
ServeFile(c) == Reply(c, Headers, "cat")

(* A client that has gone may leave nothing to read: no method. *)
Read(c) == {request[c]} \cup (IF left[c] THEN {"other"} ELSE {})

Route(c) ==
    /\ At(c, "route")
    /\ \E kind \in Read(c) :
         \/ kind = "other" /\ Unimplemented(c)
         \/ kind = "missing" /\ NotFound(c)
         \/ kind = "noLength" /\ BadRequest(c)
         \/ kind \in Pages /\ ServeFile(c)
         \/ kind \in Scripts \cup NoScripts /\ Reply(c, <<>>, "pipe")

(* serve_file() of a file it cannot open ends with fclose(NULL). *)
OpenFails(c) ==
    /\ At(c, "route")
    /\ request[c] \in Pages /\ "fopen" \in Failing
    /\ End("crashed")

(* feof() after the fgets() of cat() that follows what was sent: it is true   *)
(* once fgets() found nothing, and also when it read a last line without a    *)
(* newline, which is therefore not sent.                                      *)
Feof(c) == IF request[c] = "cutPage" THEN Len(answer[c]) >= Lines
                                     ELSE Len(answer[c]) > Lines

Cat(c) ==
    /\ At(c, "cat")
    /\ IF Feof(c) THEN Reply(c, <<>>, "close") ELSE Reply(c, <<"line">>, "cat")

Close(c) ==
    /\ At(c, "close")
    /\ files' = files \ Ends(c, {"sock"})
    /\ Goto(c, "done")
    /\ UNCHANGED <<clients, main, child, holds, io, answer, process>>

-----------------------------------------------------------------------------
(* execute_cgi(), the parent *)

(* What is open by then is left open. *)
CannotExecute(c) == Reply(c, <<"500">>, "close")

Pipe(c, from, to, ends) ==
    /\ At(c, from)
    /\ \/ "pipe" \in Failing /\ CannotExecute(c)
       \/ /\ files' = files \cup Ends(c, ends)
          /\ Goto(c, to)
          /\ UNCHANGED <<clients, main, child, holds, io, answer, process>>

(* The child begins with a copy of every descriptor; the status line of the  *)
(* parent goes out.                                                          *)
Fork(c) ==
    /\ At(c, "fork")
    /\ \/ "fork" \in Failing /\ CannotExecute(c)
       \/ /\ child' = [child EXCEPT ![c] = "begin"]
          /\ holds' = [holds EXCEPT ![c] = files]
          /\ Send(c, <<"200">>)
          /\ Goto(c, "closeEnds")
          /\ UNCHANGED <<clients, main, files, io, process>>

(* Mutant: the parent keeps its writing end of the child's output. *)
Mut_ChildEnds == {"inR"}
ChildEnds == {"outW", "inR"}

CloseEnds(c) ==
    /\ At(c, "closeEnds")
    /\ files' = files \ Ends(c, ChildEnds)
    /\ Goto(c, "write")
    /\ UNCHANGED <<clients, main, child, holds, io, answer, process>>

BodyOf(c) == IF request[c] \in Posts THEN Body ELSE 0

(* Mutant: one byte too many (i <= content_length). *)
Mut_MoreBody(c) == io[c].given <= BodyOf(c)
MoreBody(c) == io[c].given < BodyOf(c)

(* One byte of the body to the child; it waits while the pipe is full, and    *)
(* SIGPIPE ends the server when nobody can read it.                           *)
WriteBody(c) ==
    /\ At(c, "write") /\ MoreBody(c)
    /\ IF Held(<<c, "inR">>)
         THEN /\ io[c].given - io[c].eaten < PipeSize
              /\ Count(c, "given")
              /\ UNCHANGED <<clients, main, pc, child, files, holds, answer, process>>
         ELSE End("killed")

BodyWritten(c) ==
    /\ At(c, "write") /\ ~MoreBody(c)
    /\ Goto(c, "read")
    /\ UNCHANGED <<clients, main, child, files, holds, io, answer, process>>

ForwardOutput(c) ==
    /\ At(c, "read") /\ io[c].got < io[c].printed
    /\ Count(c, "got")
    /\ Send(c, <<"out">>)
    /\ UNCHANGED <<clients, main, pc, child, files, holds, process>>

(* Mutant: a pipe that is empty is taken for one that has ended. *)
Mut_AtEnd(c) == io[c].got = io[c].printed

(* read() returns 0: nothing is in the pipe and nobody can write to it. *)
AtEnd(c) == io[c].got = io[c].printed /\ ~Held(<<c, "outW">>)

(* Mutant: the second close() names the wrong end. *)
Mut_ParentEnds == {"outR", "outW"}
ParentEnds == {"outR", "inW"}

EndOfOutput(c) ==
    /\ At(c, "read") /\ AtEnd(c)
    /\ files' = files \ Ends(c, ParentEnds)
    /\ Goto(c, "wait")
    /\ UNCHANGED <<clients, main, child, holds, io, answer, process>>

WaitPid(c) ==
    /\ At(c, "wait") /\ child[c] = "gone"
    /\ Goto(c, "close")
    /\ UNCHANGED <<clients, main, child, files, holds, io, answer, process>>

-----------------------------------------------------------------------------
(* execute_cgi(), the child; the process outlives the server. *)

Exit(c) ==
    /\ child' = [child EXCEPT ![c] = "gone"]
    /\ holds' = [holds EXCEPT ![c] = {}]

(* Mutant: the child closes the ends it has to keep. *)
Mut_OtherEnds == {"outR", "inR"}
OtherEnds == {"outR", "inW"}

(* The status line again; then the script runs, or execl() fails and the     *)
(* child exits, which flushes what it inherited in the buffer of stdout into  *)
(* the pipe.  A client that has gone may kill it first.                       *)
ChildBegins(c) ==
    /\ child[c] = "begin"
    /\ \/ /\ request[c] \in Scripts
          /\ Send(c, <<"200">>)
          /\ child' = [child EXCEPT ![c] = "script"]
          /\ holds' = [holds EXCEPT ![c] = @ \ Ends(c, OtherEnds)]
          /\ UNCHANGED io
       \/ /\ request[c] \in NoScripts
          /\ Send(c, <<"200">>)
          /\ io' = [io EXCEPT ![c].printed = Buffered]
          /\ Exit(c)
       \/ left[c] /\ Exit(c) /\ UNCHANGED <<answer, io>>
    /\ UNCHANGED <<clients, main, pc, files, process>>

(* The scripts of htdocs read the whole body, then print, then exit. *)
ScriptReads(c) ==
    /\ child[c] = "script" /\ io[c].eaten < io[c].given
    /\ Count(c, "eaten")
    /\ UNCHANGED <<clients, main, pc, child, files, holds, answer, process>>

ScriptPrints(c) ==
    /\ child[c] = "script" /\ io[c].eaten = BodyOf(c)
    /\ io[c].printed < Output /\ io[c].printed - io[c].got < PipeSize
    /\ Count(c, "printed")
    /\ UNCHANGED <<clients, main, pc, child, files, holds, answer, process>>

ScriptExits(c) ==
    /\ child[c] = "script" /\ io[c].eaten = BodyOf(c)
    /\ io[c].printed = Output
    /\ Exit(c)
    /\ UNCHANGED <<clients, main, pc, files, io, answer, process>>

-----------------------------------------------------------------------------
(* A client goes before its connection is closed. *)
Leave(c) ==
    /\ c \in Leaving /\ ~left[c]
    /\ <<c, "sock">> \in files
    /\ left' = [left EXCEPT ![c] = TRUE]
    /\ UNCHANGED <<request, main, pc, child, files, holds, io, answer, process>>

(* SIGPIPE: a thread sends to a client that has gone. *)
SendFails(c) ==
    /\ left[c]
    /\ \/ \E where \in {"route", "pipe", "pipe2", "fork"} : At(c, where)
       \/ At(c, "cat") /\ ~Feof(c)
       \/ At(c, "read") /\ io[c].got < io[c].printed
    /\ End("killed")

Thread(c) ==
    \/ Start(c) \/ Route(c) \/ OpenFails(c) \/ Cat(c) \/ Close(c)
    \/ Pipe(c, "pipe", "pipe2", {"outR", "outW"})
    \/ Pipe(c, "pipe2", "fork", {"inR", "inW"})
    \/ Fork(c) \/ CloseEnds(c) \/ WriteBody(c) \/ BodyWritten(c)
    \/ ForwardOutput(c) \/ EndOfOutput(c) \/ WaitPid(c) \/ SendFails(c)
Child(c) == ChildBegins(c) \/ ScriptReads(c) \/ ScriptPrints(c) \/ ScriptExits(c)

Next ==
    \/ \E c \in Conns : Accept(c) \/ Thread(c) \/ Child(c) \/ Leave(c)
    \/ AcceptFails \/ Create

Spec == Init /\ [][Next]_vars

(* The scheduler runs every thread and every process that can run; clients    *)
(* owe nothing.                                                               *)
Fairness ==
    /\ WF_vars(Create)
    /\ \A c \in Conns : WF_vars(Thread(c)) /\ WF_vars(Child(c))

FairSpec == Spec /\ Fairness

-----------------------------------------------------------------------------
(* Properties *)

(* Every variable has its type. *)
TypeOK ==
    /\ request \in [Conns -> Kinds] /\ left \in [Conns -> BOOLEAN]
    /\ mpc \in {"accept", "create"}
    /\ client_sock \in Conns \cup {NoConn}
    /\ pc \in [Conns -> ThreadPCs]
    /\ child \in [Conns -> ChildPCs]
    /\ files \subseteq Objects
    /\ holds \in [Conns -> SUBSET Objects]
    /\ io \in [Conns -> Counts]
    /\ answer \in [Conns -> Seq(Texts)]
    /\ process \in Fates

(* A request that was answered leaves nothing open in the server: neither a  *)
(* pipe nor the connection, although threads fork() in between.  After "500" *)
(* the pipes and after "501" the connection stay open.                       *)
NothingLeftOpen ==
    \A c \in Conns, what \in {"sock", "outR", "outW", "inR", "inW"} :
        pc[c] = "done" /\ <<c, what>> \in files =>
            answer[c] \in {<<"500">>, <<"501">>}

(* SIGPIPE ends the server only for a client that has gone or a POST to a    *)
(* file that is no script: a script has its input open until it has read all *)
(* of the body, whatever other threads fork() or close().                    *)
KilledForAReason ==
    process = "killed" => \E c \in Conns : left[c] \/ request[c] = "postPage"

(* All that is ever sent for a request.  The status line of a script's output *)
(* comes twice, from the parent and from the child, and first; a file that    *)
(* cannot be executed leaves what the child flushed; of a page the last line  *)
(* is missing when it has no newline.                                         *)
FromScript(n) == <<"200", "200">> \o [i \in 1..n |-> "out"]
FromFile(n) == <<"200">> \o [i \in 1..n |-> "line"]
Whole == [page |-> {FromFile(Lines)}, cutPage |-> {FromFile(Lines - 1)},
          missing |-> {<<"404">>}, noLength |-> {<<"400">>}, other |-> {<<"501">>},
          get |-> {<<"500">>, FromScript(Output)},
          post |-> {<<"500">>, FromScript(Output)},
          getPage |-> {<<"500">>, FromScript(Buffered)},
          postPage |-> {<<"500">>, FromScript(Buffered)}]

(* A connection as its client sees it, up to the end of the server. *)
connPhase == [c \in Conns |->
    IF pc[c] = "none" THEN "new"
    ELSE IF <<c, "sock">> \notin files THEN "closed"
    ELSE IF left[c] THEN "reset"
    ELSE IF answer[c] \in Whole[request[c]] THEN "answered" ELSE "open"]
isStopping == process # "up"

Promise == INSTANCE Connections WITH phase <- connPhase, stopping <- isStopping

(* The server keeps the promise of Connections: it closes a connection only   *)
(* after all that its code has to send for the request, and sends nothing     *)
(* after it, although a script's output passes through a pipe that other      *)
(* children inherit and the status line has two senders.  That this is the    *)
(* entire file (simHttp.cpp:157) is not said: Whole leaves out a last line     *)
(* without a newline, as cat() does.                                          *)
ImplementsConnections == Promise!Spec

(* A client sees the end of its answer: in the end nobody holds its           *)
(* connection, not even a child that inherited it, unless the request was     *)
(* none this server knows, the client has gone or the process has ended.      *)
ClientSeesEnd ==
    \A c \in Conns :
        pc[c] = "start" /\ request[c] # "other" ~>
            ~Held(<<c, "sock">>) \/ left[c] \/ process # "up"

-----------------------------------------------------------------------------
(* What the comments of the code say of it. *)

(* simHttp.cpp:50-52, accept_request(): the thread processes the request of  *)
(* the client whose connection was accepted.                                 *)
OwnClient == process # "misrouted"
=============================================================================
