-------------------------- MODULE SimHttp_proofs --------------------------
(* Proofs about the thread-per-connection server, for any clients, any      *)
(* length of body, output and pages, pipes of any size and any calls that   *)
(* fail.                                                                    *)
(* The inductive invariant says, for each connection, which of its          *)
(* descriptors the server has open, what its script holds and has moved,    *)
(* and what its client was sent.                                            *)
EXTENDS SimHttp, SequenceTheorems, TLAPS

Early == {"none", "accepted", "orphan", "start", "route", "pipe", "pipe2", "fork"}
Running == {"closeEnds", "write", "read", "wait"}

Opened(c, what) == <<c, what>> \in files

(* What the server has open for a connection. *)
Descriptors(c) ==
    /\ pc[c] = "none" => ~Opened(c, "sock")
    /\ pc[c] \in {"none", "accepted", "start", "route", "cat", "pipe", "wait"} =>
         \A what \in {"outR", "outW", "inR", "inW"} : ~Opened(c, what)
    /\ pc[c] = "pipe2" => Opened(c, "outW") /\ ~Opened(c, "inR") /\ ~Opened(c, "inW")
    /\ pc[c] \notin {"none", "done"} => Opened(c, "sock")
    /\ pc[c] = "fork" => Opened(c, "inR") /\ Opened(c, "outW")
    /\ pc[c] \in {"write", "read"} => ~Opened(c, "inR") /\ ~Opened(c, "outW")
    /\ pc[c] = "close" /\ answer[c] # <<"500">> =>
         \A what \in {"outR", "outW", "inR", "inW"} : ~Opened(c, what)
    /\ pc[c] = "done" /\ answer[c] \notin {<<"500">>, <<"501">>} =>
         \A what \in {"sock", "outR", "outW", "inR", "inW"} : ~Opened(c, what)

(* How much its child prints, and how much of a page cat() sends. *)
Total(c) == IF request[c] \in Scripts THEN Output ELSE Buffered
Shown(c) == IF request[c] = "cutPage" THEN Lines - 1 ELSE Lines

(* What its script holds, and how many bytes it and the thread have moved. *)
Process(c) ==
    /\ pc[c] \in Early \cup {"cat"} => child[c] = "none"
    /\ pc[c] \in Running => child[c] # "none"
    /\ child[c] \in {"begin", "script"} =>
         /\ pc[c] \in {"closeEnds", "write", "read"}
         /\ <<c, "inR">> \in holds[c] /\ <<c, "outW">> \in holds[c]
    /\ child[c] \in {"none", "begin"} => io[c].printed = 0 /\ io[c].got = 0
    /\ child[c] = "script" => request[c] \in Scripts
    /\ io[c].eaten <= io[c].given /\ io[c].given <= BodyOf(c)
    /\ io[c].got <= io[c].printed /\ io[c].printed <= Total(c)
    /\ child[c] = "gone" /\ ~left[c] =>
         /\ io[c].printed = Total(c)
         /\ request[c] \in Scripts => io[c].eaten = BodyOf(c)

(* What its client was sent. *)
Answer(c) ==
    /\ pc[c] = "none" => ~left[c]
    /\ pc[c] \in Early => answer[c] = <<>>
    /\ pc[c] \in {"pipe", "pipe2", "fork"} \cup Running =>
         request[c] \in Scripts \cup NoScripts
    /\ pc[c] = "cat" =>
         /\ request[c] \in Pages
         /\ \E n \in 0..Shown(c) : answer[c] = FromFile(n)
    /\ child[c] = "begin" => answer[c] = <<"200">>
    /\ child[c] = "script" => answer[c] = FromScript(io[c].got)
    /\ child[c] = "gone" => left[c] \/ answer[c] = FromScript(io[c].got)
    /\ pc[c] = "wait" => child[c] = "gone" /\ io[c].got = io[c].printed
    /\ pc[c] = "close" => left[c] \/ answer[c] \in Whole[request[c]]

Local(c) == Descriptors(c) /\ Process(c) /\ Answer(c)
AllLocal == \A c \in Conns : Local(c)

(* Between accept() and pthread_create() the loop has one connection in hand. *)
Main == mpc = "create" => client_sock \in Conns /\ pc[client_sock] = "accepted"

IInv == TypeOK /\ AllLocal /\ Main /\ KilledForAReason

-----------------------------------------------------------------------------
(* What a step may do to a connection.  The lemmas on the steps say which of *)
(* these each action is; the invariants are then about one connection.       *)
SameScript(c) == child'[c] = child[c] /\ io'[c] = io[c] /\ holds'[c] = holds[c]
SameClient(c) == request'[c] = request[c] /\ left'[c] = left[c]
SameFiles(c) == \A what : Opened(c, what)' <=> Opened(c, what)
Moves(c, from, to) == pc[c] = from /\ pc'[c] = to
Untouched(c) ==
    /\ pc'[c] = pc[c] /\ answer'[c] = answer[c]
    /\ SameScript(c) /\ SameClient(c) /\ SameFiles(c)
Others(c) == \A d \in Conns : d # c => Untouched(d)

(* A thread goes on, or sends something and goes on. *)
Goes(c, from, to) ==
    Moves(c, from, to) /\ answer'[c] = answer[c] /\ SameScript(c) /\ SameClient(c)
Replies(c, msg, from, to) ==
    /\ Moves(c, from, to) /\ answer'[c] = answer[c] \o msg
    /\ SameScript(c) /\ SameClient(c) /\ SameFiles(c)

(* The script of a connection does something. *)
Steps(c) == pc'[c] = pc[c] /\ SameClient(c) /\ SameFiles(c)

(* The effect of each action on its connection. *)
CountsOne(c, field) ==
    \A other \in {"given", "eaten", "printed", "got"} :
        io'[c][other] = IF other = field THEN io[c][other] + 1 ELSE io[c][other]

-----------------------------------------------------------------------------
(* Facts about the messages. *)

LEMMA Messages ==
    /\ <<>> \in Seq(Texts) /\ <<"200">> \in Seq(Texts) /\ <<"500">> \in Seq(Texts)
    /\ <<"501">> \in Seq(Texts) /\ <<"404">> \in Seq(Texts) /\ <<"400">> \in Seq(Texts)
    /\ <<"line">> \in Seq(Texts) /\ <<"out">> \in Seq(Texts)
<1>1. <<>> \in Seq(Texts)
  BY EmptySeq
<1> QED
  BY <1>1 DEF Texts

LEMMA FirstMessage ==
    ASSUME NEW msg \in Seq(Texts)
    PROVE  <<>> \o msg = msg /\ msg \o <<>> = msg
  BY ConcatEmptySeq

(* An answer that begins with some messages and goes on with a number of one *)
(* and the same: its pieces can be counted, and it grows by one at a time.   *)
LEMMA Pieces ==
    ASSUME NEW start \in Seq(Texts), NEW piece \in Texts, NEW m \in Nat
    PROVE  /\ start \o [i \in 1..m |-> piece] \in Seq(Texts)
           /\ Len(start \o [i \in 1..m |-> piece]) = Len(start) + m
           /\ \A i \in 1..(Len(start) + m) : (start \o [j \in 1..m |-> piece])[i]
                 = IF i <= Len(start) THEN start[i] ELSE piece
<1> DEFINE tail == [i \in 1..m |-> piece]
<1>1. tail \in Seq(Texts) /\ Len(tail) = m /\ \A i \in 1..m : tail[i] = piece
  OBVIOUS
<1> HIDE DEF tail
<1>2. /\ start \o tail \in Seq(Texts)
      /\ Len(start \o tail) = Len(start) + m
      /\ \A i \in 1..(Len(start) + m) : (start \o tail)[i]
            = IF i <= Len(start) THEN start[i] ELSE tail[i - Len(start)]
  BY <1>1, ConcatProperties
<1>3. ASSUME NEW i \in 1..(Len(start) + m), ~(i <= Len(start)) PROVE i - Len(start) \in 1..m
  BY <1>3, LenProperties
<1>4. \A i \in 1..(Len(start) + m) : (start \o tail)[i]
         = IF i <= Len(start) THEN start[i] ELSE piece
  BY <1>1, <1>2, <1>3
<1> QED
  BY <1>2, <1>4 DEF tail

LEMMA Joined ==
    ASSUME NEW a \in Seq(Texts), NEW b \in Seq(Texts), NEW piece \in Texts, NEW n \in Nat,
           Len(a) = n, Len(b) = n + 1, \A i \in 1..n : b[i] = a[i], b[n + 1] = piece
    PROVE  a \o <<piece>> = b
<1> DEFINE last == <<piece>>
<1>1. last \in Seq(Texts) /\ Len(last) = 1 /\ last[1] = piece
  OBVIOUS
<1> HIDE DEF last
<1>2. /\ a \o last \in Seq(Texts)
      /\ Len(a \o last) = n + 1
      /\ \A i \in 1..(n + 1) : (a \o last)[i] = IF i <= n THEN a[i] ELSE last[i - n]
  <2>1. /\ a \o last \in Seq(Texts)
        /\ Len(a \o last) = Len(a) + Len(last)
        /\ \A i \in 1..(Len(a) + Len(last)) : (a \o last)[i]
              = IF i <= Len(a) THEN a[i] ELSE last[i - Len(a)]
    BY <1>1, ConcatProperties
  <2> QED
    BY <1>1, <2>1
<1>3. ASSUME NEW i \in 1..(n + 1) PROVE (a \o last)[i] = b[i]
  <2>1. CASE i <= n
    BY <1>2, <2>1
  <2>2. CASE i = n + 1
    BY <1>1, <1>2, <2>2
  <2>3. i <= n \/ i = n + 1
    OBVIOUS
  <2> QED
    BY <2>1, <2>2, <2>3, Zenon
<1>4. a \o last = b
  BY <1>2, <1>3, SeqEqual
<1> QED
  BY <1>4 DEF last

LEMMA Script ==
    ASSUME NEW n \in Nat
    PROVE  /\ FromScript(n) \in Seq(Texts)
           /\ Len(FromScript(n)) = n + 2
           /\ FromScript(n) \o <<"out">> = FromScript(n + 1)
<1>1. /\ <<"200", "200">> \in Seq(Texts) /\ Len(<<"200", "200">>) = 2 /\ "out" \in Texts
      /\ n + 1 \in Nat
  BY DEF Texts
<1>2. /\ FromScript(n) \in Seq(Texts) /\ Len(FromScript(n)) = Len(<<"200", "200">>) + n
      /\ FromScript(n + 1) \in Seq(Texts) /\ Len(FromScript(n + 1)) = Len(<<"200", "200">>) + (n + 1)
      /\ \A i \in 1..(Len(<<"200", "200">>) + n) : FromScript(n)[i]
            = IF i <= Len(<<"200", "200">>) THEN <<"200", "200">>[i] ELSE "out"
      /\ \A i \in 1..(Len(<<"200", "200">>) + (n + 1)) : FromScript(n + 1)[i]
            = IF i <= Len(<<"200", "200">>) THEN <<"200", "200">>[i] ELSE "out"
  BY <1>1, Pieces DEF FromScript
<1>3. /\ Len(FromScript(n)) = n + 2 /\ Len(FromScript(n + 1)) = n + 2 + 1
      /\ \A i \in 1..(n + 2) : FromScript(n + 1)[i] = FromScript(n)[i]
      /\ FromScript(n + 1)[n + 2 + 1] = "out"
  BY <1>1, <1>2
<1>4. FromScript(n) \o <<"out">> = FromScript(n + 1)
  BY <1>1, <1>2, <1>3, Joined
<1> QED
  BY <1>2, <1>3, <1>4

LEMMA File ==
    ASSUME NEW n \in Nat
    PROVE  /\ FromFile(n) \in Seq(Texts)
           /\ Len(FromFile(n)) = n + 1
           /\ FromFile(n) \o <<"line">> = FromFile(n + 1)
<1>1. /\ <<"200">> \in Seq(Texts) /\ Len(<<"200">>) = 1 /\ "line" \in Texts
      /\ n + 1 \in Nat
  BY DEF Texts
<1>2. /\ FromFile(n) \in Seq(Texts) /\ Len(FromFile(n)) = Len(<<"200">>) + n
      /\ FromFile(n + 1) \in Seq(Texts) /\ Len(FromFile(n + 1)) = Len(<<"200">>) + (n + 1)
      /\ \A i \in 1..(Len(<<"200">>) + n) : FromFile(n)[i]
            = IF i <= Len(<<"200">>) THEN <<"200">>[i] ELSE "line"
      /\ \A i \in 1..(Len(<<"200">>) + (n + 1)) : FromFile(n + 1)[i]
            = IF i <= Len(<<"200">>) THEN <<"200">>[i] ELSE "line"
  BY <1>1, Pieces DEF FromFile
<1>3. /\ Len(FromFile(n)) = n + 1 /\ Len(FromFile(n + 1)) = n + 1 + 1
      /\ \A i \in 1..(n + 1) : FromFile(n + 1)[i] = FromFile(n)[i]
      /\ FromFile(n + 1)[n + 1 + 1] = "line"
  BY <1>1, <1>2
<1>4. FromFile(n) \o <<"line">> = FromFile(n + 1)
  BY <1>1, <1>2, <1>3, Joined
<1> QED
  BY <1>2, <1>3, <1>4

LEMMA NoOutput == <<"200">> \o <<"200">> = FromScript(0) /\ <<"200">> = FromFile(0)
  BY DEF FromScript, FromFile

(* The whole answers to each kind of request. *)
LEMMA WholeIs ==
    /\ Whole["page"] = {FromFile(Lines)}
    /\ Whole["cutPage"] = {FromFile(Lines - 1)}
    /\ Whole["missing"] = {<<"404">>}
    /\ Whole["noLength"] = {<<"400">>}
    /\ Whole["other"] = {<<"501">>}
    /\ \A k \in Scripts : Whole[k] = {<<"500">>, FromScript(Output)}
    /\ \A k \in NoScripts : Whole[k] = {<<"500">>, FromScript(Buffered)}
  BY DEF Whole, Scripts, NoScripts

-----------------------------------------------------------------------------
(* What the helpers of the model do. *)

LEMMA Sent ==
    ASSUME TypeOK, NEW c \in Conns, NEW msg \in Seq(Texts), Send(c, msg)
    PROVE  /\ answer' \in [Conns -> Seq(Texts)]
           /\ answer'[c] = answer[c] \o msg
           /\ \A d \in Conns : d # c => answer'[d] = answer[d]
  BY DEF TypeOK, Send

LEMMA Counted ==
    ASSUME TypeOK, NEW c \in Conns,
           NEW field \in {"given", "eaten", "printed", "got"}, Count(c, field)
    PROVE  /\ \A d \in Conns : d # c => io'[d] = io[d]
           /\ CountsOne(c, field)
           /\ io[c][field] + 1 \in (IF field \in {"given", "eaten"} THEN 0..Body ELSE Printed)
                => io' \in [Conns -> Counts]
  BY SimAssumption DEF TypeOK, Count, Counts, CountsOne

LEMMA Numbers ==
    ASSUME TypeOK, NEW c \in Conns
    PROVE  /\ io[c].given \in Nat /\ io[c].eaten \in Nat
           /\ io[c].printed \in Nat /\ io[c].got \in Nat
           /\ io[c].given <= Body /\ io[c].printed \in Printed
           /\ BodyOf(c) \in Nat /\ BodyOf(c) <= Body
           /\ Output \in Nat /\ Buffered \in Nat /\ Total(c) \in Nat
  BY SimAssumption DEF TypeOK, Counts, Printed, BodyOf, Total

LEMMA OpenMore ==
    ASSUME NEW c \in Conns, NEW ends, files' = files \cup Ends(c, ends)
    PROVE  /\ \A what : Opened(c, what)' <=> Opened(c, what) \/ what \in ends
           /\ \A d \in Conns : d # c => SameFiles(d)
  BY DEF Opened, Ends, SameFiles

LEMMA OpenLess ==
    ASSUME NEW c \in Conns, NEW ends, files' = files \ Ends(c, ends)
    PROVE  /\ \A what : Opened(c, what)' <=> Opened(c, what) /\ what \notin ends
           /\ \A d \in Conns : d # c => SameFiles(d)
  BY DEF Opened, Ends, SameFiles

LEMMA Replied ==
    ASSUME TypeOK, NEW c \in Conns, NEW msg \in Seq(Texts),
           NEW from \in ThreadPCs, NEW next \in ThreadPCs,
           pc[c] = from, Reply(c, msg, next)
    PROVE  TypeOK' /\ Others(c) /\ Replies(c, msg, from, next) /\ process' = process
<1>1. /\ answer' \in [Conns -> Seq(Texts)]
      /\ answer'[c] = answer[c] \o msg
      /\ \A d \in Conns : d # c => answer'[d] = answer[d]
  BY Sent DEF Reply
<1>2. pc' = [pc EXCEPT ![c] = next] /\ UNCHANGED <<clients, main, child, files, holds, io, process>>
  BY DEF Reply, Goto
<1> QED
  BY <1>1, <1>2 DEF TypeOK, Others, Untouched, Replies, Moves, SameScript, SameClient,
     SameFiles, Opened, clients, main

-----------------------------------------------------------------------------
(* What each action does to its connection, and that it leaves the others    *)
(* alone.                                                                     *)

LEMMA EndDoes ==
    ASSUME TypeOK, NEW fate \in Fates, End(fate)
    PROVE  TypeOK' /\ process' = fate /\ main' = main /\ \A d \in Conns : Untouched(d)
  BY DEF End, TypeOK, At, Goto, clients, main, Objects, ThreadPCs, ChildPCs, Fates, Others,
     Untouched, SameScript, SameClient, SameFiles, Moves, Goes, Steps, Opened

LEMMA AcceptDoes ==
    ASSUME TypeOK, NEW c \in Conns, Accept(c)
    PROVE  /\ TypeOK' /\ Others(c) /\ process' = process
           /\ Goes(c, "none", "accepted")
           /\ \A what : Opened(c, what)' <=> Opened(c, what) \/ what = "sock"
           /\ mpc' = "create" /\ client_sock' = c
<1>1. files' = files \cup Ends(c, {"sock"}) /\ files' \subseteq Objects
  BY DEF Accept, Ends, TypeOK, Objects
<1>2. /\ \A what : Opened(c, what)' <=> Opened(c, what) \/ what \in {"sock"}
      /\ \A d \in Conns : d # c => SameFiles(d)
  BY <1>1, OpenMore
<1> QED
  BY <1>1, <1>2 DEF Accept, TypeOK, At, Goto, clients, main, Objects, ThreadPCs, ChildPCs,
     Fates, Others, Untouched, SameScript, SameClient, Moves, Goes, Steps

LEMMA StartDoes ==
    ASSUME TypeOK, NEW c \in Conns, Start(c)
    PROVE  \/ TypeOK' /\ Others(c) /\ process' = process /\ main' = main /\ Goes(c, "start", "route") /\ SameFiles(c)
           \/ End("misrouted")
  BY DEF Start, TypeOK, At, Goto, clients, main, Objects, ThreadPCs, ChildPCs, Fates, Others,
     Untouched, SameScript, SameClient, SameFiles, Moves, Goes, Steps, Opened

LEMMA RouteDoes ==
    ASSUME TypeOK, NEW c \in Conns, Route(c)
    PROVE  /\ TypeOK' /\ Others(c) /\ process' = process /\ main' = main
           /\ \E kind \in Read(c) :
                \/ kind = "other" /\ Replies(c, <<"501">>, "route", "done")
                \/ kind = "missing" /\ Replies(c, <<"404">>, "route", "close")
                \/ kind = "noLength" /\ Replies(c, <<"400">>, "route", "close")
                \/ kind \in Pages /\ Replies(c, <<"200">>, "route", "cat")
                \/ kind \in Scripts \cup NoScripts /\ Replies(c, <<>>, "route", "pipe")
<1>1. pc[c] = "route" /\ {"route", "done", "close", "cat", "pipe"} \subseteq ThreadPCs
  BY DEF Route, At, ThreadPCs
<1>2. PICK kind \in Read(c) :
         \/ kind = "other" /\ Reply(c, <<"501">>, "done")
         \/ kind = "missing" /\ Reply(c, <<"404">>, "close")
         \/ kind = "noLength" /\ Reply(c, <<"400">>, "close")
         \/ kind \in Pages /\ Reply(c, <<"200">>, "cat")
         \/ kind \in Scripts \cup NoScripts /\ Reply(c, <<>>, "pipe")
  BY DEF Route, Unimplemented, NotFound, BadRequest, ServeFile, Headers
<1>3. \A msg \in Seq(Texts), next \in {"done", "close", "cat", "pipe"} :
         Reply(c, msg, next) =>
             TypeOK' /\ Others(c) /\ process' = process /\ main' = main /\ Replies(c, msg, "route", next)
  BY <1>1, Replied DEF Reply
<1> QED
  BY <1>2, <1>3, Messages

LEMMA CatDoes ==
    ASSUME TypeOK, NEW c \in Conns, Cat(c)
    PROVE  /\ TypeOK' /\ Others(c) /\ process' = process /\ main' = main
           /\ \/ Feof(c) /\ Replies(c, <<>>, "cat", "close")
              \/ ~Feof(c) /\ Replies(c, <<"line">>, "cat", "cat")
<1>1. pc[c] = "cat" /\ {"cat", "close"} \subseteq ThreadPCs
  BY DEF Cat, At, ThreadPCs
<1>2. CASE Feof(c)
  BY <1>1, <1>2, Replied, Messages DEF Cat, Reply
<1>3. CASE ~Feof(c)
  BY <1>1, <1>3, Replied, Messages DEF Cat, Reply
<1> QED
  BY <1>2, <1>3

LEMMA CloseDoes ==
    ASSUME TypeOK, NEW c \in Conns, Close(c)
    PROVE  /\ TypeOK' /\ Others(c) /\ process' = process /\ main' = main
           /\ Goes(c, "close", "done")
           /\ \A what : Opened(c, what)' <=> Opened(c, what) /\ what # "sock"
<1>1. files' = files \ Ends(c, {"sock"}) /\ files' \subseteq Objects
  BY DEF Close, Ends, TypeOK, Objects
<1>2. /\ \A what : Opened(c, what)' <=> Opened(c, what) /\ what \notin {"sock"}
      /\ \A d \in Conns : d # c => SameFiles(d)
  BY <1>1, OpenLess
<1> QED
  BY <1>1, <1>2 DEF Close, TypeOK, At, Goto, clients, main, Objects, ThreadPCs, ChildPCs,
     Fates, Others, Untouched, SameScript, SameClient, Moves, Goes, Steps

LEMMA PipeDoes ==
    ASSUME TypeOK, NEW c \in Conns, 
           NEW from \in ThreadPCs, NEW to \in ThreadPCs,
           NEW ends \in SUBSET {"outR", "outW", "inR", "inW"}, Pipe(c, from, to, ends)
    PROVE  /\ TypeOK' /\ Others(c) /\ process' = process /\ main' = main
           /\ \/ Replies(c, <<"500">>, from, "close")
              \/ Goes(c, from, to) /\ \A what : Opened(c, what)' <=> Opened(c, what) \/ what \in ends
<1>1. pc[c] = from /\ "close" \in ThreadPCs
  BY DEF Pipe, At, ThreadPCs
<1>2. CASE CannotExecute(c)
  BY <1>1, <1>2, Replied, Messages DEF CannotExecute, Reply
<1>3. CASE ~CannotExecute(c)
  <2>1. files' = files \cup Ends(c, ends) /\ files' \subseteq Objects
    BY <1>3 DEF Pipe, Ends, TypeOK, Objects
  <2>2. /\ \A what : Opened(c, what)' <=> Opened(c, what) \/ what \in ends
        /\ \A d \in Conns : d # c => SameFiles(d)
    BY <2>1, OpenMore
  <2>3. pc' = [pc EXCEPT ![c] = to] /\ UNCHANGED <<clients, main, child, holds, io, answer, process>>
    BY <1>3 DEF Pipe, Goto
  <2> QED
    BY <1>1, <2>1, <2>2, <2>3 DEF TypeOK, At, Goto, clients, main, Objects, ThreadPCs,
       ChildPCs, Fates, Others, Untouched, SameScript, SameClient, Moves, Goes, Steps
<1> QED
  BY <1>2, <1>3

LEMMA ForkDoes ==
    ASSUME TypeOK, NEW c \in Conns, Fork(c)
    PROVE  /\ TypeOK' /\ Others(c) /\ process' = process /\ main' = main
           /\ \/ Replies(c, <<"500">>, "fork", "close")
              \/ /\ Moves(c, "fork", "closeEnds")
                 /\ child'[c] = "begin" /\ holds'[c] = files /\ io'[c] = io[c]
                 /\ answer'[c] = answer[c] \o <<"200">>
                 /\ SameClient(c) /\ SameFiles(c)
<1>1. pc[c] = "fork" /\ {"fork", "close"} \subseteq ThreadPCs
  BY DEF Fork, At, ThreadPCs
<1>2. CASE CannotExecute(c)
  BY <1>1, <1>2, Replied, Messages DEF CannotExecute, Reply
<1>3. CASE ~CannotExecute(c)
  <2>1. /\ child' = [child EXCEPT ![c] = "begin"] /\ holds' = [holds EXCEPT ![c] = files]
        /\ Send(c, <<"200">>)
        /\ pc' = [pc EXCEPT ![c] = "closeEnds"]
        /\ UNCHANGED <<clients, main, files, io, process>>
    BY <1>3 DEF Fork, Goto
  <2>2. /\ answer' \in [Conns -> Seq(Texts)]
        /\ answer'[c] = answer[c] \o <<"200">>
        /\ \A d \in Conns : d # c => answer'[d] = answer[d]
    BY <2>1, Sent, Messages
  <2> QED
    BY <1>1, <2>1, <2>2 DEF TypeOK, At, Goto, clients, main, Objects, ThreadPCs, ChildPCs,
       Fates, Others, Untouched, SameScript, SameClient, SameFiles, Moves, Goes, Steps, Opened
<1> QED
  BY <1>2, <1>3

LEMMA CloseEndsDoes ==
    ASSUME TypeOK, NEW c \in Conns, CloseEnds(c)
    PROVE  /\ TypeOK' /\ Others(c) /\ process' = process /\ main' = main
           /\ Goes(c, "closeEnds", "write")
           /\ \A what : Opened(c, what)' <=> Opened(c, what) /\ what \notin {"outW", "inR"}
<1>1. files' = files \ Ends(c, {"outW", "inR"}) /\ files' \subseteq Objects
  BY DEF CloseEnds, ChildEnds, Ends, TypeOK, Objects
<1>2. /\ \A what : Opened(c, what)' <=> Opened(c, what) /\ what \notin {"outW", "inR"}
      /\ \A d \in Conns : d # c => SameFiles(d)
  BY <1>1, OpenLess
<1> QED
  BY <1>1, <1>2 DEF CloseEnds, TypeOK, At, Goto, clients, main, Objects, ThreadPCs, ChildPCs,
     Fates, Others, Untouched, SameScript, SameClient, Moves, Goes, Steps

LEMMA WriteBodyDoes ==
    ASSUME TypeOK, NEW c \in Conns, WriteBody(c)
    PROVE  /\ pc[c] = "write" /\ io[c].given < BodyOf(c)
           /\ \/ ~Held(<<c, "inR">>) /\ End("killed")
              \/ /\ TypeOK' /\ Others(c) /\ process' = process /\ main' = main
                 /\ Steps(c) /\ CountsOne(c, "given")
                 /\ child'[c] = child[c] /\ holds'[c] = holds[c] /\ answer'[c] = answer[c]
<1>1. pc[c] = "write" /\ io[c].given < BodyOf(c)
  BY DEF WriteBody, At, MoreBody
<1>2. CASE Held(<<c, "inR">>)
  <2>1. /\ Count(c, "given")
        /\ UNCHANGED <<clients, main, pc, child, files, holds, answer, process>>
    BY <1>2 DEF WriteBody
  <2>2. /\ \A d \in Conns : d # c => io'[d] = io[d]
        /\ CountsOne(c, "given")
        /\ io' \in [Conns -> Counts]
    <3>1. io[c]["given"] + 1 \in 0..Body
      BY <1>1, Numbers, SimAssumption
    <3> QED
      BY <2>1, <3>1, Counted
  <2> QED
    BY <1>1, <2>1, <2>2 DEF TypeOK, At, Goto, clients, main, Objects, ThreadPCs, ChildPCs,
       Fates, Others, Untouched, SameScript, SameClient, SameFiles, Moves, Goes, Steps, Opened
<1>3. CASE ~Held(<<c, "inR">>)
  BY <1>1, <1>3 DEF WriteBody
<1> QED
  BY <1>2, <1>3

LEMMA BodyWrittenDoes ==
    ASSUME TypeOK, NEW c \in Conns, BodyWritten(c)
    PROVE  /\ TypeOK' /\ Others(c) /\ process' = process /\ main' = main
           /\ Goes(c, "write", "read") /\ SameFiles(c)
  BY DEF BodyWritten, TypeOK, At, Goto, clients, main, Objects, ThreadPCs, ChildPCs, Fates,
     Others, Untouched, SameScript, SameClient, SameFiles, Moves, Goes, Steps, Opened

LEMMA ForwardOutputDoes ==
    ASSUME TypeOK, NEW c \in Conns, ForwardOutput(c)
    PROVE  /\ TypeOK' /\ Others(c) /\ process' = process /\ main' = main
           /\ pc[c] = "read" /\ io[c].got < io[c].printed
           /\ Steps(c) /\ CountsOne(c, "got")
           /\ child'[c] = child[c] /\ holds'[c] = holds[c]
           /\ answer'[c] = answer[c] \o <<"out">>
<1>1. /\ Count(c, "got")
      /\ UNCHANGED <<clients, main, pc, child, files, holds, process>>
  BY DEF ForwardOutput
<1>2. io[c]["got"] + 1 \in Printed
  BY Numbers, SimAssumption DEF ForwardOutput, Printed
<1>3. /\ \A d \in Conns : d # c => io'[d] = io[d]
      /\ CountsOne(c, "got")
      /\ io' \in [Conns -> Counts]
  BY <1>1, <1>2, Counted
<1>4. /\ answer' \in [Conns -> Seq(Texts)]
      /\ answer'[c] = answer[c] \o <<"out">>
      /\ \A d \in Conns : d # c => answer'[d] = answer[d]
  BY Sent, Messages DEF ForwardOutput
<1> QED
  BY <1>1, <1>3, <1>4 DEF ForwardOutput, TypeOK, At, Goto, clients, main, Objects, ThreadPCs,
     ChildPCs, Fates, Others, Untouched, SameScript, SameClient, SameFiles, Moves, Goes,
     Steps, Opened

LEMMA EndOfOutputDoes ==
    ASSUME TypeOK, NEW c \in Conns, EndOfOutput(c)
    PROVE  /\ TypeOK' /\ Others(c) /\ process' = process /\ main' = main
           /\ Goes(c, "read", "wait")
           /\ io[c].got = io[c].printed /\ <<c, "outW">> \notin holds[c]
           /\ \A what : Opened(c, what)' <=> Opened(c, what) /\ what \notin {"outR", "inW"}
<1>1. files' = files \ Ends(c, {"outR", "inW"}) /\ files' \subseteq Objects
  BY DEF EndOfOutput, ParentEnds, Ends, TypeOK, Objects
<1>2. /\ \A what : Opened(c, what)' <=> Opened(c, what) /\ what \notin {"outR", "inW"}
      /\ \A d \in Conns : d # c => SameFiles(d)
  BY <1>1, OpenLess
<1> QED
  BY <1>1, <1>2 DEF EndOfOutput, AtEnd, Held, TypeOK, At, Goto, clients, main, Objects,
     ThreadPCs, ChildPCs, Fates, Others, Untouched, SameScript, SameClient, Moves, Goes, Steps

LEMMA WaitPidDoes ==
    ASSUME TypeOK, NEW c \in Conns, WaitPid(c)
    PROVE  /\ TypeOK' /\ Others(c) /\ process' = process /\ main' = main
           /\ Goes(c, "wait", "close") /\ SameFiles(c)
  BY DEF WaitPid, TypeOK, At, Goto, clients, main, Objects, ThreadPCs, ChildPCs, Fates,
     Others, Untouched, SameScript, SameClient, SameFiles, Moves, Goes, Steps, Opened

LEMMA ChildBeginsDoes ==
    ASSUME TypeOK, NEW c \in Conns, ChildBegins(c)
    PROVE  /\ TypeOK' /\ Others(c) /\ process' = process /\ main' = main
           /\ child[c] = "begin" /\ Steps(c)
           /\ \/ /\ request[c] \in Scripts /\ child'[c] = "script" /\ io'[c] = io[c]
                 /\ <<c, "inR">> \in holds[c] => <<c, "inR">> \in holds'[c]
                 /\ <<c, "outW">> \in holds[c] => <<c, "outW">> \in holds'[c]
                 /\ answer'[c] = answer[c] \o <<"200">>
              \/ /\ request[c] \in NoScripts /\ child'[c] = "gone"
                 /\ io'[c].printed = Buffered
                 /\ \A field \in {"given", "eaten", "got"} : io'[c][field] = io[c][field]
                 /\ answer'[c] = answer[c] \o <<"200">>
              \/ left[c] /\ child'[c] = "gone" /\ answer'[c] = answer[c] /\ io'[c] = io[c]
<1>1. child[c] = "begin" /\ UNCHANGED <<clients, main, pc, files, process>>
  BY DEF ChildBegins
<1>2. CASE request[c] \in Scripts /\ Send(c, <<"200">>)
           /\ child' = [child EXCEPT ![c] = "script"] /\ io' = io
           /\ holds' = [holds EXCEPT ![c] = @ \ Ends(c, OtherEnds)]
  <2>1. /\ answer' \in [Conns -> Seq(Texts)]
        /\ answer'[c] = answer[c] \o <<"200">>
        /\ \A d \in Conns : d # c => answer'[d] = answer[d]
    BY <1>2, Sent, Messages
  <2>2. /\ holds' \in [Conns -> SUBSET Objects]
        /\ \A d \in Conns : d # c => holds'[d] = holds[d]
        /\ holds'[c] = holds[c] \ Ends(c, OtherEnds)
    BY <1>2 DEF TypeOK
  <2>3. <<c, "inR">> \notin Ends(c, OtherEnds) /\ <<c, "outW">> \notin Ends(c, OtherEnds)
    BY DEF Ends, OtherEnds
  <2> QED
    BY <1>1, <1>2, <2>1, <2>2, <2>3 DEF TypeOK, At, Goto, clients, main, Objects, ThreadPCs,
       ChildPCs, Fates, Others, Untouched, SameScript, SameClient, SameFiles, Moves, Goes,
       Steps, Opened
<1>3. CASE request[c] \in NoScripts /\ Send(c, <<"200">>) /\ Exit(c)
           /\ io' = [io EXCEPT ![c].printed = Buffered]
  <2>1. /\ answer' \in [Conns -> Seq(Texts)]
        /\ answer'[c] = answer[c] \o <<"200">>
        /\ \A d \in Conns : d # c => answer'[d] = answer[d]
    BY <1>3, Sent, Messages
  <2>2. /\ io' \in [Conns -> Counts]
        /\ io'[c].printed = Buffered
        /\ \A field \in {"given", "eaten", "got"} : io'[c][field] = io[c][field]
        /\ \A d \in Conns : d # c => io'[d] = io[d]
    <3>1. Buffered \in Printed
      BY SimAssumption DEF Printed
    <3> QED
      BY <1>3, <3>1 DEF TypeOK, Counts
  <2> QED
    BY <1>1, <1>3, <2>1, <2>2 DEF Exit, TypeOK, At, Goto, clients, main, Objects, ThreadPCs,
       ChildPCs, Fates, Others, Untouched, SameScript, SameClient, SameFiles, Moves, Goes,
       Steps, Opened
<1>4. CASE left[c] /\ Exit(c) /\ UNCHANGED <<answer, io>>
  BY <1>1, <1>4 DEF Exit, TypeOK, At, Goto, clients, main, Objects, ThreadPCs, ChildPCs,
     Fates, Others, Untouched, SameScript, SameClient, SameFiles, Moves, Goes, Steps, Opened
<1> QED
  BY <1>2, <1>3, <1>4 DEF ChildBegins

LEMMA ScriptReadsDoes ==
    ASSUME TypeOK, NEW c \in Conns, ScriptReads(c)
    PROVE  /\ TypeOK' /\ Others(c) /\ process' = process /\ main' = main
           /\ child[c] = "script" /\ io[c].eaten < io[c].given
           /\ Steps(c) /\ CountsOne(c, "eaten")
           /\ child'[c] = child[c] /\ holds'[c] = holds[c] /\ answer'[c] = answer[c]
<1>1. /\ Count(c, "eaten")
      /\ UNCHANGED <<clients, main, pc, child, files, holds, answer, process>>
  BY DEF ScriptReads
<1>2. io[c]["eaten"] + 1 \in 0..Body
  BY Numbers, SimAssumption DEF ScriptReads
<1>3. /\ \A d \in Conns : d # c => io'[d] = io[d]
      /\ CountsOne(c, "eaten")
      /\ io' \in [Conns -> Counts]
  BY <1>1, <1>2, Counted
<1> QED
  BY <1>1, <1>3 DEF ScriptReads, TypeOK, At, Goto, clients, main, Objects, ThreadPCs,
     ChildPCs, Fates, Others, Untouched, SameScript, SameClient, SameFiles, Moves, Goes,
     Steps, Opened

LEMMA ScriptPrintsDoes ==
    ASSUME TypeOK, NEW c \in Conns, ScriptPrints(c)
    PROVE  /\ TypeOK' /\ Others(c) /\ process' = process /\ main' = main
           /\ child[c] = "script" /\ io[c].printed < Output
           /\ Steps(c) /\ CountsOne(c, "printed")
           /\ child'[c] = child[c] /\ holds'[c] = holds[c] /\ answer'[c] = answer[c]
<1>1. /\ Count(c, "printed")
      /\ UNCHANGED <<clients, main, pc, child, files, holds, answer, process>>
  BY DEF ScriptPrints
<1>2. io[c]["printed"] < Output /\ io[c]["printed"] + 1 \in Printed
  BY Numbers, SimAssumption DEF ScriptPrints, Printed
<1>3. /\ \A d \in Conns : d # c => io'[d] = io[d]
      /\ CountsOne(c, "printed")
      /\ io' \in [Conns -> Counts]
  BY <1>1, <1>2, Counted
<1> QED
  BY <1>1, <1>2, <1>3 DEF ScriptPrints, TypeOK, At, Goto, clients, main, Objects, ThreadPCs,
     ChildPCs, Fates, Others, Untouched, SameScript, SameClient, SameFiles, Moves, Goes,
     Steps, Opened

LEMMA ScriptExitsDoes ==
    ASSUME TypeOK, NEW c \in Conns, ScriptExits(c)
    PROVE  /\ TypeOK' /\ Others(c) /\ process' = process /\ main' = main
           /\ child[c] = "script" /\ io[c].eaten = BodyOf(c) /\ io[c].printed = Output
           /\ Steps(c) /\ io'[c] = io[c] /\ child'[c] = "gone" /\ answer'[c] = answer[c]
  BY DEF ScriptExits, Exit, TypeOK, At, Goto, clients, main, Objects, ThreadPCs, ChildPCs,
     Fates, Others, Untouched, SameScript, SameClient, SameFiles, Moves, Goes, Steps, Opened

LEMMA LeaveDoes ==
    ASSUME TypeOK, NEW c \in Conns, Leave(c)
    PROVE  /\ TypeOK' /\ Others(c) /\ process' = process /\ main' = main
           /\ ~left[c] /\ left'[c] /\ Opened(c, "sock")
           /\ pc'[c] = pc[c] /\ answer'[c] = answer[c] /\ request'[c] = request[c]
           /\ SameScript(c) /\ SameFiles(c)
  BY DEF Leave, TypeOK, At, Goto, clients, main, Objects, ThreadPCs, ChildPCs, Fates, Others,
     Untouched, SameScript, SameClient, SameFiles, Moves, Goes, Steps, Opened

LEMMA CreateDoes ==
    ASSUME TypeOK, Create, client_sock \in Conns, pc[client_sock] = "accepted"
    PROVE  /\ TypeOK' /\ Others(client_sock) /\ process' = process
           /\ mpc' = "accept" /\ client_sock' = client_sock
           /\ \/ Goes(client_sock, "accepted", "start")
              \/ Goes(client_sock, "accepted", "orphan")
           /\ SameFiles(client_sock)
  BY DEF Create, TypeOK, At, Goto, clients, main, Objects, ThreadPCs, ChildPCs, Fates, Others,
     Untouched, SameScript, SameClient, SameFiles, Moves, Goes, Steps, Opened

-----------------------------------------------------------------------------
(* The inductive invariant *)

LEMMA UntouchedKeeps ==
    ASSUME NEW c \in Conns, Local(c), Untouched(c)
    PROVE  Local(c)'
  BY DEF Local, Descriptors, Process, Answer, Untouched, SameScript, SameClient, SameFiles,
     BodyOf, Total, Shown, Opened

LEMMA OneMoves ==
    ASSUME AllLocal, Main, NEW c \in Conns, Others(c), Local(c)', main' = main,
           pc[c] = "accepted" => pc'[c] = "accepted"
    PROVE  AllLocal' /\ Main'
  BY UntouchedKeeps DEF AllLocal, Main, Others, Untouched, main

LEMMA InitIInv == Init => IInv
<1> SUFFICES ASSUME Init PROVE IInv
  OBVIOUS
<1>1. TypeOK
  <2>1. <<>> \in Seq(Texts)
    BY EmptySeq
  <2>2. 0 \in Printed
    BY SimAssumption DEF Printed
  <2> QED
    BY <2>1, <2>2, SimAssumption DEF Init, TypeOK, ThreadPCs, ChildPCs, Fates, Counts
<1>2. ASSUME NEW c \in Conns PROVE Local(c)
  BY <1>1, Numbers, SimAssumption DEF Init, Local, Descriptors, Process, Answer, Early,
     Running, Opened
<1>3. Main /\ KilledForAReason
  BY DEF Init, Main, KilledForAReason
<1> QED
  BY <1>1, <1>2, <1>3 DEF IInv, AllLocal

(* Every step keeps the account of every connection. *)
LEMMA StepLocal == TypeOK /\ AllLocal /\ Main /\ [Next]_vars => TypeOK' /\ AllLocal' /\ Main'
<1> SUFFICES ASSUME TypeOK, AllLocal, Main, [Next]_vars
           PROVE  TypeOK' /\ AllLocal' /\ Main'
  OBVIOUS
<1> DEFINE Good == TypeOK /\ AllLocal /\ Main
<1> USE DEF AllLocal
<1>0. ASSUME NEW fate \in Fates, End(fate) PROVE Good'
  BY <1>0, EndDoes, UntouchedKeeps DEF Main, Untouched, main
<1>1. ASSUME NEW c \in Conns, Accept(c) PROVE Good'
  <2>1. Local(c)'
    BY <1>1, AcceptDoes DEF Local, Descriptors, Process, Answer, Goes, Replies, Steps, Moves,
       SameScript, SameClient, SameFiles, Early, Running, BodyOf, Total, Shown, Opened
  <2>2. \A d \in Conns : Local(d)'
    BY <1>1, <2>1, AcceptDoes, UntouchedKeeps DEF Others
  <2> QED
    BY <1>1, <2>2, AcceptDoes DEF Main, Goes, Moves
<1>2. ASSUME NEW c \in Conns, Start(c) PROVE Good'
  <2>1. CASE End("misrouted")
    BY <2>1, <1>0 DEF Fates
  <2>2. CASE ~End("misrouted")
    <3>1. Local(c)'
      BY <1>2, <2>2, StartDoes DEF Local, Descriptors, Process, Answer, Goes, Replies, Steps,
         Moves, SameScript, SameClient, SameFiles, Early, Running, BodyOf, Total, Shown
    <3> QED
      BY <1>2, <2>2, <3>1, StartDoes, OneMoves DEF Goes, Replies, Steps, Moves, SameScript,
         SameClient, SameFiles
  <2> QED
    BY <2>1, <2>2
<1>3. ASSUME NEW c \in Conns, Route(c) PROVE Good'
  <2>1. answer[c] = <<>> /\ (left[c] \/ Read(c) = {request[c]})
    BY <1>3, RouteDoes DEF Local, Answer, Early, Replies, Moves, Read
  <2>2. PICK kind \in Read(c) :
         \/ kind = "other" /\ Replies(c, <<"501">>, "route", "done")
         \/ kind = "missing" /\ Replies(c, <<"404">>, "route", "close")
         \/ kind = "noLength" /\ Replies(c, <<"400">>, "route", "close")
         \/ kind \in Pages /\ Replies(c, <<"200">>, "route", "cat")
         \/ kind \in Scripts \cup NoScripts /\ Replies(c, <<>>, "route", "pipe")
    BY <1>3, RouteDoes
  <2>3. kind = request[c] \/ (left[c] /\ kind = "other")
    BY <2>2 DEF Read
  <2>4. /\ <<>> \o <<"501">> = <<"501">> /\ <<>> \o <<"404">> = <<"404">>
        /\ <<>> \o <<"400">> = <<"400">> /\ <<>> \o <<"200">> = <<"200">>
        /\ <<>> \o <<>> = <<>>
    BY Messages, FirstMessage
  <2>5. Descriptors(c)'
    BY <2>2, <2>4, <2>1 DEF Local, Descriptors, Goes, Replies, Steps, Moves, SameScript,
       SameClient, SameFiles
  <2>6. Process(c)'
    BY <2>2 DEF Local, Process, Goes, Replies, Steps, Moves, SameScript, SameClient,
       SameFiles, Early, Running, BodyOf, Total, Shown
  <2>7. pc'[c] = "close" => left'[c] \/ answer'[c] \in Whole[request'[c]]
    <3>2. request'[c] = request[c] /\ left'[c] = left[c]
      BY <2>2 DEF Replies, SameClient
    <3>3. CASE kind \in {"missing", "noLength"}
      <4>1. kind = request[c] /\ answer[c] = <<>>
        BY <2>1, <2>3, <3>3
      <4>2. answer'[c] \in Whole[kind]
        <5>1. CASE kind = "missing"
          BY <2>2, <2>4, <4>1, <5>1, WholeIs DEF Replies, Scripts, NoScripts, Pages
        <5>2. CASE kind = "noLength"
          BY <2>2, <2>4, <4>1, <5>2, WholeIs DEF Replies, Scripts, NoScripts, Pages
        <5> QED
          BY <3>3, <5>1, <5>2
      <4> QED
        BY <3>2, <4>1, <4>2
    <3>4. CASE kind \notin {"missing", "noLength"}
      BY <2>2, <3>4 DEF Replies, Moves
    <3> QED
      BY <3>3, <3>4
  <2>8. pc'[c] = "cat" => request'[c] \in Pages /\ \E n \in 0..Shown(c)' : answer'[c] = FromFile(n)
    <3>1. SUFFICES ASSUME pc'[c] = "cat" PROVE request[c] \in Pages /\ answer'[c] = FromFile(0)
      <4>1. request'[c] = request[c] /\ 0 \in 0..Shown(c)'
        BY <2>2, SimAssumption DEF Replies, SameClient, Shown
      <4> QED
        BY <4>1
    <3>2. kind \in Pages /\ answer'[c] = <<"200">>
      BY <2>1, <2>2, <2>4, <3>1 DEF Replies, Moves
    <3> QED
      BY <2>3, <3>2, NoOutput DEF Pages
  <2>9. Answer(c)'
    BY <2>1, <2>2, <2>3, <2>4, <2>7, <2>8 DEF Local, Process, Answer, Goes, Replies, Steps,
       Moves, SameScript, SameClient, SameFiles, Early, Running, Scripts, NoScripts, Pages
  <2> QED
    BY <1>3, <2>2, <2>5, <2>6, <2>9, RouteDoes, OneMoves DEF Local, Replies, Moves
<1>4. ASSUME NEW c \in Conns, OpenFails(c) PROVE Good'
  BY <1>4, <1>0 DEF OpenFails, Fates
<1>5. ASSUME NEW c \in Conns, Close(c) PROVE Good'
  <2>1. Local(c)'
    BY <1>5, CloseDoes DEF Local, Descriptors, Process, Answer, Goes, Replies, Steps, Moves,
       SameScript, SameClient, SameFiles, Early, Running, BodyOf, Total, Shown
  <2> QED
    BY <1>5, <2>1, CloseDoes, OneMoves DEF Goes, Replies, Steps, Moves, SameScript,
       SameClient, SameFiles
<1>6. ASSUME NEW c \in Conns, Pipe(c, "pipe", "pipe2", {"outR", "outW"}) PROVE Good'
  <2>1. /\ TypeOK' /\ Others(c) /\ main' = main
        /\ \/ Replies(c, <<"500">>, "pipe", "close")
           \/ /\ Goes(c, "pipe", "pipe2")
              /\ \A what : Opened(c, what)' <=> Opened(c, what) \/ what \in {"outR", "outW"}
    <3>1. {"outR", "outW"} \in SUBSET {"outR", "outW", "inR", "inW"} /\ {"pipe", "pipe2"} \subseteq ThreadPCs
      BY DEF ThreadPCs
    <3> QED
      BY <1>6, <3>1, PipeDoes
  <2>2. answer[c] = <<>> /\ <<>> \o <<"500">> = <<"500">> /\ request[c] \in Scripts \cup NoScripts
    BY <2>1, FirstMessage, Messages DEF Local, Answer, Goes, Replies, Steps, Moves,
       SameScript, SameClient, SameFiles, Early
  <2>3. <<"500">> \in Whole[request[c]]
    BY <2>2, WholeIs
  <2>4. Descriptors(c)'
    BY <2>1, <2>2 DEF Local, Descriptors, Goes, Replies, Steps, Moves, SameScript, SameClient,
       SameFiles
  <2>5. Process(c)' /\ Answer(c)'
    BY <2>1, <2>2, <2>3 DEF Local, Process, Answer, Goes, Replies, Steps, Moves, SameScript,
       SameClient, SameFiles, Early, Running, BodyOf, Total, Shown
  <2> QED
    BY <2>1, <2>4, <2>5, OneMoves DEF Local, Goes, Replies, Steps, Moves, SameScript,
       SameClient, SameFiles
<1>7. ASSUME NEW c \in Conns, Pipe(c, "pipe2", "fork", {"inR", "inW"}) PROVE Good'
  <2>1. /\ TypeOK' /\ Others(c) /\ main' = main
        /\ \/ Replies(c, <<"500">>, "pipe2", "close")
           \/ /\ Goes(c, "pipe2", "fork")
              /\ \A what : Opened(c, what)' <=> Opened(c, what) \/ what \in {"inR", "inW"}
    <3>1. {"inR", "inW"} \in SUBSET {"outR", "outW", "inR", "inW"} /\ {"pipe2", "fork"} \subseteq ThreadPCs
      BY DEF ThreadPCs
    <3> QED
      BY <1>7, <3>1, PipeDoes
  <2>2. answer[c] = <<>> /\ <<>> \o <<"500">> = <<"500">> /\ request[c] \in Scripts \cup NoScripts
    BY <2>1, FirstMessage, Messages DEF Local, Answer, Goes, Replies, Steps, Moves,
       SameScript, SameClient, SameFiles, Early
  <2>3. <<"500">> \in Whole[request[c]]
    BY <2>2, WholeIs
  <2>4. Descriptors(c)'
    BY <2>1, <2>2 DEF Local, Descriptors, Goes, Replies, Steps, Moves, SameScript, SameClient,
       SameFiles
  <2>5. Process(c)' /\ Answer(c)'
    BY <2>1, <2>2, <2>3 DEF Local, Process, Answer, Goes, Replies, Steps, Moves, SameScript,
       SameClient, SameFiles, Early, Running, BodyOf, Total, Shown
  <2> QED
    BY <2>1, <2>4, <2>5, OneMoves DEF Local, Goes, Replies, Steps, Moves, SameScript,
       SameClient, SameFiles
<1>8. ASSUME NEW c \in Conns, Fork(c) PROVE Good'
  <2>1. /\ answer[c] = <<>> /\ <<>> \o <<"500">> = <<"500">> /\ <<>> \o <<"200">> = <<"200">>
        /\ request[c] \in Scripts \cup NoScripts
    BY <1>8, ForkDoes, FirstMessage, Messages DEF Local, Answer, Goes, Replies, Steps, Moves,
       SameScript, SameClient, SameFiles, Early
  <2>2. <<"500">> \in Whole[request[c]]
    BY <2>1, WholeIs
  <2>3. Descriptors(c)'
    BY <1>8, <2>1, ForkDoes DEF Local, Descriptors, Goes, Replies, Steps, Moves, SameScript,
       SameClient, SameFiles
  <2>4. pc[c] = "fork" /\ Opened(c, "inR") /\ Opened(c, "outW")
    BY <1>8, ForkDoes DEF Local, Descriptors, Replies, Moves
  <2>5. ASSUME Replies(c, <<"500">>, "fork", "close") PROVE Process(c)' /\ Answer(c)'
    BY <2>1, <2>2, <2>5 DEF Local, Process, Answer, Goes, Replies, Steps, Moves, SameScript,
       SameClient, SameFiles, Early, Running, BodyOf, Total, Shown
  <2>6. ASSUME ~Replies(c, <<"500">>, "fork", "close") PROVE Process(c)' /\ Answer(c)'
    <3>1. Process(c)'
      BY <1>8, <2>4, <2>6, ForkDoes DEF Local, Process, Moves, SameClient, Early, Running,
         BodyOf, Total, Shown, Opened
    <3>2. Answer(c)'
      BY <1>8, <2>1, <2>4, <2>6, ForkDoes DEF Local, Answer, Moves, SameClient, Early, Running
    <3> QED
      BY <3>1, <3>2
  <2> QED
    BY <1>8, <2>3, <2>4, <2>5, <2>6, ForkDoes, OneMoves DEF Local, Goes, Replies, Steps,
       Moves, SameScript, SameClient, SameFiles
<1>9. ASSUME NEW c \in Conns, CloseEnds(c) PROVE Good'
  <2>1. Local(c)'
    BY <1>9, CloseEndsDoes DEF Local, Descriptors, Process, Answer, Goes, Replies, Steps,
       Moves, SameScript, SameClient, SameFiles, Early, Running, BodyOf, Total, Shown
  <2> QED
    BY <1>9, <2>1, CloseEndsDoes, OneMoves DEF Goes, Replies, Steps, Moves, SameScript,
       SameClient, SameFiles
<1>10. ASSUME NEW c \in Conns, WriteBody(c) PROVE Good'
  <2>1. CASE End("killed")
    BY <2>1, <1>0 DEF Fates
  <2>2. CASE ~End("killed")
    <3>1. /\ pc[c] = "write" /\ io[c].given < BodyOf(c) /\ Others(c) /\ main' = main /\ TypeOK'
          /\ Steps(c) /\ CountsOne(c, "given")
          /\ child'[c] = child[c] /\ holds'[c] = holds[c] /\ answer'[c] = answer[c]
      BY <1>10, <2>2, WriteBodyDoes
    <3>2. BodyOf(c)' = BodyOf(c) /\ Total(c)' = Total(c) /\ Shown(c)' = Shown(c)
      BY <3>1 DEF Steps, SameClient, BodyOf, Total, Shown
    <3>3. Process(c)'
      BY <3>1, <3>2, Numbers DEF Local, Process, Steps, SameClient, Early, Running, CountsOne
    <3>4. Descriptors(c)' /\ Answer(c)'
      BY <3>1 DEF Local, Descriptors, Process, Answer, Steps, SameClient, SameFiles, Early,
         Running, CountsOne
    <3> QED
      BY <3>1, <3>3, <3>4, OneMoves DEF Local, Steps
  <2> QED
    BY <2>1, <2>2
<1>11. ASSUME NEW c \in Conns, BodyWritten(c) PROVE Good'
  <2>1. Local(c)'
    BY <1>11, BodyWrittenDoes DEF Local, Descriptors, Process, Answer, Goes, Replies, Steps,
       Moves, SameScript, SameClient, SameFiles, Early, Running, BodyOf, Total, Shown
  <2> QED
    BY <1>11, <2>1, BodyWrittenDoes, OneMoves DEF Goes, Replies, Steps, Moves, SameScript,
       SameClient, SameFiles
<1>12. ASSUME NEW c \in Conns, ForwardOutput(c) PROVE Good'
  <2>1. child[c] \in {"script", "gone"}
    <3>1. pc[c] = "read" /\ io[c].got < io[c].printed
      BY <1>12, ForwardOutputDoes
    <3>2. io[c].got \in Nat /\ io[c].printed \in Nat /\ child[c] \in ChildPCs
      BY Numbers DEF TypeOK
    <3>3. io[c].printed # 0
      BY <3>1, <3>2
    <3> QED
      BY <3>1, <3>2, <3>3 DEF ChildPCs, Local, Process, Answer, Running
  <2>2. /\ io[c].got \in Nat /\ io'[c].got = io[c].got + 1
        /\ FromScript(io[c].got) \o <<"out">> = FromScript(io[c].got + 1)
    BY <1>12, ForwardOutputDoes, Numbers, Script DEF CountsOne
  <2>3. Process(c)'
    <3>1. BodyOf(c)' = BodyOf(c) /\ Total(c)' = Total(c) /\ Shown(c)' = Shown(c)
      BY <1>12, ForwardOutputDoes DEF Steps, SameClient, BodyOf, Total, Shown
    <3>3. /\ io'[c].given = io[c].given /\ io'[c].eaten = io[c].eaten
          /\ io'[c].printed = io[c].printed /\ io'[c].got = io[c].got + 1
      BY <1>12, ForwardOutputDoes DEF CountsOne
    <3>4. io[c].got < io[c].printed /\ io[c].got + 1 <= io[c].printed
      BY <1>12, ForwardOutputDoes, Numbers
    <3> QED
      BY <1>12, <2>1, <3>1, <3>3, <3>4, ForwardOutputDoes
      DEF Local, Process, Steps, SameClient, Early, Running
  <2>4. Descriptors(c)' /\ Answer(c)'
    BY <1>12, <2>1, <2>2, ForwardOutputDoes DEF Local, Descriptors, Process, Answer, Goes,
       Replies, Steps, Moves, SameScript, SameClient, SameFiles, Early, Running
  <2> QED
    BY <1>12, <2>3, <2>4, ForwardOutputDoes, OneMoves DEF Local, Steps
<1>13. ASSUME NEW c \in Conns, EndOfOutput(c) PROVE Good'
  <2>1. child[c] = "gone"
    BY <1>13, EndOfOutputDoes DEF TypeOK, ChildPCs, Local, Process, Goes, Moves, Running
  <2>2. Local(c)'
    BY <1>13, <2>1, EndOfOutputDoes DEF Local, Descriptors, Process, Answer, Goes, Replies,
       Steps, Moves, SameScript, SameClient, SameFiles, Early, Running, BodyOf, Total, Shown
  <2> QED
    BY <1>13, <2>2, EndOfOutputDoes, OneMoves DEF Goes, Replies, Steps, Moves, SameScript,
       SameClient, SameFiles
<1>14. ASSUME NEW c \in Conns, WaitPid(c) PROVE Good'
  <2>1. child[c] = "gone" /\ io[c].got = io[c].printed /\ request[c] \in Scripts \cup NoScripts
    BY <1>14, WaitPidDoes DEF Local, Answer, Goes, Moves, Running
  <2>2. left[c] \/ answer[c] \in Whole[request[c]]
    <3>1. CASE request[c] \in Scripts
      <4>1. Whole[request[c]] = {<<"500">>, FromScript(Output)}
        BY <3>1, WholeIs
      <4>2. ~left[c] => answer[c] = FromScript(io[c].got) /\ io[c].got = Output
        BY <2>1, <3>1 DEF Local, Answer, Process, Total
      <4> QED
        BY <4>1, <4>2
    <3>2. CASE request[c] \in NoScripts
      <4>1. Whole[request[c]] = {<<"500">>, FromScript(Buffered)} /\ request[c] \notin Scripts
        BY <3>2, WholeIs DEF Scripts, NoScripts
      <4>2. ~left[c] => answer[c] = FromScript(io[c].got) /\ io[c].got = Buffered
        BY <2>1, <4>1 DEF Local, Answer, Process, Total
      <4> QED
        BY <4>1, <4>2
    <3> QED
      BY <2>1, <3>1, <3>2
  <2>3. Local(c)'
    BY <1>14, <2>1, <2>2, WaitPidDoes DEF Local, Descriptors, Process, Answer, Goes, Replies,
       Steps, Moves, SameScript, SameClient, SameFiles, Early, Running, BodyOf, Total, Shown
  <2> QED
    BY <1>14, <2>3, WaitPidDoes, OneMoves DEF Goes, Replies, Steps, Moves, SameScript,
       SameClient, SameFiles
<1>15. ASSUME NEW c \in Conns, SendFails(c) PROVE Good'
  BY <1>15, <1>0 DEF SendFails, Fates
<1>16. ASSUME NEW c \in Conns, ChildBegins(c) PROVE Good'
  <2>1. /\ answer[c] = <<"200">> /\ <<"200">> \o <<"200">> = FromScript(0)
        /\ io[c].got = 0 /\ io[c].printed = 0
        /\ pc[c] \in {"closeEnds", "write", "read"}
    BY <1>16, ChildBeginsDoes, NoOutput DEF Local, Process, Answer
  <2>2. io'[c].got = 0
    BY <1>16, <2>1, ChildBeginsDoes
  <2>4. Descriptors(c)' /\ Answer(c)'
    BY <1>16, <2>1, <2>2, ChildBeginsDoes
    DEF Local, Descriptors, Process, Answer, Steps, SameClient, SameFiles, Early, Running
  <2>3. Process(c)'
    <3>1. /\ BodyOf(c)' = BodyOf(c) /\ Total(c)' = Total(c)
          /\ request[c] \in NoScripts => Total(c) = Buffered /\ request[c] \notin Scripts
      BY <1>16, ChildBeginsDoes DEF Steps, SameClient, BodyOf, Total, Scripts, NoScripts
    <3>2. Buffered \in Nat /\ Total(c) \in Nat
      BY Numbers
    <3>3. CASE request[c] \in Scripts /\ child'[c] = "script"
      BY <1>16, <2>1, <3>1, <3>2, <3>3, ChildBeginsDoes
      DEF Local, Process, Steps, SameClient, Early, Running, Scripts, NoScripts
    <3>4. CASE request[c] \in NoScripts /\ child'[c] = "gone"
      <4>1. request[c] \notin Scripts /\ Total(c) = Buffered
        BY <3>4 DEF Scripts, NoScripts, Total
      <4>2. \/ io'[c].printed = Buffered
            \/ left[c] /\ io'[c].printed = 0
        BY <1>16, <2>1, <4>1, ChildBeginsDoes
      <4>3. /\ io'[c].given = io[c].given /\ io'[c].eaten = io[c].eaten
            /\ io'[c].got = 0
        BY <1>16, <2>2, <4>1, ChildBeginsDoes
      <4>4. 0 <= io'[c].printed /\ io'[c].printed <= Total(c)
        BY <3>2, <4>1, <4>2
      <4>5. io[c].eaten <= io[c].given /\ io[c].given <= BodyOf(c)
        BY <1>16 DEF Local, Process
      <4>6. pc'[c] = pc[c] /\ left'[c] = left[c] /\ request'[c] = request[c]
        BY <1>16, ChildBeginsDoes DEF Steps, SameClient
      <4>7. pc'[c] \notin Early \cup {"cat"}
        BY <2>1, <4>6 DEF Early
      <4> QED
        BY <2>1, <3>1, <3>4, <4>1, <4>2, <4>3, <4>4, <4>5, <4>6, <4>7 DEF Process
    <3>5. CASE left[c] /\ child'[c] = "gone" /\ request[c] \notin NoScripts
      BY <1>16, <2>1, <3>1, <3>2, <3>5, ChildBeginsDoes
      DEF Local, Process, Steps, SameClient, Early, Running
    <3> QED
      BY <1>16, <3>3, <3>4, <3>5, ChildBeginsDoes
  <2> QED
    BY <1>16, <2>3, <2>4, ChildBeginsDoes, OneMoves DEF Local, Steps
<1>17. ASSUME NEW c \in Conns, ScriptReads(c) PROVE Good'
  <2>1. Process(c)'
    <3>1. BodyOf(c)' = BodyOf(c) /\ Total(c)' = Total(c) /\ Shown(c)' = Shown(c)
      BY <1>17, ScriptReadsDoes DEF Steps, SameClient, BodyOf, Total, Shown
    <3> QED
      BY <1>17, <3>1, ScriptReadsDoes, Numbers
      DEF Local, Process, Steps, SameClient, Early, Running, CountsOne
  <2>2. Descriptors(c)' /\ Answer(c)'
    BY <1>17, ScriptReadsDoes DEF Local, Descriptors, Process, Answer, Goes, Replies, Steps,
       Moves, SameScript, SameClient, SameFiles, Early, Running, CountsOne
  <2> QED
    BY <1>17, <2>1, <2>2, ScriptReadsDoes, OneMoves DEF Local, Steps
<1>18. ASSUME NEW c \in Conns, ScriptPrints(c) PROVE Good'
  <2>1. Process(c)'
    <3>1. BodyOf(c)' = BodyOf(c) /\ Total(c)' = Total(c) /\ Shown(c)' = Shown(c)
      BY <1>18, ScriptPrintsDoes DEF Steps, SameClient, BodyOf, Total, Shown
    <3>2. Total(c) = Output
      BY <1>18, ScriptPrintsDoes DEF Local, Process, Total
    <3> QED
      BY <1>18, <3>1, <3>2, ScriptPrintsDoes, Numbers
      DEF Local, Process, Steps, SameClient, Early, Running, CountsOne
  <2>2. Descriptors(c)' /\ Answer(c)'
    BY <1>18, ScriptPrintsDoes DEF Local, Descriptors, Process, Answer, Goes, Replies, Steps,
       Moves, SameScript, SameClient, SameFiles, Early, Running, CountsOne
  <2> QED
    BY <1>18, <2>1, <2>2, ScriptPrintsDoes, OneMoves DEF Local, Steps
<1>19. ASSUME NEW c \in Conns, ScriptExits(c) PROVE Good'
  <2>1. Local(c)'
    BY <1>19, ScriptExitsDoes, Numbers DEF Local, Descriptors, Process, Answer, Goes, Replies,
       Steps, Moves, SameScript, SameClient, SameFiles, Early, Running, BodyOf, Total, Shown
  <2> QED
    BY <1>19, <2>1, ScriptExitsDoes, OneMoves DEF Goes, Replies, Steps, Moves, SameScript,
       SameClient, SameFiles
<1>20. ASSUME NEW c \in Conns, Leave(c) PROVE Good'
  <2>1. Local(c)'
    BY <1>20, LeaveDoes DEF Local, Descriptors, Process, Answer, Goes, Replies, Steps, Moves,
       SameScript, SameClient, SameFiles, Early, Running, BodyOf, Total, Shown
  <2> QED
    BY <1>20, <2>1, LeaveDoes, OneMoves DEF Goes, Replies, Steps, Moves, SameScript,
       SameClient, SameFiles
<1>21. ASSUME Create PROVE Good'
  <2>1. client_sock \in Conns /\ pc[client_sock] = "accepted"
    BY <1>21 DEF Create, Main
  <2>2. Local(client_sock)'
    BY <1>21, <2>1, CreateDoes DEF Local, Descriptors, Process, Answer, Goes, Replies, Steps,
       Moves, SameScript, SameClient, SameFiles, Early, Running, BodyOf, Total, Shown
  <2> QED
    BY <1>21, <2>1, <2>2, CreateDoes, UntouchedKeeps DEF Main, Others
<1>22. ASSUME AcceptFails PROVE Good'
  BY <1>22, <1>0 DEF AcceptFails, Fates
<1>24. ASSUME NEW c \in Conns, Cat(c) PROVE Good'
  <2>1. /\ pc[c] = "cat" /\ request[c] \in Pages /\ SameClient(c) /\ Shown(c) \in Nat
        /\ Shown(c)' = Shown(c)
    BY <1>24, CatDoes, SimAssumption DEF Replies, Moves, Local, Answer, Shown, SameClient
  <2>2. PICK n \in 0..Shown(c) : answer[c] = FromFile(n)
    BY <2>1 DEF Local, Answer
  <2>3. /\ FromFile(n) \o <<"line">> = FromFile(n + 1) /\ FromFile(n) \o <<>> = FromFile(n)
        /\ Len(FromFile(n)) = n + 1 /\ n \in Nat
    <3>1. n \in Nat
      BY <2>1, <2>2
    <3>2. /\ FromFile(n) \in Seq(Texts) /\ FromFile(n) \o <<"line">> = FromFile(n + 1)
          /\ Len(FromFile(n)) = n + 1
      BY <3>1, File
    <3> QED
      BY <3>1, <3>2, FirstMessage
  <2>4. Feof(c) <=> n = Shown(c)
    BY <2>1, <2>2, <2>3, SimAssumption DEF Feof, Shown
  <2>5. answer'[c] = FromFile(IF Feof(c) THEN n ELSE n + 1)
    BY <1>24, <2>2, <2>3, CatDoes DEF Replies
  <2>6. pc'[c] = "close" => answer'[c] \in Whole[request'[c]]
    BY <1>24, <2>1, <2>4, <2>5, CatDoes, WholeIs DEF Replies, Moves, SameClient, Pages, Shown
  <2>7. pc'[c] = "cat" => \E m \in 0..Shown(c)' : answer'[c] = FromFile(m)
    <3>1. SUFFICES ASSUME pc'[c] = "cat" PROVE \E m \in 0..Shown(c) : answer'[c] = FromFile(m)
      BY <2>1
    <3>2. ~Feof(c)
      BY <1>24, <3>1, CatDoes DEF Replies, Moves
    <3> QED
      BY <2>1, <2>2, <2>3, <2>4, <2>5, <3>2
  <2>8. Descriptors(c)' /\ Process(c)'
    BY <1>24, CatDoes DEF Local, Descriptors, Process, Replies, Moves, SameScript, SameClient,
       SameFiles, Early, Running, BodyOf, Total
  <2>9. Answer(c)'
    BY <1>24, <2>1, <2>6, <2>7, CatDoes DEF Local, Process, Answer, Replies, Moves,
       SameScript, SameClient, Early, Running
  <2> QED
    BY <1>24, <2>8, <2>9, CatDoes, OneMoves DEF Local, Replies, Moves
<1>23. ASSUME UNCHANGED vars PROVE Good'
  <2>1. TypeOK'
    BY <1>23 DEF TypeOK, vars, clients, main
  <2>2. \A c \in Conns : Untouched(c)
    BY <1>23 DEF Untouched, SameScript, SameClient, SameFiles, Opened, vars, clients
  <2> QED
    BY <1>23, <2>1, <2>2, UntouchedKeeps DEF Main, vars, main
<1> QED
  BY <1>1, <1>2, <1>3, <1>4, <1>5, <1>6, <1>7, <1>8, <1>9, <1>10, <1>11, <1>12, <1>13, <1>14,
     <1>15, <1>16, <1>17, <1>18, <1>19, <1>20, <1>21, <1>22, <1>23, <1>24 DEF Next, Thread, Child

(* SIGPIPE comes for a reason. *)
LEMMA StepKilled == IInv /\ [Next]_vars => KilledForAReason'
<1> SUFFICES ASSUME IInv, [Next]_vars
           PROVE  KilledForAReason'
  OBVIOUS
<1>1. request' = request /\ \A c \in Conns : left[c] => left'[c]
  <2>1. CASE \E c \in Conns : Leave(c)
    BY <2>1 DEF Leave, IInv, TypeOK
  <2>2. CASE ~\E c \in Conns : Leave(c)
    BY <2>2 DEF Next, Thread, Child, Accept, AcceptFails, Create, Start, Route, OpenFails,
       Close, Pipe,
       CannotExecute, Unimplemented, NotFound, BadRequest, ServeFile, Cat, Reply, Fork, CloseEnds,
       WriteBody, BodyWritten, ForwardOutput, EndOfOutput, WaitPid, SendFails, End,
       ChildBegins, ScriptReads, ScriptPrints, ScriptExits, vars, clients
  <2> QED
    BY <2>1, <2>2
<1>2. CASE process = "killed"
  BY <1>1, <1>2 DEF IInv, KilledForAReason
<1>3. ASSUME process # "killed", process' = "killed"
      PROVE  \E c \in Conns : left[c] \/ request[c] = "postPage"
  <2>1. PICK c \in Conns : SendFails(c) \/ (WriteBody(c) /\ ~Held(<<c, "inR">>))
    BY <1>3 DEF Next, Thread, Child, Accept, AcceptFails, Create, Start, Route, OpenFails,
       Close, Pipe,
       CannotExecute, Unimplemented, NotFound, BadRequest, ServeFile, Cat, Reply, Fork, CloseEnds,
       WriteBody, BodyWritten, ForwardOutput, EndOfOutput, WaitPid, End,
       ChildBegins, ScriptReads, ScriptPrints, ScriptExits, Leave, vars
  <2>2. CASE SendFails(c)
    BY <2>2 DEF SendFails
  <2>3. CASE WriteBody(c) /\ ~Held(<<c, "inR">>)
    <3>1. pc[c] = "write" /\ io[c].given < BodyOf(c) /\ <<c, "inR">> \notin holds[c]
      BY <2>3 DEF WriteBody, At, MoreBody, Held
    <3>2. child[c] = "gone" /\ Process(c) /\ Answer(c)
      BY <3>1 DEF IInv, AllLocal, Local, Process, Running, TypeOK, ChildPCs
    <3>3. io[c].eaten <= io[c].given /\ io[c].given \in Nat /\ io[c].eaten \in Nat /\ BodyOf(c) \in Nat
      BY <3>2, Numbers DEF IInv, Process
    <3>4. io[c].eaten # BodyOf(c)
      BY <3>1, <3>3
    <3>5. left[c] \/ request[c] \in NoScripts
      BY <3>1, <3>2, <3>4 DEF Process, Answer, Running
    <3>6. request[c] \in Posts
      BY <3>1, <3>3 DEF BodyOf
    <3> QED
      BY <3>5, <3>6 DEF NoScripts, Posts
  <2> QED
    BY <2>1, <2>2, <2>3
<1> QED
  BY <1>1, <1>2, <1>3 DEF KilledForAReason

(* The invariant holds throughout. *)
THEOREM Invariant == Spec => []IInv
<1>1. IInv /\ [Next]_vars => IInv'
  BY StepLocal, StepKilled DEF IInv
<1> QED
  BY InitIInv, <1>1, PTL DEF Spec

(* Every variable has its type, for any clients, lengths and pipe size. *)
THEOREM TypeCorrect == Spec => []TypeOK
<1>1. IInv => TypeOK
  BY DEF IInv
<1> QED
  BY Invariant, <1>1, PTL

(* A request that was answered leaves no descriptor open in the server        *)
(* (execute_cgi() and accept_request()), whichever threads fork in between.   *)
THEOREM NothingIsLeftOpen == Spec => []NothingLeftOpen
<1>1. IInv => NothingLeftOpen
  BY DEF IInv, AllLocal, Local, Descriptors, Opened, NothingLeftOpen
<1> QED
  BY Invariant, <1>1, PTL

(* SIGPIPE ends the server only for a client that has gone or a POST to a     *)
(* file that is no script.                                                    *)
THEOREM KilledOnlyForAReason == Spec => []KilledForAReason
<1>1. IInv => KilledForAReason
  BY DEF IInv
<1> QED
  BY Invariant, <1>1, PTL

-----------------------------------------------------------------------------
(* The server keeps the promise of Connections. *)

Phases == {"new", "open", "answered", "reset", "closed"}

LEMMA PhaseIs ==
    ASSUME NEW c \in Conns
    PROVE  /\ connPhase[c] =
                 IF pc[c] = "none" THEN "new"
                 ELSE IF ~Opened(c, "sock") THEN "closed"
                 ELSE IF left[c] THEN "reset"
                 ELSE IF answer[c] \in Whole[request[c]] THEN "answered" ELSE "open"
           /\ connPhase'[c] =
                 IF pc'[c] = "none" THEN "new"
                 ELSE IF ~Opened(c, "sock")' THEN "closed"
                 ELSE IF left'[c] THEN "reset"
                 ELSE IF answer'[c] \in Whole[request'[c]] THEN "answered" ELSE "open"
  BY DEF connPhase, Opened

LEMMA PhaseType == connPhase \in [Conns -> Phases] /\ connPhase' \in [Conns -> Phases]
  BY DEF connPhase, Phases

LEMMA PhaseStays ==
    ASSUME NEW c \in Conns, pc'[c] = "none" <=> pc[c] = "none",
           answer'[c] = answer[c], SameClient(c), Opened(c, "sock")' <=> Opened(c, "sock")
    PROVE  connPhase'[c] = connPhase[c]
  BY PhaseIs DEF SameClient

(* A step that sends something answers at most this connection. *)
LEMMA PhaseAnswers ==
    ASSUME NEW c \in Conns, pc[c] # "none", pc'[c] # "none", SameClient(c), SameFiles(c),
           Opened(c, "sock"), left[c] \/ answer[c] \notin Whole[request[c]]
    PROVE  connPhase'[c] = connPhase[c] \/ (connPhase[c] = "open" /\ connPhase'[c] = "answered")
  BY PhaseIs DEF SameClient, SameFiles

LEMMA NotWhole ==
    /\ \A kind \in Kinds : <<>> \notin Whole[kind]
    /\ \A kind \in Scripts \cup NoScripts : <<"200">> \notin Whole[kind]
    /\ \A kind \in Scripts, n \in Nat : n < Output => FromScript(n) \notin Whole[kind]
    /\ \A kind \in NoScripts, n \in Nat : n < Buffered => FromScript(n) \notin Whole[kind]
    /\ \A n \in Nat : n < Lines => FromFile(n) \notin Whole["page"]
    /\ \A n \in Nat : n < Lines - 1 => FromFile(n) \notin Whole["cutPage"]
<1>1. /\ \A n \in Nat : FromScript(n) \in Seq(Texts) /\ Len(FromScript(n)) = n + 2
      /\ \A n \in Nat : FromFile(n) \in Seq(Texts) /\ Len(FromFile(n)) = n + 1
  BY Script, File
<1>2. /\ Len(<<>>) = 0 /\ Len(<<"200">>) = 1 /\ Len(<<"500">>) = 1 /\ Len(<<"404">>) = 1
      /\ Len(<<"400">>) = 1 /\ Len(<<"501">>) = 1
      /\ <<"200">> # <<"500">>
  OBVIOUS
<1>3. Output \in Nat /\ Buffered \in Nat /\ Lines \in Nat /\ Lines - 1 \in Nat
  BY SimAssumption
<1>4. ASSUME NEW total \in Nat
      PROVE  /\ <<>> \notin {<<"500">>, FromScript(total)}
             /\ <<"200">> \notin {<<"500">>, FromScript(total)}
             /\ \A n \in Nat : n < total => FromScript(n) \notin {<<"500">>, FromScript(total)}
  <2>1. Len(FromScript(total)) = total + 2
    BY <1>1
  <2>2. ASSUME NEW n \in Nat, n < total
        PROVE  FromScript(n) \notin {<<"500">>, FromScript(total)}
    <3>1. Len(FromScript(n)) = n + 2
      BY <1>1
    <3>2. n + 2 # total + 2 /\ n + 2 # 1
      BY <2>2
    <3> QED
      BY <1>2, <2>1, <3>1, <3>2
  <2>3. Len(FromScript(total)) # 0 /\ Len(FromScript(total)) # 1
    BY <2>1
  <2> QED
    BY <1>2, <2>2, <2>3
<1>5. ASSUME NEW total \in Nat, NEW n \in Nat, n < total
      PROVE  FromFile(n) \notin {FromFile(total)}
  <2>1. Len(FromFile(n)) = n + 1 /\ Len(FromFile(total)) = total + 1
    BY <1>1
  <2> QED
    BY <1>5, <2>1
<1>6. \A n \in Nat : <<>> \notin {FromFile(n)}
  <2>1. ASSUME NEW n \in Nat PROVE Len(FromFile(n)) # Len(<<>>)
    <3>1. Len(FromFile(n)) = n + 1
      BY <1>1
    <3> QED
      BY <1>2, <3>1
  <2> QED
    BY <2>1
<1>7. /\ \A kind \in Scripts : Whole[kind] = {<<"500">>, FromScript(Output)}
      /\ \A kind \in NoScripts : Whole[kind] = {<<"500">>, FromScript(Buffered)}
      /\ Whole["page"] = {FromFile(Lines)} /\ Whole["cutPage"] = {FromFile(Lines - 1)}
  BY WholeIs
<1>8. \A kind \in Scripts \cup NoScripts : <<"200">> \notin Whole[kind] /\ <<>> \notin Whole[kind]
  BY <1>3, <1>4, <1>7
<1>9. /\ \A kind \in Scripts, n \in Nat : n < Output => FromScript(n) \notin Whole[kind]
      /\ \A kind \in NoScripts, n \in Nat : n < Buffered => FromScript(n) \notin Whole[kind]
  BY <1>3, <1>4, <1>7
<1>10. /\ \A n \in Nat : n < Lines => FromFile(n) \notin Whole["page"]
       /\ \A n \in Nat : n < Lines - 1 => FromFile(n) \notin Whole["cutPage"]
  BY <1>3, <1>5, <1>7
<1>11. ASSUME NEW kind \in {"missing", "noLength", "other"} \cup Pages
       PROVE  <<>> \notin Whole[kind]
  BY <1>2, <1>3, <1>6, <1>7, <1>11, WholeIs DEF Pages
<1> QED
  BY <1>8, <1>9, <1>10, <1>11 DEF Kinds

LEMMA InitMaps == Init => Promise!Init
<1> SUFFICES ASSUME Init PROVE Promise!Init
  OBVIOUS
<1>1. \A c \in Conns : connPhase[c] = "new"
  BY DEF Init, connPhase
<1> QED
  BY <1>1 DEF Init, Promise!Init, connPhase, isStopping

(* When the phase of one connection changes the step is an action of          *)
(* Connections.                                                               *)
LEMMA OneAct ==
    ASSUME NEW c \in Conns, Others(c), process' = process,
           \/ connPhase'[c] = connPhase[c]
           \/ connPhase[c] = "new" /\ connPhase'[c] = "open"
           \/ connPhase[c] = "open" /\ connPhase'[c] \in {"answered", "reset"}
           \/ connPhase[c] = "answered" /\ connPhase'[c] \in {"reset", "closed"}
           \/ connPhase[c] = "reset" /\ connPhase'[c] = "closed"
    PROVE  [Promise!Next]_Promise!vars
<1>1. \A d \in Conns : d # c => connPhase'[d] = connPhase[d]
  BY PhaseStays DEF Others, Untouched, SameFiles
<1>2. connPhase' = [connPhase EXCEPT ![c] = connPhase'[c]]
  BY <1>1, PhaseType
<1>3. isStopping' = isStopping
  BY DEF isStopping
<1>4. CASE connPhase'[c] = connPhase[c]
  <2>1. connPhase' = connPhase
    BY <1>2, <1>4, PhaseType
  <2> QED
    BY <1>3, <2>1 DEF Promise!vars
<1>5. CASE connPhase'[c] # connPhase[c]
  BY <1>2, <1>3, <1>5 DEF Promise!Next, Promise!Accept, Promise!Answer, Promise!ClientReset,
     Promise!Close, Promise!Move
<1> QED
  BY <1>4, <1>5

(* The end of the server is the end of the promise. *)
LEMMA EndActs ==
    ASSUME TypeOK, NEW fate \in Fates, fate # "up", End(fate)
    PROVE  [Promise!Next]_Promise!vars
<1>1. \A d \in Conns : connPhase'[d] = connPhase[d]
  BY EndDoes, PhaseStays DEF Untouched, SameFiles
<1>2. isStopping' = TRUE
  BY EndDoes DEF isStopping
<1> QED
  BY <1>1, <1>2, PhaseType DEF Promise!Next, Promise!Reset, Phases

LEMMA StepMaps == IInv /\ [Next]_vars => [Promise!Next]_Promise!vars
<1> SUFFICES ASSUME IInv, [Next]_vars
           PROVE  [Promise!Next]_Promise!vars
  OBVIOUS
<1>0. TypeOK /\ Main /\ \A c \in Conns : Local(c)
  BY DEF IInv, AllLocal
<1>1. ASSUME NEW c \in Conns, Accept(c) PROVE [Promise!Next]_Promise!vars
  <2>1. connPhase[c] = "new" /\ connPhase'[c] = "open"
    <3>1. /\ pc[c] = "none" /\ pc'[c] = "accepted" /\ answer'[c] = answer[c] /\ SameClient(c)
          /\ Opened(c, "sock")'
      BY <1>0, <1>1, AcceptDoes DEF Goes, Moves
    <3>2. ~left[c] /\ answer[c] = <<>> /\ request[c] \in Kinds
      BY <1>0, <3>1 DEF Local, Answer, Early, TypeOK
    <3>3. ~left'[c] /\ answer'[c] \notin Whole[request'[c]]
      BY <3>1, <3>2, NotWhole DEF SameClient
    <3> QED
      BY <3>1, <3>3, PhaseIs
  <2> QED
    BY <1>0, <1>1, <2>1, AcceptDoes, OneAct
<1>2. ASSUME NEW c \in Conns, Start(c) PROVE [Promise!Next]_Promise!vars
  <2>1. CASE End("misrouted")
    BY <1>0, <2>1, EndActs DEF Fates
  <2>2. CASE ~End("misrouted")
    <3>1. connPhase'[c] = connPhase[c]
      BY <1>0, <1>2, <2>2, StartDoes, PhaseStays DEF Goes, Replies, Steps, Moves, SameScript,
         SameClient, SameFiles
    <3> QED
      BY <1>0, <1>2, <2>2, <3>1, StartDoes, OneAct
  <2> QED
    BY <2>1, <2>2
<1>3. ASSUME NEW c \in Conns, Route(c) PROVE [Promise!Next]_Promise!vars
  <2>1. pc[c] = "route" /\ pc'[c] # "none" /\ SameClient(c) /\ SameFiles(c)
    BY <1>0, <1>3, RouteDoes DEF Replies, Moves
  <2>2. Opened(c, "sock") /\ answer[c] \notin Whole[request[c]]
    BY <1>0, <2>1, NotWhole DEF Local, Descriptors, Answer, Early, TypeOK
  <2> QED
    BY <1>0, <1>3, <2>1, <2>2, RouteDoes, PhaseAnswers, OneAct
<1>4. ASSUME NEW c \in Conns, OpenFails(c) PROVE [Promise!Next]_Promise!vars
  BY <1>0, <1>4, EndActs DEF OpenFails, Fates
<1>5. ASSUME NEW c \in Conns, Close(c) PROVE [Promise!Next]_Promise!vars
  <2>1. pc[c] = "close" /\ Opened(c, "sock") /\ ~Opened(c, "sock")' /\ pc'[c] # "none"
    BY <1>0, <1>5, CloseDoes DEF Goes, Moves, Local, Descriptors
  <2>2. left[c] \/ answer[c] \in Whole[request[c]]
    BY <1>0, <2>1 DEF Local, Answer
  <2>3. connPhase[c] \in {"reset", "answered"} /\ connPhase'[c] = "closed"
    BY <2>1, <2>2, PhaseIs
  <2> QED
    BY <1>0, <1>5, <2>3, CloseDoes, OneAct
<1>6. ASSUME NEW c \in Conns, Pipe(c, "pipe", "pipe2", {"outR", "outW"}) PROVE [Promise!Next]_Promise!vars
  <2>1. /\ Others(c) /\ process' = process
        /\ \/ Replies(c, <<"500">>, "pipe", "close")
           \/ /\ Goes(c, "pipe", "pipe2")
              /\ \A what : Opened(c, what)' <=> Opened(c, what) \/ what \in {"outR", "outW"}
    <3>1. {"outR", "outW"} \in SUBSET {"outR", "outW", "inR", "inW"} /\ {"pipe", "pipe2"} \subseteq ThreadPCs
      BY DEF ThreadPCs
    <3> QED
      BY <1>0, <1>6, <3>1, PipeDoes
  <2>2. CASE Goes(c, "pipe", "pipe2") /\ \A what : Opened(c, what)' <=> Opened(c, what) \/ what \in {"outR", "outW"}
    <3>1. connPhase'[c] = connPhase[c]
      BY <2>2, PhaseStays DEF Goes, Moves
    <3> QED
      BY <2>1, <3>1, OneAct
  <2>3. CASE Replies(c, <<"500">>, "pipe", "close")
    <3>1. pc[c] = "pipe" /\ pc'[c] = "close" /\ SameClient(c) /\ SameFiles(c)
      BY <2>3 DEF Replies, Moves
    <3>2. Opened(c, "sock") /\ answer[c] \notin Whole[request[c]]
      BY <1>0, <3>1, NotWhole DEF Local, Descriptors, Answer, Early, TypeOK
    <3> QED
      BY <2>1, <3>1, <3>2, PhaseAnswers, OneAct
  <2> QED
    BY <2>1, <2>2, <2>3
<1>7. ASSUME NEW c \in Conns, Pipe(c, "pipe2", "fork", {"inR", "inW"}) PROVE [Promise!Next]_Promise!vars
  <2>1. /\ Others(c) /\ process' = process
        /\ \/ Replies(c, <<"500">>, "pipe2", "close")
           \/ /\ Goes(c, "pipe2", "fork")
              /\ \A what : Opened(c, what)' <=> Opened(c, what) \/ what \in {"inR", "inW"}
    <3>1. {"inR", "inW"} \in SUBSET {"outR", "outW", "inR", "inW"} /\ {"pipe2", "fork"} \subseteq ThreadPCs
      BY DEF ThreadPCs
    <3> QED
      BY <1>0, <1>7, <3>1, PipeDoes
  <2>2. CASE Goes(c, "pipe2", "fork") /\ \A what : Opened(c, what)' <=> Opened(c, what) \/ what \in {"inR", "inW"}
    <3>1. connPhase'[c] = connPhase[c]
      BY <2>2, PhaseStays DEF Goes, Moves
    <3> QED
      BY <2>1, <3>1, OneAct
  <2>3. CASE Replies(c, <<"500">>, "pipe2", "close")
    <3>1. pc[c] = "pipe2" /\ pc'[c] = "close" /\ SameClient(c) /\ SameFiles(c)
      BY <2>3 DEF Replies, Moves
    <3>2. Opened(c, "sock") /\ answer[c] \notin Whole[request[c]]
      BY <1>0, <3>1, NotWhole DEF Local, Descriptors, Answer, Early, TypeOK
    <3> QED
      BY <2>1, <3>1, <3>2, PhaseAnswers, OneAct
  <2> QED
    BY <2>1, <2>2, <2>3
<1>8. ASSUME NEW c \in Conns, Fork(c) PROVE [Promise!Next]_Promise!vars
  <2>1. pc[c] = "fork" /\ pc'[c] # "none" /\ SameClient(c) /\ SameFiles(c)
    BY <1>0, <1>8, ForkDoes DEF Replies, Moves
  <2>2. Opened(c, "sock") /\ answer[c] \notin Whole[request[c]]
    BY <1>0, <2>1, NotWhole DEF Local, Descriptors, Answer, Early, TypeOK
  <2> QED
    BY <1>0, <1>8, <2>1, <2>2, ForkDoes, PhaseAnswers, OneAct
<1>9. ASSUME NEW c \in Conns, CloseEnds(c) PROVE [Promise!Next]_Promise!vars
  <2>1. connPhase'[c] = connPhase[c]
    BY <1>0, <1>9, CloseEndsDoes, PhaseStays DEF Goes, Replies, Steps, Moves, SameScript,
       SameClient, SameFiles
  <2> QED
    BY <1>0, <1>9, <2>1, CloseEndsDoes, OneAct
<1>10. ASSUME NEW c \in Conns, WriteBody(c) PROVE [Promise!Next]_Promise!vars
  <2>1. CASE End("killed")
    BY <1>0, <2>1, EndActs DEF Fates
  <2>2. CASE ~End("killed")
    <3>1. connPhase'[c] = connPhase[c]
      BY <1>0, <1>10, <2>2, WriteBodyDoes, PhaseStays DEF Steps, SameFiles
    <3> QED
      BY <1>0, <1>10, <2>2, <3>1, WriteBodyDoes, OneAct
  <2> QED
    BY <2>1, <2>2
<1>11. ASSUME NEW c \in Conns, BodyWritten(c) PROVE [Promise!Next]_Promise!vars
  <2>1. connPhase'[c] = connPhase[c]
    BY <1>0, <1>11, BodyWrittenDoes, PhaseStays DEF Goes, Replies, Steps, Moves, SameScript,
       SameClient, SameFiles
  <2> QED
    BY <1>0, <1>11, <2>1, BodyWrittenDoes, OneAct
<1>24. ASSUME NEW c \in Conns, Cat(c) PROVE [Promise!Next]_Promise!vars
  <2>1. /\ pc[c] = "cat" /\ pc'[c] # "none" /\ SameClient(c) /\ SameFiles(c)
        /\ Opened(c, "sock") /\ request[c] \in Pages
    BY <1>0, <1>24, CatDoes DEF Replies, Moves, Local, Descriptors, Answer
  <2>2. PICK n \in 0..Shown(c) : answer[c] = FromFile(n)
    BY <1>0, <2>1 DEF Local, Answer
  <2>3. Len(answer[c]) = n + 1 /\ n \in Nat /\ FromFile(n) \o <<>> = FromFile(n)
    BY <2>2, File, FirstMessage
  <2>4. CASE Feof(c)
    <3>1. connPhase'[c] = connPhase[c]
      BY <1>0, <1>24, <2>1, <2>2, <2>3, <2>4, CatDoes, PhaseStays DEF Replies, Moves, SameFiles
    <3> QED
      BY <1>0, <1>24, <3>1, CatDoes, OneAct
  <2>5. CASE ~Feof(c)
    <3>1. answer[c] \notin Whole[request[c]]
      <4>1. CASE request[c] = "page"
        BY <2>2, <2>3, <2>5, <4>1, SimAssumption, NotWhole DEF Feof
      <4>2. CASE request[c] = "cutPage"
        BY <2>2, <2>3, <2>5, <4>2, SimAssumption, NotWhole DEF Feof
      <4> QED
        BY <2>1, <4>1, <4>2 DEF Pages
    <3> QED
      BY <1>0, <1>24, <2>1, <3>1, CatDoes, PhaseAnswers, OneAct
  <2> QED
    BY <2>4, <2>5
<1>12. ASSUME NEW c \in Conns, ForwardOutput(c) PROVE [Promise!Next]_Promise!vars
  <2>1. pc[c] = "read" /\ pc'[c] = pc[c] /\ SameClient(c) /\ SameFiles(c) /\ io[c].got < io[c].printed
    BY <1>0, <1>12, ForwardOutputDoes DEF Steps
  <2>2. /\ io[c].got \in Nat /\ io[c].printed \in Nat /\ Total(c) \in Nat
        /\ io[c].printed <= Total(c) /\ child[c] \in ChildPCs
    BY <1>0, Numbers DEF TypeOK, Local, Process
  <2>3. io[c].printed # 0 /\ io[c].got < Total(c)
    BY <2>1, <2>2
  <2>4. child[c] \in {"script", "gone"} /\ request[c] \in Scripts \cup NoScripts
    BY <1>0, <2>1, <2>2, <2>3 DEF ChildPCs, Local, Process, Answer, Running
  <2>5. FromScript(io[c].got) \notin Whole[request[c]]
    BY <2>2, <2>3, <2>4, NotWhole DEF Total, Scripts, NoScripts
  <2>6. Opened(c, "sock") /\ (left[c] \/ answer[c] \notin Whole[request[c]])
    BY <1>0, <2>1, <2>4, <2>5 DEF Local, Descriptors, Answer
  <2> QED
    BY <1>0, <1>12, <2>1, <2>6, ForwardOutputDoes, PhaseAnswers, OneAct
<1>13. ASSUME NEW c \in Conns, EndOfOutput(c) PROVE [Promise!Next]_Promise!vars
  <2>1. connPhase'[c] = connPhase[c]
    BY <1>0, <1>13, EndOfOutputDoes, PhaseStays DEF Goes, Replies, Steps, Moves, SameScript,
       SameClient, SameFiles
  <2> QED
    BY <1>0, <1>13, <2>1, EndOfOutputDoes, OneAct
<1>14. ASSUME NEW c \in Conns, WaitPid(c) PROVE [Promise!Next]_Promise!vars
  <2>1. connPhase'[c] = connPhase[c]
    BY <1>0, <1>14, WaitPidDoes, PhaseStays DEF Goes, Replies, Steps, Moves, SameScript,
       SameClient, SameFiles
  <2> QED
    BY <1>0, <1>14, <2>1, WaitPidDoes, OneAct
<1>15. ASSUME NEW c \in Conns, SendFails(c) PROVE [Promise!Next]_Promise!vars
  BY <1>0, <1>15, EndActs DEF SendFails, Fates
<1>16. ASSUME NEW c \in Conns, ChildBegins(c) PROVE [Promise!Next]_Promise!vars
  <2>1. child[c] = "begin" /\ pc'[c] = pc[c] /\ SameClient(c) /\ SameFiles(c)
    BY <1>0, <1>16, ChildBeginsDoes DEF Steps
  <2>2. pc[c] \in {"closeEnds", "write", "read"} /\ answer[c] = <<"200">>
    BY <1>0, <2>1 DEF Local, Process, Answer
  <2>3. Opened(c, "sock") /\ answer[c] \notin Whole[request[c]]
    BY <1>0, <2>2, NotWhole DEF Local, Descriptors, Answer, Running
  <2> QED
    BY <1>0, <1>16, <2>1, <2>2, <2>3, ChildBeginsDoes, PhaseAnswers, OneAct
<1>17. ASSUME NEW c \in Conns, ScriptReads(c) PROVE [Promise!Next]_Promise!vars
  <2>1. connPhase'[c] = connPhase[c]
    BY <1>0, <1>17, ScriptReadsDoes, PhaseStays DEF Steps, SameFiles
  <2> QED
    BY <1>0, <1>17, <2>1, ScriptReadsDoes, OneAct
<1>18. ASSUME NEW c \in Conns, ScriptPrints(c) PROVE [Promise!Next]_Promise!vars
  <2>1. connPhase'[c] = connPhase[c]
    BY <1>0, <1>18, ScriptPrintsDoes, PhaseStays DEF Steps, SameFiles
  <2> QED
    BY <1>0, <1>18, <2>1, ScriptPrintsDoes, OneAct
<1>19. ASSUME NEW c \in Conns, ScriptExits(c) PROVE [Promise!Next]_Promise!vars
  <2>1. connPhase'[c] = connPhase[c]
    BY <1>0, <1>19, ScriptExitsDoes, PhaseStays DEF Steps, SameFiles
  <2> QED
    BY <1>0, <1>19, <2>1, ScriptExitsDoes, OneAct
<1>20. ASSUME NEW c \in Conns, Leave(c) PROVE [Promise!Next]_Promise!vars
  <2>1. /\ ~left[c] /\ left'[c] /\ Opened(c, "sock") /\ Opened(c, "sock")'
        /\ pc'[c] = pc[c] /\ pc[c] # "none"
    BY <1>0, <1>20, LeaveDoes DEF SameFiles, Local, Descriptors
  <2>2. connPhase[c] \in {"open", "answered"} /\ connPhase'[c] = "reset"
    BY <2>1, PhaseIs
  <2> QED
    BY <1>0, <1>20, <2>2, LeaveDoes, OneAct
<1>21. ASSUME Create PROVE [Promise!Next]_Promise!vars
  <2>1. client_sock \in Conns /\ pc[client_sock] = "accepted"
    BY <1>0, <1>21 DEF Create, Main
  <2>2. connPhase'[client_sock] = connPhase[client_sock]
    BY <1>0, <1>21, <2>1, CreateDoes, PhaseStays DEF Goes, Replies, Steps, Moves, SameScript,
       SameClient, SameFiles
  <2> QED
    BY <1>0, <1>21, <2>1, <2>2, CreateDoes, OneAct
<1>22. ASSUME AcceptFails PROVE [Promise!Next]_Promise!vars
  BY <1>0, <1>22, EndActs DEF AcceptFails, Fates
<1>23. ASSUME UNCHANGED vars PROVE [Promise!Next]_Promise!vars
  BY <1>23 DEF vars, clients, Promise!vars, connPhase, isStopping
<1> QED
  BY <1>1, <1>2, <1>3, <1>4, <1>5, <1>6, <1>7, <1>8, <1>9, <1>10, <1>11, <1>12, <1>13, <1>14,
     <1>15, <1>16, <1>17, <1>18, <1>19, <1>20, <1>21, <1>22, <1>23, <1>24 DEF Next, Thread, Child

(* Every step of the server is a step of Connections or leaves it alone: a    *)
(* connection is closed only after its whole answer or after its client went. *)
THEOREM SimHttpImplementsConnections == Spec => ImplementsConnections
<1> QED
  BY InitMaps, StepMaps, Invariant, PTL DEF Spec, Promise!Spec, ImplementsConnections
=============================================================================
