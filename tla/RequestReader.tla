-------------------------- MODULE RequestReader --------------------------
(* What a thread of src/ztHttp/ztHttp/simHttp.cpp takes off its connection: *)
(* the request line and the headers, line by line with get_line(), and the  *)
(* body of a POST.  The route is decided between them (SimHttp); here it is *)
(* a choice.                                                                *)
EXTENDS Integers, SequencesExt

CONSTANTS
    MaxInput,       \* bounds what the client sends
    BufSize,        \* sizeof(buf), a few characters here
    Lengths         \* the numbers atoi() may find in a Content-Length header

ASSUME ReaderAssumption ==
    BufSize \in Nat \ {0, 1} /\ Lengths \subseteq Int /\ MaxInput \in Nat

(* "get" and "post" stand for the text of a request line, "length" for a      *)
(* Content-Length header, "x" for other text.                                 *)
Ends == {"CR", "LF"}
Chars == {"x", "length"} \cup Ends
Methods == {"get", "post", "x"}
Texts == Seq(Methods \cup Chars)

VARIABLES
    input,          \* all that the client sends
    closes,         \* whether it then closes its end, or waits
    rest,           \* what of it was not received yet
    buf,            \* the line get_line() is reading
    taken,          \* history: the lines it has returned, in one text
    pc,             \* "request", "headers", "body" or "done"
    method,
    content_length,
    given           \* the body as it goes to the script

vars == <<input, closes, rest, buf, taken, pc, method, content_length, given>>

(* Nothing, or a text whose first character may belong to no request line. *)
Inputs ==
    {<<>>} \cup {<<p[1]>> \o p[2] : p \in (Methods \cup Chars) \X SeqOf(Chars, MaxInput)}

Init ==
    /\ input \in Inputs
    /\ closes \in BOOLEAN
    /\ rest = input
    /\ buf = <<>> /\ taken = <<>> /\ given = <<>>
    /\ pc = "request"
    /\ method = "none"
    /\ content_length = -1

-----------------------------------------------------------------------------
(* get_line() *)

Reading == pc \in {"request", "headers"}
AtEOF == rest = <<>> /\ closes

(* Mutant: no place is left for the terminating null. *)
Mut_LineDone == Len(buf) = BufSize \/ (buf # <<>> /\ Last(buf) = "LF")
LineDone == Len(buf) = BufSize - 1 \/ (buf # <<>> /\ Last(buf) = "LF")

(* Mutant: whatever follows a carriage return is taken with it. *)
Mut_AfterCR(s) == IF s # <<>> THEN Tail(s) ELSE s

(* MSG_PEEK after a carriage return: a linefeed is taken with it. *)
AfterCR(s) == IF s # <<>> /\ Head(s) = "LF" THEN Tail(s) ELSE s

(* One turn of the loop.  The peek waits for the client's next character. *)
Receive ==
    /\ Reading /\ ~LineDone /\ rest # <<>>
    /\ IF Head(rest) = "CR"
         THEN /\ Len(rest) > 1 \/ closes
              /\ buf' = Append(buf, "LF")
              /\ rest' = AfterCR(Tail(rest))
         ELSE /\ buf' = Append(buf, Head(rest))
              /\ rest' = Tail(rest)
    /\ UNCHANGED <<input, closes, taken, pc, method, content_length, given>>

Returns == Reading /\ (LineDone \/ AtEOF)

-----------------------------------------------------------------------------
(* accept_request(), serve_file(), execute_cgi() *)

(* Any other method is answered at once, an empty one too, and so is a bad    *)
(* route.                                                                     *)
RequestLine ==
    /\ Returns /\ pc = "request"
    /\ taken' = taken \o buf
    /\ buf' = <<>>
    /\ method' = IF buf # <<>> /\ buf[1] \in {"get", "post"} THEN buf[1] ELSE "other"
    /\ pc' = IF method' = "other" THEN "done" ELSE "headers"
    /\ UNCHANGED <<input, closes, rest, content_length, given>>

(* Mutant: the end of the connection is not noticed. *)
Mut_More == buf # <<"LF">>

(* (numchars > 0) && strcmp("\n", buf) *)
More == buf # <<>> /\ buf # <<"LF">>

(* Mutant: the header is found anywhere in a line. *)
Mut_HeaderIn(line) == "length" \in Range(line)

(* strcasecmp(buf, "Content-Length:") of the first 15 characters *)
HeaderIn(line) == line # <<>> /\ line[1] = "length"

Header ==
    /\ Returns /\ pc = "headers" /\ More
    /\ taken' = taken \o buf
    /\ buf' = <<>>
    /\ content_length' \in IF method = "post" /\ HeaderIn(buf)
                             THEN Lengths ELSE {content_length}
    /\ UNCHANGED <<input, closes, rest, pc, method, given>>

(* A POST with a length may find a script, which gets the body; of a length   *)
(* that is not positive it gets nothing.                                      *)
HeadersEnd ==
    /\ Returns /\ pc = "headers" /\ ~More
    /\ taken' = taken \o buf
    /\ buf' = <<>>
    /\ \/ pc' = "done"
       \/ content_length > 0 /\ pc' = "body"
    /\ UNCHANGED <<input, closes, rest, method, content_length, given>>

(* Mutant: line ends are converted as get_line() does. *)
Mut_NextBytes ==
    IF rest # <<>> THEN {IF Head(rest) = "CR" THEN "LF" ELSE Head(rest)}
    ELSE IF given # <<>> THEN {Last(given)} ELSE Chars

(* recv(client, &c, 1, 0) leaves c as it was when nothing is left; before the *)
(* first byte it is not initialised.                                          *)
NextBytes ==
    IF rest # <<>> THEN {Head(rest)}
    ELSE IF given # <<>> THEN {Last(given)} ELSE Chars

CopyBody ==
    /\ pc = "body" /\ (rest # <<>> \/ closes)
    /\ \E c \in NextBytes : given' = Append(given, c)
    /\ rest' = IF rest = <<>> THEN rest ELSE Tail(rest)
    /\ pc' = IF Len(given') = content_length THEN "done" ELSE "body"
    /\ UNCHANGED <<input, closes, buf, taken, method, content_length>>

Next == Receive \/ RequestLine \/ Header \/ HeadersEnd \/ CopyBody

Spec == Init /\ [][Next]_vars

(* The thread runs when recv() has something for it. *)
FairSpec == Spec /\ WF_vars(Next)

-----------------------------------------------------------------------------
(* The reference: a text with its line ends made "LF", and where its header   *)
(* block ends.  Of the characters that are kept, that at i has Place(s, i).   *)
LineEnd(c) == IF c = "CR" THEN "LF" ELSE c
Kept(s) == {i \in 1..Len(s) : ~(s[i] = "LF" /\ i > 1 /\ s[i - 1] = "CR")}
Place(s, i) == Cardinality({j \in Kept(s) : j <= i})
Plain(s) ==
    [n \in 1..Cardinality(Kept(s)) |->
        CHOOSE c \in Methods \cup Chars :
            \E i \in Kept(s) : Place(s, i) = n /\ c = LineEnd(s[i])]

BlankLines(t) == {i \in 2..Len(t) : t[i - 1] = "LF" /\ t[i] = "LF"}
HeaderBlock(t) ==
    IF BlankLines(t) = {} THEN t
    ELSE SubSeq(t, 1, CHOOSE i \in BlankLines(t) : \A j \in BlankLines(t) : i <= j)

(* No line of t fills the buffer. *)
LinesFit(t) ==
    \A i \in 1..Len(t) :
        i + BufSize - 2 <= Len(t) =>
            \E j \in i..(i + BufSize - 2) : t[j] = "LF"

(* Whether t has the header at the beginning of a line after the first. *)
HasLength(t) == \E i \in 2..Len(t) : t[i - 1] = "LF" /\ t[i] = "length"

-----------------------------------------------------------------------------
(* Properties *)

(* Every variable has its type; a line and its null fit in buf, and the body   *)
(* has no byte too many.                                                       *)
TypeOK ==
    /\ input \in Inputs /\ closes \in BOOLEAN
    /\ rest \in Texts /\ taken \in Texts /\ given \in Texts
    /\ buf \in Texts /\ Len(buf) < BufSize
    /\ pc \in {"request", "headers", "body", "done"}
    /\ method \in {"none", "get", "post", "other"}
    /\ content_length \in {-1} \cup Lengths
    /\ given # <<>> => Len(given) <= content_length

(* The lines are the text the client sent, whichever of the three line ends   *)
(* it uses and wherever the buffer cuts a line: nothing is lost, repeated or   *)
(* taken from the line, or the body, that follows.                            *)
LinesKeepText ==
    Reading =>
        \E k \in 0..Len(input) :
            /\ rest = SubSeq(input, k + 1, Len(input))
            /\ Plain(SubSeq(input, 1, k)) = taken \o buf

(* The headers end at the blank line, and nowhere else, as long as no line    *)
(* fills the buffer; a length then comes from a header of a POST, and such a  *)
(* header is not missed.                                                      *)
HeadersEndAtBlankLine ==
    (pc = "body" \/ pc = "done") /\ method # "other" /\ LinesFit(Plain(input)) =>
        /\ taken = HeaderBlock(Plain(input))
        /\ content_length \in IF method = "post" /\ HasLength(taken) THEN Lengths ELSE {-1}

(* The script gets what follows the headers, byte by byte and no byte of its  *)
(* line end, and if the client sends less the last byte again and again.      *)
BodyFollowsHeaders ==
    given # <<>> =>
        \E k \in 0..Len(input) :
            LET sent == SubSeq(input, k + 1, Len(input)) IN
            /\ Plain(SubSeq(input, 1, k)) = taken
            /\ k < Len(input) /\ input[k] = "CR" => input[k + 1] # "LF"
            /\ \A i \in 1..Len(given) :
                 IF i <= Len(sent) THEN given[i] = sent[i]
                 ELSE i > 1 => given[i] = given[i - 1]

(* The request is read to its end.  The headers are, for a client that closes  *)
(* its end whatever it sent, and for one that waits once it has sent a blank   *)
(* line, unless a lone carriage return is all that is left: there the peek     *)
(* waits for a character that the client does not owe.  The body is, when the  *)
(* client closes its end or has sent as many bytes as its header says.         *)
RequestIsRead ==
    /\ closes \/ BlankLines(Plain(input)) # {}
       ~> pc \in {"body", "done"} \/ (~closes /\ rest = <<"CR">>)
    /\ pc = "body" /\ (closes \/ Len(given) + Len(rest) >= content_length)
       ~> pc = "done"
=============================================================================
