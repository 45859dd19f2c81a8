----------------------------- MODULE Socket -----------------------------
(* A connected TcpSocket of src/ztHttp/ztHttp/tcp.cpp with its Http parser, *)
(* its peer and the kernel between them.  One thread calls the socket, in   *)
(* any order; EpollEventHandler::handle_event() calls read(), write() and   *)
(* disConnected() once each.                                                *)
(*                                                                          *)
(* Bytes are numbered: the n-th byte the peer sends, and the n-th byte that *)
(* is appended to the send buffer, is n.  The buffers are the byte streams  *)
(* that IOBuffer implements.                                                *)
EXTENDS Naturals, Sequences

CONSTANTS
    MaxIn,          \* bounds what the peer sends
    MaxOut,         \* bounds what is appended to the send buffer
    MaxRecv,        \* _maxRecvSize
    MaxSend         \* _maxSendSize

ASSUME SocketAssumption == MaxIn \in Nat /\ MaxOut \in Nat /\ {MaxRecv, MaxSend} \subseteq Nat \ {0}

VARIABLES
    sendBuffer, recvBuffer, in_buffer,
    sendCall, recvCall, disConnCall,
    isConnected,
    writeEnd,       \* "open", or "shut" by shutdown(SHUT_WR)
    peer,           \* "open", "closed" or "reset"
    inbound,        \* bytes on their way from the peer
    incoming,       \* how many bytes the peer has sent
    parsed,         \* history: all that the parser was given
    appended,       \* how many bytes were appended to sendBuffer
    wire,           \* the bytes the kernel took
    process         \* "up", "killed" by SIGPIPE, or "crashed"

input == <<recvBuffer, in_buffer, inbound, parsed>>
output == <<sendBuffer, appended, wire>>
callbacks == <<sendCall, recvCall, disConnCall>>
other == <<peer, incoming>>
vars == <<input, output, callbacks, other, isConnected, writeEnd, process>>

Run(from, to) == [i \in 1..(to - from) |-> from + i]    \* from + 1, ..., to
Drop(s, n) == SubSeq(s, n + 1, Len(s))
Least(m, n) == IF m < n THEN m ELSE n

Callbacks == {"null", "set", "wild"}

(* The constructor leaves the callbacks as the memory was. *)
Init ==
    /\ sendBuffer = <<>> /\ recvBuffer = <<>> /\ in_buffer = <<>>
    /\ sendCall \in {"null", "wild"} /\ recvCall \in {"null", "wild"}
    /\ disConnCall \in {"null", "wild"}
    /\ isConnected = TRUE
    /\ writeEnd = "open"
    /\ peer = "open"
    /\ inbound = <<>> /\ parsed = <<>> /\ wire = <<>>
    /\ incoming = 0 /\ appended = 0
    /\ process = "up"

-----------------------------------------------------------------------------
(* The peer.  After a close() of its end it may still reset the connection. *)

PeerSends ==
    /\ peer = "open" /\ incoming < MaxIn
    /\ incoming' = incoming + 1
    /\ inbound' = Append(inbound, incoming')
    /\ UNCHANGED <<recvBuffer, in_buffer, parsed, output, callbacks, peer,
                   isConnected, writeEnd, process>>

PeerEnds ==
    /\ peer # "reset"
    /\ peer' \in {"closed", "reset"} \ {peer}
    /\ UNCHANGED <<input, output, callbacks, incoming, isConnected, writeEnd, process>>

-----------------------------------------------------------------------------
(* The calls *)

SetSendCallBack == sendCall' = "set" /\ UNCHANGED <<recvCall, disConnCall>>
SetRecvCallBack == recvCall' = "set" /\ UNCHANGED <<sendCall, disConnCall>>
SetDisConnectedCallBack == disConnCall' = "set" /\ UNCHANGED <<sendCall, recvCall>>

SetCallBack ==
    /\ SetSendCallBack \/ SetRecvCallBack \/ SetDisConnectedCallBack
    /\ UNCHANGED <<input, output, other, isConnected, writeEnd, process>>

(* A call through a pointer that was never set. *)
Crash(callback) ==
    /\ callback = "wild"
    /\ process' = "crashed"
    /\ UNCHANGED <<input, output, callbacks, other, isConnected, writeEnd>>

(* Mutant: the bytes stay in the buffer they were parsed from. *)
Mut_HttpRead(s) == recvBuffer' = s /\ in_buffer' = s /\ parsed' = parsed \o s

(* Http::read(): the parser's buffer is replaced, the socket's emptied. *)
HttpRead(s) == recvBuffer' = <<>> /\ in_buffer' = s /\ parsed' = parsed \o s

(* read(): some bytes, or the end of the connection or an error, which looks  *)
(* the same.  The callback may take all there is.  With nothing left the      *)
(* write end is shut, and Http::read() consumes from an empty list, which     *)
(* is undefined.                                                              *)
Read ==
    /\ isConnected /\ recvCall # "wild"
    /\ \E n \in 0..Least(MaxRecv, Len(inbound)), taken \in {FALSE, recvCall = "set"} :
         LET got == recvBuffer \o SubSeq(inbound, 1, n)
             left == IF taken THEN <<>> ELSE got IN
         /\ n = 0 => peer = "reset" \/ (peer = "closed" /\ inbound = <<>>)
         /\ inbound' = Drop(inbound, n)
         /\ IF left = <<>>
              THEN /\ writeEnd' = "shut"
                   /\ process' \in {"up", "crashed"}
                   /\ recvBuffer' = <<>> /\ in_buffer' = <<>>
                   /\ parsed' = parsed \o got
              ELSE HttpRead(left) /\ UNCHANGED <<writeEnd, process>>
    /\ recvCall' = "null"
    /\ UNCHANGED <<output, sendCall, disConnCall, other, isConnected>>

(* Http::write(): get_line() stores every character of a line in buf[0], no    *)
(* method is one character long, and the answer is always this one.           *)
Unimplemented == 2
HttpWrite == Unimplemented

(* Mutant: what pullDown() showed is consumed, not what send() took. *)
Mut_Unsent(s, n) == Drop(s, Least(MaxSend, Len(s)))
Unsent(s, n) == Drop(s, n)

(* Mutant: the write end is shut after every send(). *)
Mut_Finished(unsent) == TRUE
Finished(unsent) == unsent = <<>>

(* write(chunk): the chunk, what the callback adds and an answer go to the    *)
(* buffer; send() takes some of it, or fails; an empty buffer shuts the write *)
(* end.  Sending after that, or to a peer that reset, raises SIGPIPE.         *)
Write(chunk) ==
    /\ isConnected /\ sendCall # "wild"
    /\ appended' = appended + chunk + HttpWrite + IF sendCall = "set" THEN 1 ELSE 0
    /\ appended' <= MaxOut
    /\ LET s == sendBuffer \o Run(appended, appended') IN
         \/ \E n \in 1..Least(MaxSend, Len(s)) :
              /\ writeEnd = "open" /\ peer # "reset"
              /\ wire' = wire \o SubSeq(s, 1, n)
              /\ sendBuffer' = Unsent(s, n)
              /\ writeEnd' = IF Finished(sendBuffer') THEN "shut" ELSE "open"
              /\ UNCHANGED process
         \/ /\ sendBuffer' = s
            /\ process' = IF writeEnd = "shut" THEN "killed" ELSE "up"
            /\ UNCHANGED <<wire, writeEnd>>
         \/ /\ peer = "reset" /\ process' = "killed"
            /\ sendBuffer' = s
            /\ UNCHANGED <<wire, writeEnd>>
    /\ sendCall' = "null"
    /\ UNCHANGED <<input, recvCall, disConnCall, other, isConnected>>

DisConnected ==
    /\ disConnCall # "wild"
    /\ isConnected' = FALSE
    /\ UNCHANGED <<input, output, callbacks, other, writeEnd, process>>

Next ==
    /\ process = "up"
    /\ \/ PeerSends \/ PeerEnds
       \/ SetCallBack
       \/ Read
       \/ \E chunk \in 0..1 : Write(chunk)
       \/ \E callback \in {recvCall, sendCall} : isConnected /\ Crash(callback)
       \/ DisConnected \/ Crash(disConnCall)

Spec == Init /\ [][Next]_vars

-----------------------------------------------------------------------------
(* Properties *)

(* Every variable has its type; the parser sees one recv() at a time. *)
TypeOK ==
    /\ recvBuffer = <<>> /\ Len(in_buffer) <= MaxRecv
    /\ {sendCall, recvCall, disConnCall} \subseteq Callbacks
    /\ isConnected \in BOOLEAN
    /\ writeEnd \in {"open", "shut"}
    /\ peer \in {"open", "closed", "reset"}
    /\ incoming \in 0..MaxIn /\ appended \in 0..MaxOut
    /\ process \in {"up", "killed", "crashed"}

(* What is appended to the send buffer reaches the kernel once and in order,  *)
(* however little send() takes of it and however often it fails.              *)
OutputIsWhole == wire \o sendBuffer = Run(0, appended)

(* What the peer sends reaches the parser or the callback once and in order,  *)
(* although the parser's buffer is replaced by every read().                  *)
InputIsWhole == parsed \o inbound = Run(0, incoming)

(* The write end is shut when all that was appended has been sent, or when    *)
(* read() leaves the parser nothing.                                          *)
ShutWhenFinished ==
    [][writeEnd' # writeEnd => sendBuffer' = <<>> \/ in_buffer' = <<>>]_vars
=============================================================================
