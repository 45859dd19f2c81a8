-------------------------- MODULE Socket_proofs --------------------------
(* Proofs about a socket and its parser, for any bounds on what is sent and *)
(* any sizes of one recv() and one send().  OutputIsWhole and InputIsWhole  *)
(* are inductive with the types of the buffers; the rest is a fact about    *)
(* sequences: cutting a stream in two and joining the parts again.          *)
EXTENDS Socket, SequenceTheorems, TLAPS

BuffersTyped ==
    /\ sendBuffer \in Seq(Nat) /\ wire \in Seq(Nat)
    /\ in_buffer \in Seq(Nat) /\ inbound \in Seq(Nat) /\ parsed \in Seq(Nat)

Types == TypeOK /\ BuffersTyped
IInv == Types /\ OutputIsWhole /\ InputIsWhole

-----------------------------------------------------------------------------
(* Facts about streams *)

LEMMA RunType ==
    ASSUME NEW m \in Nat, NEW n \in Nat, m <= n
    PROVE  /\ Run(m, n) \in Seq(Nat)
           /\ Len(Run(m, n)) = n - m
           /\ \A i \in 1..(n - m) : Run(m, n)[i] = m + i
  BY DEF Run

(* A numbered stream is continued by the next numbers. *)
LEMMA RunGrows ==
    ASSUME NEW m \in Nat, NEW n \in Nat, m <= n
    PROVE  Run(0, m) \o Run(m, n) = Run(0, n)
<1>1. /\ Run(0, m) \in Seq(Nat) /\ Len(Run(0, m)) = m
      /\ \A i \in 1..m : Run(0, m)[i] = i
  <2>1. 0 \in Nat /\ 0 <= m /\ m - 0 = m /\ \A i \in 1..m : 0 + i = i
    OBVIOUS
  <2> QED
    BY <2>1, RunType
<1>2. /\ Run(0, n) \in Seq(Nat) /\ Len(Run(0, n)) = n
      /\ \A i \in 1..n : Run(0, n)[i] = i
  <2>1. 0 \in Nat /\ 0 <= n /\ n - 0 = n /\ \A i \in 1..n : 0 + i = i
    OBVIOUS
  <2> QED
    BY <2>1, RunType
<1>3. /\ Run(m, n) \in Seq(Nat) /\ Len(Run(m, n)) = n - m
      /\ \A i \in 1..(n - m) : Run(m, n)[i] = m + i
  BY RunType
<1>4. /\ Run(0, m) \o Run(m, n) \in Seq(Nat)
      /\ Len(Run(0, m) \o Run(m, n)) = n
      /\ \A i \in 1..n : (Run(0, m) \o Run(m, n))[i]
            = IF i <= m THEN Run(0, m)[i] ELSE Run(m, n)[i - m]
  <2> DEFINE a == Run(0, m)
             b == Run(m, n)
  <2>1. m + (n - m) = n
    OBVIOUS
  <2>2. /\ a \o b \in Seq(Nat) /\ Len(a \o b) = Len(a) + Len(b)
        /\ \A i \in 1..(Len(a) + Len(b)) :
             (a \o b)[i] = IF i <= Len(a) THEN a[i] ELSE b[i - Len(a)]
    <3>1. a \in Seq(Nat) /\ b \in Seq(Nat)
      BY <1>1, <1>3
    <3> HIDE DEF a, b
    <3> QED
      BY <3>1, ConcatProperties
  <2>3. Len(a) + Len(b) = n
    BY <1>1, <1>3, <2>1
  <2> QED
    BY <1>1, <2>2, <2>3
<1>5. ASSUME NEW i \in 1..n PROVE (Run(0, m) \o Run(m, n))[i] = Run(0, n)[i]
  <2>1. CASE i <= m
    BY <1>1, <1>2, <1>4, <2>1
  <2>2. CASE ~(i <= m)
    <3>1. i - m \in 1..(n - m) /\ m + (i - m) = i
      BY <2>2
    <3>2. Run(m, n)[i - m] = i
      BY <1>3, <3>1
    <3> QED
      BY <1>2, <1>4, <2>2, <3>2
  <2> QED
    BY <2>1, <2>2
<1> QED
  BY <1>2, <1>4, <1>5, SeqEqual

(* What is taken from the front of a stream and what is left make it up. *)
LEMMA CutAndJoin ==
    ASSUME NEW s \in Seq(Nat), NEW n \in 0..Len(s)
    PROVE  /\ SubSeq(s, 1, n) \in Seq(Nat) /\ Drop(s, n) \in Seq(Nat)
           /\ Len(SubSeq(s, 1, n)) = n
           /\ SubSeq(s, 1, n) \o Drop(s, n) = s
<1>1. Len(s) \in Nat /\ n \in Nat /\ n <= Len(s) /\ \A i \in 1..Len(s) : s[i] \in Nat
  OBVIOUS
<1>2. /\ SubSeq(s, 1, n) \in Seq(Nat)
      /\ Len(SubSeq(s, 1, n)) = n
  <2>1. \A i \in 1..n : s[i] \in Nat
    BY <1>1
  <2>2. /\ SubSeq(s, 1, n) \in Seq(Nat)
        /\ Len(SubSeq(s, 1, n)) = IF 1 <= n THEN n - 1 + 1 ELSE 0
    BY <1>1, <2>1, SubSeqProperties
  <2>3. (IF 1 <= n THEN n - 1 + 1 ELSE 0) = n
    BY <1>1
  <2> QED
    BY <2>2, <2>3
<1>3. Drop(s, n) \in Seq(Nat)
  <2>1. \A i \in (n + 1)..Len(s) : s[i] \in Nat
    BY <1>1
  <2> QED
    BY <1>1, <2>1, SubSeqProperties DEF Drop
<1>4. SubSeq(s, 1, n) \o SubSeq(s, n + 1, Len(s)) = SubSeq(s, 1, Len(s))
  <2>1. 1 \in 1..(Len(s) + 1) /\ n \in (1 - 1)..Len(s) /\ Len(s) \in n..Len(s)
    BY <1>1
  <2> QED
    BY <2>1, ConcatAdjacentSubSeq
<1>5. SubSeq(s, 1, Len(s)) = s
  BY SubSeqFull
<1> QED
  BY <1>2, <1>3, <1>4, <1>5, Zenon DEF Drop

LEMMA Associative ==
    \A s, t, u \in Seq(Nat) : (s \o t) \o u = s \o (t \o u)
  BY ConcatAssociative

LEMMA Joined ==
    ASSUME NEW s \in Seq(Nat), NEW t \in Seq(Nat), NEW n \in 0..Len(t)
    PROVE  (s \o SubSeq(t, 1, n)) \o Drop(t, n) = s \o t
<1>1. /\ SubSeq(t, 1, n) \in Seq(Nat) /\ Drop(t, n) \in Seq(Nat)
      /\ SubSeq(t, 1, n) \o Drop(t, n) = t
  BY CutAndJoin
<1>2. (s \o SubSeq(t, 1, n)) \o Drop(t, n) = s \o (SubSeq(t, 1, n) \o Drop(t, n))
  BY <1>1, Associative
<1> QED
  BY <1>1, <1>2, Zenon

-----------------------------------------------------------------------------
(* The inductive invariant *)

LEMMA InitIInv == Init => IInv
<1> SUFFICES ASSUME Init PROVE IInv
  OBVIOUS
<1>1. <<>> \in Seq(Nat) /\ Len(<<>>) = 0
  BY EmptySeq
<1>2. Types
  BY <1>1, SocketAssumption DEF Init, Types, TypeOK, BuffersTyped, Callbacks
<1>3. Run(0, 0) = <<>> /\ <<>> \o <<>> = <<>>
  BY <1>1, RunType, ConcatEmptySeq
<1> QED
  BY <1>2, <1>3 DEF Init, IInv, OutputIsWhole, InputIsWhole

(* One more byte from the peer. *)
LEMMA PeerSendsKeeps ==
    ASSUME IInv, PeerSends
    PROVE  IInv'
<1>1. /\ incoming \in Nat /\ incoming' = incoming + 1 /\ incoming' <= MaxIn
      /\ inbound' = Append(inbound, incoming')
  BY SocketAssumption DEF IInv, Types, TypeOK, PeerSends
<1>2. inbound' \in Seq(Nat) /\ inbound' = inbound \o <<incoming'>>
  BY <1>1 DEF IInv, Types, BuffersTyped
<1>3. Run(incoming, incoming + 1) = <<incoming'>>
  BY <1>1 DEF Run
<1>4. parsed \o inbound' = (parsed \o inbound) \o <<incoming'>>
  <2>1. <<incoming'>> \in Seq(Nat)
    BY <1>1
  <2> QED
    BY <1>2, <2>1, ConcatAssociative DEF IInv, Types, BuffersTyped
<1>5. parsed \o inbound' = Run(0, incoming')
  <2>1. Run(0, incoming) \o Run(incoming, incoming + 1) = Run(0, incoming + 1)
    <3>1. incoming + 1 \in Nat /\ incoming <= incoming + 1
      BY <1>1
    <3> QED
      BY <1>1, <3>1, RunGrows
  <2> QED
    BY <1>1, <1>3, <1>4, <2>1, Zenon DEF IInv, InputIsWhole
<1>6. UNCHANGED <<recvBuffer, in_buffer, parsed, output, callbacks, peer, isConnected,
writeEnd, process>>
  BY DEF PeerSends
<1>7. InputIsWhole' /\ OutputIsWhole'
  BY <1>5, <1>6 DEF IInv, InputIsWhole, OutputIsWhole, output
<1>8. incoming' \in 0..MaxIn
  BY <1>1, SocketAssumption
<1> QED
  BY <1>2, <1>6, <1>7, <1>8 DEF IInv, Types, TypeOK, BuffersTyped, output, callbacks

(* What read() takes from the connection goes to the parser or the callback. *)
LEMMA ReadKeeps ==
    ASSUME IInv, Read
    PROVE  IInv'
<1> USE DEF IInv, Types, TypeOK, BuffersTyped
<1>1. PICK n \in 0..Least(MaxRecv, Len(inbound)), taken \in {FALSE, recvCall = "set"} :
         LET got == recvBuffer \o SubSeq(inbound, 1, n)
             left == IF taken THEN <<>> ELSE got IN
         /\ inbound' = Drop(inbound, n)
         /\ IF left = <<>>
              THEN /\ writeEnd' = "shut"
                   /\ process' \in {"up", "crashed"}
                   /\ recvBuffer' = <<>> /\ in_buffer' = <<>>
                   /\ parsed' = parsed \o got
              ELSE HttpRead(left) /\ UNCHANGED <<writeEnd, process>>
  BY DEF Read
<1>2. MaxRecv \in Nat /\ Len(inbound) \in Nat
  BY SocketAssumption
<1>3. n \in 0..Len(inbound) /\ n <= MaxRecv
  BY <1>2 DEF Least
<1> DEFINE got == SubSeq(inbound, 1, n)
<1>4. got \in Seq(Nat) /\ Len(got) = n /\ Drop(inbound, n) \in Seq(Nat)
  BY <1>3, CutAndJoin
<1>5. recvBuffer \o got = got
  BY <1>4, ConcatEmptySeq
<1>6. /\ parsed' = parsed \o got /\ inbound' = Drop(inbound, n) /\ recvBuffer' = <<>>
      /\ in_buffer' \in {<<>>, got}
      /\ writeEnd' \in {writeEnd, "shut"} /\ process' \in {process, "up", "crashed"}
  BY <1>1, <1>5 DEF HttpRead
<1>7. parsed \o got \in Seq(Nat) /\ (parsed \o got) \o Drop(inbound, n) = parsed \o inbound
  BY <1>3, <1>4, Joined, ConcatProperties
<1>8. Len(<<>>) = 0 /\ <<>> \in Seq(Nat)
  BY EmptySeq
<1>9. in_buffer' \in Seq(Nat) /\ Len(in_buffer') <= MaxRecv
  <2>1. n \in Nat /\ 0 <= MaxRecv
    BY <1>2, <1>3
  <2>2. in_buffer' = <<>> \/ in_buffer' = got
    BY <1>6
  <2>3. CASE in_buffer' = <<>>
    BY <1>8, <2>1, <2>3
  <2>4. CASE in_buffer' = got
    BY <1>3, <1>4, <2>1, <2>4
  <2> QED
    BY <2>2, <2>3, <2>4
<1>10. InputIsWhole'
  BY <1>6, <1>7 DEF InputIsWhole, Read, other
<1>11. UNCHANGED <<output, sendCall, disConnCall, other, isConnected>> /\ recvCall' = "null"
  BY DEF Read
<1> QED
  BY <1>4, <1>6, <1>7, <1>9, <1>10, <1>11 DEF OutputIsWhole, output, other, Callbacks

(* What send() takes and what stays in the buffer are what was appended. *)
LEMMA WriteKeeps ==
    ASSUME IInv, NEW chunk \in 0..1, Write(chunk)
    PROVE  IInv'
<1> USE DEF IInv, Types, TypeOK, BuffersTyped
<1>1. appended \in Nat /\ appended' \in Nat /\ appended <= appended' /\ appended' <= MaxOut
  BY SocketAssumption DEF Write, HttpWrite, Unimplemented
<1> DEFINE pending == sendBuffer \o Run(appended, appended')
<1>2. pending \in Seq(Nat) /\ wire \o pending = Run(0, appended')
  <2>1. Run(appended, appended') \in Seq(Nat)
    BY <1>1, RunType
  <2>2. (wire \o sendBuffer) \o Run(appended, appended') = wire \o pending
    <3> DEFINE more == Run(appended, appended')
    <3>1. wire \in Seq(Nat) /\ sendBuffer \in Seq(Nat) /\ more \in Seq(Nat)
      BY <2>1
    <3> HIDE DEF more
    <3>2. (wire \o sendBuffer) \o more = wire \o (sendBuffer \o more)
      BY <3>1, Associative
    <3> QED
      BY <3>2 DEF more
  <2> QED
    BY <1>1, <2>1, <2>2, RunGrows, ConcatProperties DEF OutputIsWhole
<1>3. /\ \/ \E n \in 1..Least(MaxSend, Len(pending)) :
              /\ wire' = wire \o SubSeq(pending, 1, n)
              /\ sendBuffer' = Drop(pending, n)
         \/ sendBuffer' = pending /\ wire' = wire
      /\ writeEnd' \in {"open", "shut"}
      /\ process' \in {"up", "killed", "crashed"}
  BY DEF Write, Unsent
<1>4. sendBuffer' \in Seq(Nat) /\ wire' \in Seq(Nat) /\ OutputIsWhole'
  <2>1. CASE sendBuffer' = pending /\ wire' = wire
    BY <1>2, <2>1 DEF OutputIsWhole
  <2>2. ASSUME NEW n \in 1..Least(MaxSend, Len(pending)),
               wire' = wire \o SubSeq(pending, 1, n), sendBuffer' = Drop(pending, n)
        PROVE  sendBuffer' \in Seq(Nat) /\ wire' \in Seq(Nat) /\ OutputIsWhole'
    <3>1. MaxSend \in Nat /\ Len(pending) \in Nat
      BY <1>2, SocketAssumption
    <3>2. n \in 0..Len(pending)
      BY <3>1 DEF Least
    <3>3. /\ SubSeq(pending, 1, n) \in Seq(Nat) /\ Drop(pending, n) \in Seq(Nat)
          /\ (wire \o SubSeq(pending, 1, n)) \o Drop(pending, n) = wire \o pending
      BY <1>2, <3>2, CutAndJoin, Joined
    <3>4. wire \o SubSeq(pending, 1, n) \in Seq(Nat)
      BY <3>3, ConcatProperties
    <3> QED
      BY <1>2, <2>2, <3>3, <3>4 DEF OutputIsWhole
  <2> QED
    BY <1>3, <2>1, <2>2
<1>5. UNCHANGED <<input, recvCall, disConnCall, other, isConnected>> /\ sendCall' = "null"
  BY DEF Write
<1> QED
  BY <1>1, <1>3, <1>4, <1>5 DEF InputIsWhole, input, other, Callbacks

LEMMA StepIInv == IInv /\ [Next]_vars => IInv'
<1> SUFFICES ASSUME IInv, [Next]_vars
           PROVE  IInv'
  OBVIOUS
<1>1. CASE PeerEnds
  BY <1>1 DEF PeerEnds, IInv, Types, TypeOK, BuffersTyped, OutputIsWhole, InputIsWhole,
     input, output, callbacks
<1>2. CASE SetCallBack
  BY <1>2 DEF SetCallBack, SetSendCallBack, SetRecvCallBack, SetDisConnectedCallBack, IInv,
     Types,
     TypeOK, BuffersTyped, OutputIsWhole, InputIsWhole, input, output, other, Callbacks
<1>3. ASSUME NEW callback, Crash(callback) PROVE IInv'
  BY <1>3 DEF Crash, IInv, Types, TypeOK, BuffersTyped, OutputIsWhole, InputIsWhole,
     input, output, callbacks, other
<1>4. CASE DisConnected
  BY <1>4 DEF DisConnected, IInv, Types, TypeOK, BuffersTyped, OutputIsWhole, InputIsWhole,
     input, output, callbacks, other
<1>5. CASE UNCHANGED vars
  BY <1>5 DEF IInv, Types, TypeOK, BuffersTyped, OutputIsWhole, InputIsWhole,
     vars, input, output, callbacks, other
<1> QED
  BY PeerSendsKeeps, ReadKeeps, WriteKeeps, <1>1, <1>2, <1>3, <1>4, <1>5 DEF Next

(* The invariant holds throughout. *)
THEOREM Invariant == Spec => []IInv
  BY InitIInv, StepIInv, PTL DEF Spec

(* Every variable has its type, for any bounds and buffer sizes. *)
THEOREM TypeCorrect == Spec => []TypeOK
<1>1. IInv => TypeOK
  BY DEF IInv, Types
<1> QED
  BY Invariant, <1>1, PTL

(* What write() appends reaches the kernel once and in order, whatever part  *)
(* of it each send() takes.                                                   *)
THEOREM OutputStaysWhole == Spec => []OutputIsWhole
<1>1. IInv => OutputIsWhole
  BY DEF IInv
<1> QED
  BY Invariant, <1>1, PTL

(* What the peer sends reaches the parser once and in order. *)
THEOREM InputStaysWhole == Spec => []InputIsWhole
<1>1. IInv => InputIsWhole
  BY DEF IInv
<1> QED
  BY Invariant, <1>1, PTL

(* shutdown(SHUT_WR) comes with nothing left to send, or from read().         *)
THEOREM ShutOnlyWhenFinished == Spec => ShutWhenFinished
<1>1. [Next]_vars => [writeEnd' # writeEnd => sendBuffer' = <<>> \/ in_buffer' = <<>>]_vars
  BY DEF Next, PeerSends, PeerEnds, SetCallBack, Read, HttpRead, Write, Unsent, Finished,
     Crash, DisConnected, vars
<1> QED
  BY <1>1, PTL DEF Spec, ShutWhenFinished
=============================================================================
