---------------------------- MODULE IOBuffer ----------------------------
(* The buffer of src/ztHttp/ztHttp/IOBuffer.cpp: a list of chunks, each a   *)
(* vector of bytes, and a separate count of the bytes in it.  Sockets keep  *)
(* one for what they receive and one for what they send.  One thread uses   *)
(* an IOBuffer at a time.                                                   *)
EXTENDS Naturals, SequencesExt

CONSTANTS
    Bytes,          \* the values of a byte
    MaxBytes,       \* bounds the bytes in the buffer
    MaxChunks       \* bounds the length of the list

ASSUME IOBufferAssumption == MaxBytes \in Nat

VARIABLES
    chunks,         \* _chunks
    size,           \* _size
    pulled,         \* history: how much the last pullDown()s made contiguous
    reply,          \* the last call and what it returned
    broken          \* the last call was undefined, or threw

vars == <<chunks, size, pulled, reply, broken>>

Nums == 0..(MaxBytes + 1)
Data == UNION {[1..n -> Bytes] : n \in 0..2}

NoReply == [op |-> "none", num |-> 0, ok |-> TRUE, data |-> <<>>]
Reply(op, n, ok, data) ==
    reply' = [op |-> op, num |-> n, ok |-> ok, data |-> data]

Init ==
    /\ chunks = <<>>
    /\ size = 0
    /\ pulled = 0
    /\ reply = NoReply
    /\ broken = FALSE

-----------------------------------------------------------------------------
(* append(data, num) and append(chunk): one more chunk, an empty one where   *)
(* num is 0, or a copy of every chunk of another buffer.                     *)
AppendAll(new) ==
    /\ Len(chunks) + Len(new) <= MaxChunks
    /\ size + Len(FlattenSeq(new)) <= MaxBytes
    /\ chunks' = chunks \o new
    /\ size' = size + Len(FlattenSeq(new))
    /\ reply' = NoReply
    /\ UNCHANGED <<pulled, broken>>

AppendData == \E d \in Data : AppendAll(<<d>>)
AppendBuffer == \E d, e \in Data : AppendAll(<<d, e>>)

(* The chunks that pullDown() joins: as few as have n bytes, at least one. *)
Begin(list, k) == SubSeq(list, 1, k)
Enough(list, n) == {k \in 1..Len(list) : n <= Len(FlattenSeq(Begin(list, k)))}
Fewest(list, n) == CHOOSE k \in Enough(list, n) : \A j \in Enough(list, n) : k <= j

(* Mutant: a chunk that was copied to the first one stays in the list. *)
Mut_Gather(list, n) ==
    LET k == Fewest(list, n) IN
    IF k = 1 THEN list
    ELSE <<FlattenSeq(Begin(list, k))>> \o SubSeq(list, k, Len(list))

(* while(len<num): the second chunk is moved to the end of the first. *)
Gather(list, n) ==
    LET k == Fewest(list, n) IN
    <<FlattenSeq(Begin(list, k))>> \o SubSeq(list, k + 1, Len(list))

(* pullDown(): the pointer it returns shows the first n bytes.  at(0) throws *)
(* when nothing was asked for and the first chunk is empty.                  *)
PullDown(n) ==
    /\ IF n > size \/ size = 0
         THEN /\ Reply("pullDown", n, FALSE, <<>>)
              /\ UNCHANGED <<chunks, pulled, broken>>
         ELSE /\ chunks' = Gather(chunks, n)
              /\ broken' = (Head(chunks') = <<>>)
              /\ Reply("pullDown", n, TRUE, SubSeq(Head(chunks'), 1, n))
              /\ pulled' = IF n > pulled THEN n ELSE pulled
    /\ UNCHANGED size

(* Mutant: a chunk that is consumed as a whole is not subtracted. *)
Mut_Remaining(n) == IF n = Len(Head(chunks)) THEN size ELSE size - n

(* _size -= num *)
Remaining(n) == size - n

(* consume(): begin() of an empty list is dereferenced. *)
Consume(n) ==
    IF chunks = <<>>
      THEN /\ broken' = TRUE
           /\ Reply("consume", n, FALSE, <<>>)
           /\ UNCHANGED <<chunks, size, pulled>>
    ELSE IF n > Len(Head(chunks)) \/ Head(chunks) = <<>>
      THEN /\ Reply("consume", n, FALSE, <<>>)
           /\ UNCHANGED <<chunks, size, pulled, broken>>
    ELSE /\ chunks' = IF n = Len(Head(chunks)) THEN Tail(chunks)
                      ELSE <<SubSeq(Head(chunks), n + 1, Len(Head(chunks)))>>
                             \o Tail(chunks)
         /\ size' = Remaining(n)
         /\ pulled' = IF n > pulled THEN 0 ELSE pulled - n
         /\ Reply("consume", n, TRUE, <<>>)
         /\ UNCHANGED broken

Next ==
    /\ ~broken
    /\ \/ AppendData \/ AppendBuffer
       \/ \E n \in Nums : PullDown(n) \/ Consume(n)

Spec == Init /\ [][Next]_vars

-----------------------------------------------------------------------------
(* Properties *)

(* _size is the number of bytes in the chunks, which pullDown() trusts when  *)
(* it walks along the list.                                                  *)
SizeCountsBytes == size = Len(FlattenSeq(chunks))

Stream == INSTANCE ByteStream WITH bytes <- FlattenSeq(chunks)

(* The chunks are a byte stream: no append(), pullDown() or consume() loses,  *)
(* repeats or reorders a byte, the bytes pullDown() returns are the first of  *)
(* it, and what was pulled down can be consumed.                              *)
ImplementsByteStream == Stream!Spec
=============================================================================
