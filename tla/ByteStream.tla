--------------------------- MODULE ByteStream ---------------------------
(* What a user of IOBuffer relies on: a stream of bytes to which data is    *)
(* appended, whose beginning can be made contiguous (pullDown) and then     *)
(* taken away (consume).  IOBuffer.tla implements it.                       *)
EXTENDS Naturals, SequencesExt

CONSTANT Nums       \* the arguments of pullDown and consume

VARIABLES
    bytes,      \* the bytes appended and not yet consumed
    pulled,     \* how many of them are known to be contiguous
    reply,      \* the last call and what it returned
    broken      \* the last call had no defined result

vars == <<bytes, pulled, reply, broken>>

NoReply == [op |-> "none", num |-> 0, ok |-> TRUE, data |-> <<>>]
Reply(op, n, ok, data) ==
    reply' = [op |-> op, num |-> n, ok |-> ok, data |-> data]

Init ==
    /\ bytes = <<>>
    /\ pulled = 0
    /\ reply = NoReply
    /\ broken = FALSE

Larger(m, n) == IF m < n THEN n ELSE m

Extend ==
    /\ IsPrefix(bytes, bytes')
    /\ reply' = NoReply
    /\ UNCHANGED <<pulled, broken>>

(* The first n bytes are shown and stay contiguous ... *)
Pulled(n) ==
    /\ n \in 1..Len(bytes)
    /\ pulled' = Larger(pulled, n)
    /\ Reply("pullDown", n, TRUE, SubSeq(bytes, 1, n))
    /\ UNCHANGED <<bytes, broken>>

(* ... unless there are not so many. *)
PullRefused(n) ==
    /\ n > Len(bytes) \/ bytes = <<>>
    /\ Reply("pullDown", n, FALSE, <<>>)
    /\ UNCHANGED <<bytes, pulled, broken>>

(* What was pulled can be consumed; more than that may be refused. *)
Consumed(n) ==
    /\ n \in 0..Len(bytes)
    /\ bytes' = SubSeq(bytes, n + 1, Len(bytes))
    /\ pulled' = IF n > pulled THEN 0 ELSE pulled - n
    /\ Reply("consume", n, TRUE, <<>>)
    /\ UNCHANGED broken

ConsumeRefused(n) ==
    /\ n > pulled \/ n = 0
    /\ Reply("consume", n, FALSE, <<>>)
    /\ UNCHANGED <<bytes, pulled, broken>>

(* Nothing is promised to a user who pulls no byte or consumes from an      *)
(* empty stream.                                                            *)
Misuse(n) ==
    /\ \/ n = 0 /\ Reply("pullDown", n, TRUE, <<>>)
       \/ bytes = <<>> /\ Reply("consume", n, FALSE, <<>>)
    /\ broken' \in BOOLEAN
    /\ UNCHANGED <<bytes, pulled>>

Next ==
    \/ Extend
    \/ \E n \in Nums : \/ Pulled(n) \/ PullRefused(n)
                       \/ Consumed(n) \/ ConsumeRefused(n) \/ Misuse(n)

Spec == Init /\ [][Next]_vars
=============================================================================
