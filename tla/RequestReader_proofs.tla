----------------------- MODULE RequestReader_proofs -----------------------
(* Proofs about the request reader of simHttp, for any buffer size, any      *)
(* Content-Length and any bound on the input: a line never outgrows buf and  *)
(* the script never gets more of the body than the header says; the lines    *)
(* are the text the client sent, the headers end at its first blank line and *)
(* the body is what follows.                                                 *)
EXTENDS RequestReader, SequenceTheorems, FiniteSetTheorems, TLAPS

(* The body begins when the headers have ended and ends with the last byte    *)
(* that was announced.                                                        *)
BodyInv ==
    /\ Reading => given = <<>>
    /\ pc = "body" => Len(given) < content_length

IInv == TypeOK /\ BodyInv

-----------------------------------------------------------------------------
LEMMA EmptyText == <<>> \in Texts /\ Len(<<>>) = 0
  BY EmptySeq DEF Texts

LEMMA HeadTail ==
    ASSUME NEW s \in Texts, s # <<>>
    PROVE  Head(s) \in Methods \cup Chars /\ Tail(s) \in Texts
  BY HeadTailProperties DEF Texts

LEMMA AppendText ==
    ASSUME NEW s \in Texts, NEW c \in Methods \cup Chars
    PROVE  /\ Append(s, c) \in Texts /\ Append(s, c) # <<>>
           /\ Len(s) \in Nat /\ Len(Append(s, c)) = Len(s) + 1
           /\ s = <<>> => Append(s, c)[1] = c
           /\ s # <<>> => Append(s, c)[1] = s[1]
<1>1. /\ Append(s, c) \in Texts /\ Append(s, c) # <<>>
      /\ Len(s) \in Nat /\ Len(Append(s, c)) = Len(s) + 1
      /\ \A i \in 1..Len(s) : Append(s, c)[i] = s[i]
      /\ Append(s, c)[Len(s) + 1] = c
  BY AppendProperties, LenProperties DEF Texts
<1>2. s # <<>> => 1 \in 1..Len(s)
  BY <1>1, EmptySeq DEF Texts
<1> QED
  BY <1>1, <1>2, EmptyText

LEMMA AfterCRText ==
    ASSUME NEW s \in Texts
    PROVE  AfterCR(s) \in Texts
  BY HeadTail DEF AfterCR

LEMMA InitIInv == Init => IInv
<1> SUFFICES ASSUME Init PROVE IInv
  OBVIOUS
<1>1. input \in Texts
  <2>1. CASE input = <<>>
    BY <2>1, EmptyText
  <2>2. CASE input # <<>>
    <3>1. PICK p \in (Methods \cup Chars) \X SeqOf(Chars, MaxInput) : input = <<p[1]>> \o p[2]
      BY <2>2 DEF Init, Inputs
    <3>2. p[2] \in Seq(Chars)
      BY ReaderAssumption DEF SeqOf
    <3>3. <<p[1]>> \in Texts /\ p[2] \in Texts
      BY <3>2 DEF Texts
    <3> QED
      BY <3>1, <3>3 DEF Texts
  <2> QED
    BY <2>1, <2>2
<1>2. TypeOK
  BY <1>1, EmptyText, ReaderAssumption DEF Init, TypeOK
<1>3. BodyInv
  BY DEF Init, BodyInv
<1> QED
  BY <1>2, <1>3 DEF IInv

(* get_line() stops one place before the end of buf. *)
LEMMA ReceiveKeeps ==
    ASSUME IInv, Receive
    PROVE  IInv'
<1>0. /\ rest \in Texts /\ buf \in Texts /\ Len(buf) < BufSize
      /\ rest # <<>> /\ Len(buf) # BufSize - 1
      /\ UNCHANGED <<input, closes, taken, pc, method, content_length, given>>
  BY DEF IInv, TypeOK, Receive, LineDone
<1>1. PICK c \in Methods \cup Chars : buf' = Append(buf, c) /\ rest' \in Texts
  <2>1. Head(rest) \in Methods \cup Chars /\ Tail(rest) \in Texts
    BY <1>0, HeadTail
  <2>2. AfterCR(Tail(rest)) \in Texts
    BY <2>1, AfterCRText
  <2>3. "LF" \in Chars
    BY DEF Chars, Ends
  <2> QED
    BY <2>1, <2>2, <2>3 DEF Receive
<1>2. /\ buf' \in Texts /\ buf' # <<>>
      /\ Len(buf) \in Nat /\ Len(buf') = Len(buf) + 1
  BY <1>0, <1>1, AppendText
<1>3. Len(buf') < BufSize
  BY <1>0, <1>2, ReaderAssumption
<1>4. TypeOK'
  BY <1>0, <1>1, <1>2, <1>3 DEF IInv, TypeOK
<1>5. BodyInv'
  BY <1>0 DEF IInv, BodyInv, Reading
<1> QED
  BY <1>4, <1>5 DEF IInv

(* The lines that have been read. *)
LEMMA LineKeeps ==
    ASSUME IInv, RequestLine \/ Header \/ HeadersEnd
    PROVE  IInv'
<1>0. /\ UNCHANGED <<input, closes, rest, given>>
      /\ taken' = taken \o buf /\ buf' = <<>>
      /\ pc \in {"request", "headers"} /\ given = <<>>
  BY DEF RequestLine, Header, HeadersEnd, IInv, BodyInv, Reading
<1>1. taken' \in Texts
  BY <1>0, ConcatProperties DEF IInv, TypeOK, Texts
<1>2. buf' \in Texts /\ Len(buf') < BufSize
  BY <1>0, EmptyText, ReaderAssumption
<1>4. content_length \in {-1} \cup Lengths /\ Len(given) = 0 /\ given' = <<>>
  BY <1>0, EmptyText DEF IInv, TypeOK
<1>5. ASSUME RequestLine PROVE TypeOK' /\ BodyInv'
  <2>1. method' \in {"get", "post", "other"} /\ pc' \in {"done", "headers"}
        /\ UNCHANGED content_length
    BY <1>5 DEF RequestLine
  <2> QED
    BY <1>0, <1>1, <1>2, <1>4, <2>1 DEF IInv, TypeOK, BodyInv
<1>6. ASSUME Header PROVE TypeOK' /\ BodyInv'
  <2>1. /\ content_length' \in {-1} \cup Lengths /\ pc = "headers"
        /\ UNCHANGED <<pc, method>>
    BY <1>4, <1>6 DEF Header
  <2> QED
    BY <1>0, <1>1, <1>2, <1>4, <2>1 DEF IInv, TypeOK, BodyInv
<1>7. ASSUME HeadersEnd PROVE TypeOK' /\ BodyInv'
  <2>1. /\ UNCHANGED <<method, content_length>>
        /\ pc' = "done" \/ (content_length > 0 /\ pc' = "body")
    BY <1>7 DEF HeadersEnd
  <2>2. pc' = "body" => Len(given') < content_length'
    BY <1>0, <1>4, <2>1, ReaderAssumption
  <2> QED
    BY <1>0, <1>1, <1>2, <2>1, <2>2 DEF IInv, TypeOK, BodyInv, Reading
<1> QED
  BY <1>5, <1>6, <1>7 DEF IInv

LEMMA BodyKeeps ==
    ASSUME IInv, CopyBody
    PROVE  IInv'
<1>0. /\ pc = "body" /\ given \in Texts /\ rest \in Texts
      /\ content_length \in {-1} \cup Lengths /\ Len(given) < content_length
      /\ UNCHANGED <<input, closes, buf, taken, method, content_length>>
  BY DEF CopyBody, IInv, TypeOK, BodyInv
<1>1. PICK c \in NextBytes : given' = Append(given, c)
  BY DEF CopyBody
<1>2. c \in Methods \cup Chars
  <2>1. rest # <<>> => Head(rest) \in Methods \cup Chars
    BY <1>0, HeadTail
  <2>2. given # <<>> => Last(given) \in Methods \cup Chars
    <3>1. given # <<>> => Len(given) \in 1..Len(given)
      BY <1>0, EmptySeq, LenProperties DEF Texts
    <3> QED
      BY <1>0, <3>1, ElementOfSeq DEF Texts, Last
  <2> QED
    BY <2>1, <2>2 DEF NextBytes
<1>3. given' \in Texts /\ Len(given) \in Nat /\ Len(given') = Len(given) + 1
  BY <1>0, <1>1, <1>2, AppendText
<1>4. /\ Len(given') <= content_length'
      /\ pc' \in {"done", "body"}
      /\ pc' = "body" => Len(given') < content_length'
  <2>1. pc' = IF Len(given') = content_length THEN "done" ELSE "body"
    BY DEF CopyBody
  <2> QED
    BY <1>0, <1>3, <2>1, ReaderAssumption
<1>5. rest' \in Texts
  BY <1>0, HeadTail DEF CopyBody
<1> QED
  BY <1>0, <1>3, <1>4, <1>5 DEF IInv, TypeOK, BodyInv, Reading

(* The invariant holds throughout. *)
THEOREM Invariant == Spec => []IInv
<1>1. IInv /\ [Next]_vars => IInv'
  <2>1. ASSUME IInv, UNCHANGED vars PROVE IInv'
    BY <2>1 DEF vars, IInv, TypeOK, BodyInv, Reading
  <2> QED
    BY <2>1, ReceiveKeeps, LineKeeps, BodyKeeps DEF Next
<1> QED
  BY <1>1, InitIInv, PTL DEF Spec

(* A line and its null fit in buf whatever the client sends, and the script   *)
(* gets no more bytes of the body than Content-Length says, for any size of   *)
(* the buffer and any length.                                                 *)
THEOREM TypeCorrect == Spec => []TypeOK
<1>1. IInv => TypeOK
  BY DEF IInv
<1> QED
  BY <1>1, Invariant, PTL

-----------------------------------------------------------------------------
(* The reference: texts and their beginnings *)

Symbols == Methods \cup Chars
Begin(s, k) == SubSeq(s, 1, k)

LEMMA BeginIs ==
    ASSUME NEW s \in Texts, NEW k \in 0..Len(s)
    PROVE  /\ Begin(s, k) \in Texts /\ Len(Begin(s, k)) = k
           /\ \A i \in 1..k : Begin(s, k)[i] = s[i]
<1>1. Len(s) \in Nat /\ \A i \in 1..k : s[i] \in Symbols
  <2>1. Len(s) \in Nat /\ \A i \in 1..Len(s) : s[i] \in Symbols
    BY LenProperties, ElementOfSeq DEF Texts, Symbols
  <2> QED
    BY <2>1
<1>2. /\ Begin(s, k) \in Texts
      /\ Len(Begin(s, k)) = IF 1 <= k THEN k - 1 + 1 ELSE 0
      /\ \A i \in 1..(k - 1 + 1) : Begin(s, k)[i] = s[1 + i - 1]
  BY <1>1, SubSeqProperties DEF Begin, Texts, Symbols
<1>3. k - 1 + 1 = k /\ (IF 1 <= k THEN k - 1 + 1 ELSE 0) = k
      /\ \A i \in 1..k : 1 + i - 1 = i
  BY <1>1
<1> QED
  BY <1>2, <1>3

LEMMA KeptFinite ==
    ASSUME NEW s \in Texts
    PROVE  /\ IsFiniteSet(Kept(s)) /\ Cardinality(Kept(s)) \in Nat
           /\ \A i : /\ IsFiniteSet({j \in Kept(s) : j <= i}) /\ Place(s, i) \in Nat
                     /\ Place(s, i) <= Cardinality(Kept(s))
<1>1. IsFiniteSet(1..Len(s))
  BY LenProperties, FS_Interval DEF Texts
<1>2. IsFiniteSet(Kept(s))
  BY <1>1, FS_Subset DEF Kept
<1>3. ASSUME NEW i
      PROVE  /\ IsFiniteSet({j \in Kept(s) : j <= i}) /\ Place(s, i) \in Nat
             /\ Place(s, i) <= Cardinality(Kept(s))
  <2>1. {j \in Kept(s) : j <= i} \in SUBSET Kept(s)
    OBVIOUS
  <2> QED
    BY <1>2, <2>1, FS_Subset, FS_CardinalityType DEF Place
<1> QED
  BY <1>2, <1>3, FS_CardinalityType

(* Whether a character is kept depends on it and the one before it. *)
LEMMA KeptOfBegin ==
    ASSUME NEW s \in Texts, NEW k \in 0..Len(s)
    PROVE  /\ Kept(Begin(s, k)) = {i \in Kept(s) : i <= k}
           /\ Cardinality(Kept(Begin(s, k))) = Place(s, k)
           /\ \A i \in 1..k : Place(Begin(s, k), i) = Place(s, i)
<1>1. /\ Len(s) \in Nat /\ Len(Begin(s, k)) = k
      /\ \A i \in 1..k : Begin(s, k)[i] = s[i]
  BY BeginIs, LenProperties DEF Texts
<1>2. ASSUME NEW i PROVE i \in Kept(Begin(s, k)) <=> i \in Kept(s) /\ i <= k
  <2>1. i \in 1..k <=> i \in 1..Len(s) /\ i <= k
    BY <1>1
  <2>2. i \in 1..k => /\ Begin(s, k)[i] = s[i]
                       /\ i > 1 => Begin(s, k)[i - 1] = s[i - 1]
    BY <1>1
  <2> QED
    BY <1>1, <2>1, <2>2 DEF Kept
<1>3. Kept(Begin(s, k)) = {i \in Kept(s) : i <= k}
  BY <1>2
<1>4. ASSUME NEW i \in 1..k PROVE Place(Begin(s, k), i) = Place(s, i)
  <2>1. {j \in Kept(Begin(s, k)) : j <= i} = {j \in Kept(s) : j <= i}
    BY <1>1, <1>3 DEF Kept
  <2> QED
    BY <2>1 DEF Place
<1> QED
  BY <1>3, <1>4 DEF Place

LEMMA PlaceGrows ==
    ASSUME NEW s \in Texts, NEW i \in Kept(s), NEW k \in Nat, k < i
    PROVE  Place(s, k) < Place(s, i)
<1> DEFINE below == {j \in Kept(s) : j <= k}
           upto == {j \in Kept(s) : j <= i}
<1>1. i \in Nat /\ Kept(s) \subseteq Nat
  BY LenProperties DEF Kept, Texts
<1>2. /\ IsFiniteSet(below) /\ IsFiniteSet(upto)
      /\ Cardinality(below) \in Nat /\ Cardinality(upto) \in Nat
  BY KeptFinite DEF Place
<1>3. below \cup {i} \in SUBSET upto /\ i \notin below
  BY <1>1
<1> HIDE DEF below, upto
<1>4. Cardinality(below \cup {i}) = Cardinality(below) + 1
  BY <1>2, <1>3, FS_AddElement
<1>5. Cardinality(below \cup {i}) <= Cardinality(upto)
  BY <1>2, <1>3, FS_Subset
<1>6. Cardinality(below) < Cardinality(upto)
  BY <1>2, <1>4, <1>5
<1> QED
  BY <1>6 DEF Place, below, upto

LEMMA LineEndIs == \A c \in Symbols : LineEnd(c) \in Symbols
  BY DEF LineEnd, Symbols, Chars, Ends

LEMMA PlainIs ==
    ASSUME NEW s \in Texts
    PROVE  /\ Plain(s) \in Seq({Plain(s)[n] : n \in 1..Cardinality(Kept(s))})
           /\ Len(Plain(s)) = Cardinality(Kept(s))
           /\ DOMAIN Plain(s) = 1..Cardinality(Kept(s))
<1>1. Cardinality(Kept(s)) \in Nat
  BY KeptFinite
<1>2. DOMAIN Plain(s) = 1..Cardinality(Kept(s)) /\ Plain(s) = [n \in 1..Cardinality(Kept(s)) |-> Plain(s)[n]]
  BY DEF Plain
<1> QED
  BY <1>1, <1>2

(* The plain text of a beginning is a beginning of the plain text. *)
LEMMA PlainOfBegin ==
    ASSUME NEW s \in Texts, NEW k \in 0..Len(s), NEW n \in 1..Cardinality(Kept(Begin(s, k)))
    PROVE  /\ n \in 1..Cardinality(Kept(s))
           /\ Plain(Begin(s, k))[n] = Plain(s)[n]
<1> DEFINE p == Begin(s, k)
<1>1. /\ p \in Texts /\ \A i \in 1..k : p[i] = s[i]
      /\ k \in Nat /\ Len(s) \in Nat
  BY BeginIs, LenProperties DEF Texts
<1>2. /\ Kept(p) = {i \in Kept(s) : i <= k} /\ Cardinality(Kept(p)) = Place(s, k)
      /\ \A i \in 1..k : Place(p, i) = Place(s, i)
  BY KeptOfBegin
<1>3. /\ Place(s, k) \in Nat /\ Cardinality(Kept(s)) \in Nat
      /\ Place(s, k) <= Cardinality(Kept(s))
  BY KeptFinite
<1>4. n \in Nat /\ n <= Place(s, k) /\ n \in 1..Cardinality(Kept(s))
  BY <1>2, <1>3
<1>5. ASSUME NEW c
      PROVE  (\E i \in Kept(p) : Place(p, i) = n /\ c = LineEnd(p[i])) <=>
             (\E i \in Kept(s) : Place(s, i) = n /\ c = LineEnd(s[i]))
  <2>1. ASSUME NEW i \in Kept(p), Place(p, i) = n, c = LineEnd(p[i])
        PROVE  i \in Kept(s) /\ Place(s, i) = n /\ c = LineEnd(s[i])
    <3>1. i \in Kept(s) /\ i \in 1..k
      BY <1>1, <1>2 DEF Kept
    <3> QED
      BY <1>1, <1>2, <2>1, <3>1
  <2>2. ASSUME NEW i \in Kept(s), Place(s, i) = n, c = LineEnd(s[i])
        PROVE  i \in Kept(p) /\ Place(p, i) = n /\ c = LineEnd(p[i])
    <3>1. i \in Nat /\ i >= 1
      BY <1>1 DEF Kept
    <3>2. ~(k < i)
      <4>1. k < i => Place(s, k) < Place(s, i)
        BY <1>1, PlaceGrows
      <4> QED
        BY <1>3, <1>4, <2>2, <4>1
    <3>3. i \in Kept(p) /\ i \in 1..k
      BY <1>1, <1>2, <3>1, <3>2
    <3> QED
      BY <1>1, <1>2, <2>2, <3>3
  <2> QED
    BY <2>1, <2>2
<1> HIDE DEF p
<1>6. Plain(p)[n] = CHOOSE c \in Symbols : \E i \in Kept(p) : Place(p, i) = n /\ c = LineEnd(p[i])
  BY DEF Plain, Symbols, p
<1>7. Plain(s)[n] = CHOOSE c \in Symbols : \E i \in Kept(s) : Place(s, i) = n /\ c = LineEnd(s[i])
  BY <1>4 DEF Plain, Symbols
<1>8. Plain(p)[n] = Plain(s)[n]
  BY <1>5, <1>6, <1>7
<1> QED
  BY <1>4, <1>8 DEF p

(* One more character adds itself, or its line end, or nothing. *)
LEMMA PlainGrows ==
    ASSUME NEW s \in Texts, NEW k \in 0..(Len(s) - 1), Plain(Begin(s, k)) \in Texts
    PROVE  Plain(Begin(s, k + 1)) =
             IF k + 1 \in Kept(s) THEN Append(Plain(Begin(s, k)), LineEnd(s[k + 1]))
             ELSE Plain(Begin(s, k))
<1> DEFINE p == Begin(s, k)
           q == Begin(s, k + 1)
           c == LineEnd(s[k + 1])
<1>0. /\ Len(s) \in Nat /\ k \in Nat /\ k \in 0..Len(s) /\ k + 1 \in 0..Len(s) /\ k + 1 \in 1..Len(s)
      /\ k \in 0..(k + 1)
  BY LenProperties DEF Texts
<1>1. /\ p \in Texts /\ q \in Texts /\ Len(q) = k + 1
      /\ \A i \in 1..(k + 1) : q[i] = s[i]
  BY <1>0, BeginIs
<1>2. p = Begin(q, k)
  <2>1. Begin(q, k) \in Texts /\ Len(Begin(q, k)) = k /\ \A i \in 1..k : Begin(q, k)[i] = q[i]
    BY <1>0, <1>1, BeginIs
  <2>2. Len(p) = k /\ \A i \in 1..k : p[i] = s[i]
    BY <1>0, BeginIs
  <2>3. \A i \in 1..k : i \in 1..(k + 1)
    BY <1>0
  <2> QED
    BY <1>1, <2>1, <2>2, <2>3, SeqEqual DEF Texts
<1>3. /\ Kept(q) = {i \in Kept(s) : i <= k + 1} /\ Kept(p) = {i \in Kept(s) : i <= k}
      /\ Kept(p) = {i \in Kept(q) : i <= k}
      /\ Cardinality(Kept(p)) = Place(q, k)
  BY <1>0, <1>1, <1>2, KeptOfBegin
<1>4. /\ Kept(s) \subseteq Nat /\ IsFiniteSet(Kept(p)) /\ Cardinality(Kept(p)) \in Nat
      /\ Cardinality(Kept(q)) \in Nat
  <2>1. Kept(s) \subseteq Nat
    BY <1>0 DEF Kept
  <2> QED
    BY <1>1, <2>1, KeptFinite
<1>5. /\ Plain(p) \in Texts /\ Len(Plain(p)) = Cardinality(Kept(p))
      /\ DOMAIN Plain(p) = 1..Cardinality(Kept(p)) /\ DOMAIN Plain(q) = 1..Cardinality(Kept(q))
  BY <1>1, PlainIs
<1>6. \A n \in 1..Cardinality(Kept(p)) :
        n \in 1..Cardinality(Kept(q)) /\ Plain(p)[n] = Plain(q)[n]
  BY <1>0, <1>1, <1>2, PlainOfBegin
<1> HIDE DEF p, q
<1>7. CASE k + 1 \notin Kept(s)
  <2>1. Kept(q) = Kept(p)
    BY <1>0, <1>3, <1>4, <1>7
  <2>2. Plain(q) = [n \in 1..Cardinality(Kept(q)) |-> Plain(q)[n]]
    BY DEF Plain
  <2>3. Plain(p) = [n \in 1..Cardinality(Kept(p)) |-> Plain(p)[n]]
    BY DEF Plain
  <2>4. Plain(q) = Plain(p)
    BY <1>6, <2>1, <2>2, <2>3
  <2> QED
    BY <1>7, <2>4 DEF p, q
<1>8. CASE k + 1 \in Kept(s)
  <2> DEFINE m == Cardinality(Kept(p))
  <2>1. Kept(q) = Kept(p) \cup {k + 1} /\ k + 1 \notin Kept(p)
    BY <1>0, <1>3, <1>4, <1>8
  <2>2. Cardinality(Kept(q)) = m + 1 /\ m \in Nat
    BY <1>4, <2>1, FS_AddElement
  <2>3. \A i \in Kept(q) : Place(q, i) = m + 1 <=> i = k + 1
    <3>1. Place(q, k + 1) = m + 1
      <4>1. {j \in Kept(q) : j <= k + 1} = Kept(q)
        BY <1>0, <1>3, <1>4
      <4> QED
        BY <2>2, <4>1 DEF Place
    <3>2. ASSUME NEW i \in Kept(q), i # k + 1 PROVE Place(q, i) < m + 1
      <4>1. i \in Nat /\ i < k + 1 /\ k + 1 \in Kept(q)
        BY <1>0, <1>3, <1>4, <2>1, <3>2
      <4> QED
        BY <1>1, <3>1, <4>1, PlaceGrows
    <3> QED
      BY <2>2, <3>1, <3>2
  <2>4. c \in Symbols /\ c = LineEnd(q[k + 1]) /\ k + 1 \in Kept(q)
    <3>1. s[k + 1] \in Symbols
      BY <1>0, ElementOfSeq DEF Texts, Symbols
    <3> QED
      BY <1>0, <1>1, <2>1, <3>1, LineEndIs
  <2>5. Plain(q)[m + 1] = c
    <3>1. m + 1 \in 1..Cardinality(Kept(q))
      BY <2>2
    <3>2. Plain(q)[m + 1] =
            CHOOSE d \in Symbols : \E i \in Kept(q) : Place(q, i) = m + 1 /\ d = LineEnd(q[i])
      BY <3>1 DEF Plain, Symbols
    <3>3. \A d : (\E i \in Kept(q) : Place(q, i) = m + 1 /\ d = LineEnd(q[i])) <=> d = c
      BY <2>3, <2>4
    <3> QED
      BY <2>4, <3>2, <3>3
  <2>6. Plain(q) = Append(Plain(p), c)
    <3>1. /\ Append(Plain(p), c) \in Seq(Symbols) /\ Len(Append(Plain(p), c)) = m + 1
          /\ \A n \in 1..m : Append(Plain(p), c)[n] = Plain(p)[n]
          /\ Append(Plain(p), c)[m + 1] = c
      BY <1>5, <2>4, AppendProperties DEF Texts, Symbols
    <3>2. DOMAIN Append(Plain(p), c) = 1..(m + 1)
      BY <3>1, LenProperties
    <3>3. \A n \in 1..(m + 1) : Append(Plain(p), c)[n] = Plain(q)[n]
      <4>1. \A n \in 1..(m + 1) : n \in 1..m \/ n = m + 1
        BY <2>2
      <4> QED
        BY <1>6, <2>5, <3>1, <4>1
    <3>4. Plain(q) = [n \in 1..(m + 1) |-> Plain(q)[n]]
      BY <2>2 DEF Plain
    <3>5. Append(Plain(p), c) = [n \in 1..(m + 1) |-> Append(Plain(p), c)[n]]
      BY <3>1, <3>2, LenProperties
    <3> HIDE DEF m, c
    <3> QED
      BY <3>3, <3>4, <3>5
  <2> QED
    BY <1>8, <2>6 DEF p, q
<1> QED
  BY <1>7, <1>8

-----------------------------------------------------------------------------
(* What was read and what is left *)

LEMMA RestIs ==
    ASSUME NEW s \in Texts, NEW k \in Nat, NEW t, t = SubSeq(s, k + 1, Len(s))
    PROVE  /\ t # <<>> <=> k < Len(s)
           /\ t # <<>> => /\ k + 1 \in 1..Len(s) /\ Head(t) = s[k + 1]
                          /\ Tail(t) = SubSeq(s, k + 2, Len(s))
           /\ Len(t) = IF k < Len(s) THEN Len(s) - k ELSE 0
           /\ \A i \in 1..(Len(s) - k) : t[i] = s[k + i]
<1>1. Len(s) \in Nat /\ \A i \in 1..Len(s) : s[i] \in Symbols
  BY LenProperties, ElementOfSeq DEF Texts, Symbols
<1>2. /\ t \in Seq(Symbols)
      /\ Len(t) = IF k + 1 <= Len(s) THEN Len(s) - (k + 1) + 1 ELSE 0
      /\ \A i \in 1..(Len(s) - (k + 1) + 1) : t[i] = s[k + 1 + i - 1]
  <2>1. k + 1 \in Int /\ Len(s) \in Int /\ \A i \in (k + 1)..Len(s) : s[i] \in Symbols
    BY <1>1
  <2> QED
    BY <2>1, SubSeqProperties
<1>3. /\ Len(t) = IF k < Len(s) THEN Len(s) - k ELSE 0
      /\ \A i \in 1..(Len(s) - k) : t[i] = s[k + i]
  <2>1. /\ Len(s) - (k + 1) + 1 = Len(s) - k /\ (k + 1 <= Len(s) <=> k < Len(s))
        /\ \A i \in 1..(Len(s) - k) : k + 1 + i - 1 = k + i
    BY <1>1
  <2> QED
    BY <1>2, <2>1
<1>4. t # <<>> <=> k < Len(s)
  <2>1. t # <<>> => Len(t) # 0
    BY <1>2, EmptySeq
  <2>2. t = <<>> => Len(t) = 0
    BY EmptySeq
  <2>3. k < Len(s) => Len(s) - k # 0
    BY <1>1
  <2> QED
    BY <1>3, <2>1, <2>2, <2>3
<1>5. ASSUME t # <<>>
      PROVE  /\ k + 1 \in 1..Len(s) /\ Head(t) = s[k + 1]
             /\ Tail(t) = SubSeq(s, k + 2, Len(s))
  <2>1. k + 1 \in 1..Len(s) /\ 1 \in 1..(Len(s) - k)
    BY <1>1, <1>4, <1>5
  <2>2. Head(t) = t[1]
    BY <1>2, <1>5
  <2>3. /\ Tail(t) \in Seq(Symbols) /\ Len(Tail(t)) = Len(t) - 1
        /\ \A i \in 1..Len(Tail(t)) : Tail(t)[i] = t[i + 1]
    BY <1>2, <1>5, HeadTailProperties
  <2> DEFINE u == SubSeq(s, k + 2, Len(s))
  <2>4. /\ u \in Seq(Symbols)
        /\ Len(u) = IF k + 2 <= Len(s) THEN Len(s) - (k + 2) + 1 ELSE 0
        /\ \A i \in 1..(Len(s) - (k + 2) + 1) : u[i] = s[k + 2 + i - 1]
    <3>1. k + 2 \in Int /\ Len(s) \in Int /\ \A i \in (k + 2)..Len(s) : s[i] \in Symbols
      BY <1>1
    <3> QED
      BY <3>1, SubSeqProperties
  <2> HIDE DEF u
  <2>5. Len(Tail(t)) = Len(s) - k - 1 /\ Len(u) = Len(s) - k - 1
    BY <1>1, <1>3, <1>4, <1>5, <2>3, <2>4
  <2>6. \A i \in 1..(Len(s) - k - 1) : Tail(t)[i] = u[i]
    <3>1. ASSUME NEW i \in 1..(Len(s) - k - 1)
          PROVE  /\ i + 1 \in 1..(Len(s) - k) /\ i \in 1..(Len(s) - (k + 2) + 1)
                 /\ k + (i + 1) = k + 2 + i - 1
      BY <1>1
    <3> QED
      BY <1>3, <2>3, <2>4, <2>5, <3>1
  <2>7. Tail(t) = u
    BY <2>3, <2>4, <2>5, <2>6, SeqEqual
  <2> QED
    BY <1>3, <2>1, <2>2, <2>7 DEF u
<1> QED
  BY <1>3, <1>4, <1>5

(* The lines are what the client sent up to k, and no linefeed that belongs   *)
(* to their last line end follows.                                            *)
Cut(k) ==
    /\ Plain(Begin(input, k)) = taken \o buf
    /\ 0 < k /\ k < Len(input) /\ input[k] = "CR" => input[k + 1] # "LF"

(* The body is what follows, and its last byte again when nothing is left. *)
Copied(k) ==
    LET sent == SubSeq(input, k + 1, Len(input)) IN
    \A i \in 1..Len(given) :
        IF i <= Len(sent) THEN given[i] = sent[i]
        ELSE i > 1 => given[i] = given[i - 1]

Left(k) == rest = SubSeq(input, k + Len(given) + 1, Len(input))

TextInv == \E k \in 0..Len(input) : Cut(k) /\ Copied(k) /\ Left(k)

(* A line is returned, and taken over, before the body begins. *)
StartInv ==
    /\ pc = "request" => taken = <<>> /\ content_length = -1
    /\ pc \in {"headers", "body"} \/ given # <<>> => taken # <<>>
    /\ ~Reading => buf = <<>>
    /\ input \in Texts

LEMMA EmptyPlain ==
    ASSUME NEW s \in Texts
    PROVE  Plain(Begin(s, 0)) = <<>>
<1>1. Begin(s, 0) \in Texts /\ Len(Begin(s, 0)) = 0
  <2>1. 0 \in 0..Len(s)
    BY LenProperties DEF Texts
  <2> QED
    BY <2>1, BeginIs
<1>2. Kept(Begin(s, 0)) = {}
  BY <1>1 DEF Kept
<1>3. Len(Plain(Begin(s, 0))) = 0
  BY <1>1, <1>2, PlainIs, FS_EmptySet
<1> QED
  BY <1>1, <1>3, PlainIs, EmptySeq

LEMMA InitText == Init => TextInv /\ StartInv
<1> SUFFICES ASSUME Init PROVE TextInv /\ StartInv
  OBVIOUS
<1>1. IInv /\ input \in Texts /\ pc = "request" /\ rest = input
  BY InitIInv DEF Init, IInv, TypeOK
<1>3. StartInv
  BY <1>1 DEF Init, StartInv, Reading
<1>4. Len(input) \in Nat /\ 0 \in 0..Len(input)
  BY <1>1, LenProperties DEF Texts
<1>5. Plain(Begin(input, 0)) = <<>>
  BY <1>1, EmptyPlain
<1>6. Cut(0)
  <2>1. taken \o buf = <<>>
    BY ConcatEmptySeq, EmptySeq DEF Init
  <2> QED
    BY <1>5, <2>1 DEF Cut
<1>7. Copied(0)
  <2>1. Len(given) = 0
    BY DEF Init
  <2> QED
    BY <2>1 DEF Copied
<1>8. Left(0)
  <2>1. input = SubSeq(input, 1, Len(input)) /\ Len(given) = 0 /\ 0 + 0 + 1 = 1
    BY <1>1 DEF Init, Texts
  <2> QED
    BY <1>1, <2>1 DEF Left
<1> QED
  BY <1>3, <1>4, <1>6, <1>7, <1>8 DEF TextInv

(* One character in the middle of the input is kept or not. *)
LEMMA NextIsKept ==
    ASSUME NEW s \in Texts, NEW k \in 0..(Len(s) - 1)
    PROVE  /\ s[k + 1] = "CR" => k + 1 \in Kept(s)
           /\ 0 < k /\ s[k] = "CR" => (k + 1 \in Kept(s) <=> s[k + 1] # "LF")
           /\ 0 < k /\ s[k] # "CR" => k + 1 \in Kept(s)
           /\ k = 0 => k + 1 \in Kept(s)
<1>1. Len(s) \in Nat /\ k \in Nat /\ k + 1 \in 1..Len(s) /\ k + 1 - 1 = k /\ (k + 1 > 1 <=> 0 < k)
  BY LenProperties DEF Texts
<1>2. k + 1 \in Kept(s) <=> ~(s[k + 1] = "LF" /\ 0 < k /\ s[k] = "CR")
  BY <1>1 DEF Kept
<1> QED
  BY <1>1, <1>2

LEMMA AppendOfConcat ==
    ASSUME NEW s \in Texts, NEW t \in Texts, NEW c \in Symbols
    PROVE  Append(s \o t, c) = s \o Append(t, c)
<1>1. s \o t \in Texts /\ <<c>> \in Texts
  BY ConcatProperties DEF Texts, Symbols
<1>2. Append(s \o t, c) = (s \o t) \o <<c>> /\ Append(t, c) = t \o <<c>>
  BY <1>1, AppendIsConcat DEF Texts, Symbols
<1> QED
  BY <1>1, <1>2, ConcatAssociative DEF Texts

(* One more character in buf, and the input is read up to m. *)
LEMMA TextAt ==
    ASSUME NEW m \in 0..Len(input), NEW c \in Symbols,
           taken \in Texts, buf \in Texts, Len(input) \in Nat, given = <<>>,
           UNCHANGED <<input, taken, given>>,
           buf' = Append(buf, c),
           Plain(Begin(input, m)) = Append(taken \o buf, c),
           rest' = SubSeq(input, m + 1, Len(input)),
           0 < m /\ m < Len(input) /\ input[m] = "CR" => input[m + 1] # "LF"
    PROVE  TextInv'
<1>1. Append(taken \o buf, c) = taken \o Append(buf, c)
  BY AppendOfConcat
<1>2. Cut(m)'
  BY <1>1 DEF Cut, Begin
<1>3. Len(given) = 0
  BY EmptyText
<1>4. Copied(m)'
  BY <1>3 DEF Copied
<1>5. m + 0 + 1 = m + 1
  OBVIOUS
<1>6. Left(m)'
  BY <1>3, <1>5 DEF Left
<1> QED
  BY <1>2, <1>4, <1>6 DEF TextInv

LEMMA ReceiveKeepsText ==
    ASSUME IInv, TextInv, StartInv, Receive
    PROVE  TextInv' /\ StartInv'
<1>0. /\ rest \in Texts /\ buf \in Texts /\ taken \in Texts /\ input \in Texts
      /\ rest # <<>> /\ Len(input) \in Nat /\ given = <<>> /\ Len(given) = 0
      /\ UNCHANGED <<input, closes, taken, pc, method, content_length, given>>
  BY LenProperties, EmptyText DEF IInv, TypeOK, BodyInv, Receive, StartInv, Texts
<1>1. PICK k \in 0..Len(input) : Cut(k) /\ Left(k)
  BY DEF TextInv
<1>2. /\ k \in Nat /\ rest = SubSeq(input, k + 1, Len(input))
      /\ k < Len(input) /\ k + 1 \in 1..Len(input) /\ Head(rest) = input[k + 1]
      /\ Tail(rest) = SubSeq(input, k + 2, Len(input))
      /\ k \in 0..(Len(input) - 1) /\ k + 1 \in 0..Len(input)
  <2>1. k \in Nat /\ rest = SubSeq(input, k + 1, Len(input))
    <3>1. k + 0 + 1 = k + 1
      BY <1>0
    <3> QED
      BY <1>0, <1>1, <3>1 DEF Left
  <2>2. k < Len(input) /\ k + 1 \in 1..Len(input) /\ Head(rest) = input[k + 1]
        /\ Tail(rest) = SubSeq(input, k + 2, Len(input))
    BY <1>0, <2>1, RestIs
  <2> QED
    BY <1>0, <2>1, <2>2
<1>3. input[k + 1] \in Symbols /\ taken \o buf \in Texts
  BY <1>0, <1>2, ElementOfSeq, ConcatProperties DEF Texts, Symbols
<1>4. StartInv'
  BY <1>0 DEF StartInv, Receive, Reading
<1>5. UNCHANGED <<input, taken, given>>
  BY <1>0
<1>6. Plain(Begin(input, k)) = taken \o buf
  BY <1>1 DEF Cut
<1>7. CASE input[k + 1] = "CR"
  <2>1. /\ buf' = Append(buf, "LF") /\ rest' = AfterCR(SubSeq(input, k + 2, Len(input)))
    BY <1>2, <1>7 DEF Receive
  <2>2. k + 1 \in Kept(input) /\ LineEnd(input[k + 1]) = "LF" /\ "LF" \in Symbols
    BY <1>0, <1>2, <1>7, NextIsKept DEF LineEnd, Symbols, Chars, Ends
  <2>3. Plain(Begin(input, k + 1)) = Append(taken \o buf, "LF")
    BY <1>0, <1>2, <1>3, <1>6, <2>2, PlainGrows
  <2> DEFINE t == SubSeq(input, k + 2, Len(input))
  <2>4. /\ t # <<>> <=> k + 1 < Len(input)
        /\ t # <<>> => Head(t) = input[k + 2] /\ Tail(t) = SubSeq(input, k + 3, Len(input))
    <3>1. PICK m \in Nat : m = k + 1 /\ m + 1 = k + 2 /\ m + 2 = k + 3
      BY <1>2
    <3>2. t = SubSeq(input, m + 1, Len(input))
      BY <3>1
    <3> HIDE DEF t
    <3>3. /\ t # <<>> <=> m < Len(input)
          /\ t # <<>> => Head(t) = input[m + 1] /\ Tail(t) = SubSeq(input, m + 2, Len(input))
      BY <1>0, <3>2, RestIs
    <3> QED
      BY <3>1, <3>3
  <2>5. CASE t # <<>> /\ Head(t) = "LF"
    <3>1. /\ k + 1 \in 0..(Len(input) - 1) /\ k + 2 \in 0..Len(input) /\ k + 1 + 1 = k + 2
          /\ 0 < k + 1 /\ k + 2 + 1 = k + 3
      BY <1>0, <1>2, <2>4, <2>5
    <3>2. input[k + 2] = "LF" /\ k + 2 \notin Kept(input)
      BY <1>0, <1>7, <2>4, <2>5, <3>1, NextIsKept
    <3>3. Plain(Begin(input, k + 1)) \in Texts
      BY <1>3, <2>2, <2>3, AppendText DEF Symbols
    <3>4. Plain(Begin(input, k + 2)) = Append(taken \o buf, "LF")
      BY <1>0, <2>3, <3>1, <3>2, <3>3, PlainGrows
    <3>5. PICK m \in 0..Len(input) : m = k + 2
      BY <3>1
    <3>6. rest' = SubSeq(input, m + 1, Len(input)) /\ input[m] # "CR"
      BY <2>1, <2>4, <2>5, <3>1, <3>2, <3>5 DEF AfterCR
    <3>7. Plain(Begin(input, m)) = Append(taken \o buf, "LF")
      BY <3>4, <3>5
    <3>8. 0 < m /\ m < Len(input) /\ input[m] = "CR" => input[m + 1] # "LF"
      BY <3>6
    <3> QED
      BY <1>0, <1>4, <1>5, <2>1, <2>2, <3>6, <3>7, <3>8, TextAt
  <2>6. CASE ~(t # <<>> /\ Head(t) = "LF")
    <3>1. rest' = SubSeq(input, k + 1 + 1, Len(input)) /\ k + 1 + 1 = k + 2
      BY <1>2, <2>1, <2>6 DEF AfterCR
    <3>2. PICK m \in 0..Len(input) : m = k + 1 /\ m + 1 = k + 2
      BY <1>2
    <3>3. /\ rest' = SubSeq(input, m + 1, Len(input))
          /\ 0 < m /\ m < Len(input) /\ input[m] = "CR" => input[m + 1] # "LF"
          /\ Plain(Begin(input, m)) = Append(taken \o buf, "LF")
      BY <2>3, <2>4, <2>6, <3>1, <3>2
    <3> QED
      BY <1>0, <1>4, <1>5, <2>1, <2>2, <3>3, TextAt
  <2> QED
    BY <2>5, <2>6
<1>8. CASE input[k + 1] # "CR"
  <2>1. /\ buf' = Append(buf, input[k + 1]) /\ rest' = SubSeq(input, k + 1 + 1, Len(input))
    <3>1. k + 1 + 1 = k + 2
      BY <1>2
    <3> QED
      BY <1>2, <1>8, <3>1 DEF Receive
  <2>2. k + 1 \in Kept(input) /\ LineEnd(input[k + 1]) = input[k + 1]
    <3>1. 0 < k /\ input[k] = "CR" => input[k + 1] # "LF"
      BY <1>1, <1>2 DEF Cut
    <3>2. 0 < k \/ k = 0
      BY <1>2
    <3> QED
      BY <1>0, <1>2, <1>8, <3>1, <3>2, NextIsKept DEF LineEnd
  <2>3. Plain(Begin(input, k + 1)) = Append(taken \o buf, input[k + 1])
    BY <1>0, <1>2, <1>3, <1>6, <2>2, PlainGrows
  <2>4. PICK m \in 0..Len(input) : m = k + 1
    BY <1>2
  <2>5. /\ rest' = SubSeq(input, m + 1, Len(input))
        /\ input[m] # "CR" /\ buf' = Append(buf, input[m])
        /\ Plain(Begin(input, m)) = Append(taken \o buf, input[m])
    BY <1>8, <2>1, <2>3, <2>4
  <2>6. /\ input[m] \in Symbols
        /\ 0 < m /\ m < Len(input) /\ input[m] = "CR" => input[m + 1] # "LF"
    BY <1>3, <2>4, <2>5
  <2> QED
    BY <1>0, <1>4, <1>5, <2>5, <2>6, TextAt
<1> QED
  BY <1>4, <1>7, <1>8

LEMMA LineKeepsText ==
    ASSUME IInv, TextInv, StartInv, RequestLine \/ Header \/ HeadersEnd
    PROVE  TextInv' /\ StartInv'
<1>1. /\ UNCHANGED <<input, rest, given>> /\ taken' = taken \o buf /\ buf' = <<>>
      /\ pc' # "request" /\ buf \in Texts /\ taken \in Texts
  BY DEF RequestLine, Header, HeadersEnd, IInv, TypeOK
<1>2. StartInv'
  <2>1. ASSUME pc' \in {"headers", "body"} PROVE taken' # <<>>
    <3>1. taken # <<>> \/ buf # <<>>
      BY <2>1 DEF RequestLine, Header, HeadersEnd, StartInv
    <3>2. Len(taken') = Len(taken) + Len(buf) /\ Len(taken) \in Nat /\ Len(buf) \in Nat
      BY <1>1, ConcatProperties, LenProperties DEF Texts
    <3>3. Len(taken) # 0 \/ Len(buf) # 0
      BY <1>1, <3>1, EmptySeq DEF Texts
    <3> QED
      BY <3>2, <3>3, EmptyText
  <2>2. given' = <<>>
    BY <1>1 DEF RequestLine, Header, HeadersEnd, IInv, BodyInv, Reading
  <2> QED
    BY <1>1, <2>1, <2>2 DEF StartInv
<1>3. PICK k \in 0..Len(input) : Cut(k) /\ Copied(k) /\ Left(k)
  BY DEF TextInv
<1>4. taken' \o buf' = taken \o buf
  <2>1. taken \o buf \in Texts
    BY <1>1, ConcatProperties DEF Texts
  <2> QED
    BY <1>1, <2>1, ConcatEmptySeq DEF Texts
<1>5. Cut(k)'
  BY <1>1, <1>3, <1>4 DEF Cut, Begin
<1>6. Copied(k)' /\ Left(k)'
  BY <1>1, <1>3 DEF Copied, Left
<1> QED
  BY <1>1, <1>2, <1>3, <1>5, <1>6 DEF TextInv

LEMMA BodyKeepsText ==
    ASSUME IInv, TextInv, StartInv, CopyBody
    PROVE  TextInv' /\ StartInv'
<1>0. /\ rest \in Texts /\ given \in Texts /\ input \in Texts /\ Len(input) \in Nat
      /\ Len(given) \in Nat /\ pc = "body" /\ pc' \in {"body", "done"}
      /\ UNCHANGED <<input, buf, taken, content_length>>
  BY LenProperties DEF IInv, TypeOK, CopyBody, StartInv, Texts
<1>1. StartInv'
  BY <1>0 DEF StartInv, Reading
<1>2. PICK k \in 0..Len(input) : Cut(k) /\ Copied(k) /\ Left(k)
  BY DEF TextInv
<1>3. Cut(k)'
  BY <1>0, <1>2 DEF Cut, Begin
<1>4. PICK c \in NextBytes : given' = Append(given, c)
  BY DEF CopyBody
<1>5. c \in Symbols
  <2>1. rest # <<>> => Head(rest) \in Symbols
    BY <1>0, HeadTail DEF Symbols
  <2>2. given # <<>> => Last(given) \in Symbols
    <3>1. given # <<>> => Len(given) \in 1..Len(given)
      BY <1>0, EmptySeq, LenProperties DEF Texts
    <3> QED
      BY <1>0, <3>1, ElementOfSeq DEF Texts, Last, Symbols
  <2> QED
    BY <2>1, <2>2 DEF NextBytes, Symbols
<1>6. PICK m \in Nat : m = k + Len(given) /\ m + 1 = k + Len(given) + 1
  BY <1>0
<1>7. rest = SubSeq(input, m + 1, Len(input))
  BY <1>2, <1>6 DEF Left
<1>8. /\ rest # <<>> <=> m < Len(input)
      /\ rest # <<>> => Head(rest) = input[m + 1] /\ Tail(rest) = SubSeq(input, m + 2, Len(input))
  BY <1>0, <1>7, RestIs
<1>9. /\ Len(given') = Len(given) + 1
      /\ \A i \in 1..Len(given) : given'[i] = given[i]
      /\ given'[Len(given) + 1] = c
  BY <1>0, <1>4, <1>5, AppendProperties DEF Texts, Symbols
<1>10. Left(k)'
  <2>1. rest' = SubSeq(input, m + 2, Len(input))
    <3>1. CASE rest # <<>>
      BY <1>8, <3>1 DEF CopyBody
    <3>2. CASE rest = <<>>
      <4>1. PICK n \in Nat : n = m + 1 /\ n + 1 = m + 2
        OBVIOUS
      <4>2. ~(n < Len(input))
        BY <1>0, <1>8, <3>2, <4>1
      <4> DEFINE t == SubSeq(input, m + 2, Len(input))
      <4>3. t = SubSeq(input, n + 1, Len(input))
        BY <4>1
      <4> HIDE DEF t
      <4>4. t = <<>>
        BY <1>0, <4>2, <4>3, RestIs
      <4> QED
        BY <3>2, <4>4 DEF CopyBody, t
    <3> QED
      BY <3>1, <3>2
  <2>2. k + Len(given') + 1 = m + 2
    BY <1>0, <1>6, <1>9
  <2> QED
    BY <1>0, <2>1, <2>2 DEF Left
<1>11. Copied(k)'
  <2> DEFINE sent == SubSeq(input, k + 1, Len(input))
  <2>1. /\ k \in Nat /\ sent' = sent
        /\ \A i \in 1..Len(given) : IF i <= Len(sent) THEN given[i] = sent[i]
                                    ELSE i > 1 => given[i] = given[i - 1]
    BY <1>0, <1>2 DEF Copied
  <2>2. sent = SubSeq(input, k + 1, Len(input))
    OBVIOUS
  <2> HIDE DEF sent
  <2>3. /\ Len(sent) = IF k < Len(input) THEN Len(input) - k ELSE 0
        /\ \A i \in 1..(Len(input) - k) : sent[i] = input[k + i]
    BY <1>0, <2>1, <2>2, RestIs
  <2>4. ASSUME NEW i \in 1..Len(given')
        PROVE  IF i <= Len(sent) THEN given'[i] = sent[i]
               ELSE i > 1 => given'[i] = given'[i - 1]
    <3>1. CASE i \in 1..Len(given)
      <4>1. i > 1 => i - 1 \in 1..Len(given)
        BY <1>0, <3>1
      <4> QED
        BY <1>9, <2>1, <3>1, <4>1
    <3>2. CASE i = Len(given) + 1 /\ rest # <<>>
      <4>1. /\ m < Len(input) /\ c = input[m + 1] /\ given'[i] = c
        BY <1>8, <1>9, <3>2 DEF NextBytes
      <4>2. i \in 1..(Len(input) - k) /\ k + i = m + 1 /\ i <= Len(sent)
        BY <1>0, <1>6, <2>1, <2>3, <3>2, <4>1
      <4> QED
        BY <2>3, <4>1, <4>2
    <3>3. CASE i = Len(given) + 1 /\ rest = <<>>
      <4>1. ~(i <= Len(sent))
        BY <1>0, <1>6, <1>8, <2>1, <2>3, <3>3
      <4>2. i > 1 => /\ Len(given) \in 1..Len(given) /\ i - 1 = Len(given) /\ given # <<>>
        BY <1>0, <3>3, EmptyText
      <4>3. i > 1 => c = given[Len(given)]
        BY <3>3, <4>2 DEF NextBytes, Last
      <4> QED
        BY <1>9, <3>3, <4>1, <4>2, <4>3
    <3> QED
      BY <1>0, <1>9, <3>1, <3>2, <3>3
  <2> QED
    BY <2>1, <2>4 DEF Copied, sent
<1> QED
  BY <1>0, <1>1, <1>2, <1>3, <1>10, <1>11 DEF TextInv

(* The text read so far, and where the body begins. *)
THEOREM TextIsKept == Spec => [](TextInv /\ StartInv)
<1>1. IInv /\ TextInv /\ StartInv /\ [Next]_vars => (TextInv /\ StartInv)'
  <2>1. ASSUME TextInv, StartInv, UNCHANGED vars PROVE TextInv' /\ StartInv'
    BY <2>1 DEF vars, TextInv, StartInv, Cut, Copied, Left, Begin, Reading
  <2> QED
    BY <2>1, ReceiveKeepsText, LineKeepsText, BodyKeepsText DEF Next
<1> QED
  BY <1>1, Invariant, InitText, PTL DEF Spec

(* get_line() loses, repeats and displaces nothing: for any buffer size, any  *)
(* mix of line ends and any input, the lines are the text sent so far.        *)
THEOREM LinesAreTheText == Spec => []LinesKeepText
<1>1. IInv /\ TextInv => LinesKeepText
  <2> SUFFICES ASSUME IInv, TextInv, Reading
               PROVE  \E k \in 0..Len(input) :
                        /\ rest = SubSeq(input, k + 1, Len(input))
                        /\ Plain(SubSeq(input, 1, k)) = taken \o buf
    BY DEF LinesKeepText
  <2>1. Len(given) = 0
    BY EmptyText DEF IInv, BodyInv
  <2>2. PICK k \in 0..Len(input) : Cut(k) /\ Left(k)
    BY DEF TextInv
  <2>3. k + 0 + 1 = k + 1
    OBVIOUS
  <2> QED
    BY <2>1, <2>2, <2>3 DEF Cut, Left, Begin
<1> QED
  BY <1>1, Invariant, TextIsKept, PTL

(* The script gets the bytes after the headers as they were sent, for any     *)
(* length announced and any length sent.                                      *)
THEOREM BodyIsWhatFollows == Spec => []BodyFollowsHeaders
<1>1. IInv /\ TextInv /\ StartInv => BodyFollowsHeaders
  <2> SUFFICES ASSUME IInv, TextInv, StartInv, given # <<>>
               PROVE  \E k \in 0..Len(input) :
                        LET sent == SubSeq(input, k + 1, Len(input)) IN
                        /\ Plain(SubSeq(input, 1, k)) = taken
                        /\ k < Len(input) /\ input[k] = "CR" => input[k + 1] # "LF"
                        /\ \A i \in 1..Len(given) :
                             IF i <= Len(sent) THEN given[i] = sent[i]
                             ELSE i > 1 => given[i] = given[i - 1]
    BY DEF BodyFollowsHeaders
  <2>1. buf = <<>> /\ taken \in Texts
    BY DEF IInv, BodyInv, TypeOK, StartInv
  <2>2. PICK k \in 0..Len(input) : Cut(k) /\ Copied(k)
    BY DEF TextInv
  <2>3. taken \o buf = taken
    BY <2>1, ConcatEmptySeq DEF Texts
  <2>4. k # 0
    BY <2>2, <2>3, EmptyPlain DEF Cut, StartInv
  <2>5. 0 < k
    BY <2>4
  <2> QED
    BY <2>2, <2>3, <2>5 DEF Cut, Copied, Begin
<1> QED
  BY <1>1, Invariant, TextIsKept, PTL

-----------------------------------------------------------------------------
(* Where the headers end *)

(* Only the last character of a line ends it. *)
LineInv == \A i \in 1..Len(buf) : buf[i] = "LF" => i = Len(buf)

LengthKnown ==
    content_length \in IF method = "post" /\ HasLength(taken) THEN Lengths ELSE {-1}

(* Between two lines of the headers: no blank line was read, and the length   *)
(* is known just when its header was.                                         *)
HeadersInv ==
    pc = "headers" =>
        /\ taken # <<>>
        /\ taken[Len(taken)] = "LF" \/ (rest = <<>> /\ buf = <<>>)
        /\ BlankLines(taken) = {}
        /\ LengthKnown

BlockInv ==
    /\ LineInv
    /\ LinesFit(Plain(input)) => HeadersInv
    /\ HeadersEndAtBlankLine

LEMMA LinesOf ==
    ASSUME NEW t \in Texts, NEW b \in Texts
    PROVE  /\ t \o b \in Texts
           /\ Len(t) \in Nat /\ Len(b) \in Nat /\ Len(t \o b) = Len(t) + Len(b)
           /\ \A i \in 1..Len(t) : (t \o b)[i] = t[i]
           /\ \A i \in 1..Len(b) : (t \o b)[Len(t) + i] = b[i]
<1>1. /\ t \o b \in Texts
      /\ Len(t) \in Nat /\ Len(b) \in Nat /\ Len(t \o b) = Len(t) + Len(b)
      /\ \A i \in 1..(Len(t) + Len(b)) :
           (t \o b)[i] = IF i <= Len(t) THEN t[i] ELSE b[i - Len(t)]
  BY ConcatProperties, LenProperties DEF Texts
<1>2. ASSUME NEW i \in 1..Len(t) PROVE (t \o b)[i] = t[i]
  BY <1>1
<1>3. ASSUME NEW i \in 1..Len(b) PROVE (t \o b)[Len(t) + i] = b[i]
  <2>1. Len(t) + i \in 1..(Len(t) + Len(b)) /\ ~(Len(t) + i <= Len(t)) /\ Len(t) + i - Len(t) = i
    BY <1>1
  <2> QED
    BY <1>1, <2>1
<1> QED
  BY <1>1, <1>2, <1>3

(* A line after lines: a blank line is one of its own, and a header begins    *)
(* it.                                                                        *)
LEMMA LineAfterLines ==
    ASSUME NEW t \in Texts, NEW b \in Texts, b # <<>>,
           \A i \in 1..Len(b) : b[i] = "LF" => i = Len(b),
           t # <<>> => t[Len(t)] = "LF"
    PROVE  /\ (t \o b)[Len(t \o b)] = b[Len(b)] /\ t \o b # <<>>
           /\ t = <<>> \/ b # <<"LF">> => BlankLines(t \o b) = BlankLines(t)
           /\ HasLength(t \o b) <=> HasLength(t) \/ (t # <<>> /\ b[1] = "length")
<1> DEFINE u == t \o b
<1>1. /\ u \in Texts /\ Len(t) \in Nat /\ Len(b) \in Nat \ {0} /\ Len(u) = Len(t) + Len(b)
      /\ \A i \in 1..Len(t) : u[i] = t[i]
      /\ \A i \in 1..Len(b) : u[Len(t) + i] = b[i]
      /\ t = <<>> <=> Len(t) = 0
  BY LinesOf, EmptySeq DEF Texts
<1> HIDE DEF u
<1>2. u[Len(u)] = b[Len(b)] /\ u # <<>>
  <2>1. Len(b) \in 1..Len(b) /\ Len(u) # 0
    BY <1>1
  <2> QED
    BY <1>1, <2>1, EmptyText
<1>3. ASSUME NEW i \in 2..Len(u), u[i - 1] = "LF"
      PROVE  \/ i \in 2..Len(t) /\ u[i] = t[i] /\ u[i - 1] = t[i - 1]
             \/ t # <<>> /\ i = Len(t) + 1 /\ u[i] = b[1]
  <2>1. CASE i <= Len(t)
    <3>1. i \in 1..Len(t) /\ i - 1 \in 1..Len(t) /\ i \in 2..Len(t)
      BY <1>1, <2>1
    <3> QED
      BY <1>1, <3>1
  <2>2. CASE i = Len(t) + 1
    <3>1. 1 \in 1..Len(b) /\ Len(t) # 0
      BY <1>1, <2>2
    <3> QED
      BY <1>1, <2>2, <3>1
  <2>3. CASE i > Len(t) + 1
    <3>1. PICK n \in 1..Len(b) : Len(t) + n = i - 1 /\ n # Len(b)
      <4>1. i - 1 - Len(t) \in 1..Len(b) /\ i - 1 - Len(t) # Len(b) /\ Len(t) + (i - 1 - Len(t)) = i - 1
        BY <1>1, <2>3
      <4> QED
        BY <4>1
    <3>2. b[n] = "LF"
      BY <1>1, <1>3, <3>1
    <3> QED
      BY <3>1, <3>2
  <2> QED
    BY <1>1, <2>1, <2>2, <2>3
<1>4. ASSUME NEW i \in 2..Len(t)
      PROVE  i \in 2..Len(u) /\ u[i] = t[i] /\ u[i - 1] = t[i - 1]
  <2>1. i \in 2..Len(u) /\ i \in 1..Len(t) /\ i - 1 \in 1..Len(t)
    BY <1>1
  <2> QED
    BY <1>1, <2>1
<1>5. ASSUME t # <<>>
      PROVE  Len(t) + 1 \in 2..Len(u) /\ u[Len(t) + 1] = b[1] /\ u[Len(t) + 1 - 1] = "LF"
  <2>1. /\ Len(t) + 1 \in 2..Len(u) /\ 1 \in 1..Len(b) /\ Len(t) \in 1..Len(t)
        /\ Len(t) + 1 - 1 = Len(t)
    BY <1>1, <1>5
  <2> QED
    BY <1>1, <1>5, <2>1
<1>6. ASSUME b[1] = "LF" PROVE b = <<"LF">>
  <2>1. 1 \in 1..Len(b)
    BY <1>1
  <2>2. Len(b) = 1
    BY <1>6, <2>1
  <2> QED
    BY <1>6, <2>2 DEF Texts
<1>7. t = <<>> \/ b # <<"LF">> => BlankLines(u) = BlankLines(t)
  <2> SUFFICES ASSUME t = <<>> \/ b # <<"LF">>, NEW i
               PROVE  i \in BlankLines(u) <=> i \in BlankLines(t)
    BY DEF BlankLines
  <2>1. i \in BlankLines(u) => i \in BlankLines(t)
    BY <1>3, <1>6 DEF BlankLines
  <2>2. i \in BlankLines(t) => i \in BlankLines(u)
    BY <1>4 DEF BlankLines
  <2> QED
    BY <2>1, <2>2
<1>8. HasLength(u) <=> HasLength(t) \/ (t # <<>> /\ b[1] = "length")
  <2>1. HasLength(u) => HasLength(t) \/ (t # <<>> /\ b[1] = "length")
    BY <1>3 DEF HasLength
  <2>2. HasLength(t) => HasLength(u)
    BY <1>4 DEF HasLength
  <2>3. t # <<>> /\ b[1] = "length" => HasLength(u)
    BY <1>5 DEF HasLength
  <2> QED
    BY <2>1, <2>2, <2>3
<1> QED
  BY <1>2, <1>7, <1>8 DEF u

(* The lines are a beginning of the plain text, and all of it at the end of   *)
(* the input.                                                                 *)
LEMMA ReadIsBeginning ==
    ASSUME IInv, TextInv, StartInv
    PROVE  /\ taken \o buf \in Texts
           /\ Len(taken \o buf) \in Nat /\ Len(Plain(input)) \in Nat
           /\ Len(taken \o buf) <= Len(Plain(input))
           /\ \A n \in 1..Len(taken \o buf) : Plain(input)[n] = (taken \o buf)[n]
           /\ Reading /\ rest = <<>> => taken \o buf = Plain(input)
<1>1. PICK k \in 0..Len(input) : Cut(k) /\ Left(k)
  BY DEF TextInv
<1>2. /\ input \in Texts /\ taken \o buf \in Texts /\ taken \o buf = Plain(Begin(input, k))
      /\ Begin(input, k) \in Texts /\ Len(input) \in Nat
  BY <1>1, LinesOf, LenProperties, BeginIs DEF Cut, StartInv, IInv, TypeOK, Texts
<1>3. Len(taken \o buf) = Place(input, k) /\ Len(Plain(input)) = Cardinality(Kept(input))
  BY <1>2, PlainIs, KeptOfBegin
<1>4. /\ Len(taken \o buf) \in Nat /\ Len(Plain(input)) \in Nat
      /\ Len(taken \o buf) <= Len(Plain(input))
  BY <1>2, <1>3, KeptFinite
<1>5. ASSUME NEW n \in 1..Len(taken \o buf) PROVE Plain(input)[n] = (taken \o buf)[n]
  <2>1. n \in 1..Cardinality(Kept(Begin(input, k)))
    BY <1>2, PlainIs
  <2> QED
    BY <1>2, <2>1, PlainOfBegin
<1>6. ASSUME Reading, rest = <<>> PROVE taken \o buf = Plain(input)
  <2>1. Len(given) = 0 /\ k + 0 + 1 = k + 1 /\ k \in Nat
    BY <1>2, <1>6, EmptyText DEF IInv, BodyInv
  <2>2. rest = SubSeq(input, k + 1, Len(input))
    BY <1>1, <2>1 DEF Left
  <2>3. k = Len(input)
    <3>1. ~(k < Len(input))
      BY <1>2, <1>6, <2>1, <2>2, RestIs
    <3> QED
      BY <1>2, <3>1
  <2>4. Begin(input, k) = input
    BY <1>2, <2>3 DEF Begin, Texts
  <2> QED
    BY <1>2, <2>4
<1> QED
  BY <1>2, <1>4, <1>5, <1>6

LEMMA InitBlock == Init => BlockInv
  BY EmptySeq DEF Init, BlockInv, LineInv, HeadersInv, HeadersEndAtBlankLine

LEMMA ReceiveKeepsBlock ==
    ASSUME IInv, BlockInv, Receive
    PROVE  BlockInv'
<1>0. /\ buf \in Texts /\ Len(buf) \in Nat /\ rest # <<>>
      /\ buf = <<>> \/ Last(buf) # "LF"
      /\ UNCHANGED <<input, closes, taken, pc, method, content_length, given>>
      /\ pc \in {"request", "headers"}
  BY LenProperties DEF IInv, TypeOK, Receive, LineDone, Reading, Texts
<1>1. PICK c \in Symbols : buf' = Append(buf, c)
  <2>1. Head(rest) \in Symbols
    BY <1>0, HeadTail DEF IInv, TypeOK, Symbols
  <2>2. "LF" \in Symbols
    BY DEF Symbols, Chars, Ends
  <2> QED
    BY <2>1, <2>2 DEF Receive
<1>2. Len(buf') = Len(buf) + 1 /\ \A i \in 1..Len(buf) : buf'[i] = buf[i]
  BY <1>0, <1>1, AppendProperties DEF Texts, Symbols
<1>3. \A i \in 1..Len(buf) : buf[i] # "LF"
  <2>1. \A i \in 1..Len(buf) : buf # <<>>
    BY <1>0, EmptyText
  <2> QED
    BY <1>0, <2>1 DEF BlockInv, LineInv, Last
<1>4. LineInv'
  <2>1. \A i \in 1..Len(buf') : i \in 1..Len(buf) \/ i = Len(buf')
    BY <1>0, <1>2
  <2> QED
    BY <1>2, <1>3, <2>1 DEF LineInv
<1>5. LinesFit(Plain(input))' => HeadersInv'
  BY <1>0 DEF BlockInv, HeadersInv, LengthKnown
<1>6. HeadersEndAtBlankLine'
  BY <1>0 DEF HeadersEndAtBlankLine
<1> QED
  BY <1>4, <1>5, <1>6 DEF BlockInv

(* A line that get_line() returns ends, or the input has ended, unless it     *)
(* fills the buffer.                                                          *)
LEMMA ReturnsLine ==
    ASSUME IInv, TextInv, StartInv, LineInv, LinesFit(Plain(input)), Returns
    PROVE  (buf # <<>> /\ buf[Len(buf)] = "LF") \/ rest = <<>>
<1> SUFFICES ASSUME buf = <<>> \/ buf[Len(buf)] # "LF", rest # <<>> PROVE FALSE
  OBVIOUS
<1> DEFINE t == taken \o buf
           p == Plain(input)
<1>1. /\ taken \in Texts /\ buf \in Texts /\ Len(taken) \in Nat /\ Len(buf) \in Nat
      /\ Len(t) = Len(taken) + Len(buf)
      /\ \A i \in 1..Len(buf) : t[Len(taken) + i] = buf[i]
  BY LinesOf DEF IInv, TypeOK
<1>2. Len(p) \in Nat /\ Len(t) <= Len(p) /\ \A n \in 1..Len(t) : p[n] = t[n]
  BY ReadIsBeginning
<1> HIDE DEF t, p
<1>3. Len(buf) = BufSize - 1 /\ BufSize \in Nat /\ BufSize >= 2
  BY ReaderAssumption DEF Returns, AtEOF, LineDone, Last
<1>4. \A i \in 1..Len(buf) : buf[i] # "LF"
  BY <1>1, EmptyText DEF LineInv
<1>5. PICK i \in 1..Len(p) : i = Len(taken) + 1 /\ i + BufSize - 2 = Len(t)
  <2>1. Len(taken) + 1 \in 1..Len(p) /\ Len(taken) + 1 + BufSize - 2 = Len(t)
    BY <1>1, <1>2, <1>3
  <2> QED
    BY <2>1
<1>6. PICK j \in i..(i + BufSize - 2) : p[j] = "LF"
  BY <1>2, <1>5 DEF LinesFit, p
<1>7. PICK n \in 1..Len(buf) : Len(taken) + n = j /\ j \in 1..Len(t)
  <2>1. /\ j - Len(taken) \in 1..Len(buf) /\ Len(taken) + (j - Len(taken)) = j
        /\ j \in 1..Len(t)
    BY <1>1, <1>3, <1>5, <1>6
  <2> QED
    BY <2>1
<1> QED
  BY <1>1, <1>2, <1>4, <1>6, <1>7

(* A line is added to the headers, the first one to none. *)
LEMMA LineKeepsBlock ==
    ASSUME IInv, TextInv, StartInv, BlockInv, RequestLine \/ Header
    PROVE  BlockInv'
<1>0. /\ UNCHANGED <<input, closes, rest, given>> /\ taken' = taken \o buf /\ buf' = <<>>
      /\ taken \in Texts /\ buf \in Texts /\ Returns
      /\ pc' = "done" => method' = "other"
      /\ pc' # "body"
  BY DEF RequestLine, Header, IInv, TypeOK
<1>1. LineInv' /\ HeadersEndAtBlankLine'
  BY <1>0, EmptyText DEF LineInv, HeadersEndAtBlankLine
<1>2. pc' = "headers" => buf # <<>>
  BY DEF RequestLine, Header, More
<1>3. ASSUME LinesFit(Plain(input))', pc' = "headers" PROVE HeadersInv'
  <2>1. LinesFit(Plain(input)) /\ HeadersInv /\ LineInv
    BY <1>0, <1>3 DEF BlockInv
  <2>2. buf[Len(buf)] = "LF" \/ rest = <<>>
    BY <1>0, <2>1, ReturnsLine
  <2>3. taken # <<>> => taken[Len(taken)] = "LF"
    BY <1>2, <1>3, <2>1 DEF RequestLine, Header, StartInv, HeadersInv
  <2>4. /\ taken'[Len(taken')] = buf[Len(buf)] /\ taken' # <<>>
        /\ taken = <<>> \/ buf # <<"LF">> => BlankLines(taken') = BlankLines(taken)
        /\ HasLength(taken') <=> HasLength(taken) \/ (taken # <<>> /\ buf[1] = "length")
    BY <1>0, <1>2, <1>3, <2>1, <2>3, LineAfterLines DEF LineInv
  <2>5. CASE RequestLine
    <3>1. taken = <<>> /\ content_length = -1
      BY <2>5 DEF RequestLine, StartInv
    <3>2. BlankLines(taken) = {} /\ ~HasLength(taken)
      BY <3>1, EmptyText DEF BlankLines, HasLength
    <3>3. content_length' = -1
      BY <2>5, <3>1 DEF RequestLine
    <3>4. LengthKnown'
      BY <2>4, <3>1, <3>2, <3>3 DEF LengthKnown
    <3> QED
      BY <1>0, <2>2, <2>4, <3>1, <3>2, <3>4 DEF HeadersInv
  <2>6. CASE Header
    <3>1. /\ buf # <<"LF">> /\ taken # <<>> /\ UNCHANGED method
          /\ BlankLines(taken) = {}
          /\ LengthKnown
      BY <2>1, <2>6 DEF Header, More, HeadersInv
    <3>2. content_length' \in IF method = "post" /\ buf[1] = "length"
                                THEN Lengths ELSE {content_length}
      BY <1>2, <1>3, <2>6 DEF Header, HeaderIn
    <3>3. LengthKnown'
      BY <2>4, <3>1, <3>2 DEF LengthKnown
    <3> QED
      BY <1>0, <2>2, <2>4, <3>1, <3>3 DEF HeadersInv
  <2> QED
    BY <2>5, <2>6
<1> QED
  BY <1>1, <1>3 DEF BlockInv, HeadersInv

(* The headers end at the first blank line of the text, or with the text. *)
LEMMA EndKeepsBlock ==
    ASSUME IInv, TextInv, StartInv, BlockInv, HeadersEnd
    PROVE  BlockInv'
<1>0. /\ UNCHANGED <<input, closes, rest, given, method, content_length>>
      /\ taken' = taken \o buf /\ buf' = <<>>
      /\ taken \in Texts /\ buf \in Texts /\ Returns /\ pc = "headers" /\ Reading
      /\ buf = <<>> \/ buf = <<"LF">>
      /\ pc' \in {"body", "done"}
  BY DEF HeadersEnd, More, IInv, TypeOK, Reading
<1>1. LineInv' /\ HeadersInv'
  BY <1>0, EmptyText DEF LineInv, HeadersInv
<1>2. ASSUME LinesFit(Plain(input))
      PROVE  /\ taken' = HeaderBlock(Plain(input))
             /\ LengthKnown'
  <2> DEFINE t == taken \o buf
             p == Plain(input)
  <2>1. /\ taken # <<>> /\ (taken[Len(taken)] = "LF" \/ buf = <<>>)
        /\ BlankLines(taken) = {}
        /\ LengthKnown
    BY <1>0, <1>2 DEF BlockInv, HeadersInv
  <2>2. /\ t \in Texts /\ Len(t) \in Nat /\ Len(p) \in Nat /\ Len(t) <= Len(p)
        /\ \A n \in 1..Len(t) : p[n] = t[n]
        /\ rest = <<>> => t = p
    BY <1>0, ReadIsBeginning
  <2>3. CASE buf = <<>>
    <3>1. t = taken
      BY <1>0, <2>3, ConcatEmptySeq DEF Texts
    <3>2. rest = <<>>
      <4>1. BufSize - 1 # 0
        BY ReaderAssumption
      <4> QED
        BY <1>0, <2>3, <4>1, EmptyText DEF Returns, LineDone, AtEOF
    <3>3. LengthKnown'
      BY <1>0, <2>1, <3>1 DEF LengthKnown
    <3> QED
      BY <1>0, <2>1, <2>2, <3>1, <3>2, <3>3 DEF HeaderBlock
  <2>4. CASE buf = <<"LF">>
    <3>1. /\ Len(buf) = 1 /\ buf[1] = "LF" /\ buf # <<>> /\ taken # <<>>
          /\ taken[Len(taken)] = "LF"
      BY <2>1, <2>4
    <3>2. HasLength(t) <=> HasLength(taken)
      <4>1. \A i \in 1..Len(buf) : buf[i] = "LF" => i = Len(buf)
        BY <3>1
      <4>2. HasLength(t) <=> HasLength(taken) \/ (taken # <<>> /\ buf[1] = "length")
        BY <1>0, <3>1, <4>1, LineAfterLines
      <4> QED
        BY <3>1, <4>2
    <3>3. /\ Len(taken) \in Nat \ {0} /\ Len(t) = Len(taken) + 1
          /\ \A i \in 1..Len(taken) : t[i] = taken[i]
          /\ t[Len(taken) + 1] = "LF"
      <4>1. 1 \in 1..Len(buf)
        BY <3>1
      <4> QED
        BY <1>0, <3>1, <4>1, LinesOf, EmptySeq DEF Texts
    <3> HIDE DEF t, p
    <3>4. PICK n \in 1..Len(p) : n = Len(taken) + 1 /\ n = Len(t) /\ n \in 2..Len(p)
      BY <2>2, <3>3
    <3>5. n \in BlankLines(p)
      <4>1. n \in 1..Len(t) /\ n - 1 \in 1..Len(t) /\ n - 1 \in 1..Len(taken) /\ n - 1 = Len(taken)
        BY <3>3, <3>4
      <4> QED
        BY <2>2, <3>1, <3>3, <3>4, <4>1 DEF BlankLines
    <3>6. ASSUME NEW i \in BlankLines(p), i < n PROVE FALSE
      <4>1. i \in 2..Len(taken) /\ i \in 1..Len(t) /\ i - 1 \in 1..Len(t)
            /\ i \in 1..Len(taken) /\ i - 1 \in 1..Len(taken)
        BY <2>2, <3>3, <3>4, <3>6 DEF BlankLines
      <4>2. taken[i] = "LF" /\ taken[i - 1] = "LF"
        BY <2>2, <3>3, <3>6, <4>1 DEF BlankLines
      <4> QED
        BY <2>1, <4>1, <4>2 DEF BlankLines
    <3>7. \A i \in BlankLines(p) : i \in Nat /\ n <= i
      <4>1. \A i \in BlankLines(p) : i \in Nat
        BY DEF BlankLines
      <4> QED
        BY <3>4, <3>6, <4>1
    <3>8. (CHOOSE i \in BlankLines(p) : \A j \in BlankLines(p) : i <= j) = n
      <4>1. \A i \in BlankLines(p) : (\A j \in BlankLines(p) : i <= j) <=> i = n
        BY <3>4, <3>5, <3>7
      <4> QED
        BY <3>5, <4>1
    <3>9. HeaderBlock(p) = SubSeq(p, 1, n)
      BY <3>5, <3>8 DEF HeaderBlock
    <3>10. SubSeq(p, 1, n) = t
      <4>1. \A i \in 1..n : p[i] = t[i] /\ p[i] \in Symbols
        BY <2>2, <3>4, ElementOfSeq DEF Texts, Symbols
      <4>2. /\ SubSeq(p, 1, n) \in Seq(Symbols) /\ Len(SubSeq(p, 1, n)) = n
            /\ \A i \in 1..n : SubSeq(p, 1, n)[i] = p[i]
        <5>1. 1 \in Int /\ n \in Int /\ 1 <= n /\ n - 1 + 1 = n /\ \A i \in 1..n : 1 + i - 1 = i
          BY <3>4
        <5> QED
          BY <4>1, <5>1, SubSeqProperties
      <4> QED
        BY <2>2, <3>4, <4>1, <4>2, SeqEqual DEF Texts, Symbols
    <3>11. LengthKnown'
      BY <1>0, <2>1, <3>2 DEF LengthKnown, t
    <3> QED
      BY <1>0, <3>9, <3>10, <3>11 DEF t, p
  <2> QED
    BY <1>0, <2>3, <2>4
<1>3. HeadersEndAtBlankLine'
  BY <1>0, <1>2 DEF HeadersEndAtBlankLine, LengthKnown
<1> QED
  BY <1>1, <1>3 DEF BlockInv

LEMMA BodyKeepsBlock ==
    ASSUME BlockInv, CopyBody
    PROVE  BlockInv'
<1>1. /\ pc = "body" /\ pc' \in {"body", "done"}
      /\ UNCHANGED <<input, buf, taken, method, content_length>>
  BY DEF CopyBody
<1> QED
  BY <1>1 DEF BlockInv, LineInv, HeadersInv, HeadersEndAtBlankLine

(* The headers end at the first blank line, with no line taken from the body  *)
(* and none left to it, for any size of the buffer that no line fills; and a  *)
(* POST has a length just when one of its lines begins with the header.       *)
THEOREM HeadersEndThere == Spec => []HeadersEndAtBlankLine
<1>1. IInv /\ TextInv /\ StartInv /\ BlockInv /\ [Next]_vars => BlockInv'
  <2>1. ASSUME BlockInv, UNCHANGED vars PROVE BlockInv'
    BY <2>1 DEF vars, BlockInv, LineInv, HeadersInv, LengthKnown, HeadersEndAtBlankLine
  <2> QED
    BY <2>1, ReceiveKeepsBlock, LineKeepsBlock, EndKeepsBlock, BodyKeepsBlock DEF Next
<1>2. BlockInv => HeadersEndAtBlankLine
  BY DEF BlockInv
<1> QED
  BY <1>1, <1>2, Invariant, TextIsKept, InitBlock, PTL DEF Spec
=============================================================================
