------------------------- MODULE IOBuffer_proofs -------------------------
(* Proofs about the buffer, for any bytes, any number of chunks and any     *)
(* sizes of them: the count is right, and the chunks are a byte stream.     *)
(*                                                                          *)
(* FlattenSeq is recursive, so its laws need induction.  The induction      *)
(* theorems of the library have a predicate as a parameter; here induction  *)
(* is a fact about sets of numbers, got from the smallest element that a    *)
(* well-founded order gives every nonempty set.                             *)
EXTENDS IOBuffer, SequenceTheorems, WellFoundedInduction, TLAPS

-----------------------------------------------------------------------------
(* Induction *)

Less == {p \in Nat \X Nat : p[1] < p[2]}

LEMMA LessWellFounded == IsWellFoundedOn(Less, Nat)
  BY NatLessThanWellFounded DEF OpToRel, Less

LEMMA Smallest ==
    ASSUME NEW T \in SUBSET Nat, T # {}
    PROVE  \E m \in T : \A k \in T : m <= k
<1>1. PICK m \in T : \A k \in T : ~(<<k, m>> \in Less)
  BY LessWellFounded, WFMin
<1>2. \A k \in Nat : k < m => <<k, m>> \in Less
  BY DEF Less
<1>3. ASSUME NEW k \in T PROVE m <= k
  <2>1. k \in Nat /\ m \in Nat
    OBVIOUS
  <2>2. ~(k < m)
    BY <1>1, <1>2, <2>1, Zenon
  <2> QED
    BY <2>1, <2>2
<1> QED
  BY <1>3

LEMMA Induction ==
    ASSUME NEW T \in SUBSET Nat, 0 \in T, \A n \in T : n + 1 \in T
    PROVE  \A n \in Nat : n \in T
<1> SUFFICES ASSUME Nat \ T # {} PROVE FALSE
  OBVIOUS
<1>1. Nat \ T \in SUBSET Nat
  OBVIOUS
<1>2. PICK m \in Nat \ T : \A k \in Nat \ T : m <= k
  BY <1>1, Smallest
<1>3. m # 0
  OBVIOUS
<1>4. m - 1 \in Nat /\ ~(m <= m - 1) /\ m - 1 + 1 = m
  BY <1>3
<1>5. m - 1 \in T
  BY <1>2, <1>4
<1> QED
  BY <1>4, <1>5

-----------------------------------------------------------------------------
(* Lists of chunks and their bytes *)

Chunk == Seq(Bytes)
Lists == Seq(Chunk)

(* The bytes of the first i chunks of s, for every i up to m. *)
Sums(s, m, f) == f = [i \in 1..m |-> IF i = 1 THEN s[i] ELSE f[i - 1] \o s[i]]

LEMMA SumsExist ==
    ASSUME NEW s, NEW m \in Nat
    PROVE  \E f : Sums(s, m, f)
<1> DEFINE T == {n \in Nat : \E f : Sums(s, n, f)}
<1>1. 0 \in T
  <2>1. PICK f : f = [i \in 1..0 |-> {}]
    OBVIOUS
  <2>2. \A i \in 1..0 : FALSE
    OBVIOUS
  <2>3. f = [i \in 1..0 |-> IF i = 1 THEN s[i] ELSE f[i - 1] \o s[i]]
    BY <2>1, <2>2
  <2> QED
    BY <2>3 DEF Sums
<1>2. ASSUME NEW n \in T PROVE n + 1 \in T
  <2>1. PICK f : Sums(s, n, f)
    OBVIOUS
  <2> DEFINE last == IF n = 0 THEN s[1] ELSE f[n] \o s[n + 1]
             g == [i \in 1..(n + 1) |-> IF i = n + 1 THEN last ELSE f[i]]
  <2>2. /\ DOMAIN f = 1..n
        /\ \A i \in 1..n : f[i] = IF i = 1 THEN s[i] ELSE f[i - 1] \o s[i]
    BY <2>1 DEF Sums
  <2>3. ASSUME NEW i \in 1..(n + 1)
        PROVE  g[i] = IF i = 1 THEN s[i] ELSE g[i - 1] \o s[i]
    <3>1. CASE i = n + 1 /\ n = 0
      BY <3>1
    <3>2. CASE i = n + 1 /\ n # 0
      <4>1. n \in 1..(n + 1) /\ n # n + 1 /\ i # 1 /\ i - 1 = n
        BY <3>2
      <4>2. g[n] = f[n] /\ g[i] = f[n] \o s[n + 1]
        BY <3>2, <4>1
      <4> QED
        BY <3>2, <4>1, <4>2
    <3>3. CASE i # n + 1
      <4>1. i \in 1..n /\ i - 1 # n + 1 /\ (i # 1 => i - 1 \in 1..(n + 1))
        BY <3>3
      <4>2. g[i] = f[i] /\ (i # 1 => g[i - 1] = f[i - 1])
        BY <3>3, <4>1
      <4> QED
        BY <2>2, <4>1, <4>2
    <3> QED
      BY <3>1, <3>2, <3>3
  <2>4. g = [i \in 1..(n + 1) |-> g[i]]
    OBVIOUS
  <2> HIDE DEF g
  <2>5. g = [i \in 1..(n + 1) |-> IF i = 1 THEN s[i] ELSE g[i - 1] \o s[i]]
    BY <2>3, <2>4
  <2>6. \E h : Sums(s, n + 1, h)
    BY <2>5 DEF Sums
  <2> QED
    BY <2>6
<1>3. T \in SUBSET Nat
  OBVIOUS
<1> HIDE DEF T
<1>4. m \in T
  BY <1>1, <1>2, <1>3, Induction
<1> QED
  BY <1>4 DEF T

(* The recursive function in FlattenSeq exists, and is known everywhere. *)
LEMMA FlattenIs ==
    ASSUME NEW s, Len(s) \in Nat, Len(s) # 0
    PROVE  \E f : Sums(s, Len(s), f) /\ FlattenSeq(s) = f[Len(s)]
<1>1. PICK f : f = CHOOSE g : g = [i \in 1..Len(s) |-> IF i = 1 THEN s[i] ELSE g[i - 1] \o s[i]]
  OBVIOUS
<1>2. FlattenSeq(s) = f[Len(s)]
  BY <1>1, Zenon DEF FlattenSeq
<1>3. \E g : g = [i \in 1..Len(s) |-> IF i = 1 THEN s[i] ELSE g[i - 1] \o s[i]]
  BY SumsExist DEF Sums
<1>4. Sums(s, Len(s), f)
  BY <1>1, <1>3, Zenon DEF Sums
<1> QED
  BY <1>2, <1>4

LEMMA SumsAgree ==
    ASSUME NEW s, NEW t, NEW m \in Nat, NEW n \in Nat, NEW f, NEW g,
           m <= n, Sums(s, m, f), Sums(t, n, g),
           \A i \in 1..m : s[i] = t[i]
    PROVE  \A i \in 1..m : f[i] = g[i]
<1> DEFINE T == {k \in Nat : k \in 1..m => f[k] = g[k]}
<1>1. /\ \A i \in 1..m : f[i] = IF i = 1 THEN s[i] ELSE f[i - 1] \o s[i]
      /\ \A i \in 1..n : g[i] = IF i = 1 THEN t[i] ELSE g[i - 1] \o t[i]
  BY DEF Sums
<1>2. 0 \in T
  OBVIOUS
<1>3. ASSUME NEW k \in T PROVE k + 1 \in T
  <2> SUFFICES ASSUME k + 1 \in 1..m PROVE f[k + 1] = g[k + 1]
    OBVIOUS
  <2>1. k + 1 \in 1..n /\ s[k + 1] = t[k + 1] /\ k + 1 - 1 = k
    OBVIOUS
  <2>2. CASE k = 0
    BY <1>1, <2>1, <2>2
  <2>3. CASE k # 0
    <3>1. k \in 1..m /\ k + 1 # 1
      BY <2>3
    <3>2. f[k] = g[k]
      BY <3>1
    <3> QED
      BY <1>1, <2>1, <3>1, <3>2
  <2> QED
    BY <2>2, <2>3
<1>4. T \in SUBSET Nat
  OBVIOUS
<1> HIDE DEF T
<1>5. \A k \in Nat : k \in T
  BY <1>2, <1>3, <1>4, Induction
<1> QED
  BY <1>5 DEF T

LEMMA EmptyFlattened == FlattenSeq(<<>>) = <<>> /\ <<>> \in Chunk /\ <<>> \in Lists
  BY EmptySeq DEF FlattenSeq, Chunk, Lists

LEMMA FlattenNext ==
    \A s, t : \A n \in Nat, m \in Nat :
        /\ Len(s) = n /\ Len(t) = m /\ n # 0 /\ m = n + 1
        /\ \A i \in 1..n : s[i] = t[i]
        => FlattenSeq(t) = FlattenSeq(s) \o t[m]
<1> TAKE s, t
<1> TAKE n \in Nat, m \in Nat
<1>1. HAVE /\ Len(s) = n /\ Len(t) = m /\ n # 0 /\ m = n + 1
           /\ \A i \in 1..n : s[i] = t[i]
<1>2. PICK f : Sums(s, n, f) /\ FlattenSeq(s) = f[n]
  BY <1>1, FlattenIs
<1>3. PICK g : Sums(t, m, g) /\ FlattenSeq(t) = g[m]
  <2>1. Len(t) \in Nat /\ Len(t) # 0
    BY <1>1
  <2>2. \E h : Sums(t, Len(t), h) /\ FlattenSeq(t) = h[Len(t)]
    BY <2>1, FlattenIs
  <2> QED
    BY <1>1, <2>2
<1>4. \A i \in 1..n : f[i] = g[i]
  <2>1. n <= m /\ \A i \in 1..n : s[i] = t[i]
    BY <1>1
  <2>2. Sums(s, n, f) /\ Sums(t, m, g)
    BY <1>2, <1>3
  <2> QED
    BY <2>1, <2>2, SumsAgree
<1>5. g[m] = g[n] \o t[m]
  <2>1. \A i \in 1..m : g[i] = IF i = 1 THEN t[i] ELSE g[i - 1] \o t[i]
    BY <1>3 DEF Sums
  <2>2. m \in 1..m /\ m # 1 /\ m - 1 = n
    BY <1>1
  <2> QED
    BY <2>1, <2>2
<1>6. n \in 1..n
  BY <1>1
<1> QED
  BY <1>2, <1>3, <1>4, <1>5, <1>6

LEMMA FlattenOne == \A c \in Chunk : <<c>> \in Lists /\ FlattenSeq(<<c>>) = c
<1> SUFFICES ASSUME NEW c \in Chunk PROVE <<c>> \in Lists /\ FlattenSeq(<<c>>) = c
  OBVIOUS
<1>1. PICK s : s = <<c>>
  OBVIOUS
<1>2. s \in Lists /\ Len(s) = 1 /\ s[1] = c
  BY <1>1 DEF Lists
<1>3. PICK f : Sums(s, 1, f) /\ FlattenSeq(s) = f[1]
  <2>1. Len(s) \in Nat /\ Len(s) # 0
    BY <1>2
  <2>2. PICK f : Sums(s, Len(s), f) /\ FlattenSeq(s) = f[Len(s)]
    BY <2>1, FlattenIs
  <2>3. Sums(s, 1, f) /\ FlattenSeq(s) = f[1]
    BY <1>2, <2>2
  <2> QED
    BY <2>3
<1>4. f[1] = s[1]
  BY <1>3 DEF Sums
<1> QED
  BY <1>1, <1>2, <1>3, <1>4

(* A chunk at the end of the list. *)
LEMMA FlattenAppend ==
    ASSUME NEW s \in Lists, FlattenSeq(s) \in Chunk, NEW c \in Chunk
    PROVE  FlattenSeq(Append(s, c)) = FlattenSeq(s) \o c
<1>1. PICK t : t = Append(s, c)
  OBVIOUS
<1>2. /\ Len(s) \in Nat /\ Len(t) = Len(s) + 1 /\ t[Len(s) + 1] = c
      /\ \A i \in 1..Len(s) : s[i] = t[i]
  BY <1>1, AppendProperties, LenProperties DEF Lists
<1>3. CASE s = <<>>
  <2>1. t = <<c>>
    BY <1>1, <1>3
  <2>2. FlattenSeq(s) \o c = c
    BY <1>3, EmptyFlattened, ConcatEmptySeq DEF Chunk
  <2> QED
    BY <1>1, <2>1, <2>2, FlattenOne
<1>4. CASE s # <<>>
  <2>1. PICK n \in Nat, m \in Nat : n = Len(s) /\ n # 0 /\ m = n + 1
    BY <1>2, <1>4, EmptySeq DEF Lists
  <2>2. Len(t) = m /\ t[m] = c /\ \A i \in 1..n : s[i] = t[i]
    BY <1>2, <2>1
  <2>3. FlattenSeq(t) = FlattenSeq(s) \o t[m]
    BY <2>1, <2>2, FlattenNext
  <2> QED
    BY <1>1, <2>2, <2>3
<1> QED
  BY <1>3, <1>4

LEMMA LastOf ==
    ASSUME NEW s \in Lists, s # <<>>
    PROVE  \E r \in Lists, c \in Chunk : s = Append(r, c) /\ Len(s) = Len(r) + 1 /\ Len(r) \in Nat
<1> DEFINE n == Len(s)
           r == SubSeq(s, 1, n - 1)
<1>1. n \in Nat \ {0} /\ \A i \in 1..n : s[i] \in Chunk
  BY EmptySeq, ElementOfSeq DEF Lists
<1>2. /\ r \in Lists /\ Len(r) = n - 1
      /\ \A i \in 1..(n - 1) : r[i] = s[i]
  <2>1. 1 \in Int /\ n - 1 \in Int /\ \A i \in 1..(n - 1) : s[i] \in Chunk
    BY <1>1
  <2>2. /\ r \in Seq(Chunk) /\ Len(r) = IF 1 <= n - 1 THEN n - 1 - 1 + 1 ELSE 0
        /\ \A i \in 1..(n - 1 - 1 + 1) : r[i] = s[1 + i - 1]
    BY <2>1, SubSeqProperties
  <2>3. /\ (IF 1 <= n - 1 THEN n - 1 - 1 + 1 ELSE 0) = n - 1 /\ n - 1 - 1 + 1 = n - 1
        /\ \A i \in 1..(n - 1) : 1 + i - 1 = i
    BY <1>1
  <2> QED
    BY <2>2, <2>3 DEF Lists
<1>3. n \in 1..n /\ s[n] \in Chunk
  BY <1>1
<1> HIDE DEF r
<1>4. /\ Append(r, s[n]) \in Lists /\ Len(Append(r, s[n])) = Len(r) + 1
      /\ \A i \in 1..Len(r) : Append(r, s[n])[i] = r[i]
      /\ Append(r, s[n])[Len(r) + 1] = s[n]
  BY <1>2, <1>3, AppendProperties DEF Lists
<1>5. \A i \in 1..n : s[i] = Append(r, s[n])[i]
  <2>1. \A i \in 1..n : i \in 1..(n - 1) \/ i = n
    BY <1>1
  <2>2. Len(r) + 1 = n
    BY <1>1, <1>2
  <2> QED
    BY <1>2, <1>4, <2>1, <2>2
<1>6. s = Append(r, s[n])
  <2>1. Len(s) = Len(Append(r, s[n]))
    BY <1>1, <1>2, <1>4
  <2> QED
    BY <1>4, <1>5, <2>1, SeqEqual DEF Lists
<1>7. Len(s) = Len(r) + 1 /\ Len(r) \in Nat
  BY <1>1, <1>2
<1> QED
  BY <1>2, <1>3, <1>6, <1>7

LEMMA FlattenType == \A s \in Lists : FlattenSeq(s) \in Chunk
<1> DEFINE T == {n \in Nat : \A s \in Lists : Len(s) = n => FlattenSeq(s) \in Chunk}
<1>1. 0 \in T
  <2>1. \A s \in Lists : Len(s) = 0 => s = <<>>
    BY EmptySeq DEF Lists
  <2> QED
    BY <2>1, EmptyFlattened
<1>2. ASSUME NEW n \in T PROVE n + 1 \in T
  <2> SUFFICES ASSUME NEW s \in Lists, Len(s) = n + 1 PROVE FlattenSeq(s) \in Chunk
    OBVIOUS
  <2>1. s # <<>>
    BY EmptySeq
  <2>2. PICK r \in Lists, c \in Chunk : s = Append(r, c) /\ Len(s) = Len(r) + 1 /\ Len(r) \in Nat
    BY <2>1, LastOf
  <2>3. FlattenSeq(r) \in Chunk
    BY <2>2
  <2> QED
    BY <2>2, <2>3, FlattenAppend, ConcatProperties DEF Chunk
<1>3. T \in SUBSET Nat
  OBVIOUS
<1> HIDE DEF T
<1>4. \A n \in Nat : n \in T
  BY <1>1, <1>2, <1>3, Induction
<1>5. \A s \in Lists : Len(s) \in Nat
  BY LenProperties DEF Lists
<1> QED
  BY <1>4, <1>5 DEF T

LEMMA AppendOfConcat ==
    ASSUME NEW s \in Lists, NEW t \in Lists, NEW c \in Chunk
    PROVE  Append(s \o t, c) = s \o Append(t, c)
<1>1. s \o t \in Lists /\ <<c>> \in Lists
  BY ConcatProperties DEF Lists
<1>2. Append(s \o t, c) = (s \o t) \o <<c>> /\ Append(t, c) = t \o <<c>>
  BY <1>1, AppendIsConcat DEF Lists
<1> QED
  BY <1>1, <1>2, ConcatAssociative DEF Lists

(* The bytes of two lists, one after the other. *)
LEMMA FlattenConcat ==
    \A s \in Lists, t \in Lists :
        s \o t \in Lists /\ FlattenSeq(s \o t) = FlattenSeq(s) \o FlattenSeq(t)
<1> SUFFICES ASSUME NEW s \in Lists
             PROVE  \A t \in Lists : /\ s \o t \in Lists
                                     /\ FlattenSeq(s \o t) = FlattenSeq(s) \o FlattenSeq(t)
  OBVIOUS
<1> DEFINE P(t) == FlattenSeq(s \o t) = FlattenSeq(s) \o FlattenSeq(t)
           T == {n \in Nat : \A t \in Lists : Len(t) = n => P(t)}
<1>0. FlattenSeq(s) \in Chunk /\ \A t \in Lists : s \o t \in Lists
  BY FlattenType, ConcatProperties DEF Lists
<1>1. 0 \in T
  <2>1. \A t \in Lists : Len(t) = 0 => t = <<>>
    BY EmptySeq DEF Lists
  <2>2. s \o <<>> = s /\ FlattenSeq(s) \o <<>> = FlattenSeq(s)
    BY <1>0, ConcatEmptySeq DEF Chunk, Lists
  <2>3. P(<<>>)
    BY <2>2, EmptyFlattened
  <2> HIDE DEF P
  <2> QED
    BY <2>1, <2>3
<1>2. ASSUME NEW n \in T PROVE n + 1 \in T
  <2>1. ASSUME NEW t \in Lists, Len(t) = n + 1 PROVE P(t)
    <3>1. t # <<>>
      BY <2>1, EmptySeq
    <3>2. PICK r \in Lists, c \in Chunk : t = Append(r, c) /\ Len(t) = Len(r) + 1 /\ Len(r) \in Nat
      BY <3>1, LastOf
    <3>3. Len(r) = n
      BY <2>1, <3>2
    <3>4. P(r)
      <4> HIDE DEF P
      <4> QED
        BY <3>3
    <3>5. s \o r \in Lists /\ FlattenSeq(s \o r) \in Chunk /\ FlattenSeq(r) \in Chunk
      BY <1>0, FlattenType
    <3>6. FlattenSeq(s \o t) = FlattenSeq(s \o r) \o c
      BY <3>2, <3>5, AppendOfConcat, FlattenAppend
    <3>7. FlattenSeq(t) = FlattenSeq(r) \o c
      BY <3>2, <3>5, FlattenAppend
    <3> QED
      BY <1>0, <3>4, <3>5, <3>6, <3>7, ConcatAssociative DEF Chunk
  <2> HIDE DEF P
  <2> QED
    BY <2>1
<1>3. T \in SUBSET Nat
  OBVIOUS
<1> HIDE DEF T
<1>4. \A n \in Nat : n \in T
  BY <1>1, <1>2, <1>3, Induction
<1>5. \A t \in Lists : Len(t) \in Nat
  BY LenProperties DEF Lists
<1>6. \A t \in Lists : P(t)
  <2> HIDE DEF P
  <2> QED
    BY <1>4, <1>5 DEF T
<1> QED
  BY <1>0, <1>6

-----------------------------------------------------------------------------
(* Cutting and joining *)

LEMMA HeadFirst ==
    ASSUME NEW s \in Lists, s # <<>>
    PROVE  /\ Head(s) \in Chunk /\ Tail(s) \in Lists /\ Head(s) = s[1]
           /\ FlattenSeq(Tail(s)) \in Chunk
           /\ FlattenSeq(s) = Head(s) \o FlattenSeq(Tail(s))
<1>1. Head(s) \in Chunk /\ Tail(s) \in Lists /\ Head(s) = s[1]
  BY HeadTailProperties DEF Lists
<1>2. s = <<Head(s)>> \o Tail(s)
  BY <1>1 DEF Lists
<1>3. FlattenSeq(<<Head(s)>> \o Tail(s)) = FlattenSeq(<<Head(s)>>) \o FlattenSeq(Tail(s))
  BY <1>1, FlattenOne, FlattenConcat
<1>4. FlattenSeq(<<Head(s)>>) = Head(s)
  BY <1>1, FlattenOne
<1>5. FlattenSeq(s) = Head(s) \o FlattenSeq(Tail(s))
  BY <1>2, <1>3, <1>4
<1> QED
  BY <1>1, <1>5, FlattenType

LEMMA PartIs ==
    ASSUME NEW T, NEW s \in Seq(T), NEW m \in Nat, NEW n \in Nat, 1 <= m, n <= Len(s),
    m <= n + 1
    PROVE  /\ SubSeq(s, m, n) \in Seq(T) /\ Len(SubSeq(s, m, n)) = n + 1 - m
           /\ \A i \in 1..(n + 1 - m) : SubSeq(s, m, n)[i] = s[m + i - 1]
<1>1. Len(s) \in Nat /\ \A i \in 1..Len(s) : s[i] \in T
  BY LenProperties, ElementOfSeq
<1>2. m \in Int /\ n \in Int /\ \A i \in m..n : s[i] \in T
  BY <1>1
<1>3. /\ SubSeq(s, m, n) \in Seq(T)
      /\ Len(SubSeq(s, m, n)) = IF m <= n THEN n - m + 1 ELSE 0
      /\ \A i \in 1..(n - m + 1) : SubSeq(s, m, n)[i] = s[m + i - 1]
  BY <1>2, SubSeqProperties
<1>4. (IF m <= n THEN n - m + 1 ELSE 0) = n + 1 - m /\ n - m + 1 = n + 1 - m
  OBVIOUS
<1> QED
  BY <1>3, <1>4

LEMMA CutList ==
    ASSUME NEW s \in Lists, NEW k \in 1..Len(s)
    PROVE  /\ Begin(s, k) \in Lists /\ SubSeq(s, k + 1, Len(s)) \in Lists
           /\ Begin(s, k) # <<>> /\ Begin(s, k)[1] = s[1]
           /\ Begin(s, k) \o SubSeq(s, k + 1, Len(s)) = s
<1> DEFINE p == Begin(s, k)
           q == SubSeq(s, k + 1, Len(s))
<1>1. Len(s) \in Nat /\ k \in Nat /\ 1 <= k /\ k <= Len(s)
  BY LenProperties DEF Lists
<1>2. p \in Lists /\ Len(p) = k /\ \A i \in 1..k : p[i] = s[i]
  <2>1. 1 <= k + 1 /\ k + 1 - 1 = k /\ \A i \in 1..k : 1 + i - 1 = i
    BY <1>1
  <2> QED
    BY <1>1, <2>1, PartIs DEF Begin, Lists
<1>3. q \in Lists /\ Len(q) = Len(s) - k /\ \A i \in 1..(Len(s) - k) : q[i] = s[k + i]
  <2>1. PICK m \in Nat, n \in Nat : /\ m = k + 1 /\ n = Len(s) /\ 1 <= m /\ m <= n + 1
                                    /\ n + 1 - m = n - k /\ \A i \in 1..(n - k) : m + i - 1 = k + i
    <3>1. PICK m \in Nat, n \in Nat : m = k + 1 /\ n = Len(s)
      BY <1>1
    <3>2. /\ 1 <= m /\ m <= n + 1 /\ n + 1 - m = n - k
          /\ \A i \in 1..(n - k) : m + i - 1 = k + i
      BY <1>1, <3>1
    <3> QED
      BY <3>1, <3>2
  <2>2. /\ SubSeq(s, m, n) \in Lists /\ Len(SubSeq(s, m, n)) = n + 1 - m
        /\ \A i \in 1..(n + 1 - m) : SubSeq(s, m, n)[i] = s[m + i - 1]
    BY <1>1, <2>1, PartIs DEF Lists
  <2> QED
    BY <2>1, <2>2
<1> HIDE DEF p, q
<1>4. /\ p \o q \in Lists /\ Len(p \o q) = Len(s)
      /\ \A i \in 1..Len(s) : (p \o q)[i] = IF i <= k THEN p[i] ELSE q[i - k]
  <2>1. /\ p \o q \in Lists /\ Len(p \o q) = Len(p) + Len(q)
        /\ \A i \in 1..(Len(p) + Len(q)) : (p \o q)[i] = IF i <= Len(p) THEN p[i] ELSE q[i - Len(p)]
    BY <1>2, <1>3, ConcatProperties DEF Lists
  <2>2. Len(p) + Len(q) = Len(s)
    BY <1>1, <1>2, <1>3
  <2> QED
    BY <1>2, <2>1, <2>2
<1>5. \A i \in 1..Len(p \o q) : (p \o q)[i] = s[i]
  <2>1. ASSUME NEW i \in 1..Len(s), ~(i <= k) PROVE i - k \in 1..(Len(s) - k) /\ k + (i - k) = i
    BY <1>1, <2>1
  <2>2. ASSUME NEW i \in 1..Len(s), i <= k PROVE i \in 1..k
    BY <1>1, <2>2
  <2> QED
    BY <1>2, <1>3, <1>4, <2>1, <2>2
<1>6. p \o q = s
  BY <1>4, <1>5, SeqEqual DEF Lists
<1>7. p # <<>> /\ p[1] = s[1]
  <2>1. k # 0 /\ 1 \in 1..k
    BY <1>1
  <2> QED
    BY <1>2, <2>1, EmptySeq
<1> QED
  BY <1>2, <1>3, <1>6, <1>7 DEF p, q

(* The beginning of a stream, and what is left without it. *)
LEMMA JoinedBytes ==
    ASSUME NEW c \in Chunk, NEW r \in Chunk, NEW n \in Nat, n <= Len(c)
    PROVE  /\ c \o r \in Chunk /\ Len(c \o r) = Len(c) + Len(r)
           /\ Len(c) \in Nat /\ Len(r) \in Nat
           /\ SubSeq(c \o r, 1, n) = SubSeq(c, 1, n)
           /\ SubSeq(c, n + 1, Len(c)) \in Chunk
           /\ Len(SubSeq(c, n + 1, Len(c))) = Len(c) - n
           /\ SubSeq(c \o r, n + 1, Len(c \o r)) = SubSeq(c, n + 1, Len(c)) \o r
<1>1. PICK u \in Chunk : u = c \o r
  BY ConcatProperties DEF Chunk
<1>2. PICK lc \in Nat, lr \in Nat, lu \in Nat : lc = Len(c) /\ lr = Len(r) /\ lu = Len(u)
  BY LenProperties DEF Chunk
<1>3. /\ lu = lc + lr
      /\ \A i \in 1..(lc + lr) : u[i] = IF i <= lc THEN c[i] ELSE r[i - lc]
  BY <1>1, <1>2, ConcatProperties DEF Chunk
<1>4. SubSeq(u, 1, n) = SubSeq(c, 1, n)
  <2>1. 1 <= n + 1 /\ n <= Len(u) /\ n + 1 - 1 = n /\ \A i \in 1..n : 1 + i - 1 = i
    BY <1>2, <1>3
  <2>2. /\ SubSeq(u, 1, n) \in Chunk /\ Len(SubSeq(u, 1, n)) = n
        /\ \A i \in 1..n : SubSeq(u, 1, n)[i] = u[i]
    BY <2>1, PartIs DEF Chunk
  <2>3. /\ SubSeq(c, 1, n) \in Chunk /\ Len(SubSeq(c, 1, n)) = n
        /\ \A i \in 1..n : SubSeq(c, 1, n)[i] = c[i]
    BY <2>1, PartIs DEF Chunk
  <2>4. \A i \in 1..n : u[i] = c[i]
    <3>1. \A i \in 1..n : i \in 1..(lc + lr) /\ i <= lc
      BY <1>2
    <3> QED
      BY <1>3, <3>1
  <2> QED
    BY <2>2, <2>3, <2>4, SeqEqual DEF Chunk
<1>5. PICK m \in Nat : m = n + 1
  OBVIOUS
<1>6. PICK a \in Chunk : /\ a = SubSeq(c, m, lc) /\ Len(a) = lc - n
                         /\ \A i \in 1..(lc - n) : a[i] = c[n + i]
  <2>1. /\ 1 <= m /\ lc <= Len(c) /\ m <= lc + 1 /\ lc + 1 - m = lc - n
        /\ \A i \in 1..(lc - n) : m + i - 1 = n + i
    BY <1>2, <1>5
  <2>2. /\ SubSeq(c, m, lc) \in Chunk /\ Len(SubSeq(c, m, lc)) = lc + 1 - m
        /\ \A i \in 1..(lc + 1 - m) : SubSeq(c, m, lc)[i] = c[m + i - 1]
    BY <2>1, PartIs DEF Chunk
  <2>3. /\ Len(SubSeq(c, m, lc)) = lc - n
        /\ \A i \in 1..(lc - n) : SubSeq(c, m, lc)[i] = c[n + i]
    BY <2>1, <2>2
  <2> QED
    BY <2>2, <2>3
<1>7. PICK b \in Chunk : /\ b = SubSeq(u, m, lu) /\ Len(b) = lu - n
                         /\ \A i \in 1..(lu - n) : b[i] = u[n + i]
  <2>1. /\ 1 <= m /\ lu <= Len(u) /\ m <= lu + 1 /\ lu + 1 - m = lu - n
        /\ \A i \in 1..(lu - n) : m + i - 1 = n + i
    BY <1>2, <1>3, <1>5
  <2>2. /\ SubSeq(u, m, lu) \in Chunk /\ Len(SubSeq(u, m, lu)) = lu + 1 - m
        /\ \A i \in 1..(lu + 1 - m) : SubSeq(u, m, lu)[i] = u[m + i - 1]
    BY <2>1, PartIs DEF Chunk
  <2>3. /\ Len(SubSeq(u, m, lu)) = lu - n
        /\ \A i \in 1..(lu - n) : SubSeq(u, m, lu)[i] = u[n + i]
    BY <2>1, <2>2
  <2> QED
    BY <2>2, <2>3
<1>8. b = a \o r
  <2>1. /\ a \o r \in Chunk /\ Len(a \o r) = lc - n + lr
        /\ \A i \in 1..(lc - n + lr) : (a \o r)[i] = IF i <= lc - n THEN a[i] ELSE r[i - (lc - n)]
    <3>1. /\ a \o r \in Chunk /\ Len(a \o r) = Len(a) + Len(r)
          /\ \A i \in 1..(Len(a) + Len(r)) :
               (a \o r)[i] = IF i <= Len(a) THEN a[i] ELSE r[i - Len(a)]
      BY ConcatProperties DEF Chunk
    <3> QED
      BY <1>2, <1>6, <3>1
  <2>2. lu - n = lc - n + lr
    BY <1>2, <1>3
  <2>3. ASSUME NEW i \in 1..(lc - n + lr) PROVE b[i] = (a \o r)[i]
    <3>1. CASE i <= lc - n
      <4>1. i \in 1..(lc - n) /\ n + i \in 1..(lc + lr) /\ n + i <= lc
        BY <1>2, <3>1
      <4> QED
        BY <1>3, <1>6, <1>7, <2>1, <2>2, <3>1, <4>1
    <3>2. CASE ~(i <= lc - n)
      <4>1. n + i \in 1..(lc + lr) /\ ~(n + i <= lc) /\ n + i - lc = i - (lc - n)
        BY <1>2, <3>2
      <4> QED
        BY <1>3, <1>7, <2>1, <2>2, <3>2, <4>1
    <3> QED
      BY <3>1, <3>2
  <2> QED
    BY <1>7, <2>1, <2>2, <2>3, SeqEqual DEF Chunk
<1> QED
  BY <1>1, <1>2, <1>3, <1>4, <1>5, <1>6, <1>7, <1>8

(* pullDown() joins chunks until the first has n bytes, and changes no byte. *)
LEMMA GatherIs ==
    ASSUME NEW s \in Lists, s # <<>>, NEW n \in Nat, n <= Len(FlattenSeq(s))
    PROVE  /\ Gather(s, n) \in Lists /\ Gather(s, n) # <<>>
           /\ FlattenSeq(Gather(s, n)) = FlattenSeq(s)
           /\ n <= Len(Head(Gather(s, n))) /\ Len(Head(s)) <= Len(Head(Gather(s, n)))
           /\ SubSeq(Head(Gather(s, n)), 1, n) = SubSeq(FlattenSeq(s), 1, n)
<1>1. Len(s) \in Nat \ {0} /\ FlattenSeq(s) \in Chunk
  BY EmptySeq, FlattenType DEF Lists
<1>2. PICK k \in 1..Len(s) : k = Fewest(s, n) /\ n <= Len(FlattenSeq(Begin(s, k)))
  <2> DEFINE T == Enough(s, n)
  <2>1. Len(s) \in T
    <3>1. Begin(s, Len(s)) = s
      BY <1>1 DEF Begin, Lists
    <3> QED
      BY <1>1, <3>1 DEF Enough
  <2>2. T \in SUBSET Nat
    BY <1>1 DEF Enough
  <2>3. \E m \in T : \A j \in T : m <= j
    <3> HIDE DEF T
    <3> QED
      BY <2>1, <2>2, Smallest
  <2>4. Fewest(s, n) \in T
    BY <2>3 DEF Fewest
  <2> QED
    BY <2>4 DEF Enough
<1>3. /\ Begin(s, k) \in Lists /\ SubSeq(s, k + 1, Len(s)) \in Lists
      /\ Begin(s, k) # <<>> /\ Begin(s, k)[1] = s[1]
      /\ Begin(s, k) \o SubSeq(s, k + 1, Len(s)) = s
  BY CutList
<1>4. PICK h, q : h = FlattenSeq(Begin(s, k)) /\ q = SubSeq(s, k + 1, Len(s))
  OBVIOUS
<1>5. h \in Chunk /\ q \in Lists /\ FlattenSeq(q) \in Chunk
  BY <1>3, <1>4, FlattenType
<1>6. Gather(s, n) = <<h>> \o q
  BY <1>2, <1>4 DEF Gather
<1>7. FlattenSeq(s) = h \o FlattenSeq(q)
  BY <1>3, <1>4, FlattenConcat
<1>8. <<h>> \o q \in Lists /\ FlattenSeq(<<h>> \o q) = h \o FlattenSeq(q)
  <2>1. <<h>> \in Lists /\ FlattenSeq(<<h>>) = h
    BY <1>5, FlattenOne
  <2>2. /\ <<h>> \o q \in Lists
        /\ FlattenSeq(<<h>> \o q) = FlattenSeq(<<h>>) \o FlattenSeq(q)
    BY <1>5, <2>1, FlattenConcat
  <2> QED
    BY <2>1, <2>2
<1>9. <<h>> \o q # <<>> /\ Head(<<h>> \o q) = h
  BY <1>5 DEF Lists
<1>10. n <= Len(h) /\ SubSeq(h, 1, n) = SubSeq(h \o FlattenSeq(q), 1, n)
  BY <1>2, <1>4, <1>5, JoinedBytes
<1>11. Len(Head(s)) <= Len(h)
  <2>1. Head(Begin(s, k)) = Head(s)
    BY <1>3, HeadFirst
  <2>2. /\ Head(s) \in Chunk /\ FlattenSeq(Tail(Begin(s, k))) \in Chunk
        /\ h = Head(s) \o FlattenSeq(Tail(Begin(s, k)))
    BY <1>3, <1>4, <2>1, HeadFirst
  <2>3. 0 \in Nat /\ 0 <= Len(Head(s))
    BY <2>2, LenProperties DEF Chunk
  <2>4. /\ Len(h) = Len(Head(s)) + Len(FlattenSeq(Tail(Begin(s, k))))
        /\ Len(Head(s)) \in Nat /\ Len(FlattenSeq(Tail(Begin(s, k)))) \in Nat
    BY <2>2, <2>3, JoinedBytes
  <2> QED
    BY <2>4
<1> QED
  BY <1>6, <1>7, <1>8, <1>9, <1>10, <1>11

-----------------------------------------------------------------------------
(* The invariant *)

Types == chunks \in Lists /\ pulled \in Nat /\ broken \in BOOLEAN

(* What was pulled down is still in the first chunk. *)
PulledInv == pulled > 0 => chunks # <<>> /\ pulled <= Len(Head(chunks))

IInv == Types /\ SizeCountsBytes /\ PulledInv

LEMMA InitIInv == Init => IInv
<1> SUFFICES ASSUME Init PROVE IInv
  OBVIOUS
<1>1. chunks = <<>> /\ size = 0 /\ pulled = 0 /\ broken = FALSE
  BY DEF Init
<1>2. FlattenSeq(<<>>) = <<>> /\ <<>> \in Lists /\ Len(<<>>) = 0
  BY EmptyFlattened, EmptySeq
<1>3. Types
  BY <1>1, <1>2 DEF Types
<1>4. SizeCountsBytes /\ PulledInv
  BY <1>1, <1>2 DEF SizeCountsBytes, PulledInv
<1> QED
  BY <1>3, <1>4 DEF IInv

LEMMA DataIsChunk == \A d \in Data : d \in Chunk
<1> SUFFICES ASSUME NEW d \in Data PROVE d \in Seq(Bytes)
  BY DEF Chunk
<1>1. PICK n \in 0..2 : d \in [1..n -> Bytes]
  BY DEF Data
<1>2. n \in Nat
  OBVIOUS
<1> QED
  BY <1>1, <1>2, SeqDef

LEMMA AppendsList ==
    ASSUME AppendData \/ AppendBuffer
    PROVE  \E new \in Lists : AppendAll(new)
<1>1. \A d \in Data : <<d>> \in Lists
  BY DataIsChunk, FlattenOne
<1>2. ASSUME NEW d \in Data, NEW e \in Data PROVE <<d, e>> \in Lists
  <2>1. d \in Chunk /\ e \in Chunk
    BY DataIsChunk
  <2> QED
    BY <2>1 DEF Lists
<1> QED
  BY <1>1, <1>2 DEF AppendData, AppendBuffer

(* What an append changes. *)
LEMMA Appended ==
    ASSUME IInv, NEW new \in Lists, AppendAll(new)
    PROVE  /\ chunks' \in Lists /\ FlattenSeq(new) \in Chunk /\ FlattenSeq(chunks) \in Chunk
           /\ FlattenSeq(chunks') = FlattenSeq(chunks) \o FlattenSeq(new)
           /\ chunks # <<>> => chunks' # <<>> /\ Head(chunks') = Head(chunks)
<1>1. chunks \in Lists /\ chunks' = chunks \o new
  BY DEF IInv, Types, AppendAll
<1>2. FlattenSeq(new) \in Chunk /\ FlattenSeq(chunks) \in Chunk
  BY <1>1, FlattenType
<1>3. chunks' \in Lists /\ FlattenSeq(chunks') = FlattenSeq(chunks) \o FlattenSeq(new)
  BY <1>1, FlattenConcat
<1>4. ASSUME chunks # <<>> PROVE chunks' # <<>> /\ Head(chunks') = Head(chunks)
  <2>1. /\ Len(chunks') = Len(chunks) + Len(new) /\ Len(new) \in Nat /\ Len(chunks) \in Nat \ {0}
        /\ \A i \in 1..(Len(chunks) + Len(new)) :
             chunks'[i] = IF i <= Len(chunks) THEN chunks[i] ELSE new[i - Len(chunks)]
    BY <1>1, <1>4, ConcatProperties, LenProperties, EmptySeq DEF Lists
  <2>2. 1 \in 1..(Len(chunks) + Len(new)) /\ 1 <= Len(chunks) /\ Len(chunks) + Len(new) # 0
    BY <2>1
  <2>3. chunks'[1] = chunks[1] /\ chunks' # <<>>
    BY <2>1, <2>2, EmptySeq
  <2> QED
    BY <1>1, <1>3, <1>4, <2>3, HeadFirst
<1> QED
  BY <1>2, <1>3, <1>4

LEMMA AppendKeeps ==
    ASSUME IInv, AppendData \/ AppendBuffer
    PROVE  IInv'
<1>1. PICK new \in Lists : AppendAll(new)
  BY AppendsList
<1>2. /\ chunks' \in Lists /\ FlattenSeq(new) \in Chunk /\ FlattenSeq(chunks) \in Chunk
      /\ FlattenSeq(chunks') = FlattenSeq(chunks) \o FlattenSeq(new)
      /\ chunks # <<>> => chunks' # <<>> /\ Head(chunks') = Head(chunks)
  BY <1>1, Appended
<1>3. size' = size + Len(FlattenSeq(new)) /\ UNCHANGED <<pulled, broken>>
  BY <1>1 DEF AppendAll
<1>4. Len(FlattenSeq(chunks')) = Len(FlattenSeq(chunks)) + Len(FlattenSeq(new))
  BY <1>2, ConcatProperties DEF Chunk
<1>5. SizeCountsBytes'
  BY <1>3, <1>4 DEF IInv, SizeCountsBytes
<1>6. Types' /\ PulledInv'
  BY <1>2, <1>3 DEF IInv, Types, PulledInv
<1> QED
  BY <1>5, <1>6 DEF IInv

(* pullDown() when there is enough. *)
LEMMA PulledDown ==
    ASSUME IInv, NEW n \in Nat, PullDown(n), ~(n > size \/ size = 0)
    PROVE  /\ chunks' \in Lists /\ chunks' # <<>> /\ chunks # <<>>
           /\ FlattenSeq(chunks') = FlattenSeq(chunks)
           /\ n <= Len(Head(chunks')) /\ Len(Head(chunks)) <= Len(Head(chunks'))
           /\ Len(Head(chunks')) \in Nat /\ Len(Head(chunks)) \in Nat
           /\ SubSeq(Head(chunks'), 1, n) = SubSeq(FlattenSeq(chunks), 1, n)
<1>1. chunks \in Lists /\ size = Len(FlattenSeq(chunks)) /\ size \in Nat
  BY FlattenType, LenProperties DEF IInv, Types, SizeCountsBytes, Chunk
<1>2. chunks # <<>>
  BY <1>1, EmptyFlattened, EmptySeq
<1>3. n <= Len(FlattenSeq(chunks)) /\ chunks' = Gather(chunks, n)
  BY <1>1 DEF PullDown
<1>4. /\ chunks' \in Lists /\ chunks' # <<>>
      /\ FlattenSeq(chunks') = FlattenSeq(chunks)
      /\ n <= Len(Head(chunks')) /\ Len(Head(chunks)) <= Len(Head(chunks'))
      /\ SubSeq(Head(chunks'), 1, n) = SubSeq(FlattenSeq(chunks), 1, n)
  BY <1>1, <1>2, <1>3, GatherIs
<1>5. Head(chunks') \in Chunk /\ Head(chunks) \in Chunk
  BY <1>1, <1>2, <1>4, HeadFirst
<1> QED
  BY <1>2, <1>4, <1>5, LenProperties DEF Chunk

LEMMA PullDownKeeps ==
    ASSUME IInv, NEW n \in Nat, PullDown(n)
    PROVE  IInv'
<1>1. CASE n > size \/ size = 0
  <2>1. UNCHANGED <<chunks, size, pulled, broken>>
    BY <1>1 DEF PullDown
  <2> QED
    BY <2>1 DEF IInv, Types, SizeCountsBytes, PulledInv
<1>2. CASE ~(n > size \/ size = 0)
  <2>1. /\ chunks' \in Lists /\ chunks' # <<>>
        /\ FlattenSeq(chunks') = FlattenSeq(chunks)
        /\ n <= Len(Head(chunks')) /\ Len(Head(chunks)) <= Len(Head(chunks'))
        /\ Len(Head(chunks')) \in Nat /\ Len(Head(chunks)) \in Nat
    BY <1>2, PulledDown
  <2>2. /\ pulled' = (IF n > pulled THEN n ELSE pulled) /\ UNCHANGED size /\ pulled \in Nat
        /\ broken' \in BOOLEAN
    BY <1>2 DEF PullDown, IInv, Types
  <2>3. pulled' \in Nat /\ pulled' <= Len(Head(chunks'))
    BY <2>1, <2>2 DEF IInv, PulledInv
  <2> QED
    BY <2>1, <2>2, <2>3 DEF IInv, Types, SizeCountsBytes, PulledInv
<1> QED
  BY <1>1, <1>2

(* consume() when the first chunk has enough. *)
LEMMA ConsumedIs ==
    ASSUME IInv, NEW n \in Nat, Consume(n), chunks # <<>>,
           ~(n > Len(Head(chunks)) \/ Head(chunks) = <<>>)
    PROVE  /\ chunks' \in Lists
           /\ FlattenSeq(chunks') = SubSeq(FlattenSeq(chunks), n + 1, Len(FlattenSeq(chunks)))
           /\ Len(FlattenSeq(chunks')) = Len(FlattenSeq(chunks)) - n
           /\ n <= Len(FlattenSeq(chunks))
           /\ Len(Head(chunks)) \in Nat
           /\ n # Len(Head(chunks)) => /\ chunks' # <<>>
                                       /\ Len(Head(chunks')) = Len(Head(chunks)) - n
<1>1. PICK c \in Chunk, r \in Lists :
         /\ c = Head(chunks) /\ r = Tail(chunks) /\ FlattenSeq(r) \in Chunk
         /\ FlattenSeq(chunks) = c \o FlattenSeq(r)
  BY HeadFirst DEF IInv, Types
<1>2. PICK q \in Chunk : q = FlattenSeq(r)
  BY <1>1
<1>3. Len(c) \in Nat /\ n <= Len(c) /\ Len(q) \in Nat
  BY <1>1, LenProperties DEF Chunk
<1>4. PICK a \in Chunk : /\ a = SubSeq(c, n + 1, Len(c))
                         /\ Len(a) = Len(c) - n /\ Len(c \o q) = Len(c) + Len(q)
                         /\ SubSeq(c \o q, n + 1, Len(c \o q)) = a \o q
  <2>1. /\ SubSeq(c, n + 1, Len(c)) \in Chunk
        /\ Len(SubSeq(c, n + 1, Len(c))) = Len(c) - n
        /\ Len(c \o q) = Len(c) + Len(q)
        /\ SubSeq(c \o q, n + 1, Len(c \o q)) = SubSeq(c, n + 1, Len(c)) \o q
    BY <1>3, JoinedBytes
  <2> QED
    BY <2>1
<1>5. chunks' = IF n = Len(c) THEN r ELSE <<a>> \o r
  BY <1>1, <1>4 DEF Consume
<1>6. chunks' \in Lists /\ FlattenSeq(chunks') = a \o q
  <2>1. CASE n = Len(c)
    <3>1. Len(a) = 0
      BY <1>3, <1>4, <2>1
    <3>2. a = <<>>
      BY <1>4, <3>1, EmptySeq DEF Chunk
    <3> QED
      BY <1>1, <1>2, <1>5, <2>1, <3>2, ConcatEmptySeq DEF Chunk
  <2>2. CASE n # Len(c)
    <3>1. <<a>> \in Lists /\ FlattenSeq(<<a>>) = a
      BY FlattenOne
    <3>2. <<a>> \o r \in Lists /\ FlattenSeq(<<a>> \o r) = FlattenSeq(<<a>>) \o FlattenSeq(r)
      BY <3>1, FlattenConcat
    <3> QED
      BY <1>2, <1>5, <2>2, <3>1, <3>2
  <2> QED
    BY <2>1, <2>2
<1>7. Len(a \o q) = Len(a) + Len(q)
  BY <1>4, ConcatProperties DEF Chunk
<1>8. ASSUME n # Len(c) PROVE chunks' # <<>> /\ Len(Head(chunks')) = Len(c) - n
  <2>1. chunks' = <<a>> \o r
    BY <1>5, <1>8
  <2>2. <<a>> \o r # <<>> /\ Head(<<a>> \o r) = a
    BY <1>4 DEF Lists
  <2> QED
    BY <1>4, <2>1, <2>2
<1>9. /\ FlattenSeq(chunks) = c \o q
      /\ Len(FlattenSeq(chunks')) = Len(FlattenSeq(chunks)) - n
      /\ n <= Len(FlattenSeq(chunks))
  <2>1. FlattenSeq(chunks) = c \o q /\ FlattenSeq(chunks') = a \o q
    BY <1>1, <1>2, <1>6
  <2>2. Len(c \o q) = Len(c) + Len(q) /\ Len(a \o q) = Len(c \o q) - n /\ n <= Len(c \o q)
    BY <1>3, <1>4, <1>7
  <2> QED
    BY <2>1, <2>2
<1>10. FlattenSeq(chunks') = SubSeq(FlattenSeq(chunks), n + 1, Len(FlattenSeq(chunks)))
  BY <1>4, <1>6, <1>9
<1> QED
  BY <1>1, <1>3, <1>6, <1>8, <1>9, <1>10

LEMMA ConsumeKeeps ==
    ASSUME IInv, NEW n \in Nat, Consume(n)
    PROVE  IInv'
<1>1. CASE chunks = <<>> \/ n > Len(Head(chunks)) \/ Head(chunks) = <<>>
  <2>1. UNCHANGED <<chunks, size, pulled>> /\ broken' \in BOOLEAN
    BY <1>1 DEF Consume, IInv, Types
  <2> QED
    BY <2>1 DEF IInv, Types, SizeCountsBytes, PulledInv
<1>2. CASE chunks # <<>> /\ ~(n > Len(Head(chunks)) \/ Head(chunks) = <<>>)
  <2>1. /\ chunks' \in Lists
        /\ Len(FlattenSeq(chunks')) = Len(FlattenSeq(chunks)) - n
        /\ Len(Head(chunks)) \in Nat
        /\ n # Len(Head(chunks)) => /\ chunks' # <<>>
                                    /\ Len(Head(chunks')) = Len(Head(chunks)) - n
    BY <1>2, ConsumedIs
  <2>2. /\ size' = size - n /\ UNCHANGED broken
        /\ pulled' = IF n > pulled THEN 0 ELSE pulled - n
    BY <1>2 DEF Consume, Remaining
  <2>3. SizeCountsBytes'
    BY <2>1, <2>2 DEF IInv, SizeCountsBytes
  <2>4. pulled \in Nat /\ (pulled > 0 => pulled <= Len(Head(chunks)))
    BY DEF IInv, Types, PulledInv
  <2>5. pulled' \in Nat /\ (pulled' > 0 => n # Len(Head(chunks)) /\ pulled' <= Len(Head(chunks)) - n)
    BY <2>1, <2>2, <2>4
  <2>6. PulledInv'
    BY <2>1, <2>5 DEF PulledInv
  <2> QED
    BY <2>1, <2>2, <2>3, <2>5, <2>6 DEF IInv, Types
<1> QED
  BY <1>1, <1>2

LEMMA NumsAreNat == Nums \subseteq Nat
  BY IOBufferAssumption DEF Nums

(* The invariant holds throughout. *)
THEOREM Invariant == Spec => []IInv
<1>1. IInv /\ [Next]_vars => IInv'
  <2>1. ASSUME IInv, UNCHANGED vars PROVE IInv'
    BY <2>1 DEF vars, IInv, Types, SizeCountsBytes, PulledInv
  <2>2. ASSUME IInv, NEW n \in Nums, PullDown(n) \/ Consume(n) PROVE IInv'
    BY <2>2, NumsAreNat, PullDownKeeps, ConsumeKeeps
  <2> QED
    BY <2>1, <2>2, AppendKeeps DEF Next
<1> QED
  BY <1>1, InitIInv, PTL DEF Spec

(* _size is kept apart from the chunks and always agrees with them, for any   *)
(* number and sizes of chunks: pullDown() never walks past the last one.      *)
THEOREM SizeIsRight == Spec => []SizeCountsBytes
<1>1. IInv => SizeCountsBytes
  BY DEF IInv
<1> QED
  BY <1>1, Invariant, PTL

-----------------------------------------------------------------------------
(* The refinement *)

LEMMA InitIsInit == Init => Stream!Init
  BY EmptyFlattened DEF Init, Stream!Init, NoReply, Stream!NoReply

LEMMA AppendExtends ==
    ASSUME IInv, AppendData \/ AppendBuffer
    PROVE  Stream!Extend
<1>1. PICK new \in Lists : AppendAll(new)
  BY AppendsList
<1>2. PICK b \in Chunk, c \in Chunk :
         b = FlattenSeq(chunks) /\ c = FlattenSeq(new) /\ FlattenSeq(chunks') = b \o c
  BY <1>1, Appended
<1>3. IsPrefix(b, b \o c)
  <2>1. Len(b) \in Nat /\ Len(c) \in Nat /\ Len(b) <= Len(b)
    BY LenProperties DEF Chunk
  <2>2. SubSeq(b \o c, 1, Len(b)) = SubSeq(b, 1, Len(b)) /\ Len(b \o c) = Len(b) + Len(c)
    BY <2>1, JoinedBytes
  <2> QED
    BY <2>1, <2>2 DEF IsPrefix
<1>4. reply' = NoReply /\ UNCHANGED <<pulled, broken>>
  BY <1>1 DEF AppendAll
<1> QED
  BY <1>2, <1>3, <1>4 DEF Stream!Extend, Stream!IsPrefix, IsPrefix, NoReply, Stream!NoReply

LEMMA PullDownPulls ==
    ASSUME IInv, ~broken, NEW n \in Nat, PullDown(n)
    PROVE  Stream!Pulled(n) \/ Stream!PullRefused(n) \/ Stream!Misuse(n)
<1>1. size = Len(FlattenSeq(chunks)) /\ size \in Nat /\ FlattenSeq(chunks) \in Chunk
  BY FlattenType, LenProperties DEF IInv, Types, SizeCountsBytes, Chunk
<1>2. CASE n > size \/ size = 0
  <2>1. n > Len(FlattenSeq(chunks)) \/ FlattenSeq(chunks) = <<>>
    BY <1>1, <1>2, EmptySeq DEF Chunk
  <2>2. /\ reply' = [op |-> "pullDown", num |-> n, ok |-> FALSE, data |-> <<>>]
        /\ UNCHANGED <<chunks, pulled, broken>>
    BY <1>2 DEF PullDown, Reply
  <2>3. Stream!PullRefused(n)
    BY <2>1, <2>2 DEF Stream!PullRefused, Stream!Reply
  <2> QED
    BY <2>3
<1>3. CASE ~(n > size \/ size = 0)
  <2>1. /\ chunks' \in Lists /\ chunks' # <<>> /\ chunks # <<>>
        /\ FlattenSeq(chunks') = FlattenSeq(chunks)
        /\ n <= Len(Head(chunks')) /\ Len(Head(chunks)) <= Len(Head(chunks'))
        /\ Len(Head(chunks')) \in Nat /\ Len(Head(chunks)) \in Nat
        /\ SubSeq(Head(chunks'), 1, n) = SubSeq(FlattenSeq(chunks), 1, n)
    BY <1>3, PulledDown
  <2>2. /\ reply' = [op |-> "pullDown", num |-> n, ok |-> TRUE,
                     data |-> SubSeq(FlattenSeq(chunks), 1, n)]
        /\ broken' = (Head(chunks') = <<>>)
        /\ pulled' = IF n > pulled THEN n ELSE pulled
    BY <1>3, <2>1 DEF PullDown, Reply
  <2>3. CASE n = 0
    <3>1. SubSeq(FlattenSeq(chunks), 1, n) = <<>>
      BY <1>1, <2>3, SubSeqEmpty
    <3>2. UNCHANGED pulled /\ broken' \in BOOLEAN
      BY <2>2, <2>3 DEF IInv, Types
    <3>3. reply' = [op |-> "pullDown", num |-> n, ok |-> TRUE, data |-> <<>>]
      BY <2>2, <3>1
    <3>4. Stream!Misuse(n)
      BY <2>1, <2>3, <3>2, <3>3 DEF Stream!Misuse, Stream!Reply
    <3> QED
      BY <3>4
  <2>4. CASE n # 0
    <3>1. ~broken'
      <4>1. Head(chunks') # <<>>
        BY <2>1, <2>4, EmptySeq
      <4> QED
        BY <2>2, <4>1
    <3>2. broken' = broken
      <4>1. broken' \in BOOLEAN /\ broken \in BOOLEAN
        BY <2>2 DEF IInv, Types
      <4> QED
        BY <3>1, <4>1
    <3>3. pulled' = IF pulled < n THEN n ELSE pulled
      BY <2>2 DEF IInv, Types
    <3>4. n \in 1..Len(FlattenSeq(chunks))
      BY <1>1, <1>3, <2>4
    <3>5. Stream!Pulled(n)
      BY <2>1, <2>2, <3>2, <3>3, <3>4 DEF Stream!Pulled, Stream!Larger, Stream!Reply
    <3> QED
      BY <3>5
  <2> QED
    BY <2>3, <2>4
<1> QED
  BY <1>2, <1>3

LEMMA ConsumeConsumes ==
    ASSUME IInv, NEW n \in Nat, Consume(n)
    PROVE  Stream!Consumed(n) \/ Stream!ConsumeRefused(n) \/ Stream!Misuse(n)
<1>1. CASE chunks = <<>>
  <2>1. /\ broken' = TRUE /\ UNCHANGED <<chunks, pulled>>
        /\ reply' = [op |-> "consume", num |-> n, ok |-> FALSE, data |-> <<>>]
    BY <1>1 DEF Consume, Reply
  <2>2. FlattenSeq(chunks) = <<>>
    BY <1>1, EmptyFlattened
  <2>3. Stream!Misuse(n)
    BY <2>1, <2>2 DEF Stream!Misuse, Stream!Reply
  <2> QED
    BY <2>3
<1>2. CASE chunks # <<>> /\ (n > Len(Head(chunks)) \/ Head(chunks) = <<>>)
  <2>1. /\ UNCHANGED <<chunks, pulled, broken>>
        /\ reply' = [op |-> "consume", num |-> n, ok |-> FALSE, data |-> <<>>]
    BY <1>2 DEF Consume, Reply
  <2>2. n > pulled \/ n = 0
    <3>1. /\ Len(Head(chunks)) \in Nat /\ pulled \in Nat
          /\ Head(chunks) = <<>> => Len(Head(chunks)) = 0
          /\ pulled > 0 => pulled <= Len(Head(chunks))
      BY <1>2, HeadFirst, LenProperties, EmptySeq DEF IInv, Types, PulledInv, Chunk
    <3> QED
      BY <1>2, <3>1
  <2>3. Stream!ConsumeRefused(n)
    BY <2>1, <2>2 DEF Stream!ConsumeRefused, Stream!Reply
  <2> QED
    BY <2>3
<1>3. CASE chunks # <<>> /\ ~(n > Len(Head(chunks)) \/ Head(chunks) = <<>>)
  <2>1. /\ FlattenSeq(chunks') = SubSeq(FlattenSeq(chunks), n + 1, Len(FlattenSeq(chunks)))
        /\ n <= Len(FlattenSeq(chunks))
    BY <1>3, ConsumedIs
  <2>2. /\ pulled' = IF n > pulled THEN 0 ELSE pulled - n
        /\ UNCHANGED broken
        /\ reply' = [op |-> "consume", num |-> n, ok |-> TRUE, data |-> <<>>]
    BY <1>3 DEF Consume, Reply
  <2>3. n \in 0..Len(FlattenSeq(chunks))
    <3>1. Len(FlattenSeq(chunks)) \in Nat
      BY FlattenType, LenProperties DEF IInv, Types, Chunk
    <3> QED
      BY <2>1, <3>1
  <2>4. Stream!Consumed(n)
    BY <2>1, <2>2, <2>3 DEF Stream!Consumed, Stream!Reply
  <2> QED
    BY <2>4
<1> QED
  BY <1>1, <1>2, <1>3

(* For a user the chunks are one stream of bytes, however they are cut: no    *)
(* append(), pullDown() or consume() loses, repeats or reorders a byte.       *)
THEOREM IOBufferImplementsStream == Spec => ImplementsByteStream
<1>1. Init => Stream!Init
  BY InitIsInit
<1>2. IInv /\ [Next]_vars => [Stream!Next]_Stream!vars
  <2>1. ASSUME UNCHANGED vars PROVE UNCHANGED Stream!vars
    BY <2>1 DEF vars, Stream!vars
  <2>2. ASSUME IInv, ~broken, NEW n \in Nums, PullDown(n) \/ Consume(n) PROVE Stream!Next
    <3>1. n \in Nat
      BY NumsAreNat
    <3>2. \/ Stream!Pulled(n) \/ Stream!PullRefused(n)
          \/ Stream!Consumed(n) \/ Stream!ConsumeRefused(n) \/ Stream!Misuse(n)
      BY <2>2, <3>1, PullDownPulls, ConsumeConsumes
    <3> QED
      BY <3>2 DEF Stream!Next
  <2>3. ASSUME IInv, AppendData \/ AppendBuffer PROVE Stream!Next
    BY <2>3, AppendExtends DEF Stream!Next
  <2> QED
    BY <2>1, <2>2, <2>3 DEF Next
<1> QED
  BY <1>1, <1>2, Invariant, PTL DEF Spec, ImplementsByteStream, Stream!Spec
=============================================================================
