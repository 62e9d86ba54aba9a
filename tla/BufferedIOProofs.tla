--------------------------- MODULE BufferedIOProofs ---------------------------
(***************************************************************************)
(* Proofs about BufferedIO, for every capacity and number of steps.        *)
(*                                                                         *)
(* First come facts about sequences, then the invariant.  IInv joins the   *)
(* types, the control flow of the two threads (Flow), the order of what is *)
(* in the pipeline (InOrder), the accounting of accepted steps (Accounted) *)
(* and the absence of a lost wakeup (NoLostWakeup).  The safety properties *)
(* follow from it, and so does that every step of the two threads is a     *)
(* step of LossyFifo or leaves that abstract queue unchanged.              *)
(***************************************************************************)
EXTENDS BufferedIO, SequenceTheorems, TLAPS

-------------------------------------------------------------------------------
(* Sequences: removing one element, how append, removal and head/tail      *)
(* distribute over concatenation, strictly increasing sequences.           *)

\* Concatenations of sequences of numbers regroup.
LEMMA ConcatRegroups == \A a, b, c \in Seq(Nat) : (a \o b) \o c = a \o (b \o c)
  <1> TAKE a, b, c \in Seq(Nat)
  <1> QED
    BY ConcatAssociative, SMT

\* The sequence without its i-th element: one shorter, the rest moved up.
LEMMA RemoveAtProperties ==
    ASSUME NEW S, NEW s \in Seq(S), NEW i \in 1 .. Len(s)
    PROVE  /\ RemoveAt(s, i) \in Seq(S)
           /\ Len(RemoveAt(s, i)) = Len(s) - 1
           /\ \A k \in 1 .. Len(s) - 1 :
                 RemoveAt(s, i)[k] = IF k < i THEN s[k] ELSE s[k + 1]
  <1> DEFINE a == SubSeq(s, 1, i - 1)
             b == SubSeq(s, i + 1, Len(s))
  <1>0. \A k \in 1 .. Len(s) : s[k] \in S
    BY ElementOfSeq
  <1>1. /\ a \in Seq(S) /\ Len(a) = i - 1
        /\ \A k \in 1 .. i - 1 : a[k] = s[k]
    <2>1. \A k \in 1 .. i - 1 : s[k] \in S
      BY <1>0
    <2>2. i - 1 \in Int
      OBVIOUS
    <2>3. QED
      BY <2>1, <2>2, SubSeqProperties
  <1>2. /\ b \in Seq(S) /\ Len(b) = Len(s) - i
        /\ \A k \in 1 .. Len(s) - i : b[k] = s[i + k]
    <2>1. \A k \in i + 1 .. Len(s) : s[k] \in S
      BY <1>0
    <2>2. i + 1 \in Int /\ Len(s) \in Int
      BY LenProperties
    <2>3. QED
      BY <2>1, <2>2, SubSeqProperties
  <1> HIDE DEF a, b
  <1>3. /\ a \o b \in Seq(S) /\ Len(a \o b) = Len(s) - 1
        /\ \A k \in 1 .. Len(s) - 1 : (a \o b)[k] = IF k <= Len(a) THEN a[k] ELSE b[k - Len(a)]
    <2>1. Len(a) + Len(b) = Len(s) - 1
      BY <1>1, <1>2, LenProperties
    <2>2. /\ a \o b \in Seq(S) /\ Len(a \o b) = Len(a) + Len(b)
          /\ \A k \in 1 .. Len(a) + Len(b) :
                (a \o b)[k] = IF k <= Len(a) THEN a[k] ELSE b[k - Len(a)]
      BY <1>1, <1>2, ConcatProperties
    <2>3. QED
      BY <2>1, <2>2
  <1>4. RemoveAt(s, i) = a \o b
    BY DEF RemoveAt, a, b
  <1>5. ASSUME NEW k \in 1 .. Len(s) - 1
        PROVE  (a \o b)[k] = IF k < i THEN s[k] ELSE s[k + 1]
    <2>0. Len(s) \in Nat
      BY LenProperties
    <2>1. CASE k < i
      BY <1>1, <1>3, <2>0, <2>1
    <2>2. CASE k >= i
      <3>1. (a \o b)[k] = b[k - (i - 1)] /\ k - (i - 1) \in 1 .. Len(s) - i
        BY <1>1, <1>3, <2>0, <2>2
      <3>2. b[k - (i - 1)] = s[i + (k - (i - 1))]
        BY <1>2, <3>1
      <3>3. i + (k - (i - 1)) = k + 1
        BY <2>0
      <3>4. QED
        BY <2>0, <2>2, <3>1, <3>2, <3>3
    <2>3. k < i \/ k >= i
      BY <2>0
    <2>4. QED
      BY <2>1, <2>2, <2>3
  <1>6. QED
    BY <1>3, <1>4, <1>5

\* The two parts of a sequence with an element removed.
LEMMA RemoveAtParts ==
    ASSUME NEW S, NEW s \in Seq(S), NEW i \in 1 .. Len(s)
    PROVE  /\ RemoveAt(s, i) \in Seq(S)
           /\ Len(RemoveAt(s, i)) = Len(s) - 1
           /\ \A k \in 1 .. i - 1 : RemoveAt(s, i)[k] = s[k]
           /\ \A k \in i .. Len(s) - 1 : RemoveAt(s, i)[k] = s[k + 1]
  <1> DEFINE r == RemoveAt(s, i)
  <1>1. /\ r \in Seq(S) /\ Len(r) = Len(s) - 1
        /\ \A k \in 1 .. Len(s) - 1 : r[k] = IF k < i THEN s[k] ELSE s[k + 1]
    BY RemoveAtProperties
  <1>2. Len(s) \in Nat
    BY LenProperties
  <1> HIDE DEF r
  <1>3. ASSUME NEW k \in 1 .. i - 1 PROVE r[k] = s[k]
    <2>1. k \in 1 .. Len(s) - 1 /\ k < i
      BY <1>2
    <2>2. QED
      BY <1>1, <2>1
  <1>4. ASSUME NEW k \in i .. Len(s) - 1 PROVE r[k] = s[k + 1]
    <2>1. k \in 1 .. Len(s) - 1 /\ ~(k < i)
      BY <1>2
    <2>2. QED
      BY <1>1, <2>1
  <1>5. QED
    BY <1>1, <1>3, <1>4 DEF r

\* The two parts of a concatenation.
LEMMA ConcatParts ==
    ASSUME NEW S, NEW a \in Seq(S), NEW b \in Seq(S)
    PROVE  /\ a \o b \in Seq(S)
           /\ Len(a \o b) = Len(a) + Len(b)
           /\ \A k \in 1 .. Len(a) : (a \o b)[k] = a[k]
           /\ \A k \in 1 .. Len(b) : (a \o b)[Len(a) + k] = b[k]
  <1> DEFINE d == a \o b
  <1>1. /\ d \in Seq(S) /\ Len(d) = Len(a) + Len(b)
        /\ \A k \in 1 .. Len(a) + Len(b) : d[k] = IF k <= Len(a) THEN a[k] ELSE b[k - Len(a)]
    BY ConcatProperties
  <1>2. Len(a) \in Nat /\ Len(b) \in Nat
    BY LenProperties
  <1> HIDE DEF d
  <1>3. ASSUME NEW k \in 1 .. Len(a) PROVE d[k] = a[k]
    <2>1. k \in 1 .. Len(a) + Len(b) /\ k <= Len(a)
      BY <1>2
    <2>2. QED
      BY <1>1, <2>1
  <1>4. ASSUME NEW k \in 1 .. Len(b) PROVE d[Len(a) + k] = b[k]
    <2>1. Len(a) + k \in 1 .. Len(a) + Len(b) /\ ~(Len(a) + k <= Len(a))
      BY <1>2
    <2>2. (Len(a) + k) - Len(a) = k
      BY <1>2
    <2>3. d[Len(a) + k] = b[(Len(a) + k) - Len(a)]
      BY <1>1, <2>1
    <2>4. QED
      BY <2>2, <2>3
  <1>5. QED
    BY <1>1, <1>3, <1>4 DEF d

\* Two sequences that agree with a on the first Len(a) places and with each other
\* on the n places after those are equal.
LEMMA EqualByParts ==
    ASSUME NEW S, NEW l \in Seq(S), NEW r \in Seq(S), NEW m \in Nat, NEW n \in Nat,
           Len(l) = m + n, Len(r) = m + n,
           \A k \in 1 .. m : l[k] = r[k],
           \A k \in 1 .. n : l[m + k] = r[m + k]
    PROVE  l = r
  <1>1. ASSUME NEW k \in 1 .. m + n PROVE l[k] = r[k]
    <2>1. CASE k <= m
      <3>1. k \in 1 .. m
        BY <2>1
      <3>2. QED
        BY <3>1
    <2>2. CASE ~(k <= m)
      <3>1. k - m \in 1 .. n /\ m + (k - m) = k
        BY <2>2
      <3>2. l[m + (k - m)] = r[m + (k - m)]
        BY <3>1
      <3>3. QED
        BY <3>1, <3>2
    <2>3. QED
      BY <2>1, <2>2
  <1>2. QED
    BY <1>1, SeqEqual

\* Appending to the last part appends to the whole.
LEMMA AppendOfConcat ==
    ASSUME NEW S, NEW a \in Seq(S), NEW b \in Seq(S), NEW x \in S
    PROVE  a \o Append(b, x) = Append(a \o b, x)
  <1>1. Len(a) \in Nat /\ Len(b) \in Nat
    BY LenProperties
  <1> DEFINE c == Append(b, x)
             d == a \o b
             l == a \o c
             r == Append(d, x)
  <1>2. /\ c \in Seq(S) /\ Len(c) = Len(b) + 1
        /\ \A k \in 1 .. Len(b) : c[k] = b[k]
        /\ c[Len(b) + 1] = x
    BY AppendProperties
  <1>3. /\ d \in Seq(S) /\ Len(d) = Len(a) + Len(b)
        /\ \A k \in 1 .. Len(a) : d[k] = a[k]
        /\ \A k \in 1 .. Len(b) : d[Len(a) + k] = b[k]
    BY ConcatParts
  <1> HIDE DEF c, d
  <1>4. /\ l \in Seq(S) /\ Len(l) = Len(a) + Len(c)
        /\ \A k \in 1 .. Len(a) : l[k] = a[k]
        /\ \A k \in 1 .. Len(c) : l[Len(a) + k] = c[k]
    <2>1. c \in Seq(S)
      BY <1>2
    <2>2. QED
      BY <2>1, ConcatParts
  <1>5. /\ r \in Seq(S) /\ Len(r) = Len(d) + 1
        /\ \A k \in 1 .. Len(d) : r[k] = d[k]
        /\ r[Len(d) + 1] = x
    BY <1>3, AppendProperties
  <1> HIDE DEF l, r
  <1>6. /\ Len(l) = Len(a) + (Len(b) + 1) /\ Len(r) = Len(a) + (Len(b) + 1)
        /\ Len(b) + 1 \in Nat
    BY <1>1, <1>2, <1>3, <1>4, <1>5
  <1>7. ASSUME NEW k \in 1 .. Len(a) PROVE l[k] = r[k]
    <2>1. k \in 1 .. Len(d)
      BY <1>1, <1>3
    <2>2. QED
      BY <1>3, <1>4, <1>5, <2>1
  <1>8. ASSUME NEW k \in 1 .. Len(b) + 1 PROVE l[Len(a) + k] = r[Len(a) + k]
    <2>1. l[Len(a) + k] = c[k]
      BY <1>2, <1>4
    <2>2. CASE k \in 1 .. Len(b)
      <3>1. Len(a) + k \in 1 .. Len(d)
        BY <1>1, <1>3, <2>2
      <3>2. r[Len(a) + k] = b[k] /\ c[k] = b[k]
        BY <1>2, <1>3, <1>5, <2>2, <3>1
      <3>3. QED
        BY <2>1, <3>2
    <2>3. CASE k = Len(b) + 1
      <3>1. Len(a) + k = Len(d) + 1
        BY <1>1, <1>3, <2>3
      <3>2. QED
        BY <1>2, <1>5, <2>1, <2>3, <3>1
    <2>4. QED
      BY <1>1, <2>2, <2>3
  <1>9. QED
    <2>1. l = r
      BY <1>1, <1>4, <1>5, <1>6, <1>7, <1>8, EqualByParts
    <2>2. QED
      BY <2>1 DEF l, r, c, d

\* Removing from the last part removes from the whole.
LEMMA RemoveAtOfConcat ==
    ASSUME NEW S, NEW a \in Seq(S), NEW b \in Seq(S), NEW i \in 1 .. Len(b)
    PROVE  /\ Len(a) + i \in 1 .. Len(a \o b)
           /\ a \o RemoveAt(b, i) = RemoveAt(a \o b, Len(a) + i)
  <1>1. Len(a) \in Nat /\ Len(b) \in Nat /\ Len(b) - 1 \in Nat
    BY LenProperties
  <1> DEFINE c == RemoveAt(b, i)
             d == a \o b
             l == a \o c
             r == RemoveAt(d, Len(a) + i)
  <1>2. /\ c \in Seq(S) /\ Len(c) = Len(b) - 1
        /\ \A k \in 1 .. i - 1 : c[k] = b[k]
        /\ \A k \in i .. Len(b) - 1 : c[k] = b[k + 1]
    BY RemoveAtParts
  <1>3. /\ d \in Seq(S) /\ Len(d) = Len(a) + Len(b)
        /\ \A k \in 1 .. Len(a) : d[k] = a[k]
        /\ \A k \in 1 .. Len(b) : d[Len(a) + k] = b[k]
    BY ConcatParts
  <1> HIDE DEF c, d
  <1>4. Len(a) + i \in 1 .. Len(d)
    BY <1>1, <1>3
  <1>5. /\ l \in Seq(S) /\ Len(l) = Len(a) + Len(c)
        /\ \A k \in 1 .. Len(a) : l[k] = a[k]
        /\ \A k \in 1 .. Len(c) : l[Len(a) + k] = c[k]
    <2>1. c \in Seq(S)
      BY <1>2
    <2>2. QED
      BY <2>1, ConcatParts
  <1>6. /\ r \in Seq(S) /\ Len(r) = Len(d) - 1
        /\ \A k \in 1 .. Len(a) + i - 1 : r[k] = d[k]
        /\ \A k \in Len(a) + i .. Len(d) - 1 : r[k] = d[k + 1]
    <2> DEFINE p == Len(a) + i
    <2>1. d \in Seq(S) /\ p \in 1 .. Len(d)
      BY <1>3, <1>4
    <2> HIDE DEF p
    <2>2. /\ RemoveAt(d, p) \in Seq(S) /\ Len(RemoveAt(d, p)) = Len(d) - 1
          /\ \A k \in 1 .. p - 1 : RemoveAt(d, p)[k] = d[k]
          /\ \A k \in p .. Len(d) - 1 : RemoveAt(d, p)[k] = d[k + 1]
      BY <2>1, RemoveAtParts
    <2>3. QED
      BY <2>2 DEF p
  <1> HIDE DEF l, r
  <1>7. Len(l) = Len(a) + (Len(b) - 1) /\ Len(r) = Len(a) + (Len(b) - 1)
    BY <1>1, <1>2, <1>3, <1>5, <1>6
  <1>8. ASSUME NEW k \in 1 .. Len(a) PROVE l[k] = r[k]
    <2>1. k \in 1 .. Len(a) + i - 1
      BY <1>1
    <2>2. QED
      BY <1>3, <1>5, <1>6, <2>1
  <1>9. ASSUME NEW k \in 1 .. Len(b) - 1 PROVE l[Len(a) + k] = r[Len(a) + k]
    <2>1. l[Len(a) + k] = c[k]
      BY <1>2, <1>5
    <2>2. CASE k < i
      <3>1. k \in 1 .. i - 1 /\ k \in 1 .. Len(b) /\ Len(a) + k \in 1 .. Len(a) + i - 1
        BY <1>1, <2>2
      <3>2. QED
        BY <1>2, <1>3, <1>6, <2>1, <3>1
    <2>3. CASE ~(k < i)
      <3>1. /\ k \in i .. Len(b) - 1 /\ k + 1 \in 1 .. Len(b)
            /\ Len(a) + k \in Len(a) + i .. Len(d) - 1
            /\ (Len(a) + k) + 1 = Len(a) + (k + 1)
        BY <1>1, <1>3, <2>3
      <3>2. r[Len(a) + k] = d[Len(a) + (k + 1)]
        BY <1>6, <3>1
      <3>3. d[Len(a) + (k + 1)] = b[k + 1]
        BY <1>3, <3>1
      <3>4. QED
        BY <1>2, <2>1, <3>1, <3>2, <3>3
    <2>4. QED
      BY <2>2, <2>3
  <1>10. QED
    <2>1. l = r
      <3> DEFINE m == Len(a)
                 n == Len(b) - 1
      <3>1. /\ m \in Nat /\ n \in Nat /\ l \in Seq(S) /\ r \in Seq(S)
            /\ Len(l) = m + n /\ Len(r) = m + n
            /\ \A k \in 1 .. m : l[k] = r[k]
            /\ \A k \in 1 .. n : l[m + k] = r[m + k]
        BY <1>1, <1>5, <1>6, <1>7, <1>8, <1>9
      <3> HIDE DEF m, n
      <3>2. QED
        BY <3>1, EqualByParts
    <2>2. QED
      BY <1>4, <2>1 DEF l, r, c, d

\* A non-empty sequence is its head followed by its tail.
LEMMA HeadThenTail ==
    ASSUME NEW S, NEW s \in Seq(S), s # <<>>
    PROVE  <<Head(s)>> \o Tail(s) = s
  <1>1. Len(s) \in Nat \ {0}
    BY EmptySeq
  <1>2. /\ Head(s) \in S /\ Head(s) = s[1]
        /\ Tail(s) \in Seq(S) /\ Len(Tail(s)) = Len(s) - 1
        /\ \A i \in 1 .. Len(s) - 1 : Tail(s)[i] = s[i + 1]
    BY <1>1, HeadTailProperties
  <1>3. <<Head(s)>> \in Seq(S) /\ Len(<<Head(s)>>) = 1 /\ <<Head(s)>>[1] = s[1]
    BY <1>2
  <1> DEFINE l == <<Head(s)>> \o Tail(s)
  <1>4. /\ l \in Seq(S) /\ Len(l) = 1 + (Len(s) - 1)
        /\ \A i \in 1 .. 1 + (Len(s) - 1) :
              l[i] = IF i <= 1 THEN <<Head(s)>>[i] ELSE Tail(s)[i - 1]
    BY <1>2, <1>3, ConcatProperties
  <1> HIDE DEF l
  <1>5. ASSUME NEW i \in 1 .. Len(l)
        PROVE  l[i] = s[i]
    <2>1. CASE i = 1
      BY <1>1, <1>3, <1>4, <2>1
    <2>2. CASE i > 1
      BY <1>1, <1>2, <1>4, <2>2
    <2>3. QED
      BY <1>1, <1>4, <2>1, <2>2
  <1>6. QED
    <2>1. Len(l) = Len(s)
      BY <1>1, <1>4
    <2>2. l = s
      BY <1>4, <1>5, <2>1, SeqEqual
    <2>3. QED
      BY <2>2 DEF l

-------------------------------------------------------------------------------

Increasing(s) == \A i, j \in 1 .. Len(s) : i < j => s[i] < s[j]
Below(s, n) == \A i \in 1 .. Len(s) : s[i] < n

\* An increasing sequence stays increasing when a larger number is appended.
LEMMA IncreasingAppend ==
    ASSUME NEW s \in Seq(Int), NEW x \in Int, Increasing(s), Below(s, x)
    PROVE  Increasing(Append(s, x)) /\ Below(Append(s, x), x + 1)
  <1>1. Len(s) \in Nat /\ \A k \in 1 .. Len(s) : s[k] \in Int
    BY LenProperties, ElementOfSeq
  <1>2. /\ Len(Append(s, x)) = Len(s) + 1
        /\ \A k \in 1 .. Len(s) : Append(s, x)[k] = s[k]
        /\ Append(s, x)[Len(s) + 1] = x
    BY <1>1, AppendProperties
  <1>3. QED
    BY <1>1, <1>2 DEF Increasing, Below

\* Removing an element keeps the order of the others.
LEMMA IncreasingRemoveAt ==
    ASSUME NEW s \in Seq(Int), NEW i \in 1 .. Len(s), NEW n \in Int,
           Increasing(s), Below(s, n)
    PROVE  /\ RemoveAt(s, i) \in Seq(Int)
           /\ Increasing(RemoveAt(s, i)) /\ Below(RemoveAt(s, i), n)
  <1>1. Len(s) \in Nat /\ \A k \in 1 .. Len(s) : s[k] \in Int
    BY LenProperties, ElementOfSeq
  <1>2. /\ RemoveAt(s, i) \in Seq(Int)
        /\ Len(RemoveAt(s, i)) = Len(s) - 1
        /\ \A k \in 1 .. Len(s) - 1 :
              RemoveAt(s, i)[k] = IF k < i THEN s[k] ELSE s[k + 1]
    BY RemoveAtProperties
  <1> DEFINE r == RemoveAt(s, i)
             old(k) == IF k < i THEN k ELSE k + 1
  <1> HIDE DEF r
  <1>3. Len(r) = Len(s) - 1
    BY <1>2 DEF r
  <1>4. ASSUME NEW k \in 1 .. Len(r) PROVE r[k] = s[old(k)] /\ old(k) \in 1 .. Len(s)
    <2>1. k \in 1 .. Len(s) - 1
      BY <1>3
    <2>2. CASE k < i
      BY <1>1, <1>2, <2>1, <2>2 DEF r
    <2>3. CASE ~(k < i)
      BY <1>1, <1>2, <2>1, <2>3 DEF r
    <2>4. QED
      BY <2>2, <2>3
  <1>5. ASSUME NEW j \in 1 .. Len(r), NEW k \in 1 .. Len(r)
        PROVE  (j < k => r[j] < r[k]) /\ r[k] < n
    <2>1. j < k => old(j) < old(k)
      BY <1>1, <1>3
    <2>2. /\ old(j) \in 1 .. Len(s) /\ old(k) \in 1 .. Len(s)
          /\ r[j] = s[old(j)] /\ r[k] = s[old(k)]
      BY <1>4
    <2> HIDE DEF old
    <2>3. (old(j) < old(k) => s[old(j)] < s[old(k)]) /\ s[old(k)] < n
      BY <2>2 DEF Increasing, Below
    <2>4. QED
      BY <2>1, <2>2, <2>3
  <1>6. Increasing(r) /\ Below(r, n)
    BY <1>5 DEF Increasing, Below
  <1>7. QED
    BY <1>2, <1>6 DEF r

\* The first part of an increasing sequence is increasing.
LEMMA IncreasingPrefix ==
    ASSUME NEW a \in Seq(Int), NEW b \in Seq(Int), NEW n \in Int,
           Increasing(a \o b), Below(a \o b, n)
    PROVE  Increasing(a) /\ Below(a, n)
  <1> DEFINE r == a \o b
  <1>1. Len(a) \in Nat /\ Len(b) \in Nat
    BY LenProperties
  <1>2. Len(r) = Len(a) + Len(b) /\ \A k \in 1 .. Len(a) : r[k] = a[k]
    BY <1>1, ConcatProperties
  <1>3. Increasing(r) /\ Below(r, n)
    OBVIOUS
  <1> HIDE DEF r
  <1>4. \A k \in 1 .. Len(a) : k \in 1 .. Len(r) /\ r[k] = a[k]
    BY <1>1, <1>2
  <1>5. Increasing(a)
    BY <1>3, <1>4 DEF Increasing
  <1>6. Below(a, n)
    BY <1>3, <1>4 DEF Below
  <1>7. QED
    BY <1>5, <1>6

-------------------------------------------------------------------------------
(* The control flow.                                                       *)

\* Where each thread may be, given the flags they set for each other.
MainFlow ==
    /\ main # "exited" => close_calls >= 1
    /\ main \in {"run", "report"} =>
          close_calls = 2 /\ ~failed /\ ~closed /\ output_closed = 0
    /\ main = "report" => next_step <= Steps
    /\ main \notin {"run", "report"} /\ ~failed => next_step = Steps
    /\ main \in {"join", "closing_output"} => closing /\ ~closed
    /\ main = "closing_output" => worker = "ended" /\ output_closed = 1
    /\ main = "join" => output_closed = 0
    /\ main \in {"join", "closing_output"} /\ ~failed => close_calls = 2
    /\ main = "close" /\ ~failed /\ close_calls = 1 => closed /\ ~error
    /\ main = "close" /\ ~closed => output_closed = 0
    /\ main = "close" /\ close_calls = 2 => ~closed
    /\ main = "exited" /\ ~failed => closed /\ ~error
    /\ closed => closing /\ worker = "ended" /\ output_closed = 1
    /\ main = "exited" /\ ~closed => output_closed = 0

WorkerFlow ==
    /\ worker \in {"writing", "failing"} => Len(inflight) = 1
    /\ worker \notin {"writing", "failing"} => inflight = <<>>
    /\ worker = "ended" => closing /\ buffer = <<>>
    /\ error => worker = "ended"

Flow == MainFlow /\ WorkerFlow

-------------------------------------------------------------------------------

\* The snapshot to evict exists whenever the queue is full.
LEMMA DropIndexInBuffer ==
    ASSUME TypeOK, Len(buffer) >= Capacity
    PROVE  /\ DropIndex \in 0 .. Len(buffer) - 1
           /\ DropIndex <= next_drop_index
           /\ CursorAfterDrop \in 0 .. Capacity - 1
  BY CapacityAssumption DEF TypeOK, DropIndex, CursorAfterDrop

LEMMA TypeInit == Init => TypeOK /\ Flow
  <1> SUFFICES ASSUME Init PROVE TypeOK /\ Flow
    OBVIOUS
  <1> USE CapacityAssumption, StepsAssumption, NoneAssumption
  <1>1. buffer \in Seq(Nat) /\ inflight \in Seq(Nat) /\ delivered \in Seq(Nat)
        /\ drop_log \in Seq([dropped : Nat, incoming : Nat])
    BY EmptySeq DEF Init
  <1>2. pending \in [dropped : Nat \cup {None}, incoming : Nat \cup {None},
                     low : SUBSET LowPercents, high : Nat \cup {None}]
        /\ pending.dropped = None
    BY DEF Init, NothingToReport
  <1>3. low_sent \in [LowPercents -> Nat] /\ notified_thresholds \subseteq LowPercents
    BY DEF Init
  <1>4. TypeOK
    <2>1. next_drop_index \in 0 .. Capacity - 1
      BY DEF Init
    <2>2. close_calls \in 0 .. 2
      BY DEF Init
    <2>3. QED
      BY <1>1, <1>2, <1>3, <2>1, <2>2 DEF Init, TypeOK
  <1>5. Flow
    BY DEF Init, Flow, MainFlow, WorkerFlow
  <1>6. QED
    BY <1>4, <1>5

\* The part of a step both enqueue actions share keeps the types.
LEMMA AcceptType ==
    ASSUME TypeOK, NEW kept \in Seq(Nat), NEW dropped \in Nat \cup {None},
           Accept(kept, dropped)
    PROVE  /\ buffer' \in Seq(Nat) /\ Len(buffer') = Len(kept) + 1
           /\ next_step' \in Nat
           /\ notified_thresholds' \subseteq LowPercents
           /\ last_high_notification_at' \in Nat \cup {None}
           /\ dropped_since_high_notification' \in Nat
           /\ pending' \in [dropped : Nat \cup {None}, incoming : Nat \cup {None},
                            low : SUBSET LowPercents, high : Nat \cup {None}]
           /\ pending'.dropped # None => pending'.incoming # None
           /\ worker' \in {"ready", "waiting", "writing", "failing", "ended"}
           /\ main' = "report"
  <1> USE NoneAssumption
  <1>1. buffer' \in Seq(Nat) /\ Len(buffer') = Len(kept) + 1 /\ next_step' \in Nat
    BY AppendProperties DEF TypeOK, Accept
  <1>2. /\ notified_thresholds' \subseteq LowPercents
        /\ CrossedLow(Len(kept) + 1) \in SUBSET LowPercents
    BY DEF TypeOK, Accept, CrossedLow
  <1> DEFINE loss == dropped_since_high_notification + IF dropped = None THEN 0 ELSE 1
  <1>3. loss \in Nat
    BY DEF TypeOK
  <1>4. /\ last_high_notification_at' \in Nat \cup {None}
        /\ dropped_since_high_notification' \in Nat
    BY <1>3 DEF TypeOK, Accept
  <1>5. /\ pending' \in [dropped : Nat \cup {None}, incoming : Nat \cup {None},
                         low : SUBSET LowPercents, high : Nat \cup {None}]
        /\ pending'.incoming # None
    <2>1. pending' = [dropped |-> dropped, incoming |-> next_step,
                      low |-> CrossedLow(Len(kept) + 1),
                      high |-> IF HighDue(Len(kept) + 1) THEN loss ELSE None]
      BY DEF Accept
    <2>2. next_step \in Nat
      BY DEF TypeOK
    <2> HIDE DEF loss
    <2>3. QED
      BY <1>2, <1>3, <2>1, <2>2
  <1>6. /\ worker' \in {"ready", "waiting", "writing", "failing", "ended"}
        /\ main' = "report"
    BY DEF TypeOK, Accept, Wake
  <1>7. QED
    BY <1>1, <1>2, <1>4, <1>5, <1>6

LEMMA TypeStep == TypeOK /\ Flow /\ [Next]_vars => TypeOK'
  <1> SUFFICES ASSUME TypeOK, Flow, [Next]_vars
               PROVE  TypeOK'
    OBVIOUS
  <1> USE CapacityAssumption, StepsAssumption, NoneAssumption
  <1> USE DEF Flow, queueVars, stateVars, alertVars, workerVars, mainVars, reportVars
  <1>1. CASE EnqueueFree
    <2>1. Accept(buffer, None) /\ buffer \in Seq(Nat)
      BY <1>1 DEF EnqueueFree, TypeOK
    <2>2. QED
      BY <1>1, <2>1, AcceptType DEF EnqueueFree, TypeOK
  <1>2. CASE EnqueueFull
    <2>1. /\ buffer[DropIndex + 1] \in Nat
          /\ RemoveAt(buffer, DropIndex + 1) \in Seq(Nat)
      <3>1. buffer \in Seq(Nat) /\ DropIndex + 1 \in 1 .. Len(buffer)
        <4>1. buffer \in Seq(Nat)
          BY DEF TypeOK
        <4>2. DropIndex \in 0 .. Len(buffer) - 1
          BY <1>2, DropIndexInBuffer DEF EnqueueFull
        <4>3. Len(buffer) \in Nat
          BY <4>1, LenProperties
        <4>4. QED
          BY <4>1, <4>2, <4>3
      <3>2. buffer[DropIndex + 1] \in Nat
        BY <3>1, ElementOfSeq
      <3>3. RemoveAt(buffer, DropIndex + 1) \in Seq(Nat)
        BY <3>1, RemoveAtProperties
      <3>4. QED
        BY <3>2, <3>3
    <2>2. CursorAfterDrop \in 0 .. Capacity - 1
      BY <1>2, DropIndexInBuffer DEF EnqueueFull
    <2>3. QED
      <3>1. Accept(RemoveAt(buffer, DropIndex + 1), buffer[DropIndex + 1])
        BY <1>2 DEF EnqueueFull
      <3>2. pass_evicted' \in Nat \cup {None} /\ dropped_steps' \in Nat
        BY <1>2, <2>1 DEF EnqueueFull, TypeOK
      <3>3. QED
        BY <1>2, <2>1, <2>2, <3>1, <3>2, AcceptType DEF EnqueueFull, TypeOK
  <1>3. CASE Report
    <2>1. drop_log' \in Seq([dropped : Nat, incoming : Nat])
      <3>1. CASE pending.dropped = None
        BY <1>3, <3>1 DEF Report, TypeOK
      <3>2. CASE pending.dropped # None
        <4>1. pending.dropped \in Nat /\ pending.incoming \in Nat
          BY <3>2 DEF TypeOK
        <4>2. [dropped |-> pending.dropped, incoming |-> pending.incoming]
                 \in [dropped : Nat, incoming : Nat]
          BY <4>1
        <4>3. QED
          BY <1>3, <3>2, <4>2, AppendProperties DEF Report, TypeOK
      <3>3. QED
        BY <3>1, <3>2
    <2>2. /\ pending' \in [dropped : Nat \cup {None}, incoming : Nat \cup {None},
                           low : SUBSET LowPercents, high : Nat \cup {None}]
          /\ pending'.dropped = None
      BY <1>3 DEF Report, NothingToReport
    <2>3. low_sent' \in [LowPercents -> Nat] /\ high_sent' \in Nat /\ reported' \in Nat
      <3>1. low_sent' \in [LowPercents -> Nat]
        BY <1>3 DEF Report, TypeOK
      <3>2. high_sent' \in Nat /\ reported' \in Nat
        BY <1>3 DEF Report, TypeOK
      <3>3. QED
        BY <3>1, <3>2
    <2>4. QED
      BY <1>3, <2>1, <2>2, <2>3 DEF Report, TypeOK
  <1>4. CASE EnqueueRaises
    BY <1>4 DEF EnqueueRaises, TypeOK
  <1>5. CASE Interrupted
    BY <1>5 DEF Interrupted, TypeOK
  <1>6. CASE RunEnds
    BY <1>6 DEF RunEnds, TypeOK
  <1>7. CASE CloseBegins
    BY <1>7 DEF CloseBegins, TypeOK, Wake
  <1>8. CASE CloseReturnsAtOnce
    BY <1>8 DEF CloseReturnsAtOnce, CloseCallOver, TypeOK, MainFlow
  <1>9. CASE JoinReturns
    BY <1>9 DEF JoinReturns, TypeOK
  <1>10. CASE JoinInterrupted
    BY <1>10 DEF JoinInterrupted, CloseCallOver, TypeOK, MainFlow
  <1>11. CASE CloseEnds
    BY <1>11 DEF CloseEnds, CloseCallOver, TypeOK, MainFlow
  <1>12. CASE WorkerWaits
    BY <1>12 DEF WorkerWaits, TypeOK
  <1>13. CASE WorkerPops
    <2>1. inflight' \in Seq(Nat) /\ buffer' \in Seq(Nat)
      BY <1>13, HeadTailProperties DEF WorkerPops, TypeOK
    <2>2. CursorAfterPop \in 0 .. Capacity - 1
      BY DEF TypeOK, CursorAfterPop
    <2>3. QED
      BY <1>13, <2>1, <2>2 DEF WorkerPops, TypeOK
  <1>14. CASE WorkerReturns
    BY <1>14 DEF WorkerReturns, TypeOK
  <1>15. CASE WriteReturns
    <2>1. delivered' \in Seq(Nat) /\ inflight' \in Seq(Nat)
      BY <1>15, ConcatProperties, EmptySeq DEF WriteReturns, TypeOK
    <2>2. QED
      BY <1>15, <2>1 DEF WriteReturns, TypeOK
  <1>16. CASE WriteRaises
    BY <1>16 DEF WriteRaises, TypeOK
  <1>17. CASE WorkerFails
    BY <1>17 DEF WorkerFails, TypeOK
  <1>18. CASE Tick
    BY <1>18 DEF Tick, TypeOK
  <1>19. CASE UNCHANGED vars
    BY <1>19 DEF TypeOK, vars
  <1>20. QED
    BY <1>1, <1>2, <1>3, <1>4, <1>5, <1>6, <1>7, <1>8, <1>9, <1>10, <1>11, <1>12, <1>13,
       <1>14, <1>15, <1>16, <1>17, <1>18, <1>19
    DEF Next, MainStep, WorkerStep, Done

\* Each thread stays where the flags say it can be.
LEMMA FlowStep == TypeOK /\ Flow /\ [Next]_vars => Flow'
  <1> SUFFICES ASSUME TypeOK, Flow, [Next]_vars
               PROVE  Flow'
    OBVIOUS
  <1> USE CapacityAssumption, StepsAssumption, NoneAssumption
  <1> USE DEF TypeOK, Flow, MainFlow, WorkerFlow, queueVars, stateVars, alertVars,
              workerVars, mainVars, reportVars
  <1>1. CASE EnqueueFree
    <2>1. /\ main = "run" /\ main' = "report" /\ ~closing /\ ~error
          /\ next_step < Steps /\ next_step' = next_step + 1
          /\ worker' \in {worker, "ready"} /\ (worker # "waiting" => worker' = worker)
      BY <1>1 DEF EnqueueFree, Accept, Wake, Unavailable
    <2>2. UNCHANGED <<closing, closed, error, inflight, close_calls, failed, output_closed>>
      BY <1>1 DEF EnqueueFree
    <2>3. next_step \in Nat
      OBVIOUS
    <2>4. QED
      BY <2>1, <2>2, <2>3
  <1>2. CASE EnqueueFull
    <2>1. /\ main = "run" /\ main' = "report" /\ ~closing /\ ~error
          /\ next_step < Steps /\ next_step' = next_step + 1
          /\ worker' \in {worker, "ready"} /\ (worker # "waiting" => worker' = worker)
      BY <1>2 DEF EnqueueFull, Accept, Wake, Unavailable
    <2>2. UNCHANGED <<closing, closed, error, inflight, close_calls, failed, output_closed>>
      BY <1>2 DEF EnqueueFull
    <2>3. next_step \in Nat
      OBVIOUS
    <2>4. QED
      BY <2>1, <2>2, <2>3
  <1>3. CASE Report
    BY <1>3 DEF Report
  <1>4. CASE EnqueueRaises
    BY <1>4 DEF EnqueueRaises
  <1>5. CASE Interrupted
    BY <1>5 DEF Interrupted
  <1>6. CASE RunEnds
    BY <1>6 DEF RunEnds
  <1>7. CASE CloseBegins
    BY <1>7 DEF CloseBegins, Wake
  <1>8. CASE CloseReturnsAtOnce
    BY <1>8 DEF CloseReturnsAtOnce, CloseCallOver
  <1>9. CASE JoinReturns
    BY <1>9 DEF JoinReturns
  <1>10. CASE JoinInterrupted
    BY <1>10 DEF JoinInterrupted, CloseCallOver
  <1>11. CASE CloseEnds
    BY <1>11 DEF CloseEnds, CloseCallOver
  <1>12. CASE WorkerWaits
    BY <1>12 DEF WorkerWaits
  <1>13. CASE WorkerPops
    BY <1>13 DEF WorkerPops
  <1>14. CASE WorkerReturns
    BY <1>14 DEF WorkerReturns
  <1>15. CASE WriteReturns
    BY <1>15 DEF WriteReturns
  <1>16. CASE WriteRaises
    BY <1>16 DEF WriteRaises
  <1>17. CASE WorkerFails
    BY <1>17 DEF WorkerFails
  <1>18. CASE Tick
    BY <1>18 DEF Tick
  <1>19. CASE UNCHANGED vars
    BY <1>19 DEF vars
  <1>20. QED
    BY <1>1, <1>2, <1>3, <1>4, <1>5, <1>6, <1>7, <1>8, <1>9, <1>10, <1>11, <1>12, <1>13,
       <1>14, <1>15, <1>16, <1>17, <1>18, <1>19
    DEF Next, MainStep, WorkerStep, Done

-------------------------------------------------------------------------------
(* What each action does to the pipeline.                                  *)

LEMMA PipelineType ==
    ASSUME TypeOK
    PROVE  /\ Pipeline \in Seq(Nat) /\ Pipeline \in Seq(Int)
           /\ delivered \o inflight \in Seq(Nat)
           /\ Pipeline = (delivered \o inflight) \o buffer
           /\ Len(Pipeline) = Len(delivered) + Len(inflight) + Len(buffer)
  <1>1. /\ delivered \o inflight \in Seq(Nat)
        /\ Len(delivered \o inflight) = Len(delivered) + Len(inflight)
    BY ConcatProperties DEF TypeOK
  <1>2. /\ Pipeline = (delivered \o inflight) \o buffer
        /\ Pipeline \in Seq(Nat)
        /\ Len(Pipeline) = Len(delivered \o inflight) + Len(buffer)
    BY <1>1, ConcatProperties DEF TypeOK, Pipeline
  <1>3. Pipeline \in Seq(Int)
    BY <1>2, SeqMonotonic, Nat \subseteq Int
  <1>4. QED
    BY <1>1, <1>2, <1>3

\* The place in the pipeline of the snapshot to evict.
EvictedPlace == Len(delivered \o inflight) + (DropIndex + 1)

LEMMA PipelineAccept ==
    ASSUME TypeOK, Flow, EnqueueFree \/ EnqueueFull
    PROVE  /\ EnqueueFree => Pipeline' = Append(Pipeline, next_step)
           /\ EnqueueFull =>
                /\ EvictedPlace \in 1 .. Len(Pipeline)
                /\ Pipeline[EvictedPlace] = buffer[DropIndex + 1]
                /\ Pipeline' = Append(RemoveAt(Pipeline, EvictedPlace), next_step)
  <1> DEFINE a == delivered \o inflight
  <1>1. a \in Seq(Nat) /\ buffer \in Seq(Nat) /\ next_step \in Nat
    BY PipelineType DEF TypeOK
  <1>2. a' = a
    BY DEF EnqueueFree, EnqueueFull
  <1>3. Pipeline = a \o buffer /\ Pipeline' = a \o buffer'
    BY <1>2 DEF Pipeline
  <1> HIDE DEF a
  <1>4. CASE EnqueueFree
    <2>1. buffer' = Append(buffer, next_step)
      BY <1>4 DEF EnqueueFree, Accept
    <2>2. ~EnqueueFull
      BY <1>4, CapacityAssumption, LenProperties DEF EnqueueFree, EnqueueFull, TypeOK
    <2>3. QED
      BY <1>1, <1>3, <2>1, <2>2, AppendOfConcat
  <1>5. CASE EnqueueFull
    <2> DEFINE i == DropIndex + 1
               r == RemoveAt(buffer, i)
    <2>1. buffer' = Append(r, next_step)
      BY <1>5 DEF EnqueueFull, Accept
    <2>2. i \in 1 .. Len(buffer)
      BY <1>5, DropIndexInBuffer, LenProperties DEF EnqueueFull, TypeOK
    <2>3. ~EnqueueFree
      BY <1>5, CapacityAssumption, LenProperties DEF EnqueueFree, EnqueueFull, TypeOK
    <2>4. EvictedPlace = Len(a) + i
      BY DEF EvictedPlace, a
    <2> HIDE DEF i
    <2>5. r \in Seq(Nat)
      BY <1>1, <2>2, RemoveAtProperties
    <2>6. /\ Len(a) + i \in 1 .. Len(a \o buffer)
          /\ a \o r = RemoveAt(a \o buffer, Len(a) + i)
      BY <1>1, <2>2, RemoveAtOfConcat
    <2>7. (a \o buffer)[Len(a) + i] = buffer[i]
      BY <1>1, <2>2, ConcatParts
    <2> HIDE DEF r
    <2>8. a \o buffer' = Append(a \o r, next_step)
      BY <1>1, <2>1, <2>5, AppendOfConcat
    <2>9. QED
      BY <1>3, <2>3, <2>4, <2>6, <2>7, <2>8 DEF i
  <1>6. QED
    BY <1>4, <1>5

LEMMA PipelineWorker ==
    ASSUME TypeOK, Flow
    PROVE  /\ WorkerPops => Pipeline' = Pipeline
           /\ WriteReturns => Pipeline' = Pipeline
           /\ WorkerFails => Pipeline' = delivered
  <1>0. delivered \in Seq(Nat) /\ inflight \in Seq(Nat) /\ buffer \in Seq(Nat)
    BY DEF TypeOK
  <1>1. ASSUME WorkerPops PROVE Pipeline' = Pipeline
    <2> DEFINE h == <<Head(buffer)>>
               t == Tail(buffer)
    <2>1. inflight = <<>> /\ buffer # <<>>
      BY <1>1 DEF WorkerPops, Flow, WorkerFlow
    <2>2. h \in Seq(Nat) /\ t \in Seq(Nat) /\ h \o t = buffer
      BY <1>0, <2>1, HeadTailProperties, HeadThenTail
    <2>3. inflight' = h /\ buffer' = t /\ delivered' = delivered
      BY <1>1 DEF WorkerPops
    <2> HIDE DEF h, t
    <2>4. (delivered \o h) \o t = delivered \o (h \o t)
      <3>1. delivered \in Seq(Nat) /\ h \in Seq(Nat) /\ t \in Seq(Nat)
        BY <1>0, <2>2
      <3>2. QED
        BY <3>1, ConcatRegroups, Zenon
    <2>5. delivered \o inflight = delivered
      BY <1>0, <2>1, ConcatEmptySeq
    <2>6. QED
      BY <2>2, <2>3, <2>4, <2>5 DEF Pipeline
  <1>2. ASSUME WriteReturns PROVE Pipeline' = Pipeline
    <2>1. /\ delivered' = delivered \o inflight /\ inflight' = <<>>
          /\ buffer' = buffer
      BY <1>2 DEF WriteReturns, queueVars
    <2>2. delivered \o inflight \in Seq(Nat)
      BY PipelineType
    <2>3. (delivered \o inflight) \o <<>> = delivered \o inflight
      BY <2>2, ConcatEmptySeq
    <2>4. QED
      BY <2>1, <2>3 DEF Pipeline
  <1>3. ASSUME WorkerFails PROVE Pipeline' = delivered
    <2>1. buffer' = <<>> /\ inflight' = <<>> /\ delivered' = delivered
      BY <1>3 DEF WorkerFails
    <2>2. delivered \o <<>> = delivered
      BY <1>0, ConcatEmptySeq
    <2>3. QED
      BY <2>1, <2>2 DEF Pipeline
  <1>4. QED
    BY <1>1, <1>2, <1>3

\* Steps enter the pipeline in increasing order and never change places.
LEMMA InOrderStep == TypeOK /\ Flow /\ InOrder /\ [Next]_vars => InOrder'
  <1> SUFFICES ASSUME TypeOK, Flow, InOrder, [Next]_vars
               PROVE  InOrder'
    OBVIOUS
  <1> USE DEF queueVars, stateVars, alertVars, workerVars, mainVars, reportVars
  <1>a. Pipeline \in Seq(Int) /\ next_step \in Int
    BY PipelineType DEF TypeOK
  <1>b. Increasing(Pipeline) /\ Below(Pipeline, next_step)
    BY DEF InOrder, Increasing, Below
  <1>c. SUFFICES Increasing(Pipeline)' /\ Below(Pipeline, next_step)'
    BY DEF InOrder, Increasing, Below
  <1>1. CASE EnqueueFree
    <2>1. next_step' = next_step + 1 /\ Pipeline' = Append(Pipeline, next_step)
      BY <1>1, PipelineAccept DEF EnqueueFree, Accept
    <2>2. QED
      BY <1>a, <1>b, <2>1, IncreasingAppend
  <1>2. CASE EnqueueFull
    <2> DEFINE r == RemoveAt(Pipeline, EvictedPlace)
    <2>1. /\ next_step' = next_step + 1 /\ Pipeline' = Append(r, next_step)
          /\ EvictedPlace \in 1 .. Len(Pipeline)
      BY <1>2, PipelineAccept DEF EnqueueFull, Accept
    <2>2. r \in Seq(Int) /\ Increasing(r) /\ Below(r, next_step)
      BY <1>a, <1>b, <2>1, IncreasingRemoveAt
    <2> HIDE DEF r
    <2>3. QED
      BY <1>a, <2>1, <2>2, IncreasingAppend
  <1>d. ASSUME UNCHANGED <<delivered, inflight, buffer, next_step>>
        PROVE  Increasing(Pipeline)' /\ Below(Pipeline, next_step)'
    BY <1>b, <1>d DEF Pipeline, Increasing, Below
  <1>3. CASE Report
    BY <1>d, <1>3 DEF Report
  <1>4. CASE EnqueueRaises
    BY <1>d, <1>4 DEF EnqueueRaises
  <1>5. CASE Interrupted
    BY <1>d, <1>5 DEF Interrupted
  <1>6. CASE RunEnds
    BY <1>d, <1>6 DEF RunEnds
  <1>7. CASE CloseBegins
    BY <1>d, <1>7 DEF CloseBegins
  <1>8. CASE CloseReturnsAtOnce
    BY <1>d, <1>8 DEF CloseReturnsAtOnce
  <1>9. CASE JoinReturns
    BY <1>d, <1>9 DEF JoinReturns
  <1>10. CASE JoinInterrupted
    BY <1>d, <1>10 DEF JoinInterrupted
  <1>11. CASE CloseEnds
    BY <1>d, <1>11 DEF CloseEnds
  <1>12. CASE WorkerWaits
    BY <1>d, <1>12 DEF WorkerWaits
  <1>13. CASE WorkerPops
    <2>1. Pipeline' = Pipeline /\ next_step' = next_step
      BY <1>13, PipelineWorker DEF WorkerPops
    <2>2. QED
      BY <1>b, <2>1 DEF Increasing, Below
  <1>14. CASE WorkerReturns
    BY <1>d, <1>14 DEF WorkerReturns
  <1>15. CASE WriteReturns
    <2>1. Pipeline' = Pipeline /\ next_step' = next_step
      BY <1>15, PipelineWorker DEF WriteReturns
    <2>2. QED
      BY <1>b, <2>1 DEF Increasing, Below
  <1>16. CASE WriteRaises
    BY <1>d, <1>16 DEF WriteRaises
  <1>17. CASE WorkerFails
    <2>1. Pipeline' = delivered /\ next_step' = next_step
      BY <1>17, PipelineWorker DEF WorkerFails
    <2>2. /\ delivered \in Seq(Int)
          /\ inflight \o buffer \in Seq(Int)
          /\ Pipeline = delivered \o (inflight \o buffer)
      <3>1. /\ delivered \in Seq(Nat) /\ inflight \in Seq(Nat) /\ buffer \in Seq(Nat)
        BY DEF TypeOK
      <3>2. inflight \o buffer \in Seq(Nat)
        BY <3>1, ConcatProperties
      <3>3. Pipeline = delivered \o (inflight \o buffer)
        BY <3>1, ConcatRegroups, Zenon DEF Pipeline
      <3>4. QED
        BY <3>1, <3>2, <3>3, SeqMonotonic, Nat \subseteq Int
    <2>3. Increasing(delivered) /\ Below(delivered, next_step)
      BY <1>a, <1>b, <2>2, IncreasingPrefix
    <2>4. QED
      BY <2>1, <2>3
  <1>18. CASE Tick
    BY <1>d, <1>18 DEF Tick
  <1>19. CASE UNCHANGED vars
    BY <1>d, <1>19 DEF vars
  <1>20. QED
    BY <1>1, <1>2, <1>3, <1>4, <1>5, <1>6, <1>7, <1>8, <1>9, <1>10, <1>11, <1>12, <1>13,
       <1>14, <1>15, <1>16, <1>17, <1>18, <1>19
    DEF Next, MainStep, WorkerStep, Done

-------------------------------------------------------------------------------
(* Counting.                                                               *)

\* How the lengths change.
LEMMA Lengths ==
    ASSUME TypeOK, Flow
    PROVE  /\ EnqueueFree => Len(buffer') = Len(buffer) + 1
           /\ EnqueueFull => Len(buffer') = Len(buffer)
           /\ WorkerPops => Len(buffer') = Len(buffer) - 1 /\ Len(inflight') = 1
                              /\ Len(inflight) = 0
           /\ WriteReturns => Len(delivered') = Len(delivered) + Len(inflight)
                                /\ Len(inflight') = 0
           /\ WorkerFails => Len(buffer') = 0 /\ Len(inflight') = 0 /\ Len(inflight) = 1
           /\ Len(buffer) \in Nat /\ Len(inflight) \in Nat /\ Len(delivered) \in Nat
  <1>1. buffer \in Seq(Nat) /\ inflight \in Seq(Nat) /\ delivered \in Seq(Nat) /\ next_step \in Nat
    BY DEF TypeOK
  <1>2. EnqueueFree => Len(buffer') = Len(buffer) + 1
    BY <1>1, AppendProperties DEF EnqueueFree, Accept
  <1>3. ASSUME EnqueueFull PROVE Len(buffer') = Len(buffer)
    <2>1. DropIndex + 1 \in 1 .. Len(buffer)
      BY <1>1, <1>3, DropIndexInBuffer, LenProperties DEF EnqueueFull
    <2> DEFINE r == RemoveAt(buffer, DropIndex + 1)
    <2>2. r \in Seq(Nat) /\ Len(r) = Len(buffer) - 1
      BY <1>1, <2>1, RemoveAtProperties
    <2>3. buffer' = Append(r, next_step)
      BY <1>3 DEF EnqueueFull, Accept
    <2> HIDE DEF r
    <2>4. Len(buffer') = Len(r) + 1
      BY <1>1, <2>2, <2>3, AppendProperties
    <2>5. QED
      BY <1>1, <2>2, <2>4, LenProperties
  <1>4. ASSUME WorkerPops
        PROVE  Len(buffer') = Len(buffer) - 1 /\ Len(inflight') = 1 /\ Len(inflight) = 0
    BY <1>1, <1>4, HeadTailProperties DEF WorkerPops, Flow, WorkerFlow
  <1>5. ASSUME WriteReturns
        PROVE  Len(delivered') = Len(delivered) + Len(inflight) /\ Len(inflight') = 0
    BY <1>1, <1>5, ConcatProperties DEF WriteReturns
  <1>6. WorkerFails => Len(buffer') = 0 /\ Len(inflight') = 0 /\ Len(inflight) = 1
    BY DEF WorkerFails, Flow, WorkerFlow
  <1>7. QED
    BY <1>1, <1>2, <1>3, <1>4, <1>5, <1>6, LenProperties

\* No accepted step is lost sight of.
LEMMA AccountedStep == TypeOK /\ Flow /\ Accounted /\ [Next]_vars => Accounted'
  <1> SUFFICES ASSUME TypeOK, Flow, Accounted, [Next]_vars
               PROVE  Accounted'
    OBVIOUS
  <1> USE DEF queueVars, stateVars, alertVars, workerVars, mainVars,
              reportVars
  <1>a. /\ EnqueueFree => Len(buffer') = Len(buffer) + 1
        /\ EnqueueFull => Len(buffer') = Len(buffer)
        /\ WorkerPops => Len(buffer') = Len(buffer) - 1 /\ Len(inflight') = 1
                           /\ Len(inflight) = 0
        /\ WriteReturns => Len(delivered') = Len(delivered) + Len(inflight)
                             /\ Len(inflight') = 0
        /\ WorkerFails => Len(buffer') = 0 /\ Len(inflight') = 0 /\ Len(inflight) = 1
        /\ Len(buffer) \in Nat /\ Len(inflight) \in Nat /\ Len(delivered) \in Nat
    BY Lengths
  <1>b. worker \in {"writing", "failing"} => ~error
    BY DEF Flow, WorkerFlow
  <1>c. dropped_steps \in Nat /\ next_step \in Nat /\ error \in BOOLEAN
    BY DEF TypeOK
  <1>1. CASE EnqueueFree
    <2>1. error = FALSE /\ error' = FALSE /\ next_step' = next_step + 1
          /\ UNCHANGED <<inflight, delivered>>
          /\ dropped_steps' = dropped_steps
      BY <1>c, <1>1 DEF EnqueueFree, stateVars, Accept, Unavailable
    <2>2. next_step = Len(delivered) + Len(inflight) + Len(buffer) + dropped_steps
      BY <1>a, <1>c, <2>1 DEF Accounted
    <2>3. Len(buffer') = Len(buffer) + 1
      BY <1>a, <1>1
    <2>4. next_step' = Len(delivered') + Len(inflight') + Len(buffer') + dropped_steps'
      BY <1>a, <1>c, <2>1, <2>2, <2>3
    <2>5. QED
      BY <2>1, <2>4 DEF Accounted
  <1>2. CASE EnqueueFull
    <2>1. error = FALSE /\ error' = FALSE /\ next_step' = next_step + 1
          /\ UNCHANGED <<inflight, delivered>>
          /\ dropped_steps' = dropped_steps + 1
      BY <1>c, <1>2 DEF EnqueueFull, stateVars, Accept, Unavailable
    <2>2. next_step = Len(delivered) + Len(inflight) + Len(buffer) + dropped_steps
      BY <1>a, <1>c, <2>1 DEF Accounted
    <2>3. Len(buffer') = Len(buffer)
      BY <1>a, <1>2
    <2>4. next_step' = Len(delivered') + Len(inflight') + Len(buffer') + dropped_steps'
      BY <1>a, <1>c, <2>1, <2>2, <2>3
    <2>5. QED
      BY <2>1, <2>4 DEF Accounted
  <1>3. CASE Report
    BY <1>3 DEF Report, Accounted
  <1>4. CASE EnqueueRaises
    BY <1>4 DEF EnqueueRaises, Accounted
  <1>5. CASE Interrupted
    BY <1>5 DEF Interrupted, Accounted
  <1>6. CASE RunEnds
    BY <1>6 DEF RunEnds, Accounted
  <1>7. CASE CloseBegins
    BY <1>7 DEF CloseBegins, Accounted
  <1>8. CASE CloseReturnsAtOnce
    BY <1>8 DEF CloseReturnsAtOnce, Accounted
  <1>9. CASE JoinReturns
    BY <1>9 DEF JoinReturns, Accounted
  <1>10. CASE JoinInterrupted
    BY <1>10 DEF JoinInterrupted, Accounted
  <1>11. CASE CloseEnds
    BY <1>11 DEF CloseEnds, Accounted
  <1>12. CASE WorkerWaits
    BY <1>12 DEF WorkerWaits, Accounted
  <1>13. CASE WorkerPops
    <2>1. UNCHANGED <<delivered, dropped_steps, error, next_step>>
      BY <1>13 DEF WorkerPops
    <2>2. Len(inflight') + Len(buffer') = Len(inflight) + Len(buffer)
      <3>1. /\ Len(buffer') = Len(buffer) - 1 /\ Len(inflight') = 1 /\ Len(inflight) = 0
            /\ Len(buffer) \in Nat
        BY <1>a, <1>13
      <3>2. QED
        BY <3>1
    <2>3. QED
      BY <1>a, <1>c, <2>1, <2>2 DEF Accounted
  <1>14. CASE WorkerReturns
    BY <1>14 DEF WorkerReturns, Accounted
  <1>15. CASE WriteReturns
    <2>1. UNCHANGED <<buffer, dropped_steps, error, next_step>>
      BY <1>15 DEF WriteReturns
    <2>2. Len(delivered') + Len(inflight') = Len(delivered) + Len(inflight)
      BY <1>a, <1>15
    <2>3. QED
      BY <1>a, <1>c, <2>1, <2>2 DEF Accounted
  <1>16. CASE WriteRaises
    BY <1>16 DEF WriteRaises, Accounted
  <1>17. CASE WorkerFails
    <2>1. error = FALSE /\ error' = TRUE /\ UNCHANGED <<next_step, delivered>>
          /\ dropped_steps' = dropped_steps + Len(buffer)
      BY <1>b, <1>c, <1>17 DEF WorkerFails
    <2>2. next_step = Len(delivered) + Len(inflight) + Len(buffer) + dropped_steps
      BY <1>a, <1>c, <2>1 DEF Accounted
    <2>3. Len(buffer') = 0 /\ Len(inflight') = 0 /\ Len(inflight) = 1
      BY <1>a, <1>17
    <2>4. next_step' = Len(delivered') + Len(inflight') + Len(buffer') + dropped_steps' + 1
      BY <1>a, <1>c, <2>1, <2>2, <2>3
    <2>5. QED
      BY <2>1, <2>4 DEF Accounted
  <1>18. CASE Tick
    BY <1>18 DEF Tick, Accounted
  <1>19. CASE UNCHANGED vars
    BY <1>19 DEF vars, Accounted
  <1>20. QED
    BY <1>1, <1>2, <1>3, <1>4, <1>5, <1>6, <1>7, <1>8, <1>9, <1>10, <1>11, <1>12, <1>13,
       <1>14, <1>15, <1>16, <1>17, <1>18, <1>19
    DEF Next, MainStep, WorkerStep, Done

\* Whoever gives the worker something to do wakes it.
LEMMA NoLostWakeupStep == TypeOK /\ Flow /\ NoLostWakeup /\ [Next]_vars => NoLostWakeup'
  <1> SUFFICES ASSUME TypeOK, Flow, NoLostWakeup, [Next]_vars
               PROVE  NoLostWakeup'
    OBVIOUS
  <1> USE DEF NoLostWakeup, queueVars, stateVars, alertVars, workerVars, mainVars,
              reportVars
  <1>1. CASE EnqueueFree
    BY <1>1 DEF EnqueueFree, Accept, Wake, Unavailable
  <1>2. CASE EnqueueFull
    BY <1>2 DEF EnqueueFull, Accept, Wake, Unavailable
  <1>3. CASE Report
    BY <1>3 DEF Report
  <1>4. CASE EnqueueRaises
    BY <1>4 DEF EnqueueRaises
  <1>5. CASE Interrupted
    BY <1>5 DEF Interrupted
  <1>6. CASE RunEnds
    BY <1>6 DEF RunEnds
  <1>7. CASE CloseBegins
    BY <1>7 DEF CloseBegins, Wake
  <1>8. CASE CloseReturnsAtOnce
    BY <1>8 DEF CloseReturnsAtOnce, CloseCallOver
  <1>9. CASE JoinReturns
    BY <1>9 DEF JoinReturns
  <1>10. CASE JoinInterrupted
    BY <1>10 DEF JoinInterrupted, CloseCallOver
  <1>11. CASE CloseEnds
    BY <1>11 DEF CloseEnds, CloseCallOver
  <1>12. CASE WorkerWaits
    BY <1>12 DEF WorkerWaits
  <1>13. CASE WorkerPops
    BY <1>13 DEF WorkerPops
  <1>14. CASE WorkerReturns
    BY <1>14 DEF WorkerReturns
  <1>15. CASE WriteReturns
    BY <1>15 DEF WriteReturns
  <1>16. CASE WriteRaises
    BY <1>16 DEF WriteRaises
  <1>17. CASE WorkerFails
    BY <1>17 DEF WorkerFails
  <1>18. CASE Tick
    BY <1>18 DEF Tick
  <1>19. CASE UNCHANGED vars
    BY <1>19 DEF vars
  <1>20. QED
    BY <1>1, <1>2, <1>3, <1>4, <1>5, <1>6, <1>7, <1>8, <1>9, <1>10, <1>11, <1>12, <1>13,
       <1>14, <1>15, <1>16, <1>17, <1>18, <1>19
    DEF Next, MainStep, WorkerStep, Done

\* The queue holds at most Capacity snapshots.
Bounded == Len(buffer) <= Capacity

LEMMA BoundStep == TypeOK /\ Flow /\ Bounded /\ [Next]_vars => Bounded'
  <1> SUFFICES ASSUME TypeOK, Flow, Bounded, [Next]_vars
               PROVE  Bounded'
    OBVIOUS
  <1> USE DEF Bounded, queueVars, stateVars, alertVars, workerVars, mainVars, reportVars
  <1>a. /\ EnqueueFree => Len(buffer') = Len(buffer) + 1
        /\ EnqueueFull => Len(buffer') = Len(buffer)
        /\ WorkerPops => Len(buffer') = Len(buffer) - 1
        /\ WorkerFails => Len(buffer') = 0
        /\ Len(buffer) \in Nat /\ Capacity \in Nat
    BY Lengths, CapacityAssumption
  <1>1. CASE EnqueueFree
    BY <1>1, <1>a DEF EnqueueFree
  <1>2. CASE EnqueueFull
    BY <1>2, <1>a DEF EnqueueFull
  <1>3. CASE Report
    BY <1>3 DEF Report
  <1>4. CASE EnqueueRaises
    BY <1>4 DEF EnqueueRaises
  <1>5. CASE Interrupted
    BY <1>5 DEF Interrupted
  <1>6. CASE RunEnds
    BY <1>6 DEF RunEnds
  <1>7. CASE CloseBegins
    BY <1>7 DEF CloseBegins, Wake
  <1>8. CASE CloseReturnsAtOnce
    BY <1>8 DEF CloseReturnsAtOnce, CloseCallOver
  <1>9. CASE JoinReturns
    BY <1>9 DEF JoinReturns
  <1>10. CASE JoinInterrupted
    BY <1>10 DEF JoinInterrupted, CloseCallOver
  <1>11. CASE CloseEnds
    BY <1>11 DEF CloseEnds, CloseCallOver
  <1>12. CASE WorkerWaits
    BY <1>12 DEF WorkerWaits
  <1>13. CASE WorkerPops
    BY <1>13, <1>a
  <1>14. CASE WorkerReturns
    BY <1>14 DEF WorkerReturns
  <1>15. CASE WriteReturns
    BY <1>15 DEF WriteReturns
  <1>16. CASE WriteRaises
    BY <1>16 DEF WriteRaises
  <1>17. CASE WorkerFails
    BY <1>17, <1>a, CapacityAssumption
  <1>18. CASE Tick
    BY <1>18 DEF Tick
  <1>19. CASE UNCHANGED vars
    BY <1>19 DEF vars
  <1>20. QED
    BY <1>1, <1>2, <1>3, <1>4, <1>5, <1>6, <1>7, <1>8, <1>9, <1>10, <1>11, <1>12, <1>13,
       <1>14, <1>15, <1>16, <1>17, <1>18, <1>19
    DEF Next, MainStep, WorkerStep, Done

-------------------------------------------------------------------------------
(* The drop log and the loss reports.                                      *)

UnloggedDrops == IF pending.dropped = None THEN 0 ELSE 1
UnsentLosses == IF pending.high = None THEN 0 ELSE pending.high

Idle == main # "report" => pending = NothingToReport
LogCounts ==
    /\ ~error => Len(drop_log) + UnloggedDrops = dropped_steps
    /\ error => Len(drop_log) + UnloggedDrops <= dropped_steps
Losses ==
    reported + UnsentLosses + dropped_since_high_notification
        = Len(drop_log) + UnloggedDrops

ReportInv == Idle /\ LogCounts /\ Losses

\* What an enqueue leaves to report.
LEMMA EnqueueLeaves ==
    ASSUME TypeOK, EnqueueFree \/ EnqueueFull
    PROVE  /\ EnqueueFree => UnloggedDrops' = 0 /\ dropped_steps' = dropped_steps
           /\ EnqueueFull => UnloggedDrops' = 1 /\ dropped_steps' = dropped_steps + 1
           /\ UnsentLosses' \in Nat /\ dropped_since_high_notification' \in Nat
           /\ UnsentLosses' + dropped_since_high_notification'
                 = dropped_since_high_notification + UnloggedDrops'
           /\ main = "run" /\ main' = "report"
           /\ error = FALSE /\ error' = FALSE
           /\ UNCHANGED <<drop_log, reported>>
  <1> USE NoneAssumption
  <1>1. ASSUME NEW kept, NEW dropped \in Nat \cup {None}, Accept(kept, dropped)
        PROVE  /\ UnloggedDrops' = IF dropped = None THEN 0 ELSE 1
               /\ UnsentLosses' \in Nat /\ dropped_since_high_notification' \in Nat
               /\ UnsentLosses' + dropped_since_high_notification'
                     = dropped_since_high_notification + UnloggedDrops'
               /\ main' = "report"
    <2> DEFINE due == HighDue(Len(kept) + 1)
               loss == dropped_since_high_notification + IF dropped = None THEN 0 ELSE 1
    <2>1. pending' = [dropped |-> dropped, incoming |-> next_step,
                      low |-> CrossedLow(Len(kept) + 1),
                      high |-> IF due THEN loss ELSE None]
      BY <1>1 DEF Accept
    <2>2. dropped_since_high_notification' = IF due THEN 0 ELSE loss
      BY <1>1 DEF Accept
    <2>3. UnloggedDrops' = IF dropped = None THEN 0 ELSE 1
      BY <2>1 DEF UnloggedDrops
    <2>4. loss = dropped_since_high_notification + UnloggedDrops' /\ loss \in Nat
      BY <2>3 DEF TypeOK
    <2> HIDE DEF due, loss
    <2>5. UnsentLosses' = IF due THEN loss ELSE 0
      BY <2>1, <2>4 DEF UnsentLosses
    <2>6. QED
      BY <1>1, <2>2, <2>3, <2>4, <2>5 DEF Accept
  <1>2. CASE EnqueueFree
    <2>1. ~EnqueueFull
      BY <1>2, CapacityAssumption, LenProperties DEF EnqueueFree, EnqueueFull, TypeOK
    <2>2. Accept(buffer, None)
      BY <1>2 DEF EnqueueFree
    <2>3. /\ UnloggedDrops' = 0 /\ UnsentLosses' \in Nat
          /\ dropped_since_high_notification' \in Nat
          /\ UnsentLosses' + dropped_since_high_notification'
                = dropped_since_high_notification + UnloggedDrops'
          /\ main' = "report"
      BY <1>1, <2>2
    <2>4. QED
      BY <1>2, <2>1, <2>3 DEF EnqueueFree, Unavailable, TypeOK, stateVars, reportVars
  <1>3. CASE EnqueueFull
    <2>1. ~EnqueueFree
      BY <1>3, CapacityAssumption, LenProperties DEF EnqueueFree, EnqueueFull, TypeOK
    <2>2. Accept(RemoveAt(buffer, DropIndex + 1), buffer[DropIndex + 1])
      BY <1>3 DEF EnqueueFull
    <2>3. buffer[DropIndex + 1] \in Nat
      <3>1. buffer \in Seq(Nat) /\ DropIndex + 1 \in 1 .. Len(buffer)
        BY <1>3, DropIndexInBuffer, LenProperties DEF EnqueueFull, TypeOK
      <3>2. QED
        BY <3>1, ElementOfSeq
    <2>4. /\ UnloggedDrops' = 1 /\ UnsentLosses' \in Nat
          /\ dropped_since_high_notification' \in Nat
          /\ UnsentLosses' + dropped_since_high_notification'
                = dropped_since_high_notification + UnloggedDrops'
          /\ main' = "report"
      BY <1>1, <2>2, <2>3
    <2>5. QED
      BY <1>3, <2>1, <2>4 DEF EnqueueFull, Unavailable, TypeOK, stateVars, reportVars
  <1>4. QED
    BY <1>2, <1>3

\* Reporting moves a loss from the locals of _enqueue to the log and the notifier.
LEMMA ReportInvStep == TypeOK /\ Flow /\ ReportInv /\ [Next]_vars => ReportInv'
  <1> SUFFICES ASSUME TypeOK, Flow, ReportInv, [Next]_vars
               PROVE  ReportInv'
    OBVIOUS
  <1> USE DEF ReportInv, queueVars, stateVars, alertVars, workerVars, mainVars, reportVars
  <1>a. /\ Len(drop_log) \in Nat /\ reported \in Nat
        /\ dropped_since_high_notification \in Nat /\ dropped_steps \in Nat
        /\ UnloggedDrops \in Nat
        /\ error \in BOOLEAN
    BY LenProperties DEF TypeOK, UnloggedDrops
  <1>b. ASSUME UNCHANGED <<error, drop_log, reported, dropped_steps, pending,
                           dropped_since_high_notification>>,
               Idle'
        PROVE  ReportInv'
    BY <1>b DEF LogCounts, Losses, UnloggedDrops, UnsentLosses
  <1>1. CASE EnqueueFree
    <2>1. pending = NothingToReport
      BY <1>b, <1>1 DEF Idle, Idle, EnqueueFree
    <2>2. UnloggedDrops = 0 /\ UnsentLosses = 0
      BY <2>1 DEF UnloggedDrops, UnsentLosses, NothingToReport
    <2>3. /\ UnloggedDrops' = 0 /\ dropped_steps' = dropped_steps
          /\ UnsentLosses' \in Nat /\ dropped_since_high_notification' \in Nat
          /\ UnsentLosses' + dropped_since_high_notification'
                = dropped_since_high_notification + UnloggedDrops'
          /\ main' = "report" /\ error = FALSE /\ error' = FALSE
          /\ UNCHANGED <<drop_log, reported>>
      BY <1>1, EnqueueLeaves
    <2>4. Idle' /\ LogCounts'
      BY <1>a, <2>2, <2>3 DEF Idle, LogCounts
    <2>5. Losses'
      <3>1. reported + dropped_since_high_notification = Len(drop_log)
        BY <1>a, <2>2 DEF Losses
      <3>2. Len(drop_log') = Len(drop_log) /\ reported' = reported
        BY <2>3
      <3>3. reported' + UnsentLosses' + dropped_since_high_notification'
              = reported + (dropped_since_high_notification + UnloggedDrops')
        <4>1. /\ UnsentLosses' \in Nat /\ dropped_since_high_notification' \in Nat
              /\ UnsentLosses' + dropped_since_high_notification'
                    = dropped_since_high_notification + UnloggedDrops'
          BY <2>3
        <4>2. QED
          BY <1>a, <3>2, <4>1
      <3>4. QED
        <4>1. UnloggedDrops' \in Nat
          BY <2>3
        <4>2. reported' + UnsentLosses' + dropped_since_high_notification'
                = Len(drop_log') + UnloggedDrops'
          BY <1>a, <3>1, <3>2, <3>3, <4>1
        <4>3. QED
          BY <4>2 DEF Losses
    <2>6. QED
      BY <2>4, <2>5
  <1>2. CASE EnqueueFull
    <2>1. pending = NothingToReport
      BY <1>b, <1>2 DEF Idle, Idle, EnqueueFull
    <2>2. UnloggedDrops = 0 /\ UnsentLosses = 0
      BY <2>1 DEF UnloggedDrops, UnsentLosses, NothingToReport
    <2>3. /\ UnloggedDrops' = 1 /\ dropped_steps' = dropped_steps + 1
          /\ UnsentLosses' \in Nat /\ dropped_since_high_notification' \in Nat
          /\ UnsentLosses' + dropped_since_high_notification'
                = dropped_since_high_notification + UnloggedDrops'
          /\ main' = "report" /\ error = FALSE /\ error' = FALSE
          /\ UNCHANGED <<drop_log, reported>>
      BY <1>2, EnqueueLeaves
    <2>4. Idle' /\ LogCounts'
      BY <1>a, <2>2, <2>3 DEF Idle, LogCounts
    <2>5. Losses'
      <3>1. reported + dropped_since_high_notification = Len(drop_log)
        BY <1>a, <2>2 DEF Losses
      <3>2. Len(drop_log') = Len(drop_log) /\ reported' = reported
        BY <2>3
      <3>3. reported' + UnsentLosses' + dropped_since_high_notification'
              = reported + (dropped_since_high_notification + UnloggedDrops')
        <4>1. /\ UnsentLosses' \in Nat /\ dropped_since_high_notification' \in Nat
              /\ UnsentLosses' + dropped_since_high_notification'
                    = dropped_since_high_notification + UnloggedDrops'
          BY <2>3
        <4>2. QED
          BY <1>a, <3>2, <4>1
      <3>4. QED
        <4>1. UnloggedDrops' \in Nat
          BY <2>3
        <4>2. reported' + UnsentLosses' + dropped_since_high_notification'
                = Len(drop_log') + UnloggedDrops'
          BY <1>a, <3>1, <3>2, <3>3, <4>1
        <4>3. QED
          BY <4>2 DEF Losses
    <2>6. QED
      BY <2>4, <2>5
  <1>3. CASE Report
    <2>1. UnloggedDrops' = 0 /\ UnsentLosses' = 0 /\ pending' = NothingToReport
      BY <1>b, <1>3 DEF Idle, Report, NothingToReport, UnloggedDrops, UnsentLosses
    <2>2. Len(drop_log') = Len(drop_log) + UnloggedDrops
      BY <1>3, <1>a DEF Report, UnloggedDrops, TypeOK
    <2>3. reported' = reported + UnsentLosses /\ UnsentLosses \in Nat
      BY <1>b, <1>3 DEF Idle, Report, UnsentLosses, TypeOK
    <2>4. UNCHANGED <<error, dropped_steps, dropped_since_high_notification>>
      BY <1>b, <1>3 DEF Idle, Report
    <2>5. Idle' /\ LogCounts'
      BY <1>a, <2>1, <2>2, <2>4 DEF Idle, LogCounts
    <2>6. Losses'
      BY <1>a, <2>1, <2>2, <2>3, <2>4 DEF Losses
    <2>7. QED
      BY <2>5, <2>6
  <1>4. CASE EnqueueRaises
    BY <1>b, <1>4 DEF Idle, EnqueueRaises
  <1>5. CASE Interrupted
    BY <1>b, <1>5 DEF Idle, Interrupted
  <1>6. CASE RunEnds
    BY <1>b, <1>6 DEF Idle, RunEnds
  <1>7. CASE CloseBegins
    BY <1>b, <1>7 DEF Idle, CloseBegins, Wake
  <1>8. CASE CloseReturnsAtOnce
    BY <1>b, <1>8 DEF Idle, CloseReturnsAtOnce, CloseCallOver
  <1>9. CASE JoinReturns
    BY <1>b, <1>9 DEF Idle, JoinReturns
  <1>10. CASE JoinInterrupted
    BY <1>b, <1>10 DEF Idle, JoinInterrupted, CloseCallOver
  <1>11. CASE CloseEnds
    BY <1>b, <1>11 DEF Idle, CloseEnds, CloseCallOver
  <1>12. CASE WorkerWaits
    BY <1>b, <1>12 DEF Idle, WorkerWaits
  <1>13. CASE WorkerPops
    BY <1>b, <1>13 DEF Idle, WorkerPops
  <1>14. CASE WorkerReturns
    BY <1>b, <1>14 DEF Idle, WorkerReturns
  <1>15. CASE WriteReturns
    BY <1>b, <1>15 DEF Idle, WriteReturns
  <1>16. CASE WriteRaises
    BY <1>b, <1>16 DEF Idle, WriteRaises
  <1>17. CASE WorkerFails
    <2>1. /\ error' = TRUE /\ dropped_steps' = dropped_steps + Len(buffer)
          /\ UNCHANGED <<main, pending, drop_log, reported, dropped_since_high_notification>>
      BY <1>b, <1>17 DEF Idle, WorkerFails
    <2>2. UnloggedDrops' = UnloggedDrops /\ UnsentLosses' = UnsentLosses
      BY <2>1 DEF UnloggedDrops, UnsentLosses
    <2>3. Len(drop_log) + UnloggedDrops <= dropped_steps /\ Len(buffer) \in Nat
      BY <1>a, Lengths DEF LogCounts
    <2>4. QED
      BY <1>a, <2>1, <2>2, <2>3 DEF Idle, LogCounts, Losses
  <1>18. CASE Tick
    BY <1>b, <1>18 DEF Idle, Tick
  <1>19. CASE UNCHANGED vars
    BY <1>b, <1>19 DEF Idle, vars
  <1>20. QED
    BY <1>1, <1>2, <1>3, <1>4, <1>5, <1>6, <1>7, <1>8, <1>9, <1>10, <1>11, <1>12, <1>13,
       <1>14, <1>15, <1>16, <1>17, <1>18, <1>19
    DEF Next, MainStep, WorkerStep, Done

-------------------------------------------------------------------------------
(* What was evicted stays out.                                             *)

\* The elements of the queue and of the pipeline.
LEMMA PipelineElements ==
    ASSUME TypeOK
    PROVE  /\ \A k \in 1 .. Len(buffer) :
                 /\ Len(delivered \o inflight) + k \in 1 .. Len(Pipeline)
                 /\ Pipeline[Len(delivered \o inflight) + k] = buffer[k]
           /\ \A k \in 1 .. Len(delivered \o inflight) :
                 k \in 1 .. Len(Pipeline) /\ Pipeline[k] = (delivered \o inflight)[k]
           /\ Len(delivered \o inflight) \in Nat /\ Len(Pipeline) \in Nat
           /\ Len(buffer) \in Nat
           /\ \A k \in 1 .. Len(Pipeline) : Pipeline[k] \in Nat
  <1> DEFINE a == delivered \o inflight
  <1>1. a \in Seq(Nat) /\ buffer \in Seq(Nat) /\ Pipeline = a \o buffer /\ Pipeline \in Seq(Nat)
    BY PipelineType DEF TypeOK
  <1> HIDE DEF a
  <1>2. /\ Len(a \o buffer) = Len(a) + Len(buffer)
        /\ \A k \in 1 .. Len(a) : (a \o buffer)[k] = a[k]
        /\ \A k \in 1 .. Len(buffer) : (a \o buffer)[Len(a) + k] = buffer[k]
    BY <1>1, ConcatParts
  <1>3. Len(a) \in Nat /\ Len(buffer) \in Nat
    BY <1>1, LenProperties
  <1>4. \A k \in 1 .. Len(Pipeline) : Pipeline[k] \in Nat
    BY <1>1, ElementOfSeq
  <1>5. /\ \A k \in 1 .. Len(buffer) :
              Len(a) + k \in 1 .. Len(Pipeline) /\ Pipeline[Len(a) + k] = buffer[k]
        /\ \A k \in 1 .. Len(a) : k \in 1 .. Len(Pipeline) /\ Pipeline[k] = a[k]
        /\ Len(Pipeline) \in Nat
    BY <1>1, <1>2, <1>3
  <1>6. QED
    BY <1>3, <1>4, <1>5 DEF a

\* A step that left the pipeline for good.
Gone(d) == d < next_step /\ \A k \in 1 .. Len(Pipeline) : Pipeline[k] # d

\* No action brings a step back.
LEMMA GoneStays ==
    ASSUME TypeOK, Flow, [Next]_vars, NEW d \in Nat, Gone(d)
    PROVE  Gone(d)'
  <1>1. next_step \in Nat /\ Pipeline \in Seq(Nat)
    BY PipelineType DEF TypeOK
  <1>2. CASE UNCHANGED <<delivered, inflight, buffer, next_step>>
    BY <1>2 DEF Gone, Pipeline
  <1>3. CASE EnqueueFree
    <2>1. Pipeline' = Append(Pipeline, next_step) /\ next_step' = next_step + 1
      BY <1>3, PipelineAccept DEF EnqueueFree, Accept
    <2>2. QED
      BY <1>1, <2>1, AppendProperties, LenProperties DEF Gone
  <1>4. CASE EnqueueFull
    <2> DEFINE r == RemoveAt(Pipeline, EvictedPlace)
    <2>1. /\ EvictedPlace \in 1 .. Len(Pipeline)
          /\ Pipeline' = Append(r, next_step) /\ next_step' = next_step + 1
      BY <1>4, PipelineAccept DEF EnqueueFull, Accept
    <2>2. /\ r \in Seq(Nat) /\ Len(r) = Len(Pipeline) - 1
          /\ \A k \in 1 .. Len(Pipeline) - 1 :
                r[k] = IF k < EvictedPlace THEN Pipeline[k] ELSE Pipeline[k + 1]
      BY <1>1, <2>1, RemoveAtProperties
    <2> HIDE DEF r
    <2>3. \A k \in 1 .. Len(r) : r[k] # d
      <3>1. TAKE k \in 1 .. Len(r)
      <3>2. k \in 1 .. Len(Pipeline) /\ k + 1 \in 1 .. Len(Pipeline)
        BY <1>1, <2>2, LenProperties
      <3>3. CASE k < EvictedPlace
        BY <2>2, <3>2, <3>3 DEF Gone
      <3>4. CASE ~(k < EvictedPlace)
        BY <2>2, <3>2, <3>4 DEF Gone
      <3>5. QED
        BY <3>3, <3>4
    <2>4. /\ Len(Append(r, next_step)) = Len(r) + 1 /\ Len(r) \in Nat
          /\ \A k \in 1 .. Len(r) : Append(r, next_step)[k] = r[k]
          /\ Append(r, next_step)[Len(r) + 1] = next_step
      BY <1>1, <2>2, AppendProperties, LenProperties
    <2>5. \A k \in 1 .. Len(Pipeline') : Pipeline'[k] # d
      BY <1>1, <2>1, <2>3, <2>4 DEF Gone
    <2>6. d < next_step'
      BY <1>1, <2>1 DEF Gone
    <2>7. QED
      BY <2>5, <2>6 DEF Gone
  <1>5. CASE WorkerPops \/ WriteReturns
    <2>1. Pipeline' = Pipeline /\ next_step' = next_step
      BY <1>5, PipelineWorker DEF WorkerPops, WriteReturns, mainVars
    <2>2. QED
      BY <2>1 DEF Gone
  <1>6. CASE WorkerFails
    <2>1. Pipeline' = delivered /\ next_step' = next_step
      BY <1>6, PipelineWorker DEF WorkerFails, mainVars
    <2>2. \A k \in 1 .. Len(delivered) : k \in 1 .. Len(Pipeline) /\ delivered[k] = Pipeline[k]
      <3>1. /\ delivered \in Seq(Nat) /\ inflight \in Seq(Nat) /\ buffer \in Seq(Nat)
        BY DEF TypeOK
      <3>2. inflight \o buffer \in Seq(Nat)
        BY <3>1, ConcatProperties
      <3>3. Pipeline = delivered \o (inflight \o buffer)
        BY <3>1, ConcatRegroups, Zenon DEF Pipeline
      <3>4. Len(delivered) \in Nat /\ Len(inflight \o buffer) \in Nat
        BY <3>1, <3>2, LenProperties
      <3>5. QED
        BY <3>1, <3>2, <3>3, <3>4, ConcatParts
    <2>3. QED
      BY <2>1, <2>2 DEF Gone
  <1>7. QED
    <2>1. \/ EnqueueFree \/ EnqueueFull \/ WorkerPops \/ WriteReturns \/ WorkerFails
          \/ UNCHANGED <<delivered, inflight, buffer, next_step>>
      BY DEF Next, MainStep, WorkerStep, Done, Report, EnqueueRaises, RunEnds, Interrupted,
             CloseBegins, CloseReturnsAtOnce, JoinReturns, JoinInterrupted, CloseEnds,
             WorkerWaits, WorkerReturns, WriteRaises, Tick, vars, queueVars, workerVars,
             mainVars
    <2>2. QED
      BY <1>2, <1>3, <1>4, <1>5, <1>6, <2>1

\* The evicted step, when it leaves.
LEMMA EvictedIsGone ==
    ASSUME TypeOK, Flow, InOrder, EnqueueFull, NEW d, d = buffer[DropIndex + 1]
    PROVE  /\ d \in Nat /\ d < next_step
           /\ Gone(d)'
           /\ pending'.dropped = d /\ pending'.incoming = next_step
  <1> DEFINE r == RemoveAt(Pipeline, EvictedPlace)
  <1>1. next_step \in Nat /\ Pipeline \in Seq(Nat) /\ Len(Pipeline) \in Nat
    BY PipelineType, LenProperties DEF TypeOK
  <1>2. /\ EvictedPlace \in 1 .. Len(Pipeline)
        /\ d = Pipeline[EvictedPlace]
        /\ Pipeline' = Append(r, next_step) /\ next_step' = next_step + 1
    BY PipelineAccept DEF EnqueueFull, Accept
  <1>3. /\ r \in Seq(Nat) /\ Len(r) = Len(Pipeline) - 1
        /\ \A k \in 1 .. Len(Pipeline) - 1 :
              r[k] = IF k < EvictedPlace THEN Pipeline[k] ELSE Pipeline[k + 1]
    BY <1>1, <1>2, RemoveAtProperties
  <1>4. d \in Nat /\ d < next_step
    BY <1>1, <1>2, ElementOfSeq DEF InOrder
  <1> HIDE DEF r
  <1>5. \A k \in 1 .. Len(r) : r[k] # d
    <2>1. TAKE k \in 1 .. Len(r)
    <2>2. k \in 1 .. Len(Pipeline) /\ k + 1 \in 1 .. Len(Pipeline) /\ k \in 1 .. Len(Pipeline) - 1
      BY <1>1, <1>3
    <2>3. Pipeline[k] \in Nat /\ Pipeline[k + 1] \in Nat
      BY <1>1, <2>2, ElementOfSeq
    <2>4. CASE k < EvictedPlace
      <3>1. r[k] = Pipeline[k] /\ Pipeline[k] < d
        BY <1>2, <1>3, <2>2, <2>4 DEF InOrder
      <3>2. QED
        BY <1>4, <2>3, <3>1
    <2>5. CASE ~(k < EvictedPlace)
      <3>1. r[k] = Pipeline[k + 1] /\ d < Pipeline[k + 1]
        BY <1>2, <1>3, <2>2, <2>5 DEF InOrder
      <3>2. QED
        BY <1>4, <2>3, <3>1
    <2>6. QED
      BY <2>4, <2>5
  <1>6. Gone(d)'
    <2>1. /\ Len(Append(r, next_step)) = Len(r) + 1
          /\ \A k \in 1 .. Len(r) : Append(r, next_step)[k] = r[k]
          /\ Append(r, next_step)[Len(r) + 1] = next_step
      BY <1>1, <1>3, AppendProperties
    <2>2. \A k \in 1 .. Len(Pipeline') : Pipeline'[k] # d
      BY <1>1, <1>2, <1>3, <1>4, <1>5, <2>1
    <2>3. d < next_step'
      BY <1>1, <1>2, <1>4
    <2>4. QED
      BY <2>2, <2>3 DEF Gone
  <1>7. pending'.dropped = d /\ pending'.incoming = next_step
    <2>1. Accept(RemoveAt(buffer, DropIndex + 1), d)
      BY DEF EnqueueFull
    <2>2. QED
      BY <2>1 DEF Accept
  <1>8. QED
    BY <1>4, <1>6, <1>7

\* Every step the log reports, or is about to report, as evicted is gone.
DropsGone ==
    /\ \A i \in 1 .. Len(drop_log) :
          drop_log[i].dropped < drop_log[i].incoming /\ Gone(drop_log[i].dropped)
    /\ pending.dropped # None =>
          pending.dropped < pending.incoming /\ Gone(pending.dropped)

LEMMA DropsGoneStep ==
    ASSUME TypeOK, Flow, InOrder, ReportInv, DropsGone, [Next]_vars
    PROVE  DropsGone'
  <1>1. \A d \in Nat : Gone(d) => Gone(d)'
    BY GoneStays
  <1>2. \A i \in 1 .. Len(drop_log) :
           drop_log[i].dropped \in Nat /\ drop_log[i].incoming \in Nat
    <2>1. \A i \in 1 .. Len(drop_log) : drop_log[i] \in [dropped : Nat, incoming : Nat]
      BY ElementOfSeq DEF TypeOK
    <2>2. QED
      BY <2>1
  <1>3. pending.dropped # None => pending.dropped \in Nat /\ pending.incoming \in Nat
    BY DEF TypeOK
  <1>4. \A i \in 1 .. Len(drop_log) :
           LET d == drop_log[i].dropped
           IN  d < next_step' /\ \A k \in 1 .. Len(Pipeline') : Pipeline'[k] # d
    BY <1>1, <1>2 DEF DropsGone, Gone
  <1>5. pending.dropped # None =>
           LET d == pending.dropped
           IN  d < next_step' /\ \A k \in 1 .. Len(Pipeline') : Pipeline'[k] # d
    BY <1>1, <1>3 DEF DropsGone, Gone
  <1>6. CASE UNCHANGED <<drop_log, pending>>
    BY <1>4, <1>5, <1>6 DEF DropsGone, Gone
  <1>7. CASE EnqueueFree
    <2>1. drop_log' = drop_log /\ pending'.dropped = None
      BY <1>7 DEF EnqueueFree, Accept, reportVars
    <2>2. QED
      BY <1>4, <2>1 DEF DropsGone, Gone
  <1>8. CASE EnqueueFull
    <2> DEFINE d == buffer[DropIndex + 1]
    <2>1. PICK e : e = d
      OBVIOUS
    <2>2. e \in Nat /\ e < next_step /\ Gone(e)' /\ pending'.dropped = e
          /\ pending'.incoming = next_step
      BY <1>8, <2>1, EvictedIsGone
    <2>3. drop_log' = drop_log
      BY <1>8 DEF EnqueueFull, reportVars
    <2>4. QED
      BY <1>4, <2>2, <2>3 DEF DropsGone, Gone
  <1>9. CASE Report
    <2>1. pending'.dropped = None
      BY <1>9 DEF Report, NothingToReport
    <2>2. CASE pending.dropped = None
      <3>1. drop_log' = drop_log
        BY <1>9, <2>2 DEF Report
      <3>2. QED
        BY <1>4, <2>1, <3>1 DEF DropsGone, Gone
    <2>3. CASE pending.dropped # None
      <3> DEFINE r == [dropped |-> pending.dropped, incoming |-> pending.incoming]
      <3>1. drop_log' = Append(drop_log, r)
        BY <1>9, <2>3 DEF Report
      <3>2. /\ r \in [dropped : Nat, incoming : Nat]
            /\ r.dropped = pending.dropped /\ r.incoming = pending.incoming
        BY <1>3, <2>3
      <3> HIDE DEF r
      <3>3. /\ Len(drop_log') = Len(drop_log) + 1 /\ Len(drop_log) \in Nat
            /\ \A i \in 1 .. Len(drop_log) : drop_log'[i] = drop_log[i]
            /\ drop_log'[Len(drop_log) + 1] = r
        BY <3>1, <3>2, AppendProperties, LenProperties DEF TypeOK
      <3>4. ASSUME NEW i \in 1 .. Len(drop_log')
            PROVE  /\ drop_log'[i].dropped < drop_log'[i].incoming
                   /\ drop_log'[i].dropped < next_step'
                   /\ \A k \in 1 .. Len(Pipeline') : Pipeline'[k] # drop_log'[i].dropped
        <4>1. CASE i \in 1 .. Len(drop_log)
          <5>1. drop_log'[i] = drop_log[i]
            BY <3>3, <4>1
          <5>2. QED
            BY <1>4, <4>1, <5>1 DEF DropsGone
        <4>2. CASE i = Len(drop_log) + 1
          <5>1. drop_log'[i] = r
            BY <3>3, <4>2
          <5>2. QED
            BY <1>5, <2>3, <3>2, <5>1 DEF DropsGone
        <4>3. QED
          BY <3>3, <4>1, <4>2
      <3>5. QED
        BY <2>1, <3>4 DEF DropsGone, Gone
    <2>4. QED
      BY <2>2, <2>3
  <1>10. QED
    <2>1. EnqueueFree \/ EnqueueFull \/ Report \/ UNCHANGED <<drop_log, pending>>
      BY DEF Next, MainStep, WorkerStep, Done, EnqueueRaises, RunEnds, Interrupted,
             CloseBegins, CloseReturnsAtOnce, JoinReturns, JoinInterrupted, CloseEnds,
             WorkerWaits, WorkerPops, WorkerReturns, WriteReturns, WriteRaises, WorkerFails,
             Tick, vars, mainVars, reportVars
    <2>2. QED
      BY <1>6, <1>7, <1>8, <1>9, <2>1

-------------------------------------------------------------------------------
(* The eviction cursor.                                                    *)

\* Within a pass of the cursor over the queue, the snapshot in front of the next one
\* to evict is newer than the last one evicted; when the cursor is at the head, a
\* newer one has already left the queue.
PassInv ==
    Capacity > 1 /\ pass_evicted # None =>
      /\ next_drop_index \in 1 .. Len(buffer) => buffer[next_drop_index] > pass_evicted
      /\ next_drop_index = 0 /\ ~error =>
            \E k \in 1 .. Len(delivered \o inflight) :
               (delivered \o inflight)[k] > pass_evicted
      /\ pass_evicted < next_step

\* In a full queue the next snapshot to evict is the one under the cursor.
LEMMA CursorIsDropIndex ==
    ASSUME TypeOK, Bounded, EnqueueFull
    PROVE  DropIndex = next_drop_index /\ Len(buffer) = Capacity
  BY CapacityAssumption, LenProperties DEF TypeOK, Bounded, EnqueueFull, DropIndex

\* Queue elements are ordered, and newer than what left the queue.
LEMMA BufferOrder ==
    ASSUME TypeOK, InOrder
    PROVE  /\ \A j, k \in 1 .. Len(buffer) : j < k => buffer[j] < buffer[k]
           /\ \A j \in 1 .. Len(delivered \o inflight), k \in 1 .. Len(buffer) :
                 (delivered \o inflight)[j] < buffer[k]
           /\ \A k \in 1 .. Len(buffer) : buffer[k] \in Nat /\ buffer[k] < next_step
  <1> DEFINE a == delivered \o inflight
  <1>1. /\ \A k \in 1 .. Len(buffer) :
              Len(a) + k \in 1 .. Len(Pipeline) /\ Pipeline[Len(a) + k] = buffer[k]
        /\ \A k \in 1 .. Len(a) : k \in 1 .. Len(Pipeline) /\ Pipeline[k] = a[k]
        /\ Len(a) \in Nat /\ Len(Pipeline) \in Nat /\ Len(buffer) \in Nat
        /\ \A k \in 1 .. Len(Pipeline) : Pipeline[k] \in Nat
    BY PipelineElements
  <1> HIDE DEF a
  <1>2. ASSUME NEW j \in 1 .. Len(buffer), NEW k \in 1 .. Len(buffer), j < k
        PROVE  buffer[j] < buffer[k]
    <2>1. Len(a) + j < Len(a) + k
      BY <1>1, <1>2
    <2>2. QED
      BY <1>1, <2>1 DEF InOrder
  <1>3. ASSUME NEW j \in 1 .. Len(a), NEW k \in 1 .. Len(buffer)
        PROVE  a[j] < buffer[k]
    <2>1. j < Len(a) + k
      BY <1>1
    <2>2. QED
      BY <1>1, <2>1 DEF InOrder
  <1>4. \A k \in 1 .. Len(buffer) : buffer[k] \in Nat /\ buffer[k] < next_step
    BY <1>1 DEF InOrder
  <1>5. QED
    BY <1>2, <1>3, <1>4 DEF a

LEMMA PassInvStep ==
    ASSUME TypeOK, Flow, InOrder, Bounded, PassInv, [Next]_vars
    PROVE  PassInv'
  <1> USE NoneAssumption, CapacityAssumption
  <1>1. /\ buffer \in Seq(Nat) /\ Len(buffer) \in Nat /\ next_step \in Nat
        /\ next_drop_index \in Nat /\ pass_evicted \in Nat \cup {None}
    BY LenProperties DEF TypeOK
  <1>2. CASE UNCHANGED <<delivered, inflight, buffer, next_step, next_drop_index,
                         pass_evicted, error>>
    BY <1>2 DEF PassInv
  <1>3. CASE EnqueueFree
    <2>1. /\ buffer' = Append(buffer, next_step) /\ next_step' = next_step + 1
          /\ UNCHANGED <<delivered, inflight, next_drop_index, pass_evicted, error>>
      BY <1>3 DEF EnqueueFree, Accept, stateVars
    <2>2. /\ Len(buffer') = Len(buffer) + 1
          /\ \A k \in 1 .. Len(buffer) : buffer'[k] = buffer[k]
          /\ buffer'[Len(buffer) + 1] = next_step
      BY <1>1, <2>1, AppendProperties
    <2>3. SUFFICES ASSUME Capacity > 1, pass_evicted # None
                   PROVE  /\ next_drop_index \in 1 .. Len(buffer') =>
                                buffer'[next_drop_index] > pass_evicted
                          /\ pass_evicted < next_step'
      BY <2>1 DEF PassInv
    <2>4. pass_evicted \in Nat /\ pass_evicted < next_step
      BY <1>1, <2>3 DEF PassInv
    <2>5. ASSUME next_drop_index \in 1 .. Len(buffer')
          PROVE  buffer'[next_drop_index] > pass_evicted
      <3>1. CASE next_drop_index \in 1 .. Len(buffer)
        BY <2>2, <2>3, <3>1 DEF PassInv
      <3>2. CASE next_drop_index = Len(buffer) + 1
        BY <1>1, <2>2, <2>4, <3>2
      <3>3. QED
        BY <1>1, <2>2, <2>5, <3>1, <3>2
    <2>6. QED
      BY <1>1, <2>1, <2>4, <2>5
  <1>4. CASE EnqueueFull
    <2> DEFINE i == DropIndex
               r == RemoveAt(buffer, i + 1)
    <2>1. i \in 0 .. Len(buffer) - 1 /\ Len(buffer) = Capacity
      BY <1>4, CursorIsDropIndex, DropIndexInBuffer DEF EnqueueFull
    <2>2. /\ buffer' = Append(r, next_step) /\ next_step' = next_step + 1
          /\ next_drop_index' = IF i + 1 >= Capacity THEN 0 ELSE i + 1
          /\ pass_evicted' = IF next_drop_index' = 0 THEN None ELSE buffer[i + 1]
      BY <1>4 DEF EnqueueFull, Accept, CursorAfterDrop
    <2> HIDE DEF i
    <2>3. /\ r \in Seq(Nat) /\ Len(r) = Len(buffer) - 1
          /\ \A k \in 1 .. Len(buffer) - 1 : r[k] = IF k < i + 1 THEN buffer[k] ELSE buffer[k + 1]
      <3>1. i + 1 \in 1 .. Len(buffer)
        BY <1>1, <2>1
      <3> DEFINE p == i + 1
      <3> HIDE DEF p
      <3>2. p \in 1 .. Len(buffer)
        BY <3>1 DEF p
      <3>3. /\ RemoveAt(buffer, p) \in Seq(Nat) /\ Len(RemoveAt(buffer, p)) = Len(buffer) - 1
            /\ \A k \in 1 .. Len(buffer) - 1 :
                  RemoveAt(buffer, p)[k] = IF k < p THEN buffer[k] ELSE buffer[k + 1]
        BY <1>1, <3>2, RemoveAtProperties
      <3>4. QED
        BY <3>3 DEF p
    <2> HIDE DEF r
    <2>4. CASE i + 1 >= Capacity
      BY <2>2, <2>4 DEF PassInv
    <2>5. CASE ~(i + 1 >= Capacity)
      <3>1. /\ next_drop_index' = i + 1 /\ pass_evicted' = buffer[i + 1]
            /\ i + 1 \in 1 .. Len(buffer) - 1 /\ i + 2 \in 1 .. Len(buffer)
            /\ i + 1 \in 1 .. Len(buffer)
        BY <1>1, <2>1, <2>2, <2>5
      <3>2. /\ buffer[i + 1] \in Nat /\ buffer[i + 2] \in Nat
            /\ buffer[i + 1] < buffer[i + 2] /\ buffer[i + 1] < next_step
        <4>1. \A j, k \in 1 .. Len(buffer) : j < k => buffer[j] < buffer[k]
          BY BufferOrder
        <4>2. \A k \in 1 .. Len(buffer) : buffer[k] \in Nat /\ buffer[k] < next_step
          BY BufferOrder
        <4>3. i + 1 < i + 2
          BY <2>1
        <4>4. QED
          BY <3>1, <4>1, <4>2, <4>3
      <3>3. r[i + 1] = buffer[i + 2]
        BY <1>1, <2>1, <2>3, <3>1
      <3>4. buffer'[i + 1] = r[i + 1]
        BY <1>1, <2>2, <2>3, <3>1, AppendProperties
      <3>5. buffer'[next_drop_index'] > pass_evicted'
        BY <3>1, <3>2, <3>3, <3>4
      <3>6. pass_evicted' < next_step' /\ next_drop_index' # 0
        BY <1>1, <2>1, <2>2, <3>1, <3>2
      <3>7. QED
        BY <3>5, <3>6 DEF PassInv
    <2>6. QED
      BY <2>4, <2>5
  <1>5. CASE WorkerPops
    <2> DEFINE a == delivered \o inflight
    <2>1. /\ buffer # <<>> /\ buffer' = Tail(buffer)
          /\ next_drop_index' = CursorAfterPop
          /\ inflight = <<>> /\ inflight' = <<Head(buffer)>> /\ ~error
          /\ UNCHANGED <<delivered, next_step, pass_evicted, error>>
      BY <1>5 DEF WorkerPops, Flow, WorkerFlow, stateVars, mainVars
    <2>2. /\ Len(buffer) >= 1 /\ Head(buffer) = buffer[1]
          /\ Len(buffer') = Len(buffer) - 1
          /\ \A k \in 1 .. Len(buffer) - 1 : buffer'[k] = buffer[k + 1]
      BY <1>1, <2>1, EmptySeq, HeadTailProperties
    <2>3. /\ Len(delivered' \o inflight') = Len(delivered) + 1
          /\ (delivered' \o inflight')[Len(delivered) + 1] = buffer[1]
          /\ Len(delivered) \in Nat
      <3> DEFINE h == <<Head(buffer)>>
      <3>1. h \in Seq(Nat) /\ Len(h) = 1 /\ h[1] = buffer[1] /\ delivered \in Seq(Nat)
        BY <1>1, <2>1, <2>2, HeadTailProperties DEF TypeOK
      <3>2. delivered' \o inflight' = delivered \o h
        BY <2>1
      <3> HIDE DEF h
      <3>3. /\ Len(delivered \o h) = Len(delivered) + Len(h) /\ Len(delivered) \in Nat
            /\ \A k \in 1 .. Len(h) : (delivered \o h)[Len(delivered) + k] = h[k]
        <4>1. h \in Seq(Nat) /\ delivered \in Seq(Nat)
          BY <3>1
        <4>2. QED
          BY <4>1, ConcatParts, LenProperties
      <3>4. QED
        BY <3>1, <3>2, <3>3
    <2>4. SUFFICES ASSUME Capacity > 1, pass_evicted # None
                   PROVE  /\ next_drop_index' \in 1 .. Len(buffer') =>
                                buffer'[next_drop_index'] > pass_evicted
                          /\ next_drop_index' = 0 =>
                                \E k \in 1 .. Len(delivered' \o inflight') :
                                   (delivered' \o inflight')[k] > pass_evicted
      BY <2>1 DEF PassInv
    <2>5. pass_evicted \in Nat
      BY <1>1, <2>4
    <2>6. CASE next_drop_index = 0
      <3>1. next_drop_index' = 1
        BY <2>1, <2>4, <2>6 DEF CursorAfterPop
      <3>2. PICK k \in 1 .. Len(a) : a[k] > pass_evicted
        BY <2>1, <2>4, <2>6 DEF PassInv
      <3>3. ASSUME 1 \in 1 .. Len(buffer') PROVE buffer'[1] > pass_evicted
        <4>1. 2 \in 1 .. Len(buffer) /\ buffer'[1] = buffer[2]
          BY <1>1, <2>2, <3>3
        <4>2. a[k] < buffer[2] /\ buffer[2] \in Nat /\ a[k] \in Nat
          <5>1. a[k] \in Nat
            BY PipelineElements
          <5>2. QED
            BY <4>1, <5>1, BufferOrder
        <4>3. QED
          BY <2>5, <3>2, <4>1, <4>2
      <3>4. QED
        BY <3>1, <3>3
    <2>7. CASE next_drop_index = 1
      <3>1. next_drop_index' = 0
        BY <2>1, <2>7 DEF CursorAfterPop
      <3>2. buffer[1] > pass_evicted
        BY <1>1, <2>2, <2>4, <2>7 DEF PassInv
      <3>3. QED
        BY <2>3, <3>1, <3>2
    <2>8. CASE next_drop_index > 1
      <3>1. next_drop_index' = next_drop_index - 1
        BY <1>1, <2>1, <2>8 DEF CursorAfterPop
      <3>2. ASSUME next_drop_index' \in 1 .. Len(buffer')
            PROVE  buffer'[next_drop_index'] > pass_evicted
        <4>1. /\ next_drop_index \in 1 .. Len(buffer)
              /\ next_drop_index - 1 \in 1 .. Len(buffer) - 1
              /\ (next_drop_index - 1) + 1 = next_drop_index
          BY <1>1, <2>2, <2>8, <3>1, <3>2
        <4>2. buffer'[next_drop_index'] = buffer[next_drop_index]
          BY <2>2, <3>1, <4>1
        <4>3. QED
          BY <2>4, <4>1, <4>2 DEF PassInv
      <3>3. QED
        BY <1>1, <2>8, <3>1, <3>2
    <2>9. QED
      BY <1>1, <2>6, <2>7, <2>8
  <1>6. CASE WriteReturns
    <2>1. /\ delivered' = delivered \o inflight /\ inflight' = <<>>
          /\ UNCHANGED <<buffer, next_step, next_drop_index, pass_evicted, error>>
      BY <1>6 DEF WriteReturns, queueVars, stateVars, mainVars
    <2>2. delivered' \o inflight' = delivered \o inflight
      BY <2>1, PipelineType, ConcatEmptySeq
    <2>3. QED
      BY <2>1, <2>2 DEF PassInv
  <1>7. CASE WorkerFails
    <2>1. /\ buffer' = <<>> /\ error' = TRUE
          /\ UNCHANGED <<next_step, next_drop_index, pass_evicted>>
      BY <1>7 DEF WorkerFails, mainVars
    <2>2. Len(buffer') = 0
      BY <2>1
    <2>3. ~(next_drop_index' \in 1 .. Len(buffer'))
      BY <2>2
    <2>4. QED
      BY <2>1, <2>3 DEF PassInv
  <1>8. QED
    <2>1. \/ EnqueueFree \/ EnqueueFull \/ WorkerPops \/ WriteReturns \/ WorkerFails
          \/ UNCHANGED <<delivered, inflight, buffer, next_step, next_drop_index,
                         pass_evicted, error>>
      BY DEF Next, MainStep, WorkerStep, Done, Report, EnqueueRaises, RunEnds, Interrupted,
             CloseBegins, CloseReturnsAtOnce, JoinReturns, JoinInterrupted, CloseEnds,
             WorkerWaits, WorkerReturns, WriteRaises, Tick, vars, queueVars, workerVars,
             mainVars, stateVars
    <2>2. QED
      BY <1>2, <1>3, <1>4, <1>5, <1>6, <1>7, <2>1

-------------------------------------------------------------------------------
(* Notifications: AlertsLimited needs that a threshold which is to be      *)
(* announced was not announced before, and that the announcements of a     *)
(* high buffer, the one that main still has to make included, fitted in    *)
(* the time until the last of them was decided on.                         *)

UnsentHigh == IF pending.high = None THEN 0 ELSE 1

LowAlerts ==
    \A p \in LowPercents :
       /\ low_sent[p] <= 1
       /\ low_sent[p] = 1 => p \in notified_thresholds
       /\ p \in pending.low => p \in notified_thresholds /\ low_sent[p] = 0

HighAlerts ==
    /\ last_high_notification_at = None => high_sent + UnsentHigh = 0
    /\ last_high_notification_at # None =>
          /\ last_high_notification_at <= now
          /\ (high_sent + UnsentHigh - 1) * Interval <= last_high_notification_at

AlertInv == LowAlerts /\ HighAlerts

\* One more interval fits when one has passed.
LEMMA OneMoreInterval ==
    ASSUME NEW d \in Nat, NEW k \in Nat, NEW last \in Nat, NEW time \in Nat,
           (k - 1) * d <= last, time - last >= d
    PROVE  (k + 1 - 1) * d <= time
  <1>1. (k + 1 - 1) * d = (k - 1) * d + d
    BY SMT
  <1>2. (k - 1) * d \in Int
    OBVIOUS
  <1>3. QED
    BY <1>1, <1>2

LEMMA FewerIntervals ==
    ASSUME NEW d \in Nat, NEW k \in Nat, NEW last \in Nat, k * d <= last
    PROVE  (k - 1) * d <= last
  <1>1. k * d = (k - 1) * d + d
    BY SMT
  <1>2. (k - 1) * d \in Int /\ k * d \in Int
    OBVIOUS
  <1>3. QED
    BY <1>1, <1>2

\* An enqueue: what it decides to announce is new, or due.
LEMMA EnqueueAlerts ==
    ASSUME TypeOK, Idle, AlertInv, main = "run", NEW kept, NEW dropped,
           Accept(kept, dropped), UNCHANGED <<reportVars, now>>
    PROVE  AlertInv'
  <1> USE NoneAssumption DEF reportVars
  <1> DEFINE depth == Len(kept) + 1
             due == HighDue(depth)
             loss == dropped_since_high_notification + IF dropped = None THEN 0 ELSE 1
  <1>1. /\ pending = NothingToReport /\ UNCHANGED <<low_sent, high_sent, now>>
        /\ high_sent \in Nat /\ now \in Nat
        /\ last_high_notification_at \in Nat \cup {None}
    BY DEF Idle, TypeOK
  <1>2. /\ pending' = [dropped |-> dropped, incoming |-> next_step,
                       low |-> CrossedLow(depth), high |-> IF due THEN loss ELSE None]
        /\ notified_thresholds' = notified_thresholds \cup CrossedLow(depth)
        /\ last_high_notification_at' = IF due THEN now ELSE last_high_notification_at
    BY DEF Accept
  <1>3. loss \in Nat
    BY DEF TypeOK
  <1>4. due => \/ last_high_notification_at = None
               \/ now - last_high_notification_at >= Interval
    BY DEF HighDue
  <1>5. pending'.low = CrossedLow(depth) /\ pending'.high = IF due THEN loss ELSE None
    BY <1>2
  <1>6. LowAlerts'
    <2>1. \A p \in CrossedLow(depth) : p \in LowPercents /\ p \notin notified_thresholds
      BY DEF CrossedLow
    <2> HIDE DEF depth, due, loss
    <2>2. ASSUME NEW p \in LowPercents
          PROVE  /\ low_sent'[p] <= 1
                 /\ low_sent'[p] = 1 => p \in notified_thresholds'
                 /\ p \in pending'.low => p \in notified_thresholds' /\ low_sent'[p] = 0
      <3>1. low_sent[p] \in Nat
        BY DEF TypeOK
      <3>2. low_sent[p] <= 1 /\ (low_sent[p] = 1 => p \in notified_thresholds)
        BY DEF AlertInv, LowAlerts
      <3>3. p \notin notified_thresholds => low_sent[p] = 0
        BY <3>1, <3>2
      <3>4. QED
        BY <1>1, <1>2, <1>5, <2>1, <3>2, <3>3
    <2>3. QED
      BY <2>2 DEF LowAlerts
  <1>7. UnsentHigh = 0 /\ UnsentHigh' = IF due THEN 1 ELSE 0
    BY <1>1, <1>3, <1>5 DEF UnsentHigh, NothingToReport
  <1> HIDE DEF depth, due, loss
  <1>8. HighAlerts'
    <2>1. CASE ~due
      BY <1>1, <1>2, <1>7, <2>1 DEF AlertInv, HighAlerts
    <2>2. CASE due /\ last_high_notification_at = None
      <3>1. high_sent = 0
        BY <1>1, <1>7, <2>2 DEF AlertInv, HighAlerts
      <3>2. (high_sent' + UnsentHigh' - 1) = 0
        BY <1>1, <1>7, <2>2, <3>1
      <3>3. last_high_notification_at' = now /\ now' = now
        BY <1>1, <1>2, <2>2
      <3>4. 0 * Interval = 0
        BY TimeAssumption
      <3>5. (high_sent' + UnsentHigh' - 1) * Interval = 0
        BY <3>2, <3>4
      <3>6. QED
        BY <1>1, <3>3, <3>5 DEF HighAlerts
    <2>3. CASE due /\ last_high_notification_at # None
      <3>1. /\ (high_sent - 1) * Interval <= last_high_notification_at
            /\ now - last_high_notification_at >= Interval
            /\ last_high_notification_at \in Nat
        BY <1>1, <1>4, <1>7, <2>3 DEF AlertInv, HighAlerts
      <3>2. (high_sent + 1 - 1) * Interval <= now
        BY <1>1, <3>1, TimeAssumption, OneMoreInterval
      <3>3. last_high_notification_at' = now /\ now' = now /\ high_sent' = high_sent
            /\ UnsentHigh' = 1
        BY <1>1, <1>2, <1>7, <2>3
      <3>4. QED
        BY <1>1, <3>2, <3>3 DEF HighAlerts
    <2>4. QED
      BY <2>1, <2>2, <2>3
  <1>9. QED
    BY <1>6, <1>8 DEF AlertInv

LEMMA AlertStep == TypeOK /\ Idle /\ AlertInv /\ [Next]_vars => AlertInv'
  <1> SUFFICES ASSUME TypeOK, Idle, AlertInv, [Next]_vars PROVE AlertInv'
    OBVIOUS
  <1> USE DEF queueVars, stateVars, alertVars, workerVars, mainVars, reportVars
  <1>1. CASE EnqueueFree \/ EnqueueFull
    <2>1. main = "run" /\ UNCHANGED <<reportVars, now>>
      BY <1>1 DEF EnqueueFree, EnqueueFull
    <2>2. \/ Accept(buffer, None)
          \/ Accept(RemoveAt(buffer, DropIndex + 1), buffer[DropIndex + 1])
      BY <1>1 DEF EnqueueFree, EnqueueFull
    <2>3. QED
      BY <2>1, <2>2, EnqueueAlerts
  <1>2. CASE Report
    <2>1. /\ pending' = NothingToReport /\ now' = now
          /\ UNCHANGED <<notified_thresholds, last_high_notification_at>>
          /\ low_sent' = [p \in LowPercents |->
                             low_sent[p] + IF p \in pending.low THEN 1 ELSE 0]
          /\ high_sent' = high_sent + UnsentHigh
      BY <1>2 DEF Report, UnsentHigh, TypeOK
    <2>2. LowAlerts'
      <3>1. ASSUME NEW p \in LowPercents
            PROVE  /\ low_sent'[p] <= 1
                   /\ low_sent'[p] = 1 => p \in notified_thresholds'
                   /\ p \notin pending'.low
        BY <2>1 DEF AlertInv, LowAlerts, NothingToReport, TypeOK
      <3>2. QED
        BY <3>1 DEF LowAlerts
    <2>3. UnsentHigh' = 0 /\ UnsentHigh \in Nat /\ high_sent \in Nat
      BY <2>1 DEF UnsentHigh, NothingToReport, TypeOK
    <2>4. HighAlerts'
      <3>1. /\ high_sent' + UnsentHigh' = high_sent + UnsentHigh
            /\ (high_sent' + UnsentHigh' - 1) * Interval
                  = (high_sent + UnsentHigh - 1) * Interval
        <4>1. high_sent' + UnsentHigh' = high_sent + UnsentHigh
          BY <2>1, <2>3
        <4>2. high_sent' + UnsentHigh' - 1 = high_sent + UnsentHigh - 1
          BY <2>1, <2>3
        <4>3. QED
          BY <4>1, <4>2, Zenon
      <3>2. /\ last_high_notification_at' = last_high_notification_at
            /\ now' = now
        BY <2>1
      <3>3. HighAlerts
        BY DEF AlertInv
      <3>4. QED
        BY <3>1, <3>2, <3>3 DEF HighAlerts
    <2>5. QED
      BY <2>2, <2>4 DEF AlertInv
  <1>3. CASE Tick
    <2>1. /\ now' = now + 1 /\ now \in Nat
          /\ last_high_notification_at \in Nat \cup {None}
          /\ UNCHANGED <<pending, notified_thresholds, last_high_notification_at, low_sent,
                         high_sent>>
      BY <1>3 DEF Tick, TypeOK
    <2>2. UnsentHigh' = UnsentHigh /\ LowAlerts'
      BY <2>1 DEF UnsentHigh, AlertInv, LowAlerts
    <2>3. HighAlerts'
      BY <2>1, <2>2 DEF AlertInv, HighAlerts
    <2>4. QED
      BY <2>2, <2>3 DEF AlertInv
  <1>4. CASE UNCHANGED <<pending, notified_thresholds, last_high_notification_at, low_sent,
                         high_sent, now>>
    BY <1>4 DEF AlertInv, LowAlerts, HighAlerts, UnsentHigh
  <1>5. QED
    <2>1. \/ EnqueueFree \/ EnqueueFull \/ Report \/ Tick
          \/ UNCHANGED <<pending, notified_thresholds, last_high_notification_at, low_sent,
                         high_sent, now>>
      BY DEF Next, MainStep, WorkerStep, Done, EnqueueRaises, RunEnds, Interrupted,
             CloseBegins, CloseReturnsAtOnce, JoinReturns, JoinInterrupted, CloseEnds,
             WorkerWaits, WorkerPops, WorkerReturns, WriteReturns, WriteRaises,
             WorkerFails, vars
    <2>2. QED
      BY <1>1, <1>2, <1>3, <1>4, <2>1

LEMMA AlertsFollow == ASSUME TypeOK, AlertInv PROVE AlertsLimited
  <1>1. \A p \in LowPercents : low_sent[p] <= 1
    BY DEF AlertInv, LowAlerts
  <1>2. (high_sent - 1) * Interval <= now
    <2>1. /\ high_sent \in Nat /\ now \in Nat /\ UnsentHigh \in {0, 1}
          /\ last_high_notification_at \in Nat \cup {None} /\ Interval \in Nat
      BY TimeAssumption DEF TypeOK, UnsentHigh
    <2>2. CASE last_high_notification_at = None
      <3>1. high_sent = 0
        BY <2>1, <2>2 DEF AlertInv, HighAlerts
      <3>2. (0 - 1) * Interval = -Interval
        BY <2>1
      <3>3. QED
        BY <2>1, <3>1, <3>2
    <2>3. CASE last_high_notification_at # None
      <3>1. /\ last_high_notification_at <= now /\ last_high_notification_at \in Nat
            /\ (high_sent + UnsentHigh - 1) * Interval <= last_high_notification_at
        BY <2>1, <2>3 DEF AlertInv, HighAlerts
      <3>2. CASE UnsentHigh = 0
        <4>1. high_sent + UnsentHigh - 1 = high_sent - 1
          BY <2>1, <3>2
        <4>2. (high_sent - 1) * Interval \in Int
          BY <2>1
        <4>3. QED
          BY <2>1, <3>1, <4>1, <4>2
      <3>3. CASE UnsentHigh = 1
        <4>1. high_sent + UnsentHigh - 1 = high_sent
          BY <2>1, <3>3
        <4>2. high_sent * Interval <= last_high_notification_at
          BY <3>1, <4>1
        <4>3. (high_sent - 1) * Interval <= last_high_notification_at
          BY <2>1, <3>1, <4>2, FewerIntervals
        <4>4. (high_sent - 1) * Interval \in Int
          BY <2>1
        <4>5. QED
          BY <2>1, <3>1, <4>3, <4>4
      <3>4. QED
        BY <2>1, <3>2, <3>3
    <2>4. QED
      BY <2>1, <2>2, <2>3
  <1>3. QED
    BY <1>1, <1>2 DEF AlertsLimited

-------------------------------------------------------------------------------
(* The theorems.                                                           *)

IInv ==
    /\ TypeOK /\ Flow /\ NoLostWakeup /\ Bounded
    /\ InOrder /\ Accounted
    /\ ReportInv /\ AlertInv /\ DropsGone
    /\ PassInv

LEMMA IInvInit == Init => IInv
  <1> SUFFICES ASSUME Init PROVE IInv
    OBVIOUS
  <1>1. TypeOK /\ Flow
    BY TypeInit
  <1>2. NoLostWakeup /\ PassInv
    BY DEF Init, NoLostWakeup, PassInv
  <1>3. Bounded
    BY CapacityAssumption DEF Init, Bounded
  <1>4. Pipeline = <<>>
    BY DEF Init, Pipeline
  <1>5. InOrder
    BY <1>4 DEF InOrder
  <1>6. Accounted
    BY DEF Init, Accounted
  <1>7. ReportInv
    BY DEF Init, ReportInv, Idle, LogCounts, Losses, UnloggedDrops, UnsentLosses, NothingToReport
  <1>8. DropsGone
    BY DEF Init, DropsGone, NothingToReport
  <1>9. AlertInv
    BY TimeAssumption
       DEF Init, AlertInv, LowAlerts, HighAlerts, UnsentHigh, NothingToReport
  <1>10. QED
    BY <1>1, <1>2, <1>3, <1>5, <1>6, <1>7, <1>8, <1>9 DEF IInv

LEMMA IInvStep == IInv /\ [Next]_vars => IInv'
  <1> SUFFICES ASSUME IInv, [Next]_vars PROVE IInv'
    OBVIOUS
  <1> USE DEF IInv
  <1>1. TypeOK' /\ Flow'
    BY TypeStep, FlowStep
  <1>2. NoLostWakeup'
    BY NoLostWakeupStep
  <1>3. Bounded'
    BY BoundStep
  <1>4. InOrder'
    BY InOrderStep
  <1>5. Accounted'
    BY AccountedStep
  <1>6. ReportInv'
    BY ReportInvStep
  <1>7. DropsGone'
    BY DropsGoneStep
  <1>8. PassInv'
    BY PassInvStep
  <1>9. AlertInv'
    BY AlertStep DEF ReportInv
  <1>10. QED
    BY <1>1, <1>2, <1>3, <1>4, <1>5, <1>6, <1>7, <1>8, <1>9

THEOREM Invariance == Spec => []IInv
  BY IInvInit, IInvStep, PTL DEF Spec

\* Every variable keeps its type, in particular the eviction cursor its range
\* 0 .. Capacity - 1, whatever the capacity and the run.
THEOREM TypeCorrect == Spec => []TypeOK
  BY Invariance, PTL DEF IInv

\* Snapshots reach the output in production order and at most once.
THEOREM OrderPreserved == Spec => []InOrder
  BY Invariance, PTL DEF IInv

\* Every accepted snapshot is delivered, waiting, counted as dropped, or the one
\* whose write failed.
THEOREM NoStepUnaccounted == Spec => []Accounted
  BY Invariance, PTL DEF IInv

\* The worker never sleeps through an append or a close.
THEOREM WakeupNeverLost == Spec => []NoLostWakeup
  BY Invariance, PTL DEF IInv

\* The queue is bounded and its cursor always names a snapshot to evict.
THEOREM CursorValid == Spec => []CursorInQueue
  <1>1. IInv => CursorInQueue
    BY CapacityAssumption DEF IInv, TypeOK, Bounded, CursorInQueue
  <1>2. QED
    BY Invariance, <1>1, PTL

\* The output is closed at most once, after the last write.
THEOREM OutputNotUsedAfterClose == Spec => []OutputClosedLast
  <1>1. IInv => OutputClosedLast
    BY DEF IInv, TypeOK, Flow, MainFlow, OutputClosedLast
  <1>2. QED
    BY Invariance, <1>1, PTL

\* A run that ends without an exception has flushed everything it did not drop.
THEOREM CleanExitIsComplete == Spec => []CleanExitFlushed
  <1>1. ASSUME IInv, main = "exited", ~failed
        PROVE  Len(delivered) + dropped_steps = Steps /\ output_closed = 1
    <2>1. /\ closed /\ error = FALSE /\ next_step = Steps /\ output_closed = 1
          /\ worker = "ended"
      BY <1>1 DEF IInv, TypeOK, Flow, MainFlow
    <2>2. Len(inflight) = 0 /\ Len(buffer) = 0
      BY <1>1, <2>1 DEF IInv, Flow, WorkerFlow
    <2>3. Len(delivered) \in Nat /\ dropped_steps \in Nat /\ next_step \in Nat
      BY <1>1, LenProperties DEF IInv, TypeOK
    <2>4. next_step = Len(delivered) + Len(inflight) + Len(buffer) + dropped_steps + 0
      BY <1>1, <2>1 DEF IInv, Accounted
    <2>5. QED
      BY <2>1, <2>2, <2>3, <2>4
  <1>2. IInv => CleanExitFlushed
    BY <1>1 DEF CleanExitFlushed
  <1>3. QED
    BY Invariance, <1>2, PTL

\* The high-buffer notifications account for every eviction exactly once.
THEOREM LossReportsExact == Spec => []LossesReportedOnce
  <1>1. IInv => LossesReportedOnce
    BY DEF IInv, ReportInv, Losses, UnsentLosses, UnloggedDrops, LossesReportedOnce
  <1>2. QED
    BY Invariance, <1>1, PTL

\* What the log calls evicted is never delivered, and no eviction goes unlogged.
THEOREM DropLogExact == Spec => []DropLogTrue
  <1>1. IInv => DropLogTrue
    BY DEF IInv, ReportInv, LogCounts, UnloggedDrops, DropsGone, Gone, DropLogTrue
  <1>2. QED
    BY Invariance, <1>1, PTL

\* Each low threshold is announced at most once in a run, and a high buffer no more often
\* than the interval allows, also when the queue runs full and empty again between.
THEOREM AlertsAreLimited == Spec => []AlertsLimited
  <1>1. IInv => AlertsLimited
    BY AlertsFollow DEF IInv
  <1>2. QED
    BY <1>1, Invariance, PTL

\* Within a pass of the cursor, something is kept between any two evictions.
THEOREM EveryOtherStepTheorem == Spec => EveryOtherStepDropped
  <1>1. ASSUME IInv, [Next]_vars PROVE [EveryOtherStep]_vars
    <2>1. SUFFICES ASSUME dropped_steps' = dropped_steps + 1, next_step' # next_step,
                          Capacity > 1, pass_evicted # None
                   PROVE  KeptBetween(pass_evicted, buffer[DropIndex + 1])
      BY DEF EveryOtherStep
    <2> DEFINE a == delivered \o inflight
    <2>2. TypeOK /\ Flow /\ InOrder /\ Bounded /\ PassInv
      BY <1>1 DEF IInv
    <2>3. dropped_steps \in Nat
      BY <2>2 DEF TypeOK
    <2>4. EnqueueFull
      BY <1>1, <2>1, <2>3
      DEF Next, MainStep, WorkerStep, Done, EnqueueFree, Report, EnqueueRaises, RunEnds,
          Interrupted, CloseBegins, CloseReturnsAtOnce, JoinReturns, JoinInterrupted,
          CloseEnds, WorkerWaits, WorkerPops, WorkerReturns, WriteReturns, WriteRaises,
          WorkerFails, Tick, vars, mainVars
    <2>5. DropIndex = next_drop_index /\ Len(buffer) = Capacity /\ ~error
      BY <2>2, <2>4, CursorIsDropIndex DEF EnqueueFull, Unavailable
    <2>6. /\ next_drop_index \in Nat /\ next_drop_index + 1 \in 1 .. Len(buffer)
          /\ pass_evicted \in Nat
      BY <2>1, <2>2, <2>5, CapacityAssumption DEF TypeOK
    <2>7. /\ \A k \in 1 .. Len(buffer) :
                Len(a) + k \in 1 .. Len(Pipeline) /\ Pipeline[Len(a) + k] = buffer[k]
          /\ \A k \in 1 .. Len(a) : k \in 1 .. Len(Pipeline) /\ Pipeline[k] = a[k]
      BY <2>2, PipelineElements
    <2>8. /\ \A j, k \in 1 .. Len(buffer) : j < k => buffer[j] < buffer[k]
          /\ \A j \in 1 .. Len(a), k \in 1 .. Len(buffer) : a[j] < buffer[k]
      BY <2>2, BufferOrder
    <2> HIDE DEF a
    <2>9. CASE next_drop_index = 0
      <3>1. PICK k \in 1 .. Len(a) : a[k] > pass_evicted
        BY <2>1, <2>2, <2>5, <2>9 DEF PassInv, a
      <3>2. a[k] < buffer[next_drop_index + 1]
        BY <2>6, <2>8
      <3>3. k \in 1 .. Len(Pipeline) /\ Pipeline[k] = a[k]
        BY <2>7
      <3>4. pass_evicted < Pipeline[k]
        BY <2>6, <3>1, <3>3
      <3>5. QED
        BY <2>5, <3>2, <3>3, <3>4 DEF KeptBetween
    <2>10. CASE next_drop_index # 0
      <3> DEFINE c == next_drop_index
      <3>1. c \in 1 .. Len(buffer) /\ c < c + 1 /\ c + 1 \in 1 .. Len(buffer)
        BY <2>6, <2>10
      <3>2. buffer[c] > pass_evicted
        BY <2>1, <2>2, <3>1 DEF PassInv
      <3>3. buffer[c] < buffer[c + 1]
        BY <2>8, <3>1
      <3>4. Len(a) + c \in 1 .. Len(Pipeline) /\ Pipeline[Len(a) + c] = buffer[c]
        BY <2>7, <3>1
      <3>5. QED
        BY <2>5, <3>2, <3>3, <3>4 DEF KeptBetween
    <2>11. QED
      BY <2>9, <2>10
  <1>2. QED
    BY Invariance, <1>1, PTL DEF Spec, EveryOtherStepDropped

-------------------------------------------------------------------------------
(* The abstract queue, LossyFifo.                                          *)

\* The initial state is the abstract one.
LEMMA FifoInit == Init => Fifo!Init
  <1> SUFFICES ASSUME Init PROVE Fifo!Init
    OBVIOUS
  <1>1. /\ next_step = 0 /\ inflight = <<>> /\ buffer = <<>> /\ delivered = <<>>
        /\ (~closing) = TRUE
    BY DEF Init
  <1>2. <<>> \in Seq(Nat)
    OBVIOUS
  <1>3. inflight \o buffer = <<>>
    BY <1>1, <1>2, ConcatEmptySeq
  <1>4. QED
    BY <1>1, <1>3 DEF Fifo!Init

\* An append without eviction, to the abstract queue.
LEMMA FifoEnqueueFree ==
    ASSUME TypeOK, Flow, Bounded, EnqueueFree
    PROVE  Fifo!Accept
  <1>1. /\ buffer \in Seq(Nat) /\ inflight \in Seq(Nat) /\ next_step \in Nat
        /\ Len(buffer) \in Nat /\ Len(inflight) \in Nat /\ Len(inflight) <= 1
    <2>1. buffer \in Seq(Nat) /\ inflight \in Seq(Nat) /\ next_step \in Nat
      BY DEF TypeOK
    <2>2. Len(buffer) \in Nat /\ Len(inflight) \in Nat
      BY <2>1, LenProperties
    <2>3. Len(inflight) = 1 \/ inflight = <<>>
      BY DEF Flow, WorkerFlow
    <2>4. Len(inflight) = 1 \/ Len(inflight) = 0
      BY <2>3
    <2>5. \A n \in {0, 1} : n <= 1
      OBVIOUS
    <2>6. Len(inflight) <= 1
      BY ONLY <2>4, <2>5, Zenon
    <2>7. QED
      BY <2>1, <2>2, <2>6
  <1>2. /\ closing = FALSE /\ closing' = FALSE /\ Len(buffer) < Capacity
        /\ buffer' = Append(buffer, next_step) /\ next_step' = next_step + 1
        /\ inflight' = inflight /\ delivered' = delivered
    BY DEF EnqueueFree, Accept, Unavailable, TypeOK, stateVars
  <1>3. Len(inflight \o buffer) = Len(inflight) + Len(buffer)
    BY <1>1, ConcatProperties
  <1>4. Len(inflight \o buffer) <= Capacity
    BY <1>1, <1>2, <1>3, CapacityAssumption
  <1>5. inflight' \o buffer' = Append(inflight \o buffer, next_step)
    BY <1>1, <1>2, AppendOfConcat
  <1>6. (~closing) /\ (~closing)' = ~closing
    BY <1>2
  <1>7. QED
    BY <1>2, <1>4, <1>5, <1>6 DEF Fifo!Accept

\* An append that evicts one element of the abstract queue.
LEMMA FifoEnqueueFull ==
    ASSUME TypeOK, Flow, Bounded, EnqueueFull
    PROVE  Fifo!Accept
  <1> DEFINE i == DropIndex + 1
             r == RemoveAt(buffer, i)
             q == inflight \o buffer
  <1>1. /\ buffer \in Seq(Nat) /\ inflight \in Seq(Nat) /\ next_step \in Nat
        /\ Len(buffer) \in Nat /\ Len(inflight) \in Nat
    BY LenProperties DEF TypeOK
  <1>2. /\ closing = FALSE /\ closing' = FALSE /\ Len(buffer) >= Capacity
        /\ buffer' = Append(r, next_step) /\ next_step' = next_step + 1
        /\ inflight' = inflight /\ delivered' = delivered
    BY DEF EnqueueFull, Accept, Unavailable, TypeOK, stateVars
  <1>3. i \in 1 .. Len(buffer)
    BY <1>1, <1>2, DropIndexInBuffer
  <1> HIDE DEF i
  <1>4. r \in Seq(Nat)
    BY <1>1, <1>3, RemoveAtProperties
  <1>5. /\ Len(inflight) + i \in 1 .. Len(q)
        /\ inflight \o r = RemoveAt(q, Len(inflight) + i)
    BY <1>1, <1>3, RemoveAtOfConcat
  <1>6. Len(q) >= Capacity
    <2>1. Len(q) = Len(inflight) + Len(buffer)
      BY <1>1, ConcatProperties
    <2>2. QED
      BY <1>1, <1>2, <2>1, CapacityAssumption
  <1> HIDE DEF r
  <1>7. inflight \o Append(r, next_step) = Append(inflight \o r, next_step)
    BY <1>1, <1>4, AppendOfConcat
  <1>8. inflight' \o buffer' = Append(RemoveAt(q, Len(inflight) + i), next_step)
    BY <1>2, <1>5, <1>7
  <1>9. (~closing) /\ (~closing)' = ~closing
    BY <1>2
  <1>10. \E k \in 1 .. Len(q) : inflight' \o buffer' = Append(RemoveAt(q, k), next_step)
    BY <1>5, <1>8
  <1> HIDE DEF q
  <1>11. /\ Len(q) >= Capacity
         /\ \E k \in 1 .. Len(q) : inflight' \o buffer' = Append(RemoveAt(q, k), next_step)
         /\ ~closing /\ next_step' = next_step + 1
         /\ UNCHANGED <<delivered, ~closing>>
    <2>1. UNCHANGED <<delivered, ~closing>>
      BY <1>2, <1>9
    <2>2. QED
      BY <1>2, <1>6, <1>9, <1>10, <2>1, Zenon
  <1>12. \A s, k : RemoveAt(s, k) = Fifo!RemoveAt(s, k)
    BY DEF RemoveAt, Fifo!RemoveAt
  <1>13. QED
    BY <1>11, <1>12, Zenon DEF Fifo!Accept, q

\* A finished write delivers the head of the abstract queue.
LEMMA FifoWriteReturns ==
    ASSUME TypeOK, Flow, WriteReturns
    PROVE  Fifo!Deliver
  <1>1. /\ buffer \in Seq(Nat) /\ inflight \in Seq(Nat) /\ delivered \in Seq(Nat)
        /\ Len(inflight) = 1
    BY DEF TypeOK, Flow, WorkerFlow, WriteReturns
  <1>2. /\ delivered' = delivered \o inflight /\ inflight' = <<>> /\ buffer' = buffer
        /\ next_step' = next_step /\ closing' = closing
    BY DEF WriteReturns, queueVars, stateVars, mainVars
  <1> DEFINE x == inflight[1]
             q == inflight \o buffer
  <1>3. x \in Nat
    <2>1. 1 \in 1 .. Len(inflight)
      BY <1>1
    <2>2. QED
      BY <1>1, <2>1, ElementOfSeq
  <1>4. inflight = <<x>>
    BY <1>1, <1>3, SeqEqual
  <1>5. /\ q \in Seq(Nat) /\ Len(q) = 1 + Len(buffer) /\ Len(buffer) \in Nat
        /\ q[1] = x
        /\ \A k \in 1 .. Len(buffer) : q[1 + k] = buffer[k]
    <2>1. buffer \in Seq(Nat) /\ inflight \in Seq(Nat)
      BY <1>1
    <2>2. /\ q \in Seq(Nat) /\ Len(q) = Len(inflight) + Len(buffer)
          /\ \A k \in 1 .. Len(inflight) : q[k] = inflight[k]
          /\ \A k \in 1 .. Len(buffer) : q[Len(inflight) + k] = buffer[k]
      BY <2>1, ConcatParts
    <2>3. Len(buffer) \in Nat
      BY <2>1, LenProperties
    <2>4. 1 \in 1 .. Len(inflight)
      BY <1>1
    <2> HIDE DEF q
    <2>5. QED
      BY <1>1, <2>2, <2>3, <2>4
  <1> HIDE DEF x, q
  <1>6. q # <<>> /\ Head(q) = x
    BY <1>5
  <1>7. Tail(q) = buffer
    <2>1. /\ Tail(q) \in Seq(Nat) /\ Len(Tail(q)) = Len(buffer)
          /\ \A k \in 1 .. Len(buffer) : Tail(q)[k] = q[k + 1]
      BY <1>5, <1>6, HeadTailProperties
    <2>2. \A k \in 1 .. Len(buffer) : Tail(q)[k] = buffer[k]
      BY <1>5, <2>1
    <2>3. QED
      BY <1>1, <2>1, <2>2, SeqEqual
  <1>8. inflight' \o buffer' = Tail(q)
    BY <1>1, <1>2, <1>7, ConcatEmptySeq
  <1>9. delivered' = Append(delivered, Head(q))
    <2>1. delivered \o <<x>> = Append(delivered, x)
      BY <1>1, <1>3, AppendIsConcat
    <2>2. QED
      BY <1>2, <1>4, <1>6, <2>1
  <1>10. (~closing)' = ~closing
    BY <1>2
  <1>11. QED
    BY <1>2, <1>6, <1>8, <1>9, <1>10 DEF Fifo!Deliver, q

\* Taking the head of the queue leaves the abstract queue unchanged.
LEMMA FifoWorkerPops ==
    ASSUME TypeOK, Flow, WorkerPops
    PROVE  UNCHANGED Fifo!fifoVars
  <1>1. buffer \in Seq(Nat) /\ buffer # <<>> /\ inflight = <<>>
    BY DEF TypeOK, Flow, WorkerFlow, WorkerPops
  <1>2. /\ inflight' = <<Head(buffer)>> /\ buffer' = Tail(buffer)
        /\ UNCHANGED <<delivered, next_step, closing>>
    BY DEF WorkerPops, stateVars, mainVars
  <1>3. inflight \o buffer = buffer
    BY <1>1, ConcatEmptySeq
  <1>4. inflight' \o buffer' = buffer
    BY <1>1, <1>2, HeadThenTail
  <1>5. (~closing)' = ~closing
    BY <1>2
  <1>6. QED
    BY <1>2, <1>3, <1>4, <1>5 DEF Fifo!fifoVars

\* A failed write gives up everything that waits.
LEMMA FifoWorkerFails ==
    ASSUME TypeOK, Flow, WorkerFails
    PROVE  Fifo!Abort
  <1>1. /\ buffer \in Seq(Nat) /\ inflight \in Seq(Nat) /\ Len(inflight) = 1
    BY DEF TypeOK, Flow, WorkerFlow, WorkerFails
  <1>2. /\ inflight' = <<>> /\ buffer' = <<>> /\ closing' = TRUE
        /\ UNCHANGED <<delivered, next_step>>
    BY DEF WorkerFails, mainVars
  <1>3. inflight \o buffer # <<>>
    <2>1. Len(inflight \o buffer) = 1 + Len(buffer) /\ Len(buffer) \in Nat
      <3>1. Len(inflight \o buffer) = Len(inflight) + Len(buffer)
        BY <1>1, ConcatProperties
      <3>2. Len(buffer) \in Nat
        BY <1>1, LenProperties
      <3>3. QED
        BY <1>1, <3>1, <3>2
    <2>2. Len(inflight \o buffer) # 0 /\ Len(<<>>) = 0
      BY <2>1
    <2>3. QED
      BY <2>2, Zenon
  <1>4. inflight' \o buffer' = <<>>
    BY <1>2
  <1>5. (~closing)' = FALSE
    BY <1>2
  <1>6. QED
    BY <1>2, <1>3, <1>4, <1>5 DEF Fifo!Abort

\* Every step of the two threads is an abstract step or a stutter.
LEMMA FifoStep == IInv /\ [Next]_vars => [Fifo!Next]_(Fifo!fifoVars)
  <1> SUFFICES ASSUME IInv, [Next]_vars
               PROVE  Fifo!Next \/ UNCHANGED Fifo!fifoVars
    OBVIOUS
  <1>1. TypeOK /\ Flow /\ Bounded
    BY DEF IInv
  <1>2. CASE EnqueueFree
    BY <1>1, <1>2, FifoEnqueueFree DEF Fifo!Next
  <1>3. CASE EnqueueFull
    BY <1>1, <1>3, FifoEnqueueFull DEF Fifo!Next
  <1>4. CASE WriteReturns
    BY <1>1, <1>4, FifoWriteReturns DEF Fifo!Next
  <1>5. CASE WorkerPops
    BY <1>1, <1>5, FifoWorkerPops
  <1>6. CASE WorkerFails
    BY <1>1, <1>6, FifoWorkerFails DEF Fifo!Next
  <1>7. CASE CloseBegins
    <2>1. /\ closing' = TRUE /\ UNCHANGED <<inflight, buffer, delivered, next_step>>
      BY <1>7 DEF CloseBegins, queueVars
    <2>2. (~closing)' = FALSE /\ inflight' \o buffer' = inflight \o buffer
      BY <2>1
    <2>3. Fifo!Close
      BY <2>1, <2>2 DEF Fifo!Close
    <2>4. QED
      BY <2>3 DEF Fifo!Next
  <1>8. CASE UNCHANGED <<inflight, buffer, delivered, next_step, closing>>
    BY <1>8 DEF Fifo!fifoVars
  <1>9. QED
    <2>1. \/ EnqueueFree \/ EnqueueFull \/ WriteReturns \/ WorkerPops \/ WorkerFails
          \/ CloseBegins \/ UNCHANGED <<inflight, buffer, delivered, next_step, closing>>
      BY DEF Next, MainStep, WorkerStep, Done, Report, EnqueueRaises, RunEnds, Interrupted,
             CloseReturnsAtOnce, JoinReturns, JoinInterrupted, CloseEnds, WorkerWaits,
             WorkerReturns, WriteRaises, Tick, vars, queueVars, stateVars, workerVars,
             mainVars
    <2>2. QED
      BY <1>2, <1>3, <1>4, <1>5, <1>6, <1>7, <1>8, <2>1

\* The producer's queue is a lossy FIFO queue: whatever the interleaving of its two
\* threads, it delivers in order, evicts at most one waiting step per accepted step
\* and only when full, and gives up what waits only when the output fails.
THEOREM QueueIsLossyFifo == Spec => Fifo!Spec
  BY Invariance, FifoInit, FifoStep, PTL DEF Spec, Fifo!Spec

===============================================================================
