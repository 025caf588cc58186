--------------------------- MODULE SequenceLemmas ---------------------------
(***************************************************************************)
(* What the operations of a queue do to the elements of a sequence: put at *)
(* the end, take from the front, join and cut.                             *)
(***************************************************************************)
EXTENDS SequencesExt, SequenceTheorems, TLAPS

\* Append adds its element and no other.
LEMMA AppendElements ==
    ASSUME NEW S, NEW q \in Seq(S), NEW e \in S
    PROVE  ToSet(Append(q, e)) = ToSet(q) \cup {e}
<1>1. /\ Append(q, e) \in Seq(S)
      /\ Len(Append(q, e)) = Len(q) + 1
      /\ \A i \in 1 .. Len(q) : Append(q, e)[i] = q[i]
      /\ Append(q, e)[Len(q) + 1] = e
  BY AppendProperties
<1>2. Len(q) \in Nat /\ DOMAIN q = 1 .. Len(q)
  BY LenProperties
<1>3. DOMAIN Append(q, e) = 1 .. Len(q) + 1
  BY <1>1, LenProperties
<1>4. 1 .. Len(q) + 1 = (1 .. Len(q)) \cup {Len(q) + 1}
  BY <1>2
<1> QED BY <1>1, <1>2, <1>3, <1>4 DEF ToSet

\* A list of distinct elements may be continued by a new one.
LEMMA AppendInjection ==
    ASSUME NEW S, NEW q \in Seq(S), NEW e \in S, IsInjective(q), e \notin ToSet(q)
    PROVE  IsInjective(Append(q, e))
<1>1. /\ Append(q, e) \in Seq(S)
      /\ Len(Append(q, e)) = Len(q) + 1
      /\ \A i \in 1 .. Len(q) : Append(q, e)[i] = q[i]
      /\ Append(q, e)[Len(q) + 1] = e
  BY AppendProperties
<1>2. Len(q) \in Nat /\ DOMAIN q = 1 .. Len(q)
  BY LenProperties
<1>3. DOMAIN Append(q, e) = 1 .. Len(q) + 1
  BY <1>1, LenProperties
<1>4. \A i \in 1 .. Len(q) : q[i] # e
  BY <1>2 DEF ToSet
<1>5. \A i \in 1 .. Len(q) + 1 : i \in 1 .. Len(q) \/ i = Len(q) + 1
  BY <1>2
<1> QED BY <1>1, <1>2, <1>3, <1>4, <1>5 DEF IsInjective

\* The head of a list of distinct elements is not in its tail.
LEMMA TailElements ==
    ASSUME NEW S, NEW q \in Seq(S), q # <<>>
    PROVE  /\ Tail(q) \in Seq(S)
           /\ Head(q) \in ToSet(q)
           /\ ToSet(Tail(q)) \subseteq ToSet(q)
           /\ IsInjective(q) => IsInjective(Tail(q)) /\ Head(q) \notin ToSet(Tail(q))
<1>1. /\ Tail(q) \in Seq(S)
      /\ Len(Tail(q)) = Len(q) - 1
      /\ \A i \in 1 .. Len(Tail(q)) : Tail(q)[i] = q[i + 1]
      /\ Head(q) = q[1]
  BY HeadTailProperties
<1>2. Len(q) \in Nat \ {0} /\ DOMAIN q = 1 .. Len(q) /\ DOMAIN Tail(q) = 1 .. Len(q) - 1
  BY <1>1, LenProperties, EmptySeq
<1>3. \A i \in 1 .. Len(q) - 1 : i + 1 \in 1 .. Len(q) /\ i + 1 # 1
  BY <1>2
<1>4. Head(q) \in ToSet(q)
  BY <1>1, <1>2 DEF ToSet
<1>5. ToSet(Tail(q)) \subseteq ToSet(q)
  BY <1>1, <1>2, <1>3 DEF ToSet
<1>6. ASSUME IsInjective(q)
      PROVE  IsInjective(Tail(q))
  <2>1. \A i, j \in 1 .. Len(q) - 1 : i + 1 = j + 1 => i = j
    BY <1>2
  <2> QED BY <1>1, <1>2, <1>3, <1>6, <2>1 DEF IsInjective
<1>7. ASSUME IsInjective(q)
      PROVE  Head(q) \notin ToSet(Tail(q))
  BY <1>1, <1>2, <1>3, <1>7 DEF IsInjective, ToSet
<1> QED BY <1>1, <1>4, <1>5, <1>6, <1>7

\* A prefix has no element that the list has not, and none twice.
LEMMA PrefixElements ==
    ASSUME NEW S, NEW q \in Seq(S), NEW n \in 0 .. Len(q)
    PROVE  /\ ToSet(SubSeq(q, 1, n)) \subseteq ToSet(q)
           /\ IsInjective(q) => IsInjective(SubSeq(q, 1, n))
<1>1. Len(q) \in Nat /\ DOMAIN q = 1 .. Len(q) /\ \A i \in 1 .. n : q[i] \in S
  BY LenProperties, ElementOfSeq
<1>2. /\ SubSeq(q, 1, n) \in Seq(S)
      /\ Len(SubSeq(q, 1, n)) = n
      /\ \A i \in 1 .. n : SubSeq(q, 1, n)[i] = q[i]
  BY <1>1, SubSeqProperties
<1>3. DOMAIN SubSeq(q, 1, n) = 1 .. n /\ \A i \in 1 .. n : i \in 1 .. Len(q)
  BY <1>1, <1>2, LenProperties
<1> QED BY <1>1, <1>2, <1>3 DEF ToSet, IsInjective

\* A list with a new first element.
LEMMA PrependElements ==
    ASSUME NEW S, NEW q \in Seq(S), NEW e \in S
    PROVE  /\ <<e>> \o q \in Seq(S)
           /\ Len(<<e>> \o q) = Len(q) + 1
           /\ ToSet(<<e>> \o q) = ToSet(q) \cup {e}
           /\ IsInjective(q) /\ e \notin ToSet(q) => IsInjective(<<e>> \o q)
<1>1. /\ <<e>> \o q \in Seq(S)
      /\ Len(<<e>> \o q) = 1 + Len(q)
      /\ \A i \in 1 .. 1 + Len(q) : (<<e>> \o q)[i] = IF i <= 1 THEN <<e>>[i] ELSE q[i - 1]
  <2>1. <<e>> \in Seq(S) /\ Len(<<e>>) = 1
    OBVIOUS
  <2> QED BY <2>1, ConcatProperties
<1>2. Len(q) \in Nat /\ DOMAIN q = 1 .. Len(q) /\ DOMAIN (<<e>> \o q) = 1 .. 1 + Len(q)
  BY <1>1, LenProperties
<1>3. /\ (<<e>> \o q)[1] = e
      /\ \A i \in 1 .. Len(q) : (<<e>> \o q)[i + 1] = q[i]
  BY <1>1, <1>2
<1>4. \A i \in 1 .. 1 + Len(q) : i = 1 \/ \E j \in 1 .. Len(q) : i = j + 1
  <2>1. \A i \in 1 .. 1 + Len(q) : i # 1 => i - 1 \in 1 .. Len(q) /\ i = (i - 1) + 1
    BY <1>2
  <2> QED BY <2>1
<1>5. ToSet(<<e>> \o q) = ToSet(q) \cup {e}
  <2>1. ToSet(<<e>> \o q) \subseteq ToSet(q) \cup {e}
    BY <1>2, <1>3, <1>4 DEF ToSet
  <2>2. 1 \in 1 .. 1 + Len(q) /\ \A i \in 1 .. Len(q) : i + 1 \in 1 .. 1 + Len(q)
    BY <1>2
  <2>3. e \in ToSet(<<e>> \o q)
    BY <1>2, <1>3, <2>2 DEF ToSet
  <2>4. ASSUME NEW i \in 1 .. Len(q)
        PROVE  q[i] \in ToSet(<<e>> \o q)
    <3>1. i + 1 \in DOMAIN (<<e>> \o q) /\ (<<e>> \o q)[i + 1] = q[i]
      BY <1>2, <1>3, <2>2
    <3> QED BY <3>1 DEF ToSet
  <2> QED BY <1>2, <2>1, <2>3, <2>4 DEF ToSet
<1>6. ASSUME IsInjective(q), e \notin ToSet(q)
      PROVE  IsInjective(<<e>> \o q)
  <2> SUFFICES ASSUME NEW i \in 1 .. 1 + Len(q), NEW j \in 1 .. 1 + Len(q),
                      (<<e>> \o q)[i] = (<<e>> \o q)[j]
               PROVE  i = j
    BY <1>2 DEF IsInjective
  <2>1. \A k \in 1 .. Len(q) : q[k] # e
    BY <1>2, <1>6 DEF ToSet
  <2>2. \A k, l \in 1 .. Len(q) : q[k] = q[l] => k = l
    BY <1>2, <1>6 DEF IsInjective
  <2> QED BY <1>3, <1>4, <2>1, <2>2
<1> QED BY <1>1, <1>5, <1>6

\* The elements of two lists that are joined.
LEMMA ConcatElements ==
    ASSUME NEW S, NEW g \in Seq(S), NEW b \in Seq(S)
    PROVE  ToSet(g) \subseteq ToSet(g \o b)
<1>1. /\ g \o b \in Seq(S)
      /\ Len(g \o b) = Len(g) + Len(b)
      /\ \A i \in 1 .. Len(g) + Len(b) :
            (g \o b)[i] = IF i <= Len(g) THEN g[i] ELSE b[i - Len(g)]
  BY ConcatProperties
<1>2. /\ Len(g) \in Nat /\ DOMAIN g = 1 .. Len(g)
      /\ Len(b) \in Nat
      /\ DOMAIN (g \o b) = 1 .. Len(g \o b)
  BY <1>1, LenProperties
<1> QED BY <1>1, <1>2 DEF ToSet

\* To append to the second list is to append to the two.
LEMMA ConcatAppend ==
    ASSUME NEW S, NEW g \in Seq(S), NEW b \in Seq(S), NEW e \in S
    PROVE  g \o Append(b, e) = Append(g \o b, e)
<1>1. <<e>> \in Seq(S) /\ g \o b \in Seq(S)
  BY ConcatProperties
<1>2. Append(b, e) = b \o <<e>> /\ Append(g \o b, e) = (g \o b) \o <<e>>
  BY <1>1, AppendIsConcat
<1> QED BY <1>1, <1>2, ConcatAssociative

\* To move the head of the second list to the end of the first leaves what
\* the two are together.
LEMMA ConcatHead ==
    ASSUME NEW S, NEW g \in Seq(S), NEW b \in Seq(S), b # <<>>
    PROVE  Append(g, Head(b)) \o Tail(b) = g \o b
<1>1. Head(b) \in S /\ Tail(b) \in Seq(S) /\ <<Head(b)>> \in Seq(S)
  BY HeadTailProperties
<1>2. b = <<Head(b)>> \o Tail(b)
  <2>1. /\ Len(b) \in Nat \ {0}
        /\ Len(Tail(b)) = Len(b) - 1
        /\ \A i \in 1 .. Len(b) - 1 : Tail(b)[i] = b[i + 1]
        /\ Head(b) = b[1]
    BY HeadTailProperties, EmptySeq
  <2>2. /\ <<Head(b)>> \o Tail(b) \in Seq(S)
        /\ Len(<<Head(b)>> \o Tail(b)) = 1 + Len(Tail(b))
        /\ \A i \in 1 .. 1 + Len(Tail(b)) : (<<Head(b)>> \o Tail(b))[i] =
              IF i <= 1 THEN <<Head(b)>>[i] ELSE Tail(b)[i - 1]
    BY <1>1, ConcatProperties
  <2>3. \A i \in 1 .. Len(b) : (<<Head(b)>> \o Tail(b))[i] = b[i]
    BY <2>1, <2>2
  <2> QED BY <2>1, <2>2, <2>3, SeqEqual
<1>3. Append(g, Head(b)) = g \o <<Head(b)>>
  BY <1>1, AppendIsConcat
<1> QED BY <1>1, <1>2, <1>3, ConcatAssociative

\* Two lists joined: the elements of the one, then those of the other.
LEMMA Joined ==
    ASSUME NEW S, NEW q \in Seq(S), NEW r \in Seq(S)
    PROVE  /\ q \o r \in Seq(S)
           /\ Len(q) \in Nat /\ Len(r) \in Nat
           /\ Len(q \o r) = Len(q) + Len(r)
           /\ \A i \in 1 .. Len(q) : (q \o r)[i] = q[i]
           /\ \A i \in 1 .. Len(r) : (q \o r)[Len(q) + i] = r[i]
<1>1. Len(q) \in Nat /\ Len(r) \in Nat
  BY LenProperties
<1>2. /\ q \o r \in Seq(S)
      /\ Len(q \o r) = Len(q) + Len(r)
      /\ \A i \in 1 .. Len(q) + Len(r) :
            (q \o r)[i] = IF i <= Len(q) THEN q[i] ELSE r[i - Len(q)]
  BY ConcatProperties
<1>3. \A i \in 1 .. Len(q) : i \in 1 .. Len(q) + Len(r) /\ i <= Len(q)
  BY <1>1
<1>4. \A i \in 1 .. Len(r) : /\ Len(q) + i \in 1 .. Len(q) + Len(r)
                             /\ ~(Len(q) + i <= Len(q))
                             /\ Len(q) + i - Len(q) = i
  BY <1>1
<1> QED BY <1>1, <1>2, <1>3, <1>4

\* Without one of its elements a list has no others than before.
LEMMA RemoveElements ==
    ASSUME NEW S, NEW q \in Seq(S), NEW i \in 1 .. Len(q)
    PROVE  /\ RemoveAt(q, i) \in Seq(S)
           /\ \A l \in DOMAIN RemoveAt(q, i) : \E m \in DOMAIN q : RemoveAt(q, i)[l] = q[m]
<1> DEFINE front == SubSeq(q, 1, i - 1)
           back  == SubSeq(q, i + 1, Len(q))
           T == ToSet(q)
<1>1. Len(q) \in Nat /\ DOMAIN q = 1 .. Len(q) /\ \A m \in 1 .. Len(q) : q[m] \in S /\ q[m] \in T
  BY LenProperties, ElementOfSeq DEF ToSet
<1>2. T \subseteq S
  BY <1>1 DEF ToSet
<1> HIDE DEF T
<1>3. front \in Seq(T)
  <2>1. i - 1 \in Int /\ \A m \in 1 .. i - 1 : q[m] \in T
    BY <1>1
  <2> QED BY <2>1, SubSeqProperties
<1>4. back \in Seq(T)
  <2>1. i + 1 \in Int /\ \A m \in i + 1 .. Len(q) : q[m] \in T
    BY <1>1
  <2> QED BY <1>1, <2>1, SubSeqProperties
<1>5. RemoveAt(q, i) = front \o back
  BY DEF RemoveAt
<1> HIDE DEF front, back
<1>6. RemoveAt(q, i) \in Seq(T)
  BY <1>3, <1>4, <1>5, ConcatProperties
<1>7. \A l \in DOMAIN RemoveAt(q, i) : RemoveAt(q, i)[l] \in T /\ RemoveAt(q, i)[l] \in S
  BY <1>2, <1>6, LenProperties, ElementOfSeq
<1>8. RemoveAt(q, i) \in Seq(S)
  BY <1>2, <1>6, SeqMonotonic
<1> QED BY <1>7, <1>8 DEF T, ToSet

=============================================================================
