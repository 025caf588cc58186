---------------------------- MODULE ArticlesProofs ----------------------------
(***************************************************************************)
(* Proofs about Articles for every file, every size of parts and lines and *)
(* any number of losses.                                                   *)
(***************************************************************************)
EXTENDS Articles, SequenceLemmas, WellFoundedInduction

-----------------------------------------------------------------------------
(***************************************************************************)
(* Loops.  A loop is a function of the number of its turns, and what it    *)
(* does is shown by induction on that number.                              *)
(***************************************************************************)
\* A set of numbers that is not empty has a least one.
LEMMA Least ==
    ASSUME NEW T, T \subseteq Nat, T # {}
    PROVE  \E n \in T : \A m \in T : n <= m
<1> DEFINE R == {ss \in Nat \X Nat : ss[1] < ss[2]}
<1>1. IsWellFoundedOn(R, Nat)
  BY NatLessThanWellFounded DEF OpToRel
<1> HIDE DEF R
<1>2. \E n \in T : \A m \in T : ~ (<<m, n>> \in R)
  BY <1>1, WFMin
<1>3. PICK n \in T : \A m \in T : ~ (<<m, n>> \in R)
  BY <1>2
<1>4. ASSUME NEW m \in T
      PROVE  n <= m
  <2>1. ~ (<<m, n>> \in R)
    BY <1>3
  <2>2. m \in Nat /\ n \in Nat
    OBVIOUS
  <2>3. ~ (m < n)
    BY <2>1, <2>2 DEF R
  <2> QED BY <2>2, <2>3
<1> QED BY <1>4

\* Induction over the turns of a loop: P is the set of those after which the
\* claim holds.
LEMMA Induction ==
    ASSUME NEW N \in Nat, NEW P, 0 \in P, \A n \in 1 .. N : n - 1 \in P => n \in P
    PROVE  0 .. N \subseteq P
<1> DEFINE T == (0 .. N) \ P
<1> SUFFICES ASSUME T # {} PROVE FALSE
  OBVIOUS
<1>1. T \subseteq Nat
  OBVIOUS
<1>2. PICK n \in T : \A m \in T : n <= m
  BY <1>1, Least
<1>3. n \in 0 .. N /\ n \notin P
  BY <1>2
<1>4. n \in 1 .. N
  BY <1>3
<1>5. n - 1 \in 0 .. N /\ n - 1 < n
  BY <1>4
<1>6. n - 1 \in P
  <2>1. n - 1 \notin T
    BY <1>2, <1>4, <1>5
  <2> QED BY <1>5, <2>1
<1> QED BY <1>3, <1>4, <1>6

\* The runs of a loop of N turns: what is there after each of them
Runs(X, start, N, turn) ==
    {f \in [0 .. N -> X] : f[0] = start /\ \A n \in 1 .. N : f[n] = turn[<<n, f[n - 1]>>]}

\* A loop whose turns map X to X has a run.
LEMMA Loop ==
    ASSUME NEW X, NEW start, NEW N, NEW turn,
           start \in X, N \in Nat, turn \in [(1 .. N) \X X -> X]
    PROVE  Runs(X, start, N, turn) # {}
<1> DEFINE After(m) == {f \in [0 .. m -> X] :
              f[0] = start /\ \A n \in 1 .. m : f[n] = turn[<<n, f[n - 1]>>]}
           P == {m \in 0 .. N : After(m) # {}}
<1>1. 0 \in P
  <2> DEFINE f == [n \in 0 .. 0 |-> start]
  <2>1. f \in [0 .. 0 -> X] /\ f[0] = start
    OBVIOUS
  <2>2. \A n \in 1 .. 0 : FALSE
    OBVIOUS
  <2> HIDE DEF f
  <2>3. f \in After(0)
    BY <2>1, <2>2
  <2> QED BY <2>3
<1>2. ASSUME NEW m \in 1 .. N, m - 1 \in P
      PROVE  m \in P
  <2>1. PICK f \in After(m - 1) : TRUE
    BY <1>2
  <2> DEFINE g == [n \in 0 .. m |-> IF n = m THEN turn[<<m, f[m - 1]>>] ELSE f[n]]
  <2>2. /\ m - 1 \in 0 .. m - 1 /\ m # 0 /\ 0 \in 0 .. m
        /\ \A n \in 0 .. m : n # m => n \in 0 .. m - 1
        /\ \A n \in 1 .. m : n - 1 \in 0 .. m - 1 /\ n - 1 \in 0 .. m /\ n - 1 # m /\ n \in 0 .. m
        /\ \A n \in 1 .. m : n # m => n \in 1 .. m - 1
    OBVIOUS
  <2>3. /\ f \in [0 .. m - 1 -> X]
        /\ f[0] = start
        /\ \A n \in 1 .. m - 1 : f[n] = turn[<<n, f[n - 1]>>]
    OBVIOUS
  <2>4. turn[<<m, f[m - 1]>>] \in X
    BY <2>2, <2>3
  <2>5. /\ g \in [0 .. m -> X]
        /\ g[m] = turn[<<m, f[m - 1]>>]
        /\ \A n \in 0 .. m : n # m => g[n] = f[n]
    BY <2>2, <2>3, <2>4
  <2> HIDE DEF g
  <2>6. g[0] = start
    BY <2>2, <2>3, <2>5
  <2>7. ASSUME NEW n \in 1 .. m
        PROVE  g[n] = turn[<<n, g[n - 1]>>]
    <3>1. g[n - 1] = f[n - 1]
      BY <2>2, <2>5
    <3>2. CASE n = m
      BY <2>5, <3>1, <3>2
    <3>3. CASE n # m
      BY <2>2, <2>3, <2>5, <3>1, <3>3
    <3> QED BY <3>2, <3>3
  <2>8. g \in After(m)
    BY <2>5, <2>6, <2>7
  <2> QED BY <2>8
<1>3. N \in P
  <2> HIDE DEF P
  <2>1. 0 .. N \subseteq P
    BY <1>1, <1>2, Induction
  <2> QED BY <2>1
<1> QED BY <1>3 DEF Runs

-----------------------------------------------------------------------------
(***************************************************************************)
(* A line.                                                                 *)
(***************************************************************************)
Byte == 0 .. 255

\* What the encoder adds the decoder takes away, with and without an escape.
LEMMA ByteShift ==
    ASSUME NEW b \in Byte
    PROVE  /\ (b + 42) % 256 \in Byte
           /\ (((b + 42) % 256) - 42 + 256) % 256 = b
  BY DEF Byte

\* What the decoder makes of a byte, and of one that follows an "="
Plain(byte) == (byte - 42 + 256) % 256
Unescape(byte) == (byte - 64 - 42 + 512) % 256

\* A byte is written as itself or, after "=", moved by 64.  What is not
\* escaped is no "=" and needs no escape in its place.
LEMMA EncodedByte ==
    ASSUME NEW raw \in Seq(Byte), NEW i \in 1 .. Len(raw)
    PROVE  \/ \E out \in Byte :
                 /\ Encoded(raw, i) = << out >>
                 /\ out \notin {NUL, LF, CR, EQUALS}
                 /\ i = 1 \/ i = Len(raw) => out \notin {TAB, SPACE}
                 /\ i = 1 => out # DOT
                 /\ Plain(out) = raw[i]
           \/ \E out \in {64, 73, 74, 77, 96, 110, 125} :
                 /\ Encoded(raw, i) = <<EQUALS, out>>
                 /\ Unescape(out) = raw[i]
<1> DEFINE out == (raw[i] + 42) % 256
<1>1. raw[i] \in Byte
  BY ElementOfSeq
<1>2. out \in Byte /\ Plain(out) = raw[i]
  BY <1>1, ByteShift DEF Plain
<1>3. CASE NeedsEscape(out, i = 1, i = Len(raw))
  <2>1. Encoded(raw, i) = <<EQUALS, (out + 64) % 256>>
    BY <1>3 DEF Encoded
  <2>2. out \in {0, 10, 13, 61, 9, 32, 46}
    BY <1>3 DEF NeedsEscape, NUL, LF, CR, EQUALS, TAB, SPACE, DOT
  <2>3. (out + 64) % 256 \in {64, 73, 74, 77, 96, 110, 125}
    BY <2>2
  <2>4. Unescape((out + 64) % 256) = Plain(out)
    BY <2>2 DEF Unescape, Plain
  <2> DEFINE moved == (out + 64) % 256
  <2>5. /\ Encoded(raw, i) = <<EQUALS, moved>>
        /\ moved \in {64, 73, 74, 77, 96, 110, 125}
        /\ Unescape(moved) = raw[i]
    BY <1>2, <2>1, <2>3, <2>4
  <2> HIDE DEF moved
  <2>6. \E o \in {64, 73, 74, 77, 96, 110, 125} :
           Encoded(raw, i) = <<EQUALS, o>> /\ Unescape(o) = raw[i]
    BY <2>5
  <2> QED BY <2>6, Zenon
<1>4. CASE ~NeedsEscape(out, i = 1, i = Len(raw))
  <2>1. Encoded(raw, i) = << out >>
    BY <1>4 DEF Encoded
  <2>2. /\ out \notin {NUL, LF, CR, EQUALS}
        /\ i = 1 \/ i = Len(raw) => out \notin {TAB, SPACE}
        /\ i = 1 => out # DOT
    BY <1>4 DEF NeedsEscape
  <2> HIDE DEF out
  <2> QED BY <1>2, <2>1, <2>2
<1> QED BY <1>3, <1>4

\* The turns of the loop over a line
LEMMA EncodeTurns ==
    ASSUME NEW raw \in Seq(Byte)
    PROVE  /\ EncodeLoop(raw) \in [0 .. Len(raw) -> Seq(Byte)]
           /\ EncodeLoop(raw)[0] = <<>>
           /\ \A n \in 1 .. Len(raw) :
                 /\ Encoded(raw, n) \in Seq(Byte)
                 /\ EncodeLoop(raw)[n] = EncodeLoop(raw)[n - 1] \o Encoded(raw, n)
<1> DEFINE N == Len(raw)
           X == Seq(Byte)
           turn == [p \in (1 .. N) \X X |-> p[2] \o Encoded(raw, p[1])]
           Is(f) == f = [n \in 0 .. N |-> IF n = 0 THEN <<>> ELSE f[n - 1] \o Encoded(raw, n)]
<1>1. N \in Nat
  BY LenProperties
<1>2. ASSUME NEW n \in 1 .. N
      PROVE  Encoded(raw, n) \in X
  <2>1. EQUALS \in Byte /\ {64, 73, 74, 77, 96, 110, 125} \subseteq Byte
    BY DEF EQUALS, Byte
  <2>2. \/ \E out \in Byte : Encoded(raw, n) = << out >>
        \/ \E out \in {64, 73, 74, 77, 96, 110, 125} : Encoded(raw, n) = <<EQUALS, out>>
    BY EncodedByte
  <2> HIDE DEF N
  <2>3. ASSUME NEW out \in Byte, Encoded(raw, n) = << out >>
        PROVE  Encoded(raw, n) \in X
    BY <2>3
  <2>4. ASSUME NEW out \in Byte, Encoded(raw, n) = <<EQUALS, out>>
        PROVE  Encoded(raw, n) \in X
    BY <2>1, <2>4
  <2> HIDE DEF X
  <2> QED BY <2>1, <2>2, <2>3, <2>4
<1>3. turn \in [(1 .. N) \X X -> X]
  BY <1>2, ConcatProperties
<1>4. <<>> \in X
  OBVIOUS
<1> HIDE DEF turn, N, X
<1>5. PICK f \in [0 .. N -> X] :
         f[0] = <<>> /\ \A n \in 1 .. N : f[n] = turn[<<n, f[n - 1]>>]
  <2>1. Runs(X, <<>>, N, turn) # {}
    BY <1>1, <1>3, <1>4, Loop
  <2> QED BY <2>1 DEF Runs
<1>6. Is(f)
  <2>1. ASSUME NEW n \in 0 .. N
        PROVE  f[n] = IF n = 0 THEN <<>> ELSE f[n - 1] \o Encoded(raw, n)
    <3>1. CASE n = 0
      BY <1>5, <3>1
    <3>2. CASE n # 0
      <4>1. n \in 1 .. N /\ n - 1 \in 0 .. N /\ f[n - 1] \in X
        BY <1>1, <1>5, <3>2
      <4>2. turn[<<n, f[n - 1]>>] = f[n - 1] \o Encoded(raw, n)
        BY <4>1 DEF turn
      <4> QED BY <1>5, <3>2, <4>1, <4>2
    <3> QED BY <3>1, <3>2
  <2> QED BY <1>5, <2>1
<1>7. EncodeLoop(raw) = CHOOSE g : Is(g)
  BY DEF EncodeLoop, N
<1>8. Is(EncodeLoop(raw))
  <2> HIDE DEF Is
  <2> QED BY <1>6, <1>7
<1> DEFINE g == EncodeLoop(raw)
<1>9. /\ g[0] = <<>>
      /\ \A n \in 1 .. N : g[n] = g[n - 1] \o Encoded(raw, n)
      /\ DOMAIN g = 0 .. N
  <2>1. 0 \in 0 .. N /\ \A n \in 1 .. N : n \in 0 .. N /\ n # 0
    BY <1>1
  <2> HIDE DEF g
  <2>2. g = [n \in 0 .. N |-> IF n = 0 THEN <<>> ELSE g[n - 1] \o Encoded(raw, n)]
    BY <1>8 DEF g
  <2> QED BY <2>1, <2>2
<1>10. \A n \in 0 .. N : g[n] \in X
  <2> DEFINE P == {n \in 0 .. N : g[n] \in X}
  <2> HIDE DEF g
  <2>1. 0 \in P
    BY <1>1, <1>4, <1>9
  <2>2. ASSUME NEW n \in 1 .. N, n - 1 \in P
        PROVE  n \in P
    <3>1. g[n - 1] \in X /\ n \in 0 .. N
      BY <1>1, <2>2
    <3>2. g[n - 1] \o Encoded(raw, n) \in X
      BY <1>2, <3>1, ConcatProperties DEF X
    <3> QED BY <1>9, <3>1, <3>2
  <2>3. 0 .. N \subseteq P
    <3> HIDE DEF P
    <3> QED BY <1>1, <2>1, <2>2, Induction
  <2> QED BY <2>3
<1> QED
  <2> HIDE DEF g
  <2>1. g = [n \in 0 .. N |-> g[n]]
    BY <1>8 DEF g
  <2>2. g \in [0 .. N -> X]
    BY <1>10, <2>1
  <2> QED BY <1>2, <1>9, <2>2 DEF g, N, X

\* What has been written after a turn stays the beginning of the line.
LEMMA EncodePrefix ==
    ASSUME NEW raw \in Seq(Byte), NEW n \in 0 .. Len(raw)
    PROVE  /\ Len(EncodeLoop(raw)[n]) <= Len(EncodeLine(raw))
           /\ \A i \in 1 .. Len(EncodeLoop(raw)[n]) : EncodeLine(raw)[i] = EncodeLoop(raw)[n][i]
<1> DEFINE N == Len(raw)
           g == EncodeLoop(raw)
           P == {m \in 0 .. N : n <= m => /\ Len(g[n]) <= Len(g[m])
                                          /\ \A i \in 1 .. Len(g[n]) : g[m][i] = g[n][i]}
<1>1. N \in Nat /\ n \in 0 .. N
  BY LenProperties
<1>2. /\ \A m \in 0 .. N : g[m] \in Seq(Byte) /\ Len(g[m]) \in Nat
      /\ g[0] = <<>>
      /\ \A m \in 1 .. N : Encoded(raw, m) \in Seq(Byte) /\ g[m] = g[m - 1] \o Encoded(raw, m)
  BY EncodeTurns, LenProperties
<1> HIDE DEF N, g
<1>3. 0 \in P
  <2>1. n <= 0 => n = 0
    BY <1>1
  <2> QED BY <1>1, <1>2, <2>1
<1>4. ASSUME NEW m \in 1 .. N, m - 1 \in P
      PROVE  m \in P
  <2>1. CASE n <= m - 1
    <3>1. g[m - 1] \in Seq(Byte) /\ Len(g[m - 1]) \in Nat /\ Len(g[n]) \in Nat
      BY <1>1, <1>2, <1>4
    <3> DEFINE h == g[m - 1]
               e == Encoded(raw, m)
    <3>2. h \in Seq(Byte) /\ e \in Seq(Byte) /\ g[m] = h \o e
      BY <1>2, <3>1
    <3> HIDE DEF h, e
    <3>3. /\ Len(g[m]) = Len(h) + Len(e) /\ Len(e) \in Nat
          /\ \A i \in 1 .. Len(h) : g[m][i] = h[i]
      BY <3>2, Joined
    <3> USE DEF h, e
    <3> QED BY <1>4, <2>1, <3>1, <3>2, <3>3
  <2>2. CASE n > m - 1
    <3>1. n <= m => n = m
      BY <1>1, <2>2
    <3> QED BY <1>1, <1>2, <3>1
  <2> QED BY <1>1, <2>1, <2>2
<1>5. N \in P
  <2> HIDE DEF P
  <2>1. 0 .. N \subseteq P
    BY <1>1, <1>3, <1>4, Induction
  <2> QED BY <1>1, <2>1
<1> QED BY <1>1, <1>5 DEF EncodeLine, N, g

\* What nothing on the way takes for something else
Safe(line, length) ==
    /\ line \in Seq(Byte)
    /\ Len(line) \in 1 .. 2 * length
    /\ \A i \in 1 .. Len(line) : line[i] \notin {NUL, LF, CR}
    /\ line[1] # DOT
    /\ ~(line[1] = EQUALS /\ line[2] = 121)
    /\ line[1] \notin {TAB, SPACE}
    /\ line[Len(line)] \notin {TAB, SPACE}

\* A line that is not empty is safe.
LEMMA EncodeSafe ==
    ASSUME NEW raw \in Seq(Byte), raw # <<>>
    PROVE  Safe(EncodeLine(raw), Len(raw))
<1> DEFINE N == Len(raw)
           g == EncodeLoop(raw)
           Begins(line) == /\ line[1] # DOT
                           /\ line[1] \notin {TAB, SPACE}
                           /\ line[1] = EQUALS => Len(line) >= 2 /\ line[2] # 121
           Clean(line) == \A i \in 1 .. Len(line) : line[i] \notin {NUL, LF, CR}
           P == {n \in 0 .. N : /\ Len(g[n]) \in n .. 2 * n
                                /\ Clean(g[n])
                                /\ n > 0 => Begins(g[n])}
<1>1. N \in Nat \ {0}
  BY EmptySeq
<1>2. /\ \A n \in 0 .. N : g[n] \in Seq(Byte) /\ Len(g[n]) \in Nat
      /\ g[0] = <<>>
      /\ \A n \in 1 .. N : Encoded(raw, n) \in Seq(Byte) /\ g[n] = g[n - 1] \o Encoded(raw, n)
  BY EncodeTurns, LenProperties
<1>3. ASSUME NEW n \in 1 .. N
      PROVE  LET e == Encoded(raw, n) IN
             /\ Len(e) \in {1, 2}
             /\ Clean(e)
             /\ n = 1 => Begins(e)
             /\ n = N => e[Len(e)] \notin {TAB, SPACE}
  <2> DEFINE e == Encoded(raw, n)
  <2>1. ASSUME NEW out \in Byte, e = << out >>, out \notin {NUL, LF, CR, EQUALS},
               n = 1 \/ n = Len(raw) => out \notin {TAB, SPACE}, n = 1 => out # DOT
        PROVE  /\ Len(e) \in {1, 2}
               /\ Clean(e)
               /\ n = 1 => Begins(e)
               /\ n = N => e[Len(e)] \notin {TAB, SPACE}
    <3>1. Len(e) = 1 /\ e[1] = out
      BY <2>1
    <3> HIDE DEF e
    <3> QED BY <2>1, <3>1
  <2>2. ASSUME NEW out \in {64, 73, 74, 77, 96, 110, 125}, e = <<EQUALS, out>>
        PROVE  /\ Len(e) \in {1, 2}
               /\ Clean(e)
               /\ n = 1 => Begins(e)
               /\ n = N => e[Len(e)] \notin {TAB, SPACE}
    <3>1. Len(e) = 2 /\ e[1] = EQUALS /\ e[2] = out
      BY <2>2
    <3>2. \A i \in 1 .. 2 : i = 1 \/ i = 2
      OBVIOUS
    <3> HIDE DEF e
    <3> QED BY <2>2, <3>1, <3>2 DEF EQUALS, NUL, LF, CR, TAB, SPACE, DOT
  <2> HIDE DEF e, Clean, Begins, N
  <2>3. \/ \E out \in Byte :
                 /\ e = << out >>
                 /\ out \notin {NUL, LF, CR, EQUALS}
                 /\ n = 1 \/ n = Len(raw) => out \notin {TAB, SPACE}
                 /\ n = 1 => out # DOT
        \/ \E out \in {64, 73, 74, 77, 96, 110, 125} : e = <<EQUALS, out>>
    BY EncodedByte DEF e, N
  <2>4. /\ Len(e) \in {1, 2}
        /\ Clean(e)
        /\ n = 1 => Begins(e)
        /\ n = N => e[Len(e)] \notin {TAB, SPACE}
    BY <2>1, <2>2, <2>3
  <2> QED BY <2>4 DEF e
<1> HIDE DEF N, g
<1>4. 0 \in P
  <2>1. Len(g[0]) = 0
    BY <1>2
  <2> QED BY <1>1, <2>1
<1>5. ASSUME NEW n \in 1 .. N, n - 1 \in P
      PROVE  /\ n \in P
             /\ g[n][Len(g[n])] = Encoded(raw, n)[Len(Encoded(raw, n))]
  <2> DEFINE e == Encoded(raw, n)
             h == g[n - 1]
  <2>1. /\ h \in Seq(Byte) /\ Len(h) \in n - 1 .. 2 * (n - 1) /\ Len(h) \in Nat
        /\ Clean(h)
        /\ n > 1 => Begins(h)
        /\ e \in Seq(Byte) /\ Len(e) \in {1, 2}
        /\ Clean(e)
        /\ n = 1 => Begins(e)
    <3>1. n \in 0 .. N /\ n - 1 \in 0 .. N /\ (n > 1 => n - 1 > 0)
      BY <1>1
    <3>2. h \in Seq(Byte) /\ Len(h) \in Nat /\ e \in Seq(Byte)
      BY <1>2, <3>1
    <3>3. Len(e) \in {1, 2} /\ Clean(e) /\ (n = 1 => Begins(e))
      <4> HIDE DEF Clean, Begins
      <4> QED BY <1>3
    <3>4. Len(h) \in n - 1 .. 2 * (n - 1) /\ Clean(h) /\ (n > 1 => Begins(h))
      <4> HIDE DEF Clean, Begins
      <4> QED BY <1>5, <3>1
    <3> HIDE DEF e, h
    <3> QED BY <3>2, <3>3, <3>4
  <2>2. /\ Len(g[n]) = Len(h) + Len(e)
        /\ \A i \in 1 .. Len(h) : g[n][i] = h[i]
        /\ \A i \in 1 .. Len(e) : g[n][Len(h) + i] = e[i]
    <3> HIDE DEF e, h
    <3>1. g[n] = h \o e
      BY <1>2 DEF e, h
    <3>2. /\ Len(h \o e) = Len(h) + Len(e)
          /\ \A i \in 1 .. Len(h) + Len(e) :
                (h \o e)[i] = IF i <= Len(h) THEN h[i] ELSE e[i - Len(h)]
      BY <2>1, ConcatProperties
    <3>3. \A i \in 1 .. Len(e) : Len(h) + i \in 1 .. Len(h) + Len(e) /\ ~(Len(h) + i <= Len(h))
                                 /\ Len(h) + i - Len(h) = i
      BY <2>1
    <3>4. \A i \in 1 .. Len(h) : i \in 1 .. Len(h) + Len(e) /\ i <= Len(h)
      BY <2>1
    <3> QED BY <3>1, <3>2, <3>3, <3>4
  <2> HIDE DEF e, h
  <2>3. Len(g[n]) \in n .. 2 * n
    <3>1. \A x \in n - 1 .. 2 * (n - 1) : \A y \in {1, 2} : x + y \in n .. 2 * n
      BY <1>1
    <3> QED BY <2>1, <2>2, <3>1
  <2>4. Clean(g[n])
    <3>1. ASSUME NEW i \in 1 .. Len(g[n])
          PROVE  g[n][i] \notin {NUL, LF, CR}
      <4>1. CASE i \in 1 .. Len(h)
        BY <2>1, <2>2, <4>1
      <4>2. CASE i \notin 1 .. Len(h)
        <5>1. i - Len(h) \in 1 .. Len(e) /\ i = Len(h) + (i - Len(h))
          BY <2>1, <2>2, <4>2
        <5> QED BY <2>1, <2>2, <5>1
      <4> QED BY <4>1, <4>2
    <3> QED BY <3>1
  <2>5. Begins(g[n])
    <3>1. CASE n = 1
      <4>1. Len(h) = 0
        BY <2>1, <3>1
      <4>2. /\ Len(g[n]) = Len(e)
            /\ \A i \in 1 .. Len(e) : g[n][i] = e[i]
        <5>1. \A i \in 1 .. Len(e) : 0 + i = i
          BY <2>1
        <5> QED BY <2>1, <2>2, <4>1, <5>1
      <4>3. 1 \in 1 .. Len(e) /\ (Len(e) >= 2 => 2 \in 1 .. Len(e))
        <5>1. \A y \in {1, 2} : 1 \in 1 .. y /\ (y >= 2 => 2 \in 1 .. y)
          OBVIOUS
        <5> QED BY <2>1, <5>1
      <4> QED BY <2>1, <3>1, <4>2, <4>3
    <3>2. CASE n > 1
      <4>1. 1 \in 1 .. Len(h) /\ (Len(h) >= 2 => 2 \in 1 .. Len(h) /\ Len(g[n]) >= 2)
        BY <2>1, <2>2, <3>2
      <4> QED BY <2>1, <2>2, <3>2, <4>1
    <3> QED BY <3>1, <3>2
  <2>6. g[n][Len(g[n])] = e[Len(e)]
    <3>1. Len(e) \in 1 .. Len(e)
      <4>1. \A y \in {1, 2} : y \in 1 .. y
        OBVIOUS
      <4> QED BY <2>1, <4>1
    <3> QED BY <2>2, <3>1
  <2>7. n \in 0 .. N /\ n > 0
    BY <1>1
  <2> HIDE DEF Clean, Begins
  <2> QED BY <2>3, <2>4, <2>5, <2>6, <2>7 DEF e
<1>6. 0 .. N \subseteq P
  <2> HIDE DEF P
  <2> QED BY <1>1, <1>4, <1>5, Induction
<1>7. N \in 1 .. N /\ N - 1 \in 0 .. N /\ N \in 0 .. N /\ N > 0
  BY <1>1
<1>8. /\ Len(g[N]) \in N .. 2 * N
      /\ Clean(g[N])
      /\ Begins(g[N])
  BY <1>6, <1>7
<1>9. g[N][Len(g[N])] \notin {TAB, SPACE}
  <2>1. g[N][Len(g[N])] = Encoded(raw, N)[Len(Encoded(raw, N))]
    <3> HIDE DEF P
    <3> QED BY <1>5, <1>6, <1>7
  <2> QED BY <1>3, <1>7, <2>1
<1>10. g[N] \in Seq(Byte)
  BY <1>2, <1>7
<1>11. Len(g[N]) \in 1 .. 2 * N
  BY <1>1, <1>8
<1> QED BY <1>8, <1>9, <1>10, <1>11 DEF Safe, EncodeLine, N, g

\* TrimRight takes nothing from it.
LEMMA TrimNothing ==
    ASSUME NEW line \in Seq(Byte), NEW length \in Nat, Safe(line, length)
    PROVE  TrimRight(line) = line
<1>1. Len(line) \in Nat \ {0} /\ DOMAIN line = 1 .. Len(line)
  BY LenProperties DEF Safe
<1>2. {i \in DOMAIN line : line[i] \notin {CR, LF}} = 1 .. Len(line)
  BY <1>1 DEF Safe
<1>3. 1 .. Len(line) # {}
  <2>1. \A m \in Nat \ {0} : 1 \in 1 .. m
    OBVIOUS
  <2> QED BY <1>1, <2>1
<1>4. (CHOOSE i \in 1 .. Len(line) : \A j \in 1 .. Len(line) : j <= i) = Len(line)
  <2>1. /\ Len(line) \in 1 .. Len(line)
        /\ \A j \in 1 .. Len(line) : j <= Len(line)
        /\ \A i \in 1 .. Len(line) : Len(line) <= i => i = Len(line)
    <3>1. \A m \in Nat \ {0} : /\ m \in 1 .. m
                               /\ \A j \in 1 .. m : j <= m
                               /\ \A i \in 1 .. m : m <= i => i = m
      OBVIOUS
    <3> QED BY <1>1, <3>1
  <2> QED BY <2>1
<1>5. TrimRight(line) = SubSeq(line, 1, Len(line))
  BY <1>2, <1>3, <1>4 DEF TrimRight
<1> QED BY <1>5, SubSeqFull

Decoded == [escaped : BOOLEAN, data : Seq(Byte)]

\* A turn of the loop over the bytes of a line
LEMMA DecodeByteType ==
    ASSUME NEW dec \in Decoded, NEW byte \in Byte, NEW last \in BOOLEAN
    PROVE  DecodeByte(dec, byte, last) \in Decoded
<1>1. Unescape(byte) \in Byte /\ Plain(byte) \in Byte
  BY DEF Byte, Unescape, Plain
<1>2. \A out \in Byte : Append(dec.data, out) \in Seq(Byte)
  BY AppendProperties DEF Decoded
<1>3. CASE dec.escaped
  BY <1>1, <1>2, <1>3 DEF DecodeByte, Decoded, Unescape
<1>4. CASE ~dec.escaped /\ byte = EQUALS /\ ~last
  BY <1>4 DEF DecodeByte, Decoded
<1>5. CASE ~dec.escaped /\ ~(byte = EQUALS /\ ~last)
  <2> DEFINE new == Append(dec.data, Plain(byte))
  <2>1. new \in Seq(Byte)
    BY <1>1, <1>2
  <2>2. DecodeByte(dec, byte, last) = [dec EXCEPT !.data = new]
    BY <1>5 DEF DecodeByte, Plain
  <2> HIDE DEF new
  <2> QED BY <2>1, <2>2 DEF Decoded
<1> QED BY <1>3, <1>4, <1>5

\* The turns of the decoder's loop over the bytes of a line.
LEMMA DecodeTurns ==
    ASSUME NEW bytes \in Seq(Byte)
    PROVE  /\ DecodeLoop(bytes) \in [0 .. Len(bytes) -> Decoded]
           /\ DecodeLoop(bytes)[0] = [escaped |-> FALSE, data |-> <<>>]
           /\ \A n \in 1 .. Len(bytes) :
                 DecodeLoop(bytes)[n] =
                     DecodeByte(DecodeLoop(bytes)[n - 1], bytes[n], n = Len(bytes))
<1> DEFINE N == Len(bytes)
           start == [escaped |-> FALSE, data |-> <<>>]
           turn == [p \in (1 .. N) \X Decoded |-> DecodeByte(p[2], bytes[p[1]], p[1] = N)]
           Is(f) == f = [n \in 0 .. N |-> IF n = 0 THEN start
                                          ELSE DecodeByte(f[n - 1], bytes[n], n = N)]
<1>1. N \in Nat /\ \A n \in 1 .. N : bytes[n] \in Byte
  BY LenProperties, ElementOfSeq
<1>2. start \in Decoded
  BY DEF Decoded
<1>3. turn \in [(1 .. N) \X Decoded -> Decoded]
  <2>1. \A p \in (1 .. N) \X Decoded : (p[1] = N) \in BOOLEAN /\ bytes[p[1]] \in Byte
                                       /\ p[2] \in Decoded
    BY <1>1
  <2> HIDE DEF N
  <2> QED BY <2>1, DecodeByteType
<1> HIDE DEF turn, N, start
<1>4. PICK f \in [0 .. N -> Decoded] :
         f[0] = start /\ \A n \in 1 .. N : f[n] = turn[<<n, f[n - 1]>>]
  <2>1. Runs(Decoded, start, N, turn) # {}
    BY <1>1, <1>2, <1>3, Loop
  <2> QED BY <2>1 DEF Runs
<1>5. Is(f)
  <2>1. ASSUME NEW n \in 0 .. N
        PROVE  f[n] = IF n = 0 THEN start ELSE DecodeByte(f[n - 1], bytes[n], n = N)
    <3>1. CASE n = 0
      BY <1>4, <3>1
    <3>2. CASE n # 0
      <4>1. n \in 1 .. N /\ n - 1 \in 0 .. N /\ f[n - 1] \in Decoded
        BY <1>1, <1>4, <3>2
      <4>2. turn[<<n, f[n - 1]>>] = DecodeByte(f[n - 1], bytes[n], n = N)
        BY <4>1 DEF turn
      <4> QED BY <1>4, <3>2, <4>1, <4>2
    <3> QED BY <3>1, <3>2
  <2> QED BY <1>4, <2>1
<1>6. DecodeLoop(bytes) = CHOOSE g : Is(g)
  BY DEF DecodeLoop, N, start
<1>7. Is(DecodeLoop(bytes))
  <2> HIDE DEF Is
  <2> QED BY <1>5, <1>6
<1> DEFINE g == DecodeLoop(bytes)
<1>8. /\ g[0] = start
      /\ \A n \in 1 .. N : g[n] = DecodeByte(g[n - 1], bytes[n], n = N)
      /\ g = [n \in 0 .. N |-> g[n]]
  <2>1. 0 \in 0 .. N /\ \A n \in 1 .. N : n \in 0 .. N /\ n # 0
    BY <1>1
  <2> HIDE DEF g
  <2>2. g = [n \in 0 .. N |-> IF n = 0 THEN start ELSE DecodeByte(g[n - 1], bytes[n], n = N)]
    BY <1>7 DEF g
  <2> QED BY <2>1, <2>2
<1>9. \A n \in 0 .. N : g[n] \in Decoded
  <2> DEFINE P == {n \in 0 .. N : g[n] \in Decoded}
  <2> HIDE DEF g
  <2>1. 0 \in P
    BY <1>1, <1>2, <1>8
  <2>2. ASSUME NEW n \in 1 .. N, n - 1 \in P
        PROVE  n \in P
    <3>1. (n = N) \in BOOLEAN
      OBVIOUS
    <3>2. g[n - 1] \in Decoded /\ bytes[n] \in Byte /\ n \in 0 .. N
      BY <1>1, <2>2
    <3>3. g[n] \in Decoded
      BY <1>8, <3>1, <3>2, DecodeByteType
    <3> QED BY <3>2, <3>3
  <2>3. 0 .. N \subseteq P
    <3> HIDE DEF P
    <3> QED BY <1>1, <2>1, <2>2, Induction
  <2> QED BY <2>3
<1> QED
  <2> HIDE DEF g
  <2>1. g \in [0 .. N -> Decoded]
    BY <1>8, <1>9
  <2> QED BY <1>8, <2>1 DEF g, N, start

\* Decoding undoes encoding, whatever the bytes of a line are.
THEOREM DecodeUndoesEncode ==
    ASSUME NEW raw \in Seq(Byte)
    PROVE  DecodeLine(EncodeLine(raw)) = raw
<1> DEFINE N == Len(raw)
           g == EncodeLoop(raw)
           line == EncodeLine(raw)
           d == DecodeLoop(line)
           P == {n \in 0 .. N : ~d[Len(g[n])].escaped /\ d[Len(g[n])].data = SubSeq(raw, 1, n)}
<1>1. N \in Nat /\ \A n \in 1 .. N : raw[n] \in Byte
  BY LenProperties, ElementOfSeq
<1>2. /\ \A n \in 0 .. N : g[n] \in Seq(Byte) /\ Len(g[n]) \in Nat
      /\ g[0] = <<>>
      /\ \A n \in 1 .. N : Encoded(raw, n) \in Seq(Byte) /\ g[n] = g[n - 1] \o Encoded(raw, n)
  BY EncodeTurns, LenProperties
<1>3. line = g[N] /\ line \in Seq(Byte) /\ Len(line) \in Nat
  BY <1>1, <1>2 DEF EncodeLine
<1>4. \A n \in 0 .. N : /\ Len(g[n]) <= Len(line)
                        /\ \A i \in 1 .. Len(g[n]) : line[i] = g[n][i]
  BY EncodePrefix
<1>5. /\ ~d[0].escaped /\ d[0].data = <<>>
      /\ \A k \in 1 .. Len(line) :
            /\ d[k - 1].escaped =>
                  /\ ~d[k].escaped
                  /\ d[k].data = Append(d[k - 1].data, Unescape(line[k]))
            /\ ~d[k - 1].escaped /\ line[k] # EQUALS =>
                  /\ ~d[k].escaped
                  /\ d[k].data = Append(d[k - 1].data, Plain(line[k]))
            /\ ~d[k - 1].escaped /\ line[k] = EQUALS /\ k # Len(line) =>
                  d[k].escaped /\ d[k].data = d[k - 1].data
  <2> HIDE DEF line
  <2>1. /\ d[0] = [escaped |-> FALSE, data |-> <<>>]
        /\ d \in [0 .. Len(line) -> Decoded]
        /\ \A k \in 1 .. Len(line) : d[k] = DecodeByte(d[k - 1], line[k], k = Len(line))
    BY <1>3, DecodeTurns DEF d
  <2> HIDE DEF d
  <2>2. ASSUME NEW k \in 1 .. Len(line)
        PROVE  /\ d[k - 1].escaped =>
                     /\ ~d[k].escaped
                     /\ d[k].data = Append(d[k - 1].data, Unescape(line[k]))
               /\ ~d[k - 1].escaped /\ line[k] # EQUALS =>
                     /\ ~d[k].escaped
                     /\ d[k].data = Append(d[k - 1].data, Plain(line[k]))
               /\ ~d[k - 1].escaped /\ line[k] = EQUALS /\ k # Len(line) =>
                     d[k].escaped /\ d[k].data = d[k - 1].data
    <3> DEFINE before == d[k - 1]
    <3>1. before \in Decoded
      <4>1. k - 1 \in 0 .. Len(line)
        BY <1>3
      <4> QED BY <2>1, <4>1
    <3>2. d[k] = DecodeByte(before, line[k], k = Len(line))
      BY <2>1
    <3> HIDE DEF before
    <3>3. CASE before.escaped
      BY <3>1, <3>2, <3>3 DEF DecodeByte, Decoded, Unescape, before
    <3>4. CASE ~before.escaped /\ line[k] = EQUALS /\ k # Len(line)
      BY <3>1, <3>2, <3>4 DEF DecodeByte, Decoded, before
    <3>5. CASE ~before.escaped /\ line[k] = EQUALS /\ k = Len(line)
      BY <3>5 DEF before
    <3>6. CASE ~before.escaped /\ line[k] # EQUALS
      BY <3>1, <3>2, <3>6 DEF DecodeByte, Decoded, Plain, before
    <3> QED BY <3>3, <3>4, <3>5, <3>6
  <2> QED BY <2>1, <2>2
<1> HIDE DEF N, g, line, d
<1>6. 0 \in P
  <2>1. SubSeq(raw, 1, 0) = <<>>
    BY SubSeqEmpty
  <2>2. Len(g[0]) = 0
    BY <1>2
  <2>3. ~d[Len(g[0])].escaped /\ d[Len(g[0])].data = SubSeq(raw, 1, 0)
    BY <1>5, <2>1, <2>2
  <2>4. 0 \in 0 .. N
    BY <1>1
  <2> QED BY <2>3, <2>4
<1>7. ASSUME NEW n \in 1 .. N, n - 1 \in P
      PROVE  n \in P
  <2> DEFINE e == Encoded(raw, n)
             k == Len(g[n - 1])
             before == SubSeq(raw, 1, n - 1)
  <2>1. /\ ~d[k].escaped /\ d[k].data = before
        /\ k \in Nat /\ g[n - 1] \in Seq(Byte) /\ n \in 0 .. N
    BY <1>1, <1>2, <1>7
  <2>2. Append(before, raw[n]) = SubSeq(raw, 1, n)
    <3>1. SubSeq(raw, 1, n) = before \o << raw[n] >>
      <4>1. 1 \in 1 .. Len(raw) /\ n \in 1 .. Len(raw)
        BY <1>1 DEF N
      <4> QED BY <4>1, SubSeqRecursiveSecond
    <3>2. before \in Seq(Byte)
      <4>1. \A i \in 1 .. n - 1 : raw[i] \in Byte
        BY <1>1
      <4> QED BY <1>1, <4>1, SubSeqProperties
    <3> HIDE DEF before
    <3> QED BY <1>1, <3>1, <3>2, AppendIsConcat
  <2>3. ASSUME NEW i \in 1 .. Len(e), Len(e) \in Nat
        PROVE  /\ Len(g[n]) = k + Len(e)
               /\ k + i \in 1 .. Len(line)
               /\ line[k + i] = e[i]
               /\ k + i - 1 = k + (i - 1)
               /\ i < Len(e) => k + i # Len(line)
    <3>1. g[n] = g[n - 1] \o e /\ e \in Seq(Byte)
      BY <1>2
    <3> HIDE DEF e
    <3>2. /\ Len(g[n]) = k + Len(e)
          /\ k + i \in 1 .. k + Len(e)
          /\ ~(k + i <= k) /\ k + i - k = i
      BY <2>1, <2>3, <3>1, ConcatProperties
    <3>3. g[n][k + i] = e[i]
      BY <2>1, <3>1, <3>2, ConcatProperties
    <3> HIDE DEF k
    <3>4. Len(g[n]) <= Len(line) /\ line[k + i] = g[n][k + i]
      BY <1>4, <2>1, <3>2
    <3> QED BY <1>3, <2>1, <2>3, <3>2, <3>3, <3>4
  <2>4. ASSUME NEW out \in Byte, e = << out >>, out # EQUALS,
               Plain(out) = raw[n]
        PROVE  n \in P
    <3>1. Len(e) = 1 /\ e[1] = out /\ 1 \in 1 .. Len(e)
      BY <2>4
    <3> HIDE DEF e, k, before
    <3>2. /\ Len(g[n]) = k + 1 /\ k + 1 \in 1 .. Len(line) /\ line[k + 1] = out
          /\ k + 1 - 1 = k
      BY <2>1, <2>3, <3>1
    <3>4. ~d[k + 1].escaped /\ d[k + 1].data = Append(before, raw[n])
      <4> DEFINE j == k + 1
      <4>1. j \in 1 .. Len(line) /\ line[j] = out /\ j - 1 = k
        BY <2>1, <3>2
      <4> HIDE DEF j
      <4>2. ~d[j].escaped /\ d[j].data = Append(before, Plain(out))
        BY <1>5, <2>1, <2>4, <4>1
      <4> QED BY <2>4, <4>2 DEF j
    <3> QED BY <2>1, <2>2, <3>2, <3>4
  <2>5. ASSUME NEW out \in {64, 73, 74, 77, 96, 110, 125}, e = <<EQUALS, out>>,
               Unescape(out) = raw[n]
        PROVE  n \in P
    <3>1. Len(e) = 2 /\ e[1] = EQUALS /\ e[2] = out /\ 1 \in 1 .. Len(e) /\ 2 \in 1 .. Len(e)
          /\ Len(e) \in Nat /\ 1 < Len(e)
      BY <2>5
    <3> HIDE DEF e, k, before
    <3>2. /\ k + 1 \in 1 .. Len(line) /\ line[k + 1] = EQUALS
          /\ k + 1 - 1 = k /\ k + 1 # Len(line)
      BY <2>1, <2>3, <3>1
    <3>3. /\ Len(g[n]) = k + 2 /\ k + 2 \in 1 .. Len(line) /\ line[k + 2] = out
          /\ k + 2 - 1 = k + 1
      BY <2>1, <2>3, <3>1
    <3>5. d[k + 1].escaped /\ d[k + 1].data = before
      BY <1>5, <2>1, <3>2
    <3>7. ~d[k + 2].escaped /\ d[k + 2].data = Append(before, raw[n])
      <4> DEFINE i == k + 1
                 j == k + 2
      <4>1. j \in 1 .. Len(line) /\ line[j] = out /\ j - 1 = i
        BY <2>1, <3>3
      <4>2. d[i].escaped /\ d[i].data = before
        BY <3>5
      <4> HIDE DEF i, j
      <4>4. d[j - 1].escaped /\ d[j - 1].data = before
        BY <4>1, <4>2
      <4>3. ~d[j].escaped /\ d[j].data = Append(before, Unescape(line[j]))
        BY <1>5, <4>1, <4>4
      <4> QED BY <2>5, <4>1, <4>3 DEF j
    <3> QED BY <2>1, <2>2, <3>3, <3>7
  <2>6. \/ \E out \in Byte : e = << out >> /\ out # EQUALS /\ Plain(out) = raw[n]
        \/ \E out \in {64, 73, 74, 77, 96, 110, 125} :
              e = <<EQUALS, out>> /\ Unescape(out) = raw[n]
    BY EncodedByte DEF N
  <2> HIDE DEF P, e
  <2> QED BY <2>4, <2>5, <2>6
<1>8. N \in P
  <2> HIDE DEF P
  <2>1. 0 .. N \subseteq P
    BY <1>1, <1>6, <1>7, Induction
  <2> QED BY <1>1, <2>1
<1>9. d[Len(line)].data = SubSeq(raw, 1, N)
  BY <1>3, <1>8
<1> QED BY <1>9, SubSeqFull DEF DecodeLine, d, line, N

-----------------------------------------------------------------------------
(***************************************************************************)
(* Cutting.                                                                *)
(***************************************************************************)
\* How much of n bytes the first k parts have
Cut(n, size, k) == IF k * size > n THEN n ELSE k * size

\* A file needs as many parts as are full, and one more for a rest.
LEMMA CeilingFacts ==
    ASSUME NEW n \in Nat, NEW size \in Nat \ {0}
    PROVE  /\ Ceiling(n, size) \in Nat
           /\ n > 0 => Ceiling(n, size) > 0
           /\ n <= Ceiling(n, size) * size
           /\ \A k \in 1 .. Ceiling(n, size) : (k - 1) * size \in Nat /\ (k - 1) * size < n
<1> DEFINE c == Ceiling(n, size)
<1>1. c \in Nat
  BY DEF Ceiling
<1>2. c * size <= n + size - 1 /\ n + size - 1 < (c + 1) * size
  BY DEF Ceiling
<1> HIDE DEF c
<1>3. (c + 1) * size = c * size + size
  BY <1>1
<1>4. n <= c * size
  BY <1>1, <1>2, <1>3
<1>5. ASSUME NEW k \in 1 .. c
      PROVE  (k - 1) * size \in Nat /\ (k - 1) * size < n
  <2>1. (k - 1) * size <= (c - 1) * size
    BY <1>1
  <2>2. (c - 1) * size = c * size - size
    BY <1>1
  <2>3. (k - 1) * size \in Nat
    BY <1>1
  <2> QED BY <1>1, <1>2, <2>1, <2>2, <2>3
<1>6. n > 0 => c > 0
  BY <1>1, <1>4
<1> QED BY <1>1, <1>4, <1>5, <1>6 DEF c

\* The ends of the parts grow from 0 to n, by at least one and at most size.
LEMMA CutFacts ==
    ASSUME NEW n \in Nat, NEW size \in Nat \ {0}
    PROVE  /\ Cut(n, size, 0) = 0
           /\ Cut(n, size, Ceiling(n, size)) = n
           /\ \A k \in 0 .. Ceiling(n, size) : Cut(n, size, k) \in 0 .. n
           /\ \A k \in 1 .. Ceiling(n, size) :
                 /\ Cut(n, size, k - 1) = (k - 1) * size
                 /\ Cut(n, size, k) - Cut(n, size, k - 1) \in 1 .. size
<1> DEFINE c == Ceiling(n, size)
<1>1. /\ c \in Nat
      /\ n <= c * size
      /\ \A k \in 1 .. c : (k - 1) * size \in Nat /\ (k - 1) * size < n
  BY CeilingFacts
<1> HIDE DEF c
<1>2. Cut(n, size, 0) = 0
  BY DEF Cut
<1>3. Cut(n, size, c) = n
  BY <1>1 DEF Cut
<1>4. ASSUME NEW k \in 1 .. c
      PROVE  /\ Cut(n, size, k - 1) = (k - 1) * size
             /\ Cut(n, size, k) - Cut(n, size, k - 1) \in 1 .. size
             /\ Cut(n, size, k) \in 0 .. n
  <2>1. k * size = (k - 1) * size + size
    BY <1>1
  <2>2. (k - 1) * size \in Nat /\ (k - 1) * size < n
    BY <1>1
  <2> DEFINE m == (k - 1) * size
  <2> HIDE DEF m
  <2>3. k * size = m + size /\ m \in Nat /\ m < n
    BY <2>1, <2>2 DEF m
  <2>4. Cut(n, size, k - 1) = m
    BY <2>2 DEF Cut, m
  <2>5. Cut(n, size, k) = IF m + size > n THEN n ELSE m + size
    BY <2>3 DEF Cut
  <2> QED BY <2>3, <2>4, <2>5 DEF m
<1>5. \A k \in 0 .. c : Cut(n, size, k) \in 0 .. n
  <2>1. \A k \in 0 .. c : k = 0 \/ k \in 1 .. c
    BY <1>1
  <2> QED BY <1>2, <1>4, <2>1
<1> QED BY <1>2, <1>3, <1>4, <1>5 DEF c

\* A part continues what the earlier ones have, is not empty and not larger
\* than it may be.
Continues(S, data, size, k) ==
    LET part   == SplitSegments(data, size)[k]
        end(i) == Cut(Len(data), size, i)
    IN  /\ part \in [begin : Nat, data : Seq(S)]
        /\ part.begin = end(k - 1) + 1
        /\ Len(part.data) = end(k) - end(k - 1)
        /\ Len(part.data) \in 1 .. size
        /\ SubSeq(data, 1, end(k - 1)) \o part.data = SubSeq(data, 1, end(k))

\* The parts that SplitSegments cuts a list into follow on each other from its
\* beginning to its end.
THEOREM PartsFollow ==
    ASSUME NEW S, NEW data \in Seq(S), NEW size \in Nat \ {0}
    PROVE  /\ Len(SplitSegments(data, size)) = Ceiling(Len(data), size)
           /\ DOMAIN SplitSegments(data, size) = 1 .. Ceiling(Len(data), size)
           /\ \A k \in 1 .. Ceiling(Len(data), size) : Continues(S, data, size, k)
<1> DEFINE parts  == SplitSegments(data, size)
           n == Len(data)
           end(k) == Cut(n, size, k)
           c == Ceiling(n, size)
<1>1. n \in Nat /\ \A i \in 1 .. n : data[i] \in S
  BY LenProperties, ElementOfSeq
<1>2. /\ c \in Nat
      /\ \A k \in 0 .. c : end(k) \in 0 .. n
      /\ \A k \in 1 .. c : end(k - 1) = (k - 1) * size /\ end(k) - end(k - 1) \in 1 .. size
  <2> HIDE DEF n
  <2> QED BY <1>1, CeilingFacts, CutFacts
<1>3. parts = [k \in 1 .. c |->
         [begin |-> (k - 1) * size + 1, data  |-> SubSeq(data, (k - 1) * size + 1, end(k))]]
  BY DEF SplitSegments, Cut
<1> HIDE DEF parts, c, end, n
<1>4. DOMAIN parts = 1 .. c /\ Len(parts) = c
  BY <1>2, <1>3
<1>5. ASSUME NEW k \in 1 .. c
      PROVE  /\ parts[k] \in [begin : Nat, data : Seq(S)]
             /\ parts[k].begin = end(k - 1) + 1
             /\ Len(parts[k].data) = end(k) - end(k - 1)
             /\ Len(parts[k].data) \in 1 .. size
             /\ SubSeq(data, 1, end(k - 1)) \o parts[k].data = SubSeq(data, 1, end(k))
  <2> DEFINE a == end(k - 1)
             b == end(k)
  <2>1. a = (k - 1) * size /\ b - a \in 1 .. size
    BY <1>2
  <2>2. a \in 0 .. n /\ b \in 0 .. n
    <3>1. k - 1 \in 0 .. c /\ k \in 0 .. c
      BY <1>2
    <3> QED BY <1>2, <3>1
  <2>3. parts[k] = [begin |-> a + 1, data  |-> SubSeq(data, a + 1, b)]
    <3> HIDE DEF a, b
    <3> QED BY <1>3, <2>1 DEF b
  <2> HIDE DEF a, b
  <2>4. SubSeq(data, a + 1, b) \in Seq(S) /\ Len(SubSeq(data, a + 1, b)) = b - a
    <3>1. \A i \in a + 1 .. b : data[i] \in S
      BY <1>1, <2>2
    <3>2. a + 1 \in Int /\ b \in Int /\ a + 1 <= b /\ b - (a + 1) + 1 = b - a
      BY <1>1, <2>1, <2>2
    <3> QED BY <3>1, <3>2, SubSeqProperties
  <2>5. SubSeq(data, 1, a) \o SubSeq(data, a + 1, b) = SubSeq(data, 1, b)
    <3>1. 1 \in 1 .. Len(data) + 1 /\ a \in 1 - 1 .. Len(data) /\ b \in a .. Len(data)
      BY <1>1, <2>1, <2>2 DEF n
    <3> QED BY <3>1, ConcatAdjacentSubSeq
  <2>6. parts[k].data = SubSeq(data, a + 1, b)
    <3> DEFINE z == a + 1
    <3>1. parts[k] = [begin |-> z, data |-> SubSeq(data, z, b)] /\ z \in Int /\ b \in Int
      BY <1>1, <2>2, <2>3
    <3> HIDE DEF z
    <3>2. parts[k].data = SubSeq(data, z, b)
      BY <3>1
    <3> QED BY <3>2 DEF z
  <2>7. parts[k] \in [begin : Nat, data : Seq(S)] /\ parts[k].begin = a + 1
    <3>1. a + 1 \in Nat
      BY <1>1, <2>2
    <3> QED BY <2>3, <2>4, <3>1
  <2>8. Len(parts[k].data) = b - a
    BY <2>4, <2>6
  <2> QED BY <2>1, <2>5, <2>6, <2>7, <2>8 DEF a, b
<1> QED BY <1>4, <1>5 DEF Continues, parts, c, end, n

-----------------------------------------------------------------------------
(***************************************************************************)
(* An article.                                                             *)
(***************************************************************************)
Part == [begin : Nat, data : Seq(Byte) \ {<<>>}]

\* What the line of an article may be made of
RawLine == {raw \in Seq(Byte) : raw # <<>> /\ Len(raw) <= LineLength}

\* The lines that an article of the part may have, damaged or not
Begin == [kind |-> "=ybegin"]
LinesOf(part) == {Begin, Header(part), Trailer(part)} \cup {Data(raw) : raw \in RawLine}

\* The lines of an article, one by one
LEMMA ArticleLines ==
    ASSUME NEW part \in Part
    PROVE  LET n == Ceiling(Len(part.data), LineLength)
               article == YEncEncodeSegment(part)
           IN  /\ article \in Seq(LinesOf(part))
               /\ n \in Nat
               /\ Len(article) = n + 3
               /\ article[1] = Begin
               /\ article[2] = Header(part)
               /\ \A k \in 1 .. n :
                     /\ SplitSegments(part.data, LineLength)[k].data \in RawLine
                     /\ article[k + 2] = Data(SplitSegments(part.data, LineLength)[k].data)
               /\ article[n + 3] = Trailer(part)
<1> DEFINE n == Ceiling(Len(part.data), LineLength)
           lines == SplitSegments(part.data, LineLength)
           top == <<Begin, Header(part)>>
           middle == [k \in 1 .. n |-> Data(lines[k].data)]
           end == <<Trailer(part)>>
           S == LinesOf(part)
           article == YEncEncodeSegment(part)
<1>1. part.data \in Seq(Byte) /\ LineLength \in Nat \ {0}
  BY SizesAssumption DEF Part
<1>2. n \in Nat
  BY <1>1, CeilingFacts, LenProperties
<1>3. DOMAIN lines = 1 .. n
  BY <1>1, PartsFollow
<1>4. ASSUME NEW k \in 1 .. n
      PROVE  lines[k].data \in RawLine
  <2>1. lines[k].data \in Seq(Byte) /\ Len(lines[k].data) \in 1 .. LineLength
    BY <1>1, PartsFollow DEF Continues
  <2>2. lines[k].data # <<>>
    BY <2>1
  <2> QED BY <1>1, <2>1, <2>2 DEF RawLine
<1>5. article = (top \o middle) \o end
  BY <1>3 DEF YEncEncodeSegment, Begin
<1> HIDE DEF n, lines, article
<1>6. /\ top \in Seq(S) /\ Len(top) = 2 /\ top[1] = Begin /\ top[2] = Header(part)
      /\ end \in Seq(S) /\ Len(end) = 1 /\ end[1] = Trailer(part)
  BY DEF LinesOf
<1>7. middle \in Seq(S) /\ Len(middle) = n /\ \A k \in 1 .. n : middle[k] = Data(lines[k].data)
  <2>1. \A k \in 1 .. n : Data(lines[k].data) \in S
    BY <1>4 DEF LinesOf
  <2> HIDE DEF S
  <2> QED BY <1>2, <2>1
<1> HIDE DEF top, middle, end, S
<1> DEFINE front == top \o middle
<1>12. front = top \o middle
  OBVIOUS
<1> HIDE DEF front
<1>8. /\ front \in Seq(S)
      /\ Len(front) = n + 2
      /\ front[1] = Begin /\ front[2] = Header(part)
      /\ \A k \in 1 .. n : front[k + 2] = Data(lines[k].data)
  <2>1. /\ front \in Seq(S)
        /\ Len(front) = Len(top) + Len(middle)
        /\ \A i \in 1 .. Len(top) : front[i] = top[i]
        /\ \A i \in 1 .. Len(middle) : front[Len(top) + i] = middle[i]
    <3>1. top \in Seq(S) /\ middle \in Seq(S)
      BY <1>6, <1>7
    <3> QED BY <1>12, <3>1, Joined
  <2>2. 1 \in 1 .. 2 /\ 2 \in 1 .. 2 /\ \A i \in 1 .. n : 2 + i = i + 2
    BY <1>2
  <2>3. 2 + n = n + 2
    BY <1>2
  <2> QED BY <1>6, <1>7, <2>1, <2>2, <2>3
<1>9. article = front \o end
  BY <1>5, <1>12
<1>10. /\ article \in Seq(S)
       /\ Len(article) = n + 3
       /\ \A i \in 1 .. n + 2 : article[i] = front[i]
       /\ article[n + 3] = Trailer(part)
  <2>1. /\ article \in Seq(S)
        /\ Len(article) = Len(front) + Len(end)
        /\ \A i \in 1 .. Len(front) : article[i] = front[i]
        /\ \A i \in 1 .. Len(end) : article[Len(front) + i] = end[i]
    <3>1. front \in Seq(S) /\ end \in Seq(S)
      BY <1>6, <1>8
    <3> QED BY <1>9, <3>1, Joined
  <2>2. 1 \in 1 .. 1 /\ n + 2 + 1 = n + 3
    BY <1>2
  <2> QED BY <1>6, <1>8, <2>1, <2>2
<1>11. 1 \in 1 .. n + 2 /\ 2 \in 1 .. n + 2 /\ \A k \in 1 .. n : k + 2 \in 1 .. n + 2
  BY <1>2
<1> QED BY <1>2, <1>4, <1>8, <1>10, <1>11 DEF n, lines, article, S

Reader == [started : BOOLEAN, ended : BOOLEAN, data : Seq(Byte), pcrc : Seq(Byte)]
Start == [started |-> FALSE, ended |-> FALSE, data |-> <<>>, pcrc |-> NoCRC]

\* A data line adds what was encoded in it.
LEMMA ReadData ==
    ASSUME NEW raw \in RawLine, NEW dec \in Reader, ~dec.ended
    PROVE  DecodeStep(dec, Data(raw)) =
               IF dec.started THEN [dec EXCEPT !.data = @ \o raw] ELSE dec
<1>1. raw \in Seq(Byte) /\ raw # <<>> /\ Len(raw) \in Nat
  BY LenProperties DEF RawLine
<1>2. Safe(EncodeLine(raw), Len(raw))
  BY <1>1, EncodeSafe
<1>3. TrimRight(EncodeLine(raw)) = EncodeLine(raw)
  <2>1. EncodeLine(raw) \in Seq(Byte)
    BY <1>2 DEF Safe
  <2> QED BY <1>1, <1>2, <2>1, TrimNothing
<1>4. DecodeLine(TrimRight(EncodeLine(raw))) = raw
  BY <1>1, <1>3, DecodeUndoesEncode
<1> QED BY <1>4 DEF DecodeStep, Data

\* The end of an article brings the checksum, and nothing is read after it.
LEMMA ReadStep ==
    ASSUME NEW part \in Part, NEW dec \in Reader, NEW line \in LinesOf(part)
    PROVE  /\ DecodeStep(dec, line) \in Reader
           /\ dec.ended => DecodeStep(dec, line) = dec
           /\ ~dec.ended /\ line.kind = "=yend" =>
                 DecodeStep(dec, line).ended /\ DecodeStep(dec, line).pcrc = part.data
           /\ ~dec.ended /\ line.kind # "=yend" =>
                 ~DecodeStep(dec, line).ended /\ DecodeStep(dec, line).pcrc = dec.pcrc
<1>1. part.data \in Seq(Byte)
  BY DEF Part
<1>2. CASE dec.ended
  BY <1>2 DEF DecodeStep
<1>3. CASE ~dec.ended
  <2>1. CASE line = Begin
    BY <1>3, <2>1 DEF DecodeStep, Begin, Reader
  <2>2. CASE line = Header(part)
    BY <1>3, <2>2 DEF DecodeStep, Header, Reader
  <2>3. CASE line = Trailer(part)
    BY <1>1, <1>3, <2>3 DEF DecodeStep, Trailer, Reader
  <2>4. ASSUME NEW raw \in RawLine, line = Data(raw)
        PROVE  /\ DecodeStep(dec, line) \in Reader
               /\ line.kind # "=yend"
               /\ ~DecodeStep(dec, line).ended
               /\ DecodeStep(dec, line).pcrc = dec.pcrc
    <3>1. dec.data \o raw \in Seq(Byte)
      BY ConcatProperties DEF Reader, RawLine
    <3>2. DecodeStep(dec, line) = IF dec.started THEN [dec EXCEPT !.data = @ \o raw] ELSE dec
      BY <1>3, <2>4, ReadData
    <3>3. line.kind = "data"
      BY <2>4 DEF Data
    <3> QED BY <1>3, <3>1, <3>2, <3>3 DEF Reader
  <2> QED BY <1>3, <2>1, <2>2, <2>3, <2>4 DEF LinesOf
<1> QED BY <1>2, <1>3

\* The turns of the decoder's loop over the lines of an article of part.
LEMMA ReadTurns ==
    ASSUME NEW part \in Part, NEW lines \in Seq(LinesOf(part))
    PROVE  /\ ReadLoop(lines) \in [0 .. Len(lines) -> Reader]
           /\ ReadLoop(lines)[0] = Start
           /\ \A n \in 1 .. Len(lines) :
                 ReadLoop(lines)[n] = DecodeStep(ReadLoop(lines)[n - 1], lines[n])
<1> DEFINE N == Len(lines)
           turn == [p \in (1 .. N) \X Reader |-> DecodeStep(p[2], lines[p[1]])]
           Is(f) == f = [n \in 0 .. N |-> IF n = 0 THEN Start ELSE DecodeStep(f[n - 1], lines[n])]
<1>1. N \in Nat /\ \A n \in 1 .. N : lines[n] \in LinesOf(part)
  BY LenProperties, ElementOfSeq
<1>2. Start \in Reader
  BY DEF Start, Reader, NoCRC
<1>3. turn \in [(1 .. N) \X Reader -> Reader]
  <2> HIDE DEF N
  <2> QED BY <1>1, ReadStep
<1> HIDE DEF turn, N
<1>4. PICK f \in [0 .. N -> Reader] :
         f[0] = Start /\ \A n \in 1 .. N : f[n] = turn[<<n, f[n - 1]>>]
  <2>1. Runs(Reader, Start, N, turn) # {}
    BY <1>1, <1>2, <1>3, Loop
  <2> QED BY <2>1 DEF Runs
<1>5. Is(f)
  <2>1. ASSUME NEW n \in 0 .. N
        PROVE  f[n] = IF n = 0 THEN Start ELSE DecodeStep(f[n - 1], lines[n])
    <3>1. CASE n = 0
      BY <1>4, <3>1
    <3>2. CASE n # 0
      <4>1. n \in 1 .. N /\ n - 1 \in 0 .. N /\ f[n - 1] \in Reader
        BY <1>1, <1>4, <3>2
      <4>2. turn[<<n, f[n - 1]>>] = DecodeStep(f[n - 1], lines[n])
        BY <4>1 DEF turn
      <4> QED BY <1>4, <3>2, <4>1, <4>2
    <3> QED BY <3>1, <3>2
  <2> QED BY <1>4, <2>1
<1>6. ReadLoop(lines) = CHOOSE g : Is(g)
  BY DEF ReadLoop, Start, N
<1>7. Is(ReadLoop(lines))
  <2> HIDE DEF Is
  <2> QED BY <1>5, <1>6
<1> DEFINE g == ReadLoop(lines)
<1>8. /\ g[0] = Start
      /\ \A n \in 1 .. N : g[n] = DecodeStep(g[n - 1], lines[n])
      /\ g = [n \in 0 .. N |-> g[n]]
  <2>1. 0 \in 0 .. N /\ \A n \in 1 .. N : n \in 0 .. N /\ n # 0
    BY <1>1
  <2> HIDE DEF g
  <2>2. g = [n \in 0 .. N |-> IF n = 0 THEN Start ELSE DecodeStep(g[n - 1], lines[n])]
    BY <1>7 DEF g
  <2> QED BY <2>1, <2>2
<1>9. \A n \in 0 .. N : g[n] \in Reader
  <2> DEFINE P == {n \in 0 .. N : g[n] \in Reader}
  <2> HIDE DEF g
  <2>1. 0 \in P
    BY <1>1, <1>2, <1>8
  <2>2. ASSUME NEW n \in 1 .. N, n - 1 \in P
        PROVE  n \in P
    <3>1. g[n - 1] \in Reader /\ lines[n] \in LinesOf(part) /\ n \in 0 .. N
      BY <1>1, <2>2
    <3>2. DecodeStep(g[n - 1], lines[n]) \in Reader
      BY <3>1, ReadStep
    <3> QED BY <1>8, <3>1, <3>2
  <2>3. 0 .. N \subseteq P
    <3> HIDE DEF P
    <3> QED BY <1>1, <2>1, <2>2, Induction
  <2> QED BY <2>3
<1> QED
  <2> HIDE DEF g
  <2>1. g \in [0 .. N -> Reader]
    BY <1>8, <1>9
  <2> QED BY <1>8, <2>1 DEF g, N

\* Whatever lines an article has lost, if it has its trailer the checksum is
\* that of the part: what decodes is the part.
THEOREM TrailerProtects ==
    ASSUME NEW part \in Part, NEW lines \in Seq(LinesOf(part)),
           \E l \in 1 .. Len(lines) : lines[l].kind = "=yend",
           Decodes(YEncDecode(lines))
    PROVE  YEncDecode(lines).data = part.data
<1> DEFINE N == Len(lines)
           g == ReadLoop(lines)
           Ended(n) == \E l \in 1 .. n : lines[l].kind = "=yend"
           P == {n \in 0 .. N : /\ Ended(n) => g[n].ended
                                /\ g[n].ended => g[n].pcrc = part.data}
<1>1. N \in Nat /\ \A n \in 1 .. N : lines[n] \in LinesOf(part)
  BY LenProperties, ElementOfSeq
<1>2. /\ \A n \in 0 .. N : g[n] \in Reader
      /\ g[0] = Start
      /\ \A n \in 1 .. N : g[n] = DecodeStep(g[n - 1], lines[n])
  BY ReadTurns
<1> HIDE DEF N, g
<1>3. 0 \in P
  <2>1. ~g[0].ended /\ ~Ended(0)
    BY <1>2 DEF Start
  <2> HIDE DEF Ended
  <2> QED BY <1>1, <2>1
<1>4. ASSUME NEW n \in 1 .. N, n - 1 \in P
      PROVE  n \in P
  <2>1. /\ g[n - 1] \in Reader /\ lines[n] \in LinesOf(part) /\ n \in 0 .. N
        /\ g[n] = DecodeStep(g[n - 1], lines[n])
        /\ Ended(n - 1) => g[n - 1].ended
        /\ g[n - 1].ended => g[n - 1].pcrc = part.data
    BY <1>1, <1>2, <1>4
  <2>2. Ended(n) => Ended(n - 1) \/ lines[n].kind = "=yend"
    <3>1. \A l \in 1 .. n : l \in 1 .. n - 1 \/ l = n
      BY <1>1
    <3> QED BY <3>1
  <2> HIDE DEF Ended
  <2>3. CASE g[n - 1].ended
    BY <2>1, <2>3, ReadStep
  <2>4. CASE ~g[n - 1].ended /\ lines[n].kind = "=yend"
    <3>2. g[n].ended /\ g[n].pcrc = part.data
      BY <2>1, <2>4, ReadStep
    <3> QED BY <2>1, <3>2
  <2>5. CASE ~g[n - 1].ended /\ lines[n].kind # "=yend"
    <3>1. ~g[n].ended
      BY <2>1, <2>5, ReadStep
    <3>2. ~Ended(n)
      BY <2>1, <2>2, <2>5
    <3> QED BY <2>1, <3>1, <3>2
  <2> QED BY <2>3, <2>4, <2>5
<1>5. N \in P
  <2> HIDE DEF P
  <2>1. 0 .. N \subseteq P
    BY <1>1, <1>3, <1>4, Induction
  <2> QED BY <1>1, <2>1
<1>6. Ended(N)
  BY DEF N
<1>7. g[N].pcrc = part.data
  BY <1>5, <1>6
<1>8. YEncDecode(lines) = g[N]
  BY DEF YEncDecode, g, N
<1>9. part.data # NoCRC
  BY DEF Part, NoCRC
<1> QED BY <1>7, <1>8, <1>9 DEF Decodes

\* A data line does so if the header was read before it.
LEMMA ReadDataFields ==
    ASSUME NEW raw \in RawLine, NEW dec \in Reader, dec.started, ~dec.ended
    PROVE  LET next == DecodeStep(dec, Data(raw)) IN
           /\ next.started /\ ~next.ended /\ next.pcrc = dec.pcrc
           /\ next.data = dec.data \o raw
<1> DEFINE next == DecodeStep(dec, Data(raw))
<1>1. next = [dec EXCEPT !.data = @ \o raw]
  BY ReadData
<1> HIDE DEF next
<1>2. next.started /\ ~next.ended /\ next.pcrc = dec.pcrc /\ next.data = dec.data \o raw
  BY <1>1 DEF Reader
<1> QED BY <1>2 DEF next

\* The other lines
LEMMA ReadHeads ==
    ASSUME NEW part \in Part, NEW dec \in Reader, ~dec.ended
    PROVE  /\ LET next == DecodeStep(dec, Begin) IN
              /\ next.started /\ ~next.ended /\ next.data = dec.data /\ next.pcrc = dec.pcrc
           /\ DecodeStep(dec, Header(part)) = dec
           /\ LET next == DecodeStep(dec, Trailer(part)) IN
              /\ next.started = dec.started /\ next.ended
              /\ next.data = dec.data /\ next.pcrc = part.data
<1>1. DecodeStep(dec, Begin) = [dec EXCEPT !.started = TRUE]
  BY DEF DecodeStep, Begin
<1>2. DecodeStep(dec, Header(part)) = dec
  BY DEF DecodeStep, Header
<1>3. DecodeStep(dec, Trailer(part)) = [dec EXCEPT !.ended = TRUE, !.pcrc = part.data]
  BY DEF DecodeStep, Trailer
<1>4. LET next == DecodeStep(dec, Begin) IN
      next.started /\ ~next.ended /\ next.data = dec.data /\ next.pcrc = dec.pcrc
  BY <1>1 DEF Reader
<1>5. LET next == DecodeStep(dec, Trailer(part)) IN
      /\ next.started = dec.started /\ next.ended
      /\ next.data = dec.data /\ next.pcrc = part.data
  BY <1>3 DEF Reader
<1> QED BY <1>2, <1>4, <1>5

\* An article that nothing was lost of decodes, and to the data of its part.
THEOREM ArticleDecodes ==
    ASSUME NEW part \in Part
    PROVE  LET dec == YEncDecode(YEncEncodeSegment(part)) IN
           Decodes(dec) /\ dec.data = part.data
<1> DEFINE data == part.data
           n == Ceiling(Len(data), LineLength)
           cut(m) == Cut(Len(data), LineLength, m)
           raws == SplitSegments(data, LineLength)
           article == YEncEncodeSegment(part)
           g == ReadLoop(article)
           P == {m \in 0 .. n : /\ g[m + 2].started /\ ~g[m + 2].ended
                                /\ g[m + 2].data = SubSeq(data, 1, cut(m))}
<1>1. data \in Seq(Byte) /\ LineLength \in Nat \ {0} /\ Len(data) \in Nat
  BY SizesAssumption, LenProperties DEF Part
<1>2. /\ article \in Seq(LinesOf(part))
      /\ n \in Nat
      /\ Len(article) = n + 3
      /\ article[1] = Begin
      /\ article[2] = Header(part)
      /\ \A k \in 1 .. n : raws[k].data \in RawLine /\ article[k + 2] = Data(raws[k].data)
      /\ article[n + 3] = Trailer(part)
  BY ArticleLines
<1>3. /\ g[0] = Start
      /\ \A k \in 0 .. n + 3 : g[k] \in Reader
      /\ \A k \in 1 .. n + 3 : g[k] = DecodeStep(g[k - 1], article[k])
  <2> HIDE DEF article, n
  <2> QED BY <1>2, ReadTurns DEF g
<1> HIDE DEF data
<1>4. \A k \in 1 .. n : SubSeq(data, 1, cut(k - 1)) \o raws[k].data = SubSeq(data, 1, cut(k))
  <2>1. \A k \in 1 .. n : Continues(Byte, data, LineLength, k)
    BY <1>1, PartsFollow
  <2> QED BY <2>1 DEF Continues
<1>5. cut(0) = 0 /\ cut(n) = Len(data)
  BY <1>1, CutFacts
<1> HIDE DEF n, cut, raws, article, g
<1>6. 0 \in P
  <2>1. /\ 1 \in 1 .. n + 3 /\ 2 \in 1 .. n + 3 /\ 0 \in 0 .. n + 3 /\ 1 \in 0 .. n + 3
        /\ 1 - 1 = 0 /\ 2 - 1 = 1 /\ 0 + 2 = 2 /\ 0 \in 0 .. n
    BY <1>2
  <2>2. g[1] = DecodeStep(g[0], Begin) /\ g[2] = DecodeStep(g[1], Header(part))
    BY <1>2, <1>3, <2>1
  <2>3. g[0] \in Reader /\ g[1] \in Reader
    BY <1>3, <2>1
  <2>4. ~g[0].ended /\ g[0].data = <<>>
    BY <1>3 DEF Start
  <2>5. g[1].started /\ ~g[1].ended /\ g[1].data = <<>>
    BY <2>2, <2>3, <2>4, ReadHeads
  <2>6. g[2] = g[1]
    BY <2>2, <2>3, <2>5, ReadHeads
  <2>7. SubSeq(data, 1, cut(0)) = <<>>
    BY <1>5, SubSeqEmpty
  <2> QED BY <2>1, <2>5, <2>6, <2>7
<1>7. ASSUME NEW m \in 1 .. n, m - 1 \in P
      PROVE  m \in P
  <2>1. /\ m + 2 \in 1 .. n + 3 /\ m + 2 - 1 = m - 1 + 2 /\ m \in 0 .. n
        /\ m - 1 + 2 \in 0 .. n + 3
    BY <1>2
  <2> DEFINE before == g[m - 1 + 2]
             after == g[m + 2]
  <2>2. after = DecodeStep(before, Data(raws[m].data)) /\ before \in Reader
    BY <1>2, <1>3, <2>1
  <2>3. before.started /\ ~before.ended /\ before.data = SubSeq(data, 1, cut(m - 1))
    BY <1>7
  <2>4. raws[m].data \in RawLine
    BY <1>2
  <2> HIDE DEF before, after
  <2>5. after.started /\ ~after.ended /\ after.data = before.data \o raws[m].data
    BY <2>2, <2>3, <2>4, ReadDataFields
  <2>6. after.data = SubSeq(data, 1, cut(m))
    BY <1>4, <2>3, <2>5
  <2> QED BY <2>1, <2>5, <2>6 DEF after
<1>8. g[n + 2].started /\ ~g[n + 2].ended /\ g[n + 2].data = data
  <2>1. 0 .. n \subseteq P
    <3> HIDE DEF P
    <3> QED BY <1>2, <1>6, <1>7, Induction
  <2>2. n \in P
    <3> HIDE DEF P
    <3> QED BY <1>2, <2>1
  <2>3. SubSeq(data, 1, cut(n)) = data
    BY <1>1, <1>5, SubSeqFull
  <2> QED BY <2>2, <2>3
<1>9. g[n + 3].started /\ g[n + 3].data = data /\ g[n + 3].pcrc = data
  <2>1. n + 3 \in 1 .. n + 3 /\ n + 3 - 1 = n + 2 /\ n + 2 \in 0 .. n + 3
    BY <1>2
  <2>2. g[n + 3] = DecodeStep(g[n + 2], Trailer(part)) /\ g[n + 2] \in Reader
    BY <1>2, <1>3, <2>1
  <2> QED BY <1>8, <2>2, ReadHeads DEF data
<1>10. YEncDecode(article) = g[n + 3]
  BY <1>2 DEF YEncDecode, g
<1> QED BY <1>9, <1>10 DEF Decodes, article, data
-----------------------------------------------------------------------------
(***************************************************************************)
(* Uploads and downloads.                                                  *)
(***************************************************************************)
\* The first k parts of the file
Have(k) == SubSeq(file, 1, Cut(Len(file), SegmentSize, k))

\* The file in parts
LEMMA PartsOfFile ==
    ASSUME file \in Seq(Byte)
    PROVE  LET c == Ceiling(Len(file), SegmentSize)
               end(k) == Cut(Len(file), SegmentSize, k)
           IN  /\ c \in Nat /\ Len(Parts) = c /\ Len(file) \in Nat
               /\ file # <<>> => c > 0
               /\ end(0) = 0 /\ end(c) = Len(file) /\ Have(0) = <<>> /\ Have(c) = file
               /\ \A k \in 0 .. c : end(k) \in 0 .. Len(file) /\ Len(Have(k)) = end(k)
               /\ \A k \in 1 .. c : /\ Parts[k] \in Part
                                    /\ Parts[k].begin = end(k - 1) + 1
                                    /\ Len(Parts[k].data) = end(k) - end(k - 1)
                                    /\ Len(Parts[k].data) > 0
                                    /\ Have(k - 1) \o Parts[k].data = Have(k)
<1> DEFINE n == Len(file)
           c == Ceiling(n, SegmentSize)
           end(k) == Cut(n, SegmentSize, k)
<1>1. /\ SegmentSize \in Nat \ {0} /\ n \in Nat
      /\ \A i \in 1 .. n : file[i] \in Byte
  BY SizesAssumption, LenProperties, ElementOfSeq
<1>2. file # <<>> => n > 0
  BY <1>1, EmptySeq
<1>3. c \in Nat /\ (n > 0 => c > 0)
  <2> HIDE DEF n
  <2> QED BY <1>1, CeilingFacts
<1>4. end(0) = 0 /\ end(c) = n /\ \A k \in 0 .. c : end(k) \in 0 .. n
  <2> HIDE DEF n
  <2> QED BY <1>1, CutFacts
<1>5. Len(Parts) = c
  <2> QED BY <1>1, PartsFollow DEF Parts
<1>6. ASSUME NEW k \in 1 .. c
      PROVE  /\ Parts[k] \in [begin : Nat, data : Seq(Byte)]
             /\ Parts[k].begin = end(k - 1) + 1
             /\ Len(Parts[k].data) = end(k) - end(k - 1)
             /\ Len(Parts[k].data) \in 1 .. SegmentSize
             /\ Have(k - 1) \o Parts[k].data = Have(k)
  <2>1. Continues(Byte, file, SegmentSize, k)
    BY <1>1, PartsFollow
  <2> QED BY <2>1 DEF Continues, Parts, Have
<1>7. ASSUME NEW k \in 1 .. c
      PROVE  Len(Parts[k].data) > 0 /\ Parts[k] \in Part
  <2>1. Parts[k] \in [begin : Nat, data : Seq(Byte)] /\ Len(Parts[k].data) \in 1 .. SegmentSize
    BY <1>6
  <2>2. Len(Parts[k].data) > 0
    BY <1>1, <2>1
  <2>3. Parts[k].data # <<>>
    BY <2>2
  <2> QED BY <2>1, <2>2, <2>3 DEF Part
<1>8. Have(0) = <<>> /\ Have(c) = file
  BY <1>4, SubSeqEmpty, SubSeqFull DEF Have
<1>9. ASSUME NEW k \in 0 .. c
      PROVE  Len(Have(k)) = end(k)
  <2> DEFINE e == end(k)
  <2>1. e \in 0 .. n
    BY <1>4
  <2> HIDE DEF e
  <2>2. \A i \in 1 .. e : file[i] \in Byte
    BY <1>1, <2>1
  <2>3. Len(SubSeq(file, 1, e)) = e
    BY <1>1, <2>1, <2>2, SubSeqProperties
  <2> QED BY <2>3 DEF Have, e
<1> HIDE DEF n, c, end
<1> QED BY <1>1, <1>2, <1>3, <1>4, <1>5, <1>6, <1>7, <1>8, <1>9 DEF n, c, end

\* The segments of an NZB that lists 1, 2, ... in this order are sorted.
Listed(n) == [k \in 1 .. n |-> [number |-> k, msgid |-> k]]

\* Segments listed in their order are sorted already.
LEMMA SortedIsListed ==
    ASSUME NEW n \in Nat, nzb = Listed(n)
    PROVE  Sorted = nzb
<1> DEFINE Increasing(s) == \A i, j \in 1 .. n : i < j => s[i].number < s[j].number
           Lists == [1 .. n -> ToSet(nzb)]
<1>1. /\ DOMAIN nzb = 1 .. n
      /\ \A i \in 1 .. n : nzb[i] = [number |-> i, msgid |-> i] /\ nzb[i].number = i
  BY DEF Listed
<1>2. nzb \in Lists /\ Increasing(nzb)
  <2>1. \A i \in 1 .. n : nzb[i] \in ToSet(nzb)
    BY <1>1 DEF ToSet
  <2> QED BY <1>1, <2>1 DEF Listed
<1>3. ASSUME NEW s \in Lists, Increasing(s)
      PROVE  s = nzb
  <2>1. \A i \in 1 .. n : \E k \in 1 .. n : s[i] = nzb[k]
    <3>1. \A i \in 1 .. n : s[i] \in ToSet(nzb)
      OBVIOUS
    <3> QED BY <1>1, <3>1 DEF ToSet
  <2>2. \A i \in 1 .. n : s[i].number \in 1 .. n /\ s[i] = nzb[s[i].number]
    BY <1>1, <2>1
  <2> DEFINE p == [i \in 1 .. n |-> s[i].number]
  <2>3. /\ \A i \in 1 .. n : p[i] \in 1 .. n /\ s[i] = nzb[p[i]]
        /\ \A i, j \in 1 .. n : i < j => p[i] < p[j]
    BY <1>3, <2>2
  <2> HIDE DEF p
  <2> DEFINE Low == {i \in 0 .. n : i > 0 => p[i] >= i}
             High == {i \in 0 .. n : i < n => p[n - i] <= n - i}
  <2>4. 0 .. n \subseteq Low
    <3>1. 0 \in Low
      OBVIOUS
    <3>2. ASSUME NEW i \in 1 .. n, i - 1 \in Low
          PROVE  i \in Low
      <4>1. CASE i = 1
        BY <2>3, <4>1
      <4>2. CASE i > 1
        <5>1. i - 1 \in 1 .. n /\ i - 1 < i /\ i - 1 > 0
          BY <4>2
        <5>2. p[i - 1] \in 1 .. n /\ p[i] \in 1 .. n /\ p[i - 1] < p[i] /\ p[i - 1] >= i - 1
          BY <2>3, <3>2, <5>1
        <5> QED BY <5>2
      <4> QED BY <4>1, <4>2
    <3> HIDE DEF Low
    <3> QED BY <3>1, <3>2, Induction
  <2>5. 0 .. n \subseteq High
    <3>1. 0 \in High
      <4>1. 0 < n => n \in 1 .. n /\ n - 0 = n
        OBVIOUS
      <4> QED BY <2>3, <4>1
    <3>2. ASSUME NEW i \in 1 .. n, i - 1 \in High
          PROVE  i \in High
      <4> SUFFICES ASSUME i < n
                   PROVE  p[n - i] <= n - i
        OBVIOUS
      <4> DEFINE a == n - i
                 b == n - (i - 1)
      <4>1. a \in 1 .. n /\ b \in 1 .. n /\ a < b /\ b = a + 1 /\ i - 1 < n
        OBVIOUS
      <4>2. p[b] <= b
        BY <3>2, <4>1
      <4> HIDE DEF a, b
      <4>3. p[a] \in 1 .. n /\ p[b] \in 1 .. n /\ p[a] < p[b]
        BY <2>3, <4>1
      <4>4. p[a] <= a
        BY <4>1, <4>2, <4>3
      <4> QED BY <4>4 DEF a
    <3> HIDE DEF High
    <3> QED BY <3>1, <3>2, Induction
  <2>6. ASSUME NEW i \in 1 .. n
        PROVE  s[i] = nzb[i]
    <3>1. p[i] >= i
      <4>1. i \in 0 .. n /\ i > 0
        OBVIOUS
      <4> QED BY <2>4, <4>1
    <3>2. p[i] <= i
      <4> DEFINE j == n - i
      <4>1. j \in 0 .. n /\ j < n /\ n - j = i
        OBVIOUS
      <4> HIDE DEF j
      <4>2. p[n - j] <= n - j
        BY <2>5, <4>1
      <4> QED BY <4>1, <4>2
    <3>3. p[i] = i
      BY <2>3, <3>1, <3>2
    <3> QED BY <2>3, <3>3
  <2> QED BY <1>2, <2>6
<1>4. Sorted = CHOOSE s \in Lists : Increasing(s)
  BY <1>1 DEF Sorted
<1> HIDE DEF Lists, Increasing
<1> QED BY <1>2, <1>3, <1>4

\* A line of some article
Line == {Begin} \cup {Header(part) : part \in Part} \cup {Trailer(part) : part \in Part}
            \cup {Data(raw) : raw \in RawLine}

(***************************************************************************)
(* The inductive invariant.  What has been joined is the file up to the    *)
(* end of the parts fetched, unless one of their articles is without its   *)
(* trailer now; and while nothing was lost the articles are those of the   *)
(* parts.                                                                  *)
(***************************************************************************)
TypeOK ==
    /\ file \in Seq(Byte)
    /\ damages \in Nat
    /\ articles \in Seq(Seq(Line))
    /\ Len(articles) <= Len(Parts)
    /\ fetched \in 0 .. Len(articles)
    /\ phase \in {"posting", "refused", "stored", "failed", "done"}

ArticlesOfParts ==
    \A k \in 1 .. Len(articles) :
        /\ articles[k] \in Seq(LinesOf(Parts[k]))
        /\ damages = 0 => articles[k] = YEncEncodeSegment(Parts[k])

PhaseOK ==
    /\ phase = "posting" => fetched = 0
    /\ phase # "posting" => Len(articles) = Len(Parts)
    /\ phase \in {"stored", "done"} => file # <<>>
    /\ phase = "done" => fetched = Len(articles)

LossesEndIt == damages = 0 => lost = {} /\ phase # "failed"

JoinedSoFar == (\A k \in 1 .. fetched : ~Unprotected(k)) => body = Have(fetched)

Inv ==
    /\ TypeOK
    /\ ArticlesOfParts
    /\ PhaseOK
    /\ LossesEndIt
    /\ nzb = Listed(Len(articles))
    /\ JoinedSoFar

\* The lines of a part's article are lines of articles.
LEMMA LinesAreLines ==
    ASSUME NEW part \in Part
    PROVE  LinesOf(part) \subseteq Line
  BY DEF LinesOf, Line

\* A file that no article was made of yet
LEMMA Initially == Init => Inv
<1> SUFFICES ASSUME Init PROVE Inv
  OBVIOUS
<1> USE DEF Init
<1>1. file \in Seq(Byte)
  <2>1. PICK m \in 0 .. MaxLength : file \in [1 .. m -> Bytes]
    BY DEF SeqOf
  <2>2. m \in Nat /\ Bytes \subseteq Byte
    BY BytesAssumption, BoundsAssumption DEF Byte
  <2>3. file \in [1 .. m -> Byte]
    BY <2>1, <2>2
  <2> QED BY <2>2, <2>3
<1>2. Len(Parts) \in Nat /\ Have(0) = <<>>
  BY <1>1, PartsOfFile
<1>3. Len(articles) = 0
  OBVIOUS
<1>4. TypeOK
  BY <1>1, <1>2, <1>3 DEF TypeOK
<1>5. ArticlesOfParts
  BY <1>3 DEF ArticlesOfParts
<1>6. PhaseOK /\ LossesEndIt
  BY DEF PhaseOK, LossesEndIt
<1>7. nzb = Listed(Len(articles))
  <2>1. Listed(0) = <<>>
    BY DEF Listed
  <2> QED BY <1>3, <2>1
<1>8. JoinedSoFar
  BY <1>2 DEF JoinedSoFar
<1> QED BY <1>4, <1>5, <1>6, <1>7, <1>8 DEF Inv

\* A part is posted.
LEMMA PostKeepsInv == Inv /\ Post => Inv'
<1> SUFFICES ASSUME Inv, Post PROVE Inv'
  OBVIOUS
<1> DEFINE n == Len(articles) + 1
           new == YEncEncodeSegment(Parts[n])
<1>1. TypeOK /\ ArticlesOfParts /\ PhaseOK /\ LossesEndIt /\ JoinedSoFar /\ nzb = Listed(Len(articles))
  BY DEF Inv
<1>2. /\ phase = "posting" /\ Len(articles) < Len(Parts)
      /\ articles' = Append(articles, new)
      /\ nzb' = Append(nzb, [number |-> n, msgid |-> n])
      /\ UNCHANGED <<file, lost, fetched, body, phase, damages>>
  BY DEF Post
<1>3. /\ Parts' = Parts /\ Len(Parts) \in Nat /\ Len(articles) \in Nat
      /\ n \in 1 .. Len(Parts) /\ Parts[n] \in Part
  <2>1. Len(articles) \in Nat
    BY <1>1, LenProperties DEF TypeOK
  <2>2. Len(Parts) \in Nat /\ \A k \in 1 .. Len(Parts) : Parts[k] \in Part
    BY <1>1, PartsOfFile DEF TypeOK
  <2>3. n \in 1 .. Len(Parts)
    BY <1>2, <2>1, <2>2
  <2>4. Parts' = Parts
    BY <1>2 DEF Parts
  <2> QED BY <2>1, <2>2, <2>3, <2>4
<1>4. new \in Seq(LinesOf(Parts[n])) /\ new \in Seq(Line)
  <2>1. new \in Seq(LinesOf(Parts[n]))
    BY <1>3, ArticleLines
  <2> QED BY <1>3, <2>1, LinesAreLines, SeqMonotonic
<1> HIDE DEF new
<1>5. /\ articles' \in Seq(Seq(Line))
      /\ Len(articles') = n
      /\ \A k \in 1 .. Len(articles) : articles'[k] = articles[k]
      /\ articles'[n] = new
  BY <1>1, <1>2, <1>4, AppendProperties DEF TypeOK
<1>6. fetched = 0
  BY <1>1, <1>2 DEF PhaseOK
<1>7. TypeOK'
  BY <1>1, <1>2, <1>3, <1>5, <1>6 DEF TypeOK
<1>8. ArticlesOfParts'
  <2>1. ASSUME NEW k \in 1 .. n
        PROVE  /\ articles'[k] \in Seq(LinesOf(Parts[k]))
               /\ damages = 0 => articles'[k] = YEncEncodeSegment(Parts[k])
    <3>1. CASE k = n
      BY <1>4, <1>5, <3>1 DEF new
    <3>2. CASE k # n
      <4>1. k \in 1 .. Len(articles)
        BY <1>3, <3>2
      <4> QED BY <1>1, <1>5, <4>1 DEF ArticlesOfParts
    <3> QED BY <3>1, <3>2
  <2> HIDE DEF n
  <2> QED BY <1>2, <1>3, <1>5, <2>1 DEF ArticlesOfParts, LinesOf, Header, Trailer
<1>9. PhaseOK' /\ LossesEndIt'
  BY <1>1, <1>2 DEF PhaseOK, LossesEndIt
<1>10. nzb' = Listed(n)
  <2> DEFINE Segment == [number : Nat, msgid : Nat]
             segment == [number |-> n, msgid |-> n]
  <2>1. nzb \in Seq(Segment) /\ Len(nzb) = Len(articles)
        /\ \A k \in 1 .. Len(articles) : nzb[k] = [number |-> k, msgid |-> k]
    BY <1>1, <1>3 DEF Listed
  <2>2. segment \in Segment
    BY <1>3
  <2> HIDE DEF segment
  <2>3. /\ nzb' \in Seq(Segment)
        /\ Len(nzb') = n
        /\ \A k \in 1 .. Len(articles) : nzb'[k] = [number |-> k, msgid |-> k]
        /\ nzb'[n] = [number |-> n, msgid |-> n]
    BY <1>2, <2>1, <2>2, AppendProperties DEF segment
  <2>4. \A k \in 1 .. n : k \in 1 .. Len(articles) \/ k = n
    BY <1>3
  <2>5. DOMAIN nzb' = 1 .. n /\ nzb' = [k \in 1 .. n |-> nzb'[k]]
    BY <2>3
  <2> HIDE DEF n, Segment
  <2> QED BY <2>3, <2>4, <2>5 DEF Listed
<1>11. JoinedSoFar'
  <2>1. body = Have(0)
    BY <1>1, <1>6 DEF JoinedSoFar
  <2>2. Have(0)' = Have(0)
    BY <1>2 DEF Have
  <2> QED BY <1>2, <1>6, <2>1, <2>2 DEF JoinedSoFar
<1> QED BY <1>5, <1>7, <1>8, <1>9, <1>10, <1>11 DEF Inv

\* The upload ends, or is refused.
LEMMA PromoteKeepsInv == Inv /\ Promote => Inv'
<1> SUFFICES ASSUME Inv, Promote PROVE Inv'
  OBVIOUS
<1>1. TypeOK /\ ArticlesOfParts /\ PhaseOK /\ LossesEndIt /\ JoinedSoFar /\ nzb = Listed(Len(articles))
  BY DEF Inv
<1>2. /\ phase = "posting" /\ Len(articles) = Len(Parts)
      /\ phase' = IF file = <<>> THEN "refused" ELSE "stored"
      /\ UNCHANGED <<file, articles, lost, nzb, fetched, body, damages>>
  BY DEF Promote
<1>3. Parts' = Parts /\ \A k : Have(k)' = Have(k) /\ Unprotected(k)' = Unprotected(k)
  BY <1>2 DEF Parts, Have, Unprotected
<1>4. TypeOK'
  BY <1>1, <1>2, <1>3 DEF TypeOK
<1>5. ArticlesOfParts'
  BY <1>1, <1>2, <1>3 DEF ArticlesOfParts
<1>6. PhaseOK'
  BY <1>1, <1>2, <1>3 DEF PhaseOK
<1>7. LossesEndIt'
  BY <1>1, <1>2 DEF LossesEndIt
<1>8. JoinedSoFar'
  BY <1>1, <1>2, <1>3 DEF JoinedSoFar
<1>9. nzb' = Listed(Len(articles'))
  BY <1>1, <1>2
<1> QED BY <1>4, <1>5, <1>6, <1>7, <1>8, <1>9 DEF Inv

\* A loss leaves the lines of an article lines of its part, and gives none its
\* trailer back.
LEMMA DamageKeepsInv == Inv /\ Damage => Inv'
<1> SUFFICES ASSUME Inv, Damage PROVE Inv'
  OBVIOUS
<1>1. TypeOK /\ ArticlesOfParts /\ PhaseOK /\ LossesEndIt /\ JoinedSoFar /\ nzb = Listed(Len(articles))
  BY DEF Inv
<1>2. /\ damages' = damages + 1
      /\ UNCHANGED <<file, nzb, fetched, body, phase>>
  BY DEF Damage
<1>3. damages' \in Nat \ {0}
  BY <1>1, <1>2 DEF TypeOK
<1>4. articles \in Seq(Seq(Line)) /\ Len(articles) \in Nat /\ DOMAIN articles = 1 .. Len(articles)
  BY <1>1, LenProperties DEF TypeOK
<1>5. Parts' = Parts /\ \A k : Have(k)' = Have(k)
  BY <1>2 DEF Parts, Have
<1> DEFINE OnlyLoses ==
              /\ articles' \in Seq(Seq(Line)) /\ Len(articles') = Len(articles)
              /\ \A k \in 1 .. Len(articles) :
                    /\ articles'[k] \in Seq(LinesOf(Parts[k]))
                    /\ \A l \in DOMAIN articles'[k] :
                          \E m \in DOMAIN articles[k] : articles'[k][l] = articles[k][m]
<1>6. OnlyLoses
  <2>1. CASE UNCHANGED articles
    BY <1>1, <1>4, <2>1 DEF ArticlesOfParts
  <2>2. ASSUME NEW k \in DOMAIN articles, NEW l \in DOMAIN articles[k],
               articles' = [articles EXCEPT ![k] = RemoveAt(@, l)]
        PROVE  OnlyLoses
    <3> DEFINE old == articles[k]
               new == RemoveAt(old, l)
    <3>1. k \in 1 .. Len(articles) /\ old \in Seq(Line) /\ old \in Seq(LinesOf(Parts[k]))
      BY <1>1, <1>4, ElementOfSeq DEF ArticlesOfParts
    <3>2. l \in 1 .. Len(old)
      BY <3>1, LenProperties
    <3> HIDE DEF old
    <3>3. /\ new \in Seq(Line) /\ new \in Seq(LinesOf(Parts[k]))
          /\ \A i \in DOMAIN new : \E m \in DOMAIN old : new[i] = old[m]
      BY <3>1, <3>2, RemoveElements
    <3>4. articles' = [articles EXCEPT ![k] = new]
      BY <2>2 DEF old
    <3> HIDE DEF new
    <3>5. /\ articles' \in Seq(Seq(Line)) /\ Len(articles') = Len(articles)
          /\ \A i \in 1 .. Len(articles) : articles'[i] = IF i = k THEN new ELSE articles[i]
      BY <1>4, <3>1, <3>3, <3>4, ExceptSeq
    <3> QED BY <1>1, <3>3, <3>5 DEF ArticlesOfParts, old
  <2> QED BY <2>1, <2>2 DEF Damage
<1>7. TypeOK'
  BY <1>1, <1>2, <1>3, <1>5, <1>6 DEF TypeOK
<1>8. ArticlesOfParts'
  BY <1>3, <1>5, <1>6 DEF ArticlesOfParts, LinesOf, Header, Trailer
<1>9. PhaseOK'
  BY <1>1, <1>2, <1>5, <1>6 DEF PhaseOK
<1>10. LossesEndIt'
  BY <1>3 DEF LossesEndIt
<1>11. JoinedSoFar'
  <2>1. ASSUME NEW k \in 1 .. fetched, ~Unprotected(k)'
        PROVE  ~Unprotected(k)
    <3>1. k \in 1 .. Len(articles)
      BY <1>1, <1>4 DEF TypeOK
    <3> QED BY <1>6, <2>1, <3>1 DEF Unprotected
  <2> QED BY <1>1, <1>2, <1>5, <2>1 DEF JoinedSoFar
<1>12. nzb' = Listed(Len(articles'))
  BY <1>1, <1>2, <1>6
<1> QED BY <1>7, <1>8, <1>9, <1>10, <1>11, <1>12 DEF Inv

\* A segment is fetched: it adds its part, or ends the download.
LEMMA FetchKeepsInv == Inv /\ Fetch => Inv'
<1> SUFFICES ASSUME Inv, Fetch PROVE Inv'
  OBVIOUS
<1> DEFINE k == fetched + 1
           dec == YEncDecode(articles[k])
<1>1. TypeOK /\ ArticlesOfParts /\ PhaseOK /\ LossesEndIt /\ JoinedSoFar /\ nzb = Listed(Len(articles))
  BY DEF Inv
<1>2. Len(articles) \in Nat /\ fetched \in Nat /\ DOMAIN articles = 1 .. Len(articles)
  BY <1>1, LenProperties DEF TypeOK
<1>3. Sorted = nzb /\ Len(nzb) = Len(articles)
  <2>1. Sorted = nzb
    BY <1>1, <1>2, SortedIsListed
  <2>2. Len(Listed(Len(articles))) = Len(articles)
    BY <1>2 DEF Listed
  <2> QED BY <1>1, <2>1, <2>2
<1>4. k \in 1 .. Len(articles) /\ Sorted[k].msgid = k
  <2>1. k \in 1 .. Len(articles)
    BY <1>2, <1>3 DEF Fetch
  <2> QED BY <1>1, <1>3, <2>1 DEF Listed
<1>5. /\ phase = "stored"
      /\ IF k \notin lost /\ Decodes(dec)
           THEN /\ body' = body \o dec.data
                /\ fetched' = k
                /\ UNCHANGED phase
           ELSE /\ phase' = "failed"
                /\ UNCHANGED <<body, fetched>>
      /\ UNCHANGED <<file, articles, lost, nzb, damages>>
  BY <1>4 DEF Fetch
<1> HIDE DEF dec
<1>6. Len(Parts) \in Nat /\ Len(articles) = Len(Parts) /\ file \in Seq(Byte)
  BY <1>1, <1>5, PartsOfFile DEF TypeOK, PhaseOK
<1>7. Parts' = Parts /\ \A i : Have(i)' = Have(i) /\ Unprotected(i)' = Unprotected(i)
  BY <1>5 DEF Parts, Have, Unprotected
<1>8. Parts[k] \in Part /\ Have(fetched) \o Parts[k].data = Have(k)
  <2>1. k - 1 = fetched
    BY <1>2
  <2> QED BY <1>4, <1>6, <2>1, PartsOfFile
<1>9. ArticlesOfParts' /\ nzb' = Listed(Len(articles'))
  BY <1>1, <1>5, <1>7 DEF ArticlesOfParts
<1>10. CASE k \notin lost /\ Decodes(dec)
  <2>1. body' = body \o dec.data /\ fetched' = k /\ phase' = phase
    BY <1>5, <1>10
  <2>2. TypeOK'
    <3>1. k \in 0 .. Len(articles)
      BY <1>4
    <3> QED BY <1>1, <1>5, <1>7, <2>1, <3>1 DEF TypeOK
  <2>3. PhaseOK' /\ LossesEndIt'
    BY <1>1, <1>5, <1>7, <2>1 DEF PhaseOK, LossesEndIt
  <2>4. JoinedSoFar'
    <3> SUFFICES ASSUME \A i \in 1 .. k : ~Unprotected(i)
                 PROVE  body' = Have(k)
      BY <1>7, <2>1 DEF JoinedSoFar
    <3>1. body = Have(fetched)
      <4>1. \A i \in 1 .. fetched : i \in 1 .. k
        BY <1>2
      <4> HIDE DEF k
      <4> QED BY <1>1, <4>1 DEF JoinedSoFar
    <3>2. dec.data = Parts[k].data
      <4>1. articles[k] \in Seq(LinesOf(Parts[k]))
        BY <1>1, <1>4 DEF ArticlesOfParts
      <4>2. \E l \in 1 .. Len(articles[k]) : articles[k][l].kind = "=yend"
        <5>1. ~Unprotected(k)
          BY <1>4
        <5>2. DOMAIN articles[k] = 1 .. Len(articles[k])
          BY <4>1, LenProperties
        <5> QED BY <5>1, <5>2 DEF Unprotected
      <4> HIDE DEF k
      <4> QED BY <1>8, <1>10, <4>1, <4>2, TrailerProtects DEF dec
    <3> QED BY <1>8, <2>1, <3>1, <3>2
  <2> QED BY <1>9, <2>2, <2>3, <2>4 DEF Inv
<1>11. CASE ~(k \notin lost /\ Decodes(dec))
  <2>1. body' = body /\ fetched' = fetched /\ phase' = "failed"
    BY <1>5, <1>11
  <2>2. TypeOK'
    BY <1>1, <1>5, <1>7, <2>1 DEF TypeOK
  <2>3. PhaseOK'
    BY <1>1, <1>5, <1>7, <2>1 DEF PhaseOK
  <2>4. LossesEndIt'
    <3> SUFFICES ASSUME damages = 0 PROVE FALSE
      BY <1>5 DEF LossesEndIt
    <3>1. lost = {} /\ articles[k] = YEncEncodeSegment(Parts[k])
      BY <1>1, <1>4 DEF LossesEndIt, ArticlesOfParts
    <3>2. Decodes(dec)
      BY <1>8, <3>1, ArticleDecodes DEF dec
    <3> QED BY <1>11, <3>1, <3>2
  <2>5. JoinedSoFar'
    BY <1>1, <1>7, <2>1 DEF JoinedSoFar
  <2> QED BY <1>9, <2>2, <2>3, <2>4, <2>5 DEF Inv
<1> QED BY <1>10, <1>11

\* The file is written when every segment was joined.
LEMMA WriteFileKeepsInv == Inv /\ WriteFile => Inv'
<1> SUFFICES ASSUME Inv, WriteFile PROVE Inv'
  OBVIOUS
<1>1. TypeOK /\ ArticlesOfParts /\ PhaseOK /\ LossesEndIt /\ JoinedSoFar /\ nzb = Listed(Len(articles))
  BY DEF Inv
<1>2. /\ phase = "stored" /\ fetched = Len(nzb) /\ phase' = "done"
      /\ UNCHANGED <<file, articles, lost, nzb, fetched, body, damages>>
  BY DEF WriteFile
<1>3. fetched = Len(articles)
  <2>1. Len(articles) \in Nat
    BY <1>1, LenProperties DEF TypeOK
  <2>2. Len(Listed(Len(articles))) = Len(articles)
    BY <2>1 DEF Listed
  <2> QED BY <1>1, <1>2, <2>2
<1>4. Parts' = Parts /\ \A k : Have(k)' = Have(k) /\ Unprotected(k)' = Unprotected(k)
  BY <1>2 DEF Parts, Have, Unprotected
<1>5. TypeOK'
  BY <1>1, <1>2, <1>4 DEF TypeOK
<1>6. ArticlesOfParts' /\ nzb' = Listed(Len(articles'))
  BY <1>1, <1>2, <1>4 DEF ArticlesOfParts
<1>7. PhaseOK' /\ LossesEndIt'
  BY <1>1, <1>2, <1>3, <1>4 DEF PhaseOK, LossesEndIt
<1>8. JoinedSoFar'
  BY <1>1, <1>2, <1>4 DEF JoinedSoFar
<1> QED BY <1>5, <1>6, <1>7, <1>8 DEF Inv

\* The invariant holds in every state, whatever the bounds are.
THEOREM Invariance == Spec => []Inv
<1>1. Init => Inv
  BY Initially
<1>2. Inv /\ [Next]_vars => Inv'
  <2> SUFFICES ASSUME Inv, [Next]_vars PROVE Inv'
    OBVIOUS
  <2>1. CASE Post
    BY <2>1, PostKeepsInv
  <2>2. CASE Promote
    BY <2>2, PromoteKeepsInv
  <2>3. CASE Damage
    BY <2>3, DamageKeepsInv
  <2>4. CASE Fetch
    BY <2>4, FetchKeepsInv
  <2>5. CASE WriteFile
    BY <2>5, WriteFileKeepsInv
  <2>6. CASE UNCHANGED vars
    <3>1. UNCHANGED <<file, articles, lost, nzb, fetched, body, phase, damages>>
      BY <2>6 DEF vars
    <3>2. Parts' = Parts /\ \A k : Have(k)' = Have(k) /\ Unprotected(k)' = Unprotected(k)
      BY <3>1 DEF Parts, Have, Unprotected
    <3> QED BY <3>1, <3>2 DEF Inv, TypeOK, ArticlesOfParts, PhaseOK, LossesEndIt, JoinedSoFar
  <2> QED BY <2>1, <2>2, <2>3, <2>4, <2>5, <2>6 DEF Next
<1> QED BY <1>1, <1>2, PTL DEF Spec

\* The joined parts are the beginning of the file, and at the end the file.
LEMMA InvRestores == Inv => RoundTrip
<1> SUFFICES ASSUME Inv PROVE RoundTrip
  OBVIOUS
<1> SUFFICES ASSUME \A k \in DOMAIN articles : ~Unprotected(k)
             PROVE  /\ body = SubSeq(file, 1, Len(body))
                    /\ phase = "done" => body = file
                    /\ phase = "failed" => damages > 0
  BY DEF RoundTrip
<1> DEFINE c == Len(Parts)
<1>1. TypeOK /\ PhaseOK /\ LossesEndIt /\ JoinedSoFar
  BY DEF Inv
<1>2. DOMAIN articles = 1 .. Len(articles) /\ Len(articles) \in Nat /\ damages \in Nat
  BY <1>1, LenProperties DEF TypeOK
<1>3. /\ c \in Nat /\ c = Ceiling(Len(file), SegmentSize)
      /\ Have(c) = file
      /\ \A k \in 0 .. c : Len(Have(k)) = Cut(Len(file), SegmentSize, k)
  BY <1>1, PartsOfFile DEF TypeOK
<1> HIDE DEF c
<1>4. fetched \in 0 .. Len(articles) /\ fetched \in 0 .. c
  BY <1>1, <1>2, <1>3 DEF TypeOK, c
<1>5. body = Have(fetched)
  <2>1. \A k \in 1 .. fetched : k \in DOMAIN articles
    BY <1>2, <1>4
  <2> QED BY <1>1, <2>1 DEF JoinedSoFar
<1>6. body = SubSeq(file, 1, Len(body))
  <2>1. Len(body) = Cut(Len(file), SegmentSize, fetched)
    BY <1>3, <1>4, <1>5
  <2> QED BY <1>5, <2>1 DEF Have
<1>7. ASSUME phase = "done" PROVE body = file
  <2>1. fetched = c
    BY <1>1, <1>7 DEF PhaseOK, c
  <2> QED BY <1>3, <1>5, <2>1
<1>8. phase = "failed" => damages > 0
  BY <1>1, <1>2 DEF LossesEndIt
<1> QED BY <1>6, <1>7, <1>8

\* What a download has joined is what was uploaded, and a loss ends it, unless
\* an article lost its trailer.
THEOREM Restored == Spec => []RoundTrip
  BY Invariance, InvRestores, PTL

\* Every line of data is the encoding of some bytes.
LEMMA InvIsSafe == Inv => WireSafe
<1> SUFFICES ASSUME Inv PROVE WireSafe
  OBVIOUS
<1> SUFFICES ASSUME NEW k \in DOMAIN articles, NEW l \in DOMAIN articles[k],
                    articles[k][l].kind = "data"
             PROVE  LET bytes == articles[k][l].bytes
                        ends  == {bytes[1], bytes[Len(bytes)]}
                    IN  /\ \A i \in DOMAIN bytes : bytes[i] \notin {NUL, LF, CR}
                        /\ bytes[1] # DOT
                        /\ ~(bytes[1] = EQUALS /\ bytes[2] = 121)
                        /\ ends \cap {TAB, SPACE} = {}
                        /\ Len(bytes) <= 2 * LineLength
  BY DEF WireSafe
<1> DEFINE bytes == articles[k][l].bytes
<1>1. articles \in Seq(Seq(Line)) /\ k \in 1 .. Len(articles)
  BY LenProperties DEF Inv, TypeOK
<1>2. articles[k] \in Seq(Line)
  BY <1>1, ElementOfSeq
<1>3. articles[k][l] \in Line
  BY <1>2, LenProperties, ElementOfSeq
<1>4. PICK raw \in RawLine : articles[k][l] = Data(raw)
  BY <1>3 DEF Line, Begin, Header, Trailer
<1>5. raw \in Seq(Byte) /\ raw # <<>> /\ Len(raw) \in Nat /\ Len(raw) <= LineLength
  BY LenProperties DEF RawLine
<1>6. bytes = EncodeLine(raw)
  BY <1>4 DEF Data
<1> HIDE DEF bytes
<1>7. Safe(bytes, Len(raw))
  BY <1>5, <1>6, EncodeSafe
<1>8. DOMAIN bytes = 1 .. Len(bytes)
  BY <1>7, LenProperties DEF Safe
<1>9. Len(bytes) <= 2 * LineLength
  <2>1. Len(bytes) \in 1 .. 2 * Len(raw)
    BY <1>7 DEF Safe
  <2> QED BY <1>5, <2>1, SizesAssumption
<1>10. {bytes[1], bytes[Len(bytes)]} \cap {TAB, SPACE} = {}
  BY <1>7 DEF Safe
<1>11. /\ \A i \in DOMAIN bytes : bytes[i] \notin {NUL, LF, CR}
       /\ bytes[1] # DOT
       /\ ~(bytes[1] = EQUALS /\ bytes[2] = 121)
  BY <1>7, <1>8 DEF Safe
<1> QED BY <1>9, <1>10, <1>11 DEF bytes

\* The data of every article is safe on the way, damaged or not.
THEOREM SafeOnTheWire == Spec => []WireSafe
  BY Invariance, InvIsSafe, PTL

\* The articles announce the ranges of their parts.
LEMMA InvTiles == Inv => PartsTile
<1> SUFFICES ASSUME Inv PROVE PartsTile
  OBVIOUS
<1> SUFFICES ASSUME damages = 0
             PROVE  /\ \A k \in DOMAIN articles :
                          LET previous == IF k = 1 THEN 0 ELSE articles[k - 1][2].end IN
                          /\ articles[k][2].begin = previous + 1
                          /\ articles[k][2].end \in previous + 1 .. Len(file)
                    /\ phase \in {"stored", "done"} => articles[Len(articles)][2].end = Len(file)
  BY DEF PartsTile
<1> DEFINE end(k) == Cut(Len(file), SegmentSize, k)
           c == Len(Parts)
<1>1. TypeOK /\ PhaseOK /\ ArticlesOfParts
  BY DEF Inv
<1>2. DOMAIN articles = 1 .. Len(articles) /\ Len(articles) \in Nat
  BY <1>1, LenProperties DEF TypeOK
<1>3. /\ c \in Nat /\ Len(file) \in Nat
      /\ end(0) = 0 /\ end(c) = Len(file) /\ (file # <<>> => c > 0)
      /\ \A k \in 0 .. c : end(k) \in 0 .. Len(file)
      /\ \A k \in 1 .. c : /\ Parts[k] \in Part
                           /\ Parts[k].begin = end(k - 1) + 1
                           /\ Len(Parts[k].data) = end(k) - end(k - 1)
                           /\ Len(Parts[k].data) > 0
  BY <1>1, PartsOfFile DEF TypeOK
<1> HIDE DEF end, c
<1>4. ASSUME NEW k \in 1 .. Len(articles)
      PROVE  /\ articles[k][2].begin = end(k - 1) + 1
             /\ articles[k][2].end = end(k)
             /\ end(k) > end(k - 1)
             /\ k \in 1 .. c
             /\ end(k) \in 0 .. Len(file) /\ end(k - 1) \in 0 .. Len(file)
  <2>1. k \in 1 .. c /\ k \in 0 .. c /\ k - 1 \in 0 .. c
    <3>1. Len(articles) <= c
      BY <1>1 DEF TypeOK, c
    <3> QED BY <1>2, <1>3, <3>1
  <2>2. end(k) \in 0 .. Len(file) /\ end(k - 1) \in 0 .. Len(file)
    BY <1>3, <2>1
  <2>3. articles[k][2] = Header(Parts[k])
    <3>1. articles[k] = YEncEncodeSegment(Parts[k])
      BY <1>1 DEF ArticlesOfParts
    <3> QED BY <1>3, <2>1, <3>1, ArticleLines
  <2>4. articles[k][2].begin = Parts[k].begin
        /\ articles[k][2].end = Parts[k].begin + Len(Parts[k].data) - 1
    BY <2>3 DEF Header
  <2>5. /\ Parts[k].begin = end(k - 1) + 1
        /\ Len(Parts[k].data) = end(k) - end(k - 1)
        /\ Len(Parts[k].data) > 0
    BY <1>3, <2>1
  <2>6. articles[k][2].end = end(k) /\ end(k) > end(k - 1)
    BY <1>3, <2>2, <2>4, <2>5
  <2> QED BY <2>1, <2>2, <2>4, <2>5, <2>6
<1>5. ASSUME NEW k \in 1 .. Len(articles)
      PROVE  LET previous == IF k = 1 THEN 0 ELSE articles[k - 1][2].end IN
             /\ articles[k][2].begin = previous + 1
             /\ articles[k][2].end \in previous + 1 .. Len(file)
  <2> DEFINE previous == IF k = 1 THEN 0 ELSE articles[k - 1][2].end
  <2>1. previous = end(k - 1)
    <3>1. CASE k = 1
      BY <1>3, <3>1
    <3>2. CASE k # 1
      <4>1. k - 1 \in 1 .. Len(articles)
        BY <1>2, <3>2
      <4> QED BY <1>4, <3>2, <4>1
    <3> QED BY <3>1, <3>2
  <2> HIDE DEF previous
  <2> DEFINE e == end(k)
  <2>3. e \in 0 .. Len(file) /\ previous \in 0 .. Len(file) /\ e > previous
    BY <1>4, <2>1
  <2>4. articles[k][2].begin = previous + 1 /\ articles[k][2].end = e
    BY <1>4, <2>1
  <2> HIDE DEF e
  <2>2. articles[k][2].begin = previous + 1 /\ articles[k][2].end \in previous + 1 .. Len(file)
    BY <1>3, <2>3, <2>4
  <2> QED BY <2>2 DEF previous
<1>6. ASSUME phase \in {"stored", "done"}
      PROVE  articles[Len(articles)][2].end = Len(file)
  <2>1. Len(articles) = c /\ c > 0
    BY <1>1, <1>3, <1>6 DEF PhaseOK, c
  <2>2. c \in 1 .. Len(articles)
    BY <1>3, <2>1
  <2>3. articles[c][2].end = end(c)
    BY <1>4, <2>2
  <2> QED BY <1>3, <2>1, <2>3
<1> QED BY <1>2, <1>5, <1>6

\* The ranges that the articles announce cover the file, one after the other,
\* as long as nothing was lost.
THEOREM RangesTile == Spec => []PartsTile
  BY Invariance, InvTiles, PTL

=============================================================================
