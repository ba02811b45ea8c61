----------------------------- MODULE UrlCodecProofs ----------------------------
(***************************************************************************)
(* What percent-encoding does to every text, what the parsers of addresses *)
(* and of cookies do with their text, and the induction that the proofs    *)
(* about recursive functions rest on.                                      *)
(***************************************************************************)
EXTENDS Cookies, TLAPS, WellFoundedInduction, SequenceTheorems

-----------------------------------------------------------------------------
\* Induction, for sets of numbers: there is a least one.
LEMMA LeastNumber ==
    ASSUME NEW T, T \subseteq Nat, T # {}
    PROVE  \E x \in T : \A y \in T : x <= y
<1>1. IsWellFoundedOn({ss \in Nat \X Nat : ss[1] < ss[2]}, Nat)
  BY NatLessThanWellFounded DEF OpToRel
<1>2. PICK x \in T : \A y \in T : <<y, x>> \notin {ss \in Nat \X Nat : ss[1] < ss[2]}
  BY <1>1, WFMin
<1>3. \A y \in T : ~(y < x)
  BY <1>2
<1> QED BY <1>2, <1>3

\* What holds of a number as soon as it holds of those below it holds of all of them.
LEMMA Upwards ==
    ASSUME NEW G, NEW n \in Nat, \A k \in 0 .. n : (\A m \in 0 .. k - 1 : m \in G) => k \in G
    PROVE  \A k \in 0 .. n : k \in G
<1> SUFFICES ASSUME (0 .. n) \ G # {} PROVE FALSE
  OBVIOUS
<1>1. PICK x \in (0 .. n) \ G : \A y \in (0 .. n) \ G : x <= y
  <2>1. (0 .. n) \ G \subseteq Nat
    OBVIOUS
  <2> QED BY <2>1, LeastNumber
<1>2. \A m \in 0 .. x - 1 : m \in G
  BY <1>1
<1> QED BY <1>1, <1>2

\* And what holds of a number as soon as it holds of those above it, up to n.
LEMMA Downwards ==
    ASSUME NEW G, NEW n \in Nat, \A k \in 0 .. n : (\A m \in k + 1 .. n : m \in G) => k \in G
    PROVE  \A k \in 0 .. n : k \in G
<1> DEFINE H == {m \in 0 .. n : n - m \in G}
<1>1. ASSUME NEW k \in 0 .. n, \A m \in 0 .. k - 1 : m \in H PROVE k \in H
  <2>1. ASSUME NEW m \in n - k + 1 .. n PROVE m \in G
    <3>1. n - m \in 0 .. k - 1
      OBVIOUS
    <3>2. n - m \in H
      BY <1>1, <3>1
    <3>3. n - (n - m) = m
      OBVIOUS
    <3> QED BY <3>2, <3>3
  <2>2. n - k \in 0 .. n
    OBVIOUS
  <2> QED BY <2>1, <2>2
<1>2. \A k \in 0 .. n : k \in H
  <2> HIDE DEF H
  <2> QED BY <1>1, Upwards
<1>3. ASSUME NEW k \in 0 .. n PROVE k \in G
  <2>1. n - k \in H
    BY <1>2
  <2>2. n - (n - k) = k
    OBVIOUS
  <2> QED BY <2>1, <2>2
<1> QED BY <1>3

-----------------------------------------------------------------------------
\* What decode does at a place of its text.
DecodeBody(s, decoded, i) ==
    IF i > Len(s) THEN <<>>
    ELSE IF s[i] = Plus THEN <<Space>> \o decoded[i + 1]
    ELSE IF Escaped(s, i) THEN <<HexToChar(s[i + 1], s[i + 2])>> \o decoded[i + 3]
    ELSE <<s[i]>> \o decoded[i + 1]

\* What decode yields from each place of t on.
IsDecoding(f, t) == \A i \in 1 .. Len(t) + 3 : f[i] = DecodeBody(t, f, i)

\* The recursion ends: the places that decode goes to lie behind.
LEMMA DecodeExists ==
    ASSUME NEW s \in Seq(Byte)
    PROVE  \E f : f = [i \in 1 .. Len(s) + 3 |-> DecodeBody(s, f, i)]
<1> DEFINE L == Len(s) + 3
           G == {k \in 0 .. L : \E f : f = [i \in k + 1 .. L |-> DecodeBody(s, f, i)]}
<1>0. Len(s) \in Nat /\ L \in Nat
  BY LenProperties
<1>1. ASSUME NEW k \in 0 .. L, \A m \in k + 1 .. L : m \in G PROVE k \in G
  <2>1. CASE k = L
    <3>1. [i \in {} |-> 0] = [i \in k + 1 .. L |-> DecodeBody(s, [j \in {} |-> 0], i)]
      BY <1>0, <2>1
    <3> QED BY <3>1
  <2>2. CASE k < L
    <3>1. k + 1 \in G
      BY <1>0, <1>1, <2>2
    <3>2. PICK f : f = [i \in k + 2 .. L |-> DecodeBody(s, f, i)]
      BY <3>1
    <3> DEFINE g == [i \in k + 1 .. L |-> IF i = k + 1 THEN DecodeBody(s, f, i) ELSE f[i]]
    <3>3. ASSUME NEW i \in k + 1 .. L PROVE DecodeBody(s, g, i) = DecodeBody(s, f, i)
      <4>1. CASE i > Len(s)
        BY <4>1 DEF DecodeBody
      <4>2. CASE i <= Len(s)
        <5>1. g[i + 1] = f[i + 1] /\ g[i + 3] = f[i + 3]
          BY <1>0, <4>2
        <5> HIDE DEF g
        <5> QED BY <5>1 DEF DecodeBody
      <4> QED BY <1>0, <4>1, <4>2
    <3>4. ASSUME NEW i \in k + 1 .. L PROVE g[i] = DecodeBody(s, g, i)
      <4>1. CASE i = k + 1
        BY <3>3, <4>1
      <4>2. CASE i \in k + 2 .. L
        BY <3>2, <3>3, <4>2
      <4> QED BY <1>0, <4>1, <4>2
    <3>5. g = [i \in k + 1 .. L |-> DecodeBody(s, g, i)]
      BY <3>4
    <3> QED BY <3>5
  <2> QED BY <1>0, <2>1, <2>2
<1>2. 0 \in G
  <2> HIDE DEF G, L
  <2>1. \A k \in 0 .. L : k \in G
    BY <1>0, <1>1, Downwards
  <2> QED BY <1>0, <2>1
<1> QED BY <1>2

\* Decode is what its recursion makes of the whole text.
LEMMA DecodeIs ==
    ASSUME NEW s \in Seq(Byte)
    PROVE  \E f : IsDecoding(f, s) /\ Decode(s) = f[1]
<1> DEFINE d == CHOOSE f : f = [i \in 1 .. Len(s) + 3 |-> DecodeBody(s, f, i)]
<1>1. d = [i \in 1 .. Len(s) + 3 |-> DecodeBody(s, d, i)]
  BY DecodeExists
<1>2. Decode(s) = d[1]
  BY DEF Decode, DecodeBody
<1> HIDE DEF d
<1>3. IsDecoding(d, s)
  BY <1>1 DEF IsDecoding
<1> QED BY <1>2, <1>3

-----------------------------------------------------------------------------
\* A concatenation of sequences, one after the other.
FlattenBody(q, flatten, i) == IF i = 1 THEN q[i] ELSE flatten[i - 1] \o q[i]

\* The recursion of FlattenSeq ends as well.
LEMMA FlattenExists ==
    ASSUME NEW q, Len(q) \in Nat
    PROVE  \E f : f = [i \in 1 .. Len(q) |-> FlattenBody(q, f, i)]
<1> DEFINE n == Len(q)
           G == {k \in 0 .. n : \E f : f = [i \in 1 .. k |-> FlattenBody(q, f, i)]}
<1>0. n \in Nat
  OBVIOUS
<1>1. ASSUME NEW k \in 0 .. n, \A m \in 0 .. k - 1 : m \in G PROVE k \in G
  <2>1. CASE k = 0
    <3>1. [i \in {} |-> 0] = [i \in 1 .. k |-> FlattenBody(q, [j \in {} |-> 0], i)]
      BY <2>1
    <3> QED BY <3>1
  <2>2. CASE k > 0
    <3>1. k - 1 \in G
      BY <1>0, <1>1, <2>2
    <3>2. PICK f : f = [i \in 1 .. k - 1 |-> FlattenBody(q, f, i)]
      BY <3>1
    <3> DEFINE g == [i \in 1 .. k |-> IF i = k THEN FlattenBody(q, f, i) ELSE f[i]]
    <3>3. ASSUME NEW i \in 1 .. k PROVE FlattenBody(q, g, i) = FlattenBody(q, f, i)
      <4>1. CASE i = 1
        BY <4>1 DEF FlattenBody
      <4>2. CASE i # 1
        <5>1. g[i - 1] = f[i - 1]
          BY <1>0, <4>2
        <5> HIDE DEF g
        <5> QED BY <4>2, <5>1 DEF FlattenBody
      <4> QED BY <4>1, <4>2
    <3>4. ASSUME NEW i \in 1 .. k PROVE g[i] = FlattenBody(q, g, i)
      <4>1. CASE i = k
        BY <3>3, <4>1
      <4>2. CASE i \in 1 .. k - 1
        BY <3>2, <3>3, <4>2
      <4> QED BY <1>0, <4>1, <4>2
    <3>5. g = [i \in 1 .. k |-> FlattenBody(q, g, i)]
      BY <3>4
    <3> QED BY <3>5
  <2> QED BY <1>0, <2>1, <2>2
<1>2. n \in G
  <2> HIDE DEF G, n
  <2>1. \A k \in 0 .. n : k \in G
    BY <1>0, <1>1, Upwards
  <2> QED BY <1>0, <2>1
<1> QED BY <1>2

\* Two sequences, one after the other.
LEMMA ConcatOf ==
    ASSUME NEW S, NEW a \in Seq(S), NEW b \in Seq(S)
    PROVE  /\ Len(a \o b) = Len(a) + Len(b)
           /\ \A i \in 1 .. Len(a) : (a \o b)[i] = a[i]
           /\ \A j \in 1 .. Len(b) : (a \o b)[Len(a) + j] = b[j]
OBVIOUS

\* The sequences up to each, one after the other.
IsFlattening(f, q, S) ==
    \A i \in 1 .. Len(q) : f[i] \in Seq(S) /\ f[i] = IF i = 1 THEN q[i] ELSE f[i - 1] \o q[i]

\* FlattenSeq appends one sequence after the other.
LEMMA FlattenIs ==
    ASSUME NEW S, NEW q \in Seq(Seq(S)), q # <<>>
    PROVE  \E f : IsFlattening(f, q, S) /\ FlattenSeq(q) = f[Len(q)]
<1> DEFINE n == Len(q)
           d == CHOOSE f : f = [i \in 1 .. n |-> FlattenBody(q, f, i)]
<1>0. n \in Nat /\ n > 0
  BY LenProperties, EmptySeq
<1>1. d = [i \in 1 .. n |-> FlattenBody(q, d, i)]
  BY <1>0, FlattenExists
<1>2. FlattenSeq(q) = d[n]
  BY <1>0 DEF FlattenSeq, FlattenBody
<1> HIDE DEF d
<1>3. \A i \in 1 .. n : d[i] = IF i = 1 THEN q[i] ELSE d[i - 1] \o q[i]
  BY <1>1 DEF FlattenBody
<1>4. \A i \in 0 .. n : i \in {k \in Nat : k = 0 \/ d[k] \in Seq(S)}
  <2> DEFINE G == {k \in Nat : k = 0 \/ d[k] \in Seq(S)}
  <2>1. ASSUME NEW k \in 0 .. n, \A m \in 0 .. k - 1 : m \in G PROVE k \in G
    <3>1. CASE k = 0
      BY <3>1
    <3>2. CASE k > 0
      <4>1. q[k] \in Seq(S)
        BY <1>0, <3>2, ElementOfSeq
      <4>2. CASE k = 1
        BY <1>3, <4>1, <4>2
      <4>3. CASE k > 1
        <5>1. k - 1 \in G
          BY <1>0, <2>1, <3>2
        <5>2. d[k - 1] \in Seq(S)
          BY <4>3, <5>1
        <5>3. d[k - 1] \o q[k] \in Seq(S)
          BY <4>1, <5>2, ConcatProperties
        <5>4. d[k] = d[k - 1] \o q[k]
          <6>1. k \in 1 .. n /\ k # 1
            BY <1>0, <4>3
          <6> HIDE DEF n
          <6> QED BY <1>3, <6>1
        <5>5. d[k] \in Seq(S)
          BY <5>3, <5>4
        <5> QED BY <1>0, <5>5
      <4> QED BY <3>2, <4>2, <4>3
    <3> QED BY <3>1, <3>2
  <2> HIDE DEF G
  <2>2. \A k \in 0 .. n : k \in G
    BY <1>0, <2>1, Upwards
  <2> QED BY <2>2 DEF G
<1> QED BY <1>0, <1>2, <1>3, <1>4 DEF IsFlattening

\* A concatenation of sequences of one set is another.
LEMMA FlattenType ==
    ASSUME NEW S, NEW q \in Seq(Seq(S)), q # <<>>
    PROVE  FlattenSeq(q) \in Seq(S)
<1>1. PICK f : IsFlattening(f, q, S) /\ FlattenSeq(q) = f[Len(q)]
  BY FlattenIs
<1>2. Len(q) \in 1 .. Len(q)
  BY LenProperties, EmptySeq
<1> QED BY <1>1, <1>2 DEF IsFlattening

\* What has been appended stays in its place.
LEMMA FlattenGrows ==
    ASSUME NEW S, NEW q \in Seq(Seq(S)), NEW f, IsFlattening(f, q, S)
    PROVE  \A k \in 1 .. Len(q) :
              /\ Len(f[k]) <= Len(f[Len(q)])
              /\ \A i \in 1 .. Len(f[k]) : f[Len(q)][i] = f[k][i]
<1> DEFINE n == Len(q)
           G == {m \in 1 .. n : Len(f[m]) <= Len(f[n]) /\ \A i \in 1 .. Len(f[m]) : f[n][i] = f[m][i]}
<1>0. n \in Nat
  OBVIOUS
<1>1. ASSUME NEW m \in 0 .. n, \A l \in m + 1 .. n : l \in G \cup {0} PROVE m \in G \cup {0}
  <2>1. CASE m = 0
    BY <2>1
  <2>2. CASE m = n /\ m # 0
    <3>1. m \in 1 .. n
      BY <1>0, <2>2
    <3>2. Len(f[m]) \in Nat
      <4>1. f[m] \in Seq(S)
        BY <3>1 DEF IsFlattening
      <4> QED BY <4>1
    <3> HIDE DEF n
    <3> QED BY <2>2, <3>1, <3>2
  <2>3. CASE m \in 1 .. n - 1
    <3>0. m \in 1 .. n /\ m + 1 \in 1 .. n /\ m + 1 \in m + 1 .. n /\ m + 1 # 0 /\ m + 1 # 1 /\ (m + 1) - 1 = m
          /\ n \in 1 .. n
      BY <1>0, <2>3
    <3>1. m + 1 \in G
      <4>1. m + 1 \in G \cup {0}
        <5> HIDE DEF G, n
        <5> QED BY <1>1, <3>0
      <4> QED BY <3>0, <4>1
    <3> DEFINE a == f[m]
               b == q[m + 1]
    <3>2. a \in Seq(S) /\ b \in Seq(S) /\ f[n] \in Seq(S)
      BY <3>0, ElementOfSeq DEF IsFlattening
    <3>3. f[m + 1] = a \o b
      <4> HIDE DEF n, G
      <4>1. f[m + 1] = f[(m + 1) - 1] \o q[m + 1]
        BY <3>0 DEF n, IsFlattening
      <4> QED BY <3>0, <4>1
    <3>4. /\ Len(a \o b) = Len(a) + Len(b)
          /\ \A i \in 1 .. Len(a) : (a \o b)[i] = a[i]
      <4>1. a \in Seq(S) /\ b \in Seq(S)
        BY <3>2
      <4> HIDE DEF a, b
      <4> QED BY <4>1, ConcatOf
    <3>5. Len(a) \in Nat /\ Len(b) \in Nat /\ Len(f[n]) \in Nat
      BY <3>2
    <3>6. Len(a \o b) <= Len(f[n]) /\ \A i \in 1 .. Len(a \o b) : f[n][i] = (a \o b)[i]
      BY <3>1, <3>3
    <3> HIDE DEF a, b, n
    <3>7. Len(a) <= Len(f[n])
      BY <3>4, <3>5, <3>6
    <3>8. \A i \in 1 .. Len(a) : f[n][i] = a[i]
      <4> TAKE i \in 1 .. Len(a)
      <4>1. i \in 1 .. Len(a \o b)
        BY <3>4, <3>5
      <4> QED BY <3>4, <3>6, <4>1
    <3>9. m \in G
      BY <3>0, <3>7, <3>8 DEF a
    <3> QED BY <3>9
  <2> QED BY <1>0, <2>1, <2>2, <2>3
<1>2. ASSUME NEW k \in 1 .. n PROVE k \in G
  <2>1. k \in G \cup {0}
    <3> HIDE DEF G
    <3>1. \A m \in 0 .. n : m \in G \cup {0}
      BY <1>0, <1>1, Downwards
    <3> QED BY <3>1
  <2> QED BY <2>1
<1> QED BY <1>2

\* Where each sequence stands in the concatenation.
LEMMA FlattenPlaces ==
    ASSUME NEW S, NEW q \in Seq(Seq(S)), q # <<>>
    PROVE  \E p \in [0 .. Len(q) -> Nat] :
              /\ p[0] = 0 /\ p[Len(q)] = Len(FlattenSeq(q))
              /\ \A k \in 1 .. Len(q) :
                    /\ p[k] = p[k - 1] + Len(q[k]) /\ p[k] <= Len(FlattenSeq(q))
                    /\ \A j \in 1 .. Len(q[k]) : FlattenSeq(q)[p[k - 1] + j] = q[k][j]
<1> DEFINE n == Len(q)
<1>0. n \in Nat /\ n > 0
  BY LenProperties, EmptySeq
<1>1. PICK f : IsFlattening(f, q, S) /\ FlattenSeq(q) = f[n]
  BY FlattenIs
<1>2. \A k \in 1 .. n : Len(f[k]) <= Len(f[n]) /\ \A i \in 1 .. Len(f[k]) : f[n][i] = f[k][i]
  BY <1>1, FlattenGrows
<1> DEFINE p == [k \in 0 .. n |-> IF k = 0 THEN 0 ELSE Len(f[k])]
<1>3. p \in [0 .. n -> Nat] /\ p[0] = 0 /\ p[n] = Len(FlattenSeq(q))
  BY <1>0, <1>1, LenProperties DEF IsFlattening
<1>4. ASSUME NEW k \in 1 .. n
      PROVE  /\ p[k] = p[k - 1] + Len(q[k]) /\ p[k] <= Len(FlattenSeq(q))
             /\ \A j \in 1 .. Len(q[k]) : FlattenSeq(q)[p[k - 1] + j] = q[k][j]
  <2>0. q[k] \in Seq(S) /\ Len(q[k]) \in Nat /\ f[k] \in Seq(S) /\ Len(f[k]) \in Nat
    <3>1. q[k] \in Seq(S) /\ f[k] \in Seq(S)
      BY <1>0, <1>1, ElementOfSeq DEF IsFlattening
    <3> HIDE DEF n
    <3> QED BY <3>1
  <2>1. /\ p[k] = Len(f[k]) /\ p[k - 1] \in Nat
        /\ Len(f[k]) = p[k - 1] + Len(q[k])
        /\ \A j \in 1 .. Len(q[k]) : f[k][p[k - 1] + j] = q[k][j]
    <3>1. CASE k = 1
      <4>1. p[k] = Len(f[k]) /\ p[k - 1] = 0 /\ f[k] = q[k]
        BY <1>0, <1>1, <3>1 DEF IsFlattening
      <4> HIDE DEF n, p
      <4> QED BY <2>0, <4>1
    <3>2. CASE k > 1
      <4>0. /\ k - 1 \in 1 .. n /\ k - 1 \in 0 .. n /\ k \in 0 .. n
            /\ k # 0 /\ k - 1 # 0 /\ k # 1
        BY <1>0, <3>2
      <4> DEFINE a == f[k - 1]
                 b == q[k]
      <4>1. a \in Seq(S) /\ b \in Seq(S)
        <5> HIDE DEF n, p
        <5> QED BY <1>1, <2>0, <4>0 DEF IsFlattening, n
      <4>2. f[k] = a \o b
        <5>1. f[k] = f[k - 1] \o q[k]
          BY <1>1, <4>0 DEF IsFlattening
        <5> QED BY <5>1
      <4>3. p[k] = Len(f[k]) /\ p[k - 1] = Len(a)
        <5> HIDE DEF n
        <5> QED BY <4>0
      <4>4. /\ Len(a \o b) = Len(a) + Len(b)
            /\ \A j \in 1 .. Len(b) : (a \o b)[Len(a) + j] = b[j]
        <5> HIDE DEF a, b
        <5> QED BY <4>1, ConcatOf
      <4>5. Len(a) \in Nat
        BY <4>1
      <4> HIDE DEF n, p
      <4> QED BY <4>2, <4>3, <4>4, <4>5
    <3>3. k = 1 \/ k > 1
      OBVIOUS
    <3> HIDE DEF n, p
    <3> QED BY <3>1, <3>2, <3>3
  <2>2. Len(f[k]) <= Len(f[n]) /\ \A i \in 1 .. Len(f[k]) : f[n][i] = f[k][i]
    BY <1>2
  <2> HIDE DEF n, p
  <2>3. ASSUME NEW j \in 1 .. Len(q[k]) PROVE FlattenSeq(q)[p[k - 1] + j] = q[k][j]
    <3>1. p[k - 1] + j \in 1 .. Len(f[k])
      BY <2>0, <2>1
    <3> QED BY <1>1, <2>1, <2>2, <3>1
  <2> QED BY <1>1, <2>1, <2>2, <2>3
<1> QED BY <1>0, <1>3, <1>4

-----------------------------------------------------------------------------

\* The two digits that encode writes for a byte are digits of decode, and give the byte back;
\* a digit in small letters counts as much as its capital (url_encode.cpp).
THEOREM EscapesDecode ==
    /\ \A c \in Byte :
         LET code == CharToHex(c)
         IN  /\ IsXDigit(code[1]) /\ IsXDigit(code[2])
             /\ HexToChar(code[1], code[2]) = c
    /\ \A d \in 65 .. 70 : IsXDigit(d + 32) /\ DigitValue(d + 32) = DigitValue(d)
<1>1. ASSUME NEW d \in 0 .. 15 PROVE IsXDigit(HexDigit(d)) /\ DigitValue(HexDigit(d)) = d
  <2>1. CASE d > 9
    BY <2>1 DEF HexDigit, IsXDigit, DigitValue, Capital
  <2>2. CASE d <= 9
    BY <2>2 DEF HexDigit, IsXDigit, DigitValue
  <2> QED BY <2>1, <2>2
<1>2. ASSUME NEW c \in Byte
      PROVE  /\ IsXDigit(CharToHex(c)[1]) /\ IsXDigit(CharToHex(c)[2])
             /\ HexToChar(CharToHex(c)[1], CharToHex(c)[2]) = c
  <2>0. PICK q \in 0 .. 15, r \in 0 .. 15 : c = 16 * q + r
    BY DEF Byte
  <2>1. c \div 16 = q /\ c % 16 = r /\ c % 256 = c
    BY <2>0
  <2>2. CharToHex(c)[1] = HexDigit(q) /\ CharToHex(c)[2] = HexDigit(r)
    BY <2>1 DEF CharToHex
  <2>3. HexToChar(HexDigit(q), HexDigit(r)) = (q * 16 + r) % 256
    BY <1>1 DEF HexToChar
  <2>4. q * 16 + r = c
    BY <2>0
  <2> QED BY <1>1, <2>1, <2>2, <2>3, <2>4
<1>3. ASSUME NEW d \in 65 .. 70 PROVE IsXDigit(d + 32) /\ DigitValue(d + 32) = DigitValue(d)
  BY DEF IsXDigit, DigitValue, Capital
<1> QED BY <1>2, <1>3

\* The same, as it is needed below.
LEMMA DigitsDecode ==
    ASSUME NEW c \in Byte
    PROVE  LET code == CharToHex(c)
           IN  /\ code \in Seq(Byte) /\ Len(code) = 2
               /\ IsXDigit(code[1]) /\ IsXDigit(code[2])
               /\ HexToChar(code[1], code[2]) = c
<1>1. HexDigit(c \div 16) \in Byte /\ HexDigit(c % 16) \in Byte
  <2>1. c \div 16 \in 0 .. 15 /\ c % 16 \in 0 .. 15
    BY DEF Byte
  <2>2. \A d \in 0 .. 15 : HexDigit(d) \in Byte
    BY DEF HexDigit, Byte
  <2> QED BY <2>1, <2>2
<1>2. CharToHex(c) \in Seq(Byte) /\ Len(CharToHex(c)) = 2
  BY <1>1 DEF CharToHex
<1> QED BY <1>2, EscapesDecode

\* What decode takes for a byte: its code, or itself if it means nothing else.
Stands(w, c) == w = EncodeChar(c) \/ (c \notin {Plus, Percent} /\ w = <<c>>)

\* The three forms of it.
LEMMA CodeForms ==
    ASSUME NEW c \in Byte, NEW w, Stands(w, c)
    PROVE  \/ c = Space /\ w = <<Plus>>
           \/ c \notin {Plus, Percent} /\ w = <<c>>
           \/ w = <<Percent>> \o CharToHex(c)
<1>1. CASE c = Space
  BY <1>1 DEF Stands, EncodeChar, Space, Unreserved
<1>2. CASE c # Space /\ c \in Unreserved
  <2>1. c \notin {Plus, Percent}
    BY <1>2 DEF Unreserved, Plus, Percent
  <2>2. EncodeChar(c) = <<c>>
    BY <1>2 DEF EncodeChar
  <2> QED BY <1>2, <2>1, <2>2 DEF Stands
<1>3. CASE c \notin Unreserved \cup {Space}
  BY <1>3 DEF Stands, EncodeChar
<1> QED BY <1>1, <1>2, <1>3

\* It is a text.
LEMMA CodeIsText ==
    ASSUME NEW c \in Byte, NEW w, Stands(w, c)
    PROVE  w \in Seq(Byte)
<1>1. CharToHex(c) \in Seq(Byte)
  BY DigitsDecode
<1>2. Plus \in Byte /\ Percent \in Byte
  BY DEF Plus, Percent, Byte
<1>3. CASE c = Space /\ w = <<Plus>>
  BY <1>2, <1>3
<1>4. CASE w = <<c>>
  BY <1>4
<1>5. CASE w = <<Percent>> \o CharToHex(c)
  BY <1>1, <1>2, <1>5
<1> QED BY CodeForms, <1>3, <1>4, <1>5

\* The text w is written in t, behind the first i bytes.
LiesAt(w, t, i) == i + Len(w) <= Len(t) /\ \A j \in 1 .. Len(w) : t[i + j] = w[j]

\* Where decode meets what stands for a byte, it yields the byte and goes on behind it.
LEMMA CodeDecodes ==
    ASSUME NEW t \in Seq(Byte), NEW f, IsDecoding(f, t),
           NEW c \in Byte, NEW w, Stands(w, c), NEW i \in Nat, LiesAt(w, t, i)
    PROVE  f[i + 1] = <<c>> \o f[i + Len(w) + 1]
<1>0. /\ Len(t) \in Nat /\ i + Len(w) <= Len(t)
      /\ \A j \in 1 .. Len(w) : t[i + j] = w[j]
      /\ \A j \in 1 .. Len(t) + 3 : f[j] = DecodeBody(t, f, j)
  BY DEF LiesAt, IsDecoding
<1>1. Plus # Percent /\ Plus \in Nat /\ Percent \in Nat
  BY DEF Plus, Percent
<1>2. CASE c = Space /\ w = <<Plus>>
  <2>1. Len(w) = 1 /\ w[1] = Plus
    BY <1>2
  <2>2. i + 1 \in 1 .. Len(t) + 3 /\ i + 1 <= Len(t) /\ t[i + 1] = Plus
    BY <1>0, <2>1
  <2>3. DecodeBody(t, f, i + 1) = <<Space>> \o f[i + 1 + 1]
    BY <1>0, <2>2 DEF DecodeBody
  <2> QED BY <1>0, <1>2, <2>1, <2>2, <2>3
<1>3. CASE c \notin {Plus, Percent} /\ w = <<c>>
  <2>1. Len(w) = 1 /\ w[1] = c
    BY <1>3
  <2>2. i + 1 \in 1 .. Len(t) + 3 /\ i + 1 <= Len(t) /\ t[i + 1] = c
    BY <1>0, <2>1
  <2>3. DecodeBody(t, f, i + 1) = <<c>> \o f[i + 1 + 1]
    BY <1>0, <1>3, <2>2 DEF DecodeBody, Escaped
  <2> QED BY <1>0, <2>1, <2>2, <2>3
<1>4. CASE w = <<Percent>> \o CharToHex(c)
  <2> DEFINE h == CharToHex(c)[1]
             l == CharToHex(c)[2]
  <2>0. IsXDigit(h) /\ IsXDigit(l) /\ HexToChar(h, l) = c
    BY DigitsDecode
  <2> HIDE DEF h, l
  <2>1. /\ Len(w) = 3 /\ w[1] = Percent
        /\ w[2] = h /\ w[3] = l
    <3> DEFINE first == <<Percent>>
               rest  == CharToHex(c)
    <3>1. /\ first \in Seq(Byte) /\ Len(first) = 1 /\ first[1] = Percent
          /\ 1 \in 1 .. Len(first)
      BY DEF Percent, Byte
    <3>2. rest \in Seq(Byte) /\ Len(rest) = 2 /\ rest[1] = h /\ rest[2] = l
      BY DigitsDecode DEF h, l
    <3> HIDE DEF first, rest
    <3>3. /\ Len(first \o rest) = 1 + 2
          /\ (first \o rest)[1] = first[1]
          /\ (first \o rest)[1 + 1] = rest[1] /\ (first \o rest)[1 + 2] = rest[2]
      <4>1. first \in Seq(Byte) /\ rest \in Seq(Byte)
        BY <3>1, <3>2
      <4>2. /\ Len(first \o rest) = Len(first) + Len(rest)
            /\ \A k \in 1 .. Len(first) : (first \o rest)[k] = first[k]
            /\ \A j \in 1 .. Len(rest) : (first \o rest)[Len(first) + j] = rest[j]
        BY <4>1, ConcatOf
      <4>3. 1 \in 1 .. Len(rest) /\ 2 \in 1 .. Len(rest)
        BY <3>2
      <4> QED BY <3>1, <3>2, <4>2, <4>3
    <3> QED BY <1>4, <3>1, <3>2, <3>3 DEF first, rest
  <2>2. /\ i + 1 \in 1 .. Len(t) + 3 /\ i + 3 <= Len(t)
        /\ t[i + 1] = Percent /\ t[i + 2] = h /\ t[i + 3] = l
    BY <1>0, <2>1
  <2>3. (i + 1) + 1 = i + 2 /\ (i + 1) + 2 = i + 3 /\ (i + 1) + 3 = i + 3 + 1
    OBVIOUS
  <2>4. Escaped(t, i + 1)
    BY <2>0, <2>2, <2>3 DEF Escaped
  <2>5. DecodeBody(t, f, i + 1) = <<HexToChar(t[i + 2], t[i + 3])>> \o f[i + 3 + 1]
    BY <1>0, <1>1, <2>2, <2>3, <2>4 DEF DecodeBody
  <2>6. DecodeBody(t, f, i + 1) = <<c>> \o f[i + 3 + 1]
    BY <2>0, <2>2, <2>5
  <2> QED BY <1>0, <2>1, <2>2, <2>6
<1> QED BY CodeForms, <1>2, <1>3, <1>4

\* The rest of a sequence, and what stands before it.
LEMMA FirstAndRest ==
    ASSUME NEW S, NEW s \in Seq(S), NEW n \in 0 .. Len(s), NEW k \in 0 .. n - 1
    PROVE  <<s[k + 1]>> \o SubSeq(s, k + 2, n) = SubSeq(s, k + 1, n)
<1> DEFINE a == SubSeq(s, k + 2, n)
           b == SubSeq(s, k + 1, n)
<1>0. n \in Nat /\ Len(s) \in Nat /\ n <= Len(s) /\ s[k + 1] \in S
  BY ElementOfSeq
<1>1. a \in Seq(S) /\ Len(a) = n - k - 1 /\ \A i \in 1 .. n - k - 1 : a[i] = s[k + 1 + i]
  <2>1. a \in Seq(S)
    BY <1>0
  <2>2. Len(a) = n - k - 1
    BY <1>0
  <2>3. \A i \in 1 .. n - k - 1 : a[i] = s[k + 1 + i]
    BY <1>0
  <2> QED BY <2>1, <2>2, <2>3
<1>2. b \in Seq(S) /\ Len(b) = n - k /\ \A i \in 1 .. n - k : b[i] = s[k + i]
  <2>1. b \in Seq(S)
    BY <1>0
  <2>2. Len(b) = n - k
    BY <1>0
  <2>3. \A i \in 1 .. n - k : b[i] = s[k + i]
    BY <1>0
  <2> QED BY <2>1, <2>2, <2>3
<1> DEFINE one == <<s[k + 1]>>
<1>3. one \in Seq(S) /\ Len(one) = 1 /\ one[1] = s[k + 1]
  BY <1>0
<1>4. k \in Nat /\ k < n
  OBVIOUS
<1> HIDE DEF a, b, one
<1>5. /\ one \o a \in Seq(S)
      /\ Len(one \o a) = 1 + Len(a) /\ (one \o a)[1] = one[1]
      /\ \A j \in 1 .. Len(a) : (one \o a)[1 + j] = a[j]
  <2>1. 1 \in 1 .. Len(one)
    BY <1>3
  <2>2. one \o a \in Seq(S)
    BY <1>1, <1>3
  <2>3. /\ Len(one \o a) = Len(one) + Len(a)
        /\ \A i \in 1 .. Len(one) : (one \o a)[i] = one[i]
        /\ \A j \in 1 .. Len(a) : (one \o a)[Len(one) + j] = a[j]
    <3>1. one \in Seq(S) /\ a \in Seq(S)
      BY <1>1, <1>3
    <3> QED BY <3>1, ConcatOf
  <2> QED BY <1>3, <2>1, <2>2, <2>3
<1>6. \A i \in 1 .. n - k : (one \o a)[i] = b[i]
  <2> TAKE i \in 1 .. n - k
  <2>1. CASE i = 1
    BY <1>0, <1>2, <1>3, <1>5, <2>1
  <2>2. CASE i > 1
    <3>1. i - 1 \in 1 .. Len(a) /\ i - 1 \in 1 .. n - k - 1 /\ 1 + (i - 1) = i /\ k + 1 + (i - 1) = k + i
      BY <1>0, <1>1, <2>2
    <3>2. (one \o a)[1 + (i - 1)] = a[i - 1] /\ a[i - 1] = s[k + 1 + (i - 1)]
      BY <1>1, <1>5, <3>1
    <3> QED BY <1>2, <3>1, <3>2
  <2>3. i = 1 \/ i > 1
    BY <1>0, <1>4
  <2> QED BY <2>1, <2>2, <2>3
<1>7. Len(one \o a) = n - k
  BY <1>0, <1>1, <1>4, <1>5
<1>8. one \o a = b
  BY <1>2, <1>5, <1>6, <1>7, SeqEqual
<1> QED BY <1>8 DEF one, a, b

\* A text of which each byte stands for a byte is decoded to these bytes.
LEMMA CodesDecode ==
    ASSUME NEW s \in Seq(Byte), NEW q \in Seq(Seq(Byte)), Len(q) = Len(s),
           \A i \in 1 .. Len(s) : Stands(q[i], s[i])
    PROVE  Decode(FlattenSeq(q)) = s
<1> DEFINE n == Len(s)
           t == FlattenSeq(q)
<1>0. n \in Nat
  OBVIOUS
<1>1. t = FlattenSeq(q)
  OBVIOUS
<1>2. \A i \in 1 .. n : s[i] \in Byte
  BY <1>0, ElementOfSeq
<1>3. q \in Seq(Seq(Byte)) /\ Len(q) = n
  OBVIOUS
<1>4. CASE n = 0
  <2>1. q = <<>>
    BY <1>3, <1>4, EmptySeq
  <2>2. t = <<>>
    BY <1>1, <2>1 DEF FlattenSeq
  <2>3. s = <<>>
    BY <1>4, EmptySeq
  <2>4. <<>> \in Seq(Byte) /\ Len(<<>>) = 0
    OBVIOUS
  <2>5. PICK f : IsDecoding(f, t) /\ Decode(t) = f[1]
    BY <2>2, <2>4, DecodeIs
  <2>6. DecodeBody(<<>>, f, 1) = <<>>
    BY <2>4 DEF DecodeBody
  <2>7. 1 \in 1 .. Len(t) + 3
    BY <2>2, <2>4
  <2> HIDE DEF t
  <2>8. Decode(t) = <<>>
    BY <2>2, <2>5, <2>6, <2>7 DEF IsDecoding
  <2>9. Decode(t) = s
    BY <2>3, <2>8
  <2> QED BY <2>9 DEF t
<1>5. CASE n > 0
  <2>1. q # <<>>
    BY <1>3, <1>5, EmptySeq
  <2> HIDE DEF t
  <2>2. t \in Seq(Byte)
    <3>1. FlattenSeq(q) \in Seq(Byte)
      BY <1>3, <2>1, FlattenType
    <3> QED BY <1>1, <3>1
  <2>3. PICK p \in [0 .. n -> Nat] :
              /\ p[0] = 0 /\ p[n] = Len(t)
              /\ \A k \in 1 .. n :
                    /\ p[k] = p[k - 1] + Len(q[k]) /\ p[k] <= Len(t)
                    /\ \A j \in 1 .. Len(q[k]) : t[p[k - 1] + j] = q[k][j]
    <3> HIDE DEF n
    <3>1. PICK p \in [0 .. Len(q) -> Nat] :
              /\ p[0] = 0 /\ p[Len(q)] = Len(FlattenSeq(q))
              /\ \A k \in 1 .. Len(q) :
                    /\ p[k] = p[k - 1] + Len(q[k]) /\ p[k] <= Len(FlattenSeq(q))
                    /\ \A j \in 1 .. Len(q[k]) : FlattenSeq(q)[p[k - 1] + j] = q[k][j]
      BY <1>3, <2>1, FlattenPlaces
    <3> QED BY <1>1, <1>3, <3>1
  <2>4. PICK f : IsDecoding(f, t) /\ Decode(t) = f[1]
    BY <2>2, DecodeIs
  <2> DEFINE G == {k \in 0 .. n : f[p[k] + 1] = SubSeq(s, k + 1, n)}
  <2>5. ASSUME NEW k \in 0 .. n, \A m \in k + 1 .. n : m \in G PROVE k \in G
    <3>1. CASE k = n
      <4>1. f[p[n] + 1] = <<>>
        <5>1. Len(t) \in Nat
          BY <2>2
        <5>2. DecodeBody(t, f, Len(t) + 1) = <<>>
          BY <5>1 DEF DecodeBody
        <5> HIDE DEF n
        <5> QED BY <2>3, <2>4, <5>1, <5>2 DEF IsDecoding
      <4>2. SubSeq(s, n + 1, n) = <<>>
        BY <1>0
      <4> QED BY <1>0, <3>1, <4>1, <4>2
    <3>2. CASE k < n
      <4>1. k + 1 \in 1 .. n /\ k + 1 \in 0 .. n /\ (k + 1) - 1 = k
        BY <1>0, <3>2
      <4>2. Stands(q[k + 1], s[k + 1])
        BY <4>1
      <4>3. f[p[k + 1] + 1] = SubSeq(s, k + 2, n)
        <5>1. k + 1 \in G
          BY <1>0, <2>5, <3>2
        <5> QED BY <1>0, <5>1
      <4> HIDE DEF n, G
      <4>4. /\ p[k + 1] = p[k] + Len(q[k + 1]) /\ p[k + 1] <= Len(t)
            /\ \A j \in 1 .. Len(q[k + 1]) : t[p[k] + j] = q[k + 1][j]
        <5>1. /\ p[k + 1] = p[(k + 1) - 1] + Len(q[k + 1]) /\ p[k + 1] <= Len(t)
              /\ \A j \in 1 .. Len(q[k + 1]) : t[p[(k + 1) - 1] + j] = q[k + 1][j]
          BY <2>3, <4>1
        <5> QED BY <4>1, <5>1
      <4>5. p[k] \in Nat /\ s[k + 1] \in Byte
        BY <1>2, <2>3, <4>1
      <4>6. f[p[k] + 1] = <<s[k + 1]>> \o f[p[k] + Len(q[k + 1]) + 1]
        <5> DEFINE c == s[k + 1]
                   w == q[k + 1]
                   i == p[k]
        <5>1. c \in Byte /\ Stands(w, c) /\ i \in Nat /\ LiesAt(w, t, i)
          BY <4>2, <4>4, <4>5 DEF LiesAt
        <5> HIDE DEF c, w, i
        <5>2. f[i + 1] = <<c>> \o f[i + Len(w) + 1]
          BY <2>2, <2>4, <5>1, CodeDecodes
        <5> QED BY <5>2 DEF c, w, i
      <4>7. f[p[k] + 1] = <<s[k + 1]>> \o SubSeq(s, k + 2, n)
        BY <4>3, <4>4, <4>6
      <4>8. <<s[k + 1]>> \o SubSeq(s, k + 2, n) = SubSeq(s, k + 1, n)
        <5>1. n \in 0 .. Len(s) /\ k \in 0 .. n - 1
          BY <1>0, <3>2 DEF n
        <5> QED BY <5>1, FirstAndRest
      <4> QED BY <4>7, <4>8 DEF G
    <3> QED BY <1>0, <3>1, <3>2
  <2>6. 0 \in G
    <3> HIDE DEF G, n
    <3>1. \A k \in 0 .. n : k \in G
      BY <1>0, <2>5, Downwards
    <3> QED BY <1>0, <3>1
  <2>7. Decode(t) = SubSeq(s, 1, n)
    BY <2>3, <2>4, <2>6
  <2>8. SubSeq(s, 1, n) = s
    BY <1>0
  <2> QED BY <2>7, <2>8 DEF t
<1> QED BY <1>0, <1>4, <1>5

\* decode gives back every text that encode was given, of any length (url_encode.cpp:71): no code of a
\* byte is taken for another, cut, or read together with its neighbours.
THEOREM DecodeUndoesEncode ==
    \A s \in Seq(Byte) : Decode(Encode(s)) = s
<1> SUFFICES ASSUME NEW s \in Seq(Byte) PROVE Decode(Encode(s)) = s
  OBVIOUS
<1> DEFINE q == [i \in 1 .. Len(s) |-> EncodeChar(s[i])]
<1>1. \A i \in 1 .. Len(s) : Stands(q[i], s[i]) /\ q[i] \in Seq(Byte)
  <2> TAKE i \in 1 .. Len(s)
  <2>1. s[i] \in Byte /\ Stands(q[i], s[i])
    BY ElementOfSeq DEF Stands
  <2> HIDE DEF q
  <2> QED BY <2>1, CodeIsText
<1>2. Encode(s) = FlattenSeq(q)
  BY DEF Encode
<1>3. q \in Seq(Seq(Byte)) /\ Len(q) = Len(s)
  BY <1>1
<1> HIDE DEF q
<1> QED BY <1>1, <1>2, <1>3, CodesDecode

-----------------------------------------------------------------------------
\* A piece of a string that agrees with another string is that string.
LEMMA SubSeqIs ==
    ASSUME NEW T, NEW q \in Seq(T), NEW v \in Seq(T), NEW a \in 1 .. Len(q) + 1,
           NEW b, b = a + Len(v) - 1, b <= Len(q), \A j \in 1 .. Len(v) : q[a + j - 1] = v[j]
    PROVE  SubSeq(q, a, b) = v
<1> DEFINE u == SubSeq(q, a, b)
<1>0. Len(q) \in Nat /\ Len(v) \in Nat
  OBVIOUS
<1>1. u \in Seq(T)
  BY <1>0
<1>2. Len(u) = Len(v)
  BY <1>0
<1>3. \A j \in 1 .. Len(v) : u[j] = q[a + j - 1]
  BY <1>0
<1> HIDE DEF u
<1>4. u = v
  BY <1>1, <1>2, <1>3, SeqEqual
<1> QED BY <1>4 DEF u

\* Two texts are written where their concatenation is.
LEMMA WrittenParts ==
    ASSUME NEW S, NEW a \in Seq(S), NEW b \in Seq(S), NEW t \in Seq(S), NEW i \in Nat, LiesAt(a \o b, t, i)
    PROVE  LiesAt(a, t, i) /\ LiesAt(b, t, i + Len(a))
<1> DEFINE la == Len(a)
           lb == Len(b)
           ab == a \o b
<1>1. la \in Nat /\ lb \in Nat /\ Len(t) \in Nat
  OBVIOUS
<1>2. /\ Len(ab) = la + lb
      /\ \A j \in 1 .. la : ab[j] = a[j]
      /\ \A j \in 1 .. lb : ab[la + j] = b[j]
  BY ConcatOf
<1> HIDE DEF la, lb, ab
<1>3. i + Len(ab) <= Len(t) /\ \A j \in 1 .. Len(ab) : t[i + j] = ab[j]
  BY DEF LiesAt, ab
<1>4. LiesAt(a, t, i)
  <2>1. \A j \in 1 .. la : j \in 1 .. Len(ab)
    BY <1>1, <1>2
  <2> QED BY <1>1, <1>2, <1>3, <2>1 DEF LiesAt, la
<1>5. LiesAt(b, t, i + la)
  <2>1. ASSUME NEW j \in 1 .. lb PROVE t[i + la + j] = b[j]
    <3>1. la + j \in 1 .. Len(ab) /\ i + (la + j) = i + la + j
      BY <1>1, <1>2
    <3> QED BY <1>2, <1>3, <3>1
  <2>2. i + la + lb <= Len(t)
    BY <1>1, <1>2, <1>3
  <2> QED BY <2>1, <2>2 DEF LiesAt, lb
<1> QED BY <1>4, <1>5 DEF la

\* What is written in a text remains so behind another text.
LEMMA WrittenBehind ==
    ASSUME NEW S, NEW x \in Seq(S), NEW t \in Seq(S), NEW w \in Seq(S), NEW i \in Nat, LiesAt(w, t, i)
    PROVE  LiesAt(w, x \o t, Len(x) + i)
<1> DEFINE lx == Len(x)
           xt == x \o t
<1>1. lx \in Nat /\ Len(w) \in Nat /\ Len(t) \in Nat
  OBVIOUS
<1>2. Len(xt) = lx + Len(t) /\ \A j \in 1 .. Len(t) : xt[lx + j] = t[j]
  BY ConcatOf
<1> HIDE DEF lx, xt
<1>3. i + Len(w) <= Len(t) /\ \A j \in 1 .. Len(w) : t[i + j] = w[j]
  BY DEF LiesAt
<1>4. ASSUME NEW j \in 1 .. Len(w) PROVE xt[lx + i + j] = w[j]
  <2>1. i + j \in 1 .. Len(t) /\ lx + (i + j) = lx + i + j
    BY <1>1, <1>3
  <2> QED BY <1>2, <1>3, <2>1
<1>5. lx + i + Len(w) <= Len(xt)
  BY <1>1, <1>2, <1>3
<1>6. LiesAt(w, xt, lx + i)
  BY <1>4, <1>5 DEF LiesAt
<1> QED BY <1>6 DEF lx, xt

\* A text is written in a concatenation that it begins or ends.
LEMMA WrittenInConcat ==
    ASSUME NEW S, NEW a \in Seq(S), NEW b \in Seq(S)
    PROVE  LiesAt(a, a \o b, 0) /\ LiesAt(b, a \o b, Len(a))
<1>1. LiesAt(a \o b, a \o b, 0)
  <2> DEFINE ab == a \o b
  <2>1. ab \in Seq(S)
    OBVIOUS
  <2> HIDE DEF ab
  <2>2. LiesAt(ab, ab, 0)
    BY <2>1 DEF LiesAt
  <2> QED BY <2>2 DEF ab
<1>2. a \o b \in Seq(S) /\ 0 + Len(a) = Len(a)
  OBVIOUS
<1> QED BY <1>1, <1>2, WrittenParts

\* What is written in a text is a part of it.
LEMMA WrittenIsPart ==
    ASSUME NEW S, NEW t \in Seq(S), NEW w \in Seq(S), NEW i \in Nat, LiesAt(w, t, i)
    PROVE  SubSeq(t, i + 1, i + Len(w)) = w
<1>1. Len(w) \in Nat /\ Len(t) \in Nat /\ i + Len(w) <= Len(t) /\ \A j \in 1 .. Len(w) : t[i + j] = w[j]
  BY DEF LiesAt
<1>2. i + 1 \in 1 .. Len(t) + 1 /\ i + Len(w) = (i + 1) + Len(w) - 1
  BY <1>1
<1>3. \A j \in 1 .. Len(w) : t[(i + 1) + j - 1] = w[j]
  <2> TAKE j \in 1 .. Len(w)
  <2>1. (i + 1) + j - 1 = i + j
    OBVIOUS
  <2> QED BY <1>1, <2>1
<1> QED BY <1>1, <1>2, <1>3, SubSeqIs

\* The places of texts in their concatenation.
ArePlaces(p, q, t) ==
    /\ p \in [0 .. Len(q) -> Nat] /\ p[0] = 0 /\ p[Len(q)] = Len(t)
    /\ \A k \in 1 .. Len(q) : p[k] = p[k - 1] + Len(q[k]) /\ LiesAt(q[k], t, p[k - 1])

\* A concatenation has such places.
LEMMA FlattenWrites ==
    ASSUME NEW S, NEW q \in Seq(Seq(S)), q # <<>>
    PROVE  FlattenSeq(q) \in Seq(S) /\ \E p : ArePlaces(p, q, FlattenSeq(q))
<1> DEFINE t == FlattenSeq(q)
<1>1. t \in Seq(S)
  BY FlattenType
<1>2. PICK p \in [0 .. Len(q) -> Nat] :
              /\ p[0] = 0 /\ p[Len(q)] = Len(t)
              /\ \A k \in 1 .. Len(q) :
                    /\ p[k] = p[k - 1] + Len(q[k]) /\ p[k] <= Len(t)
                    /\ \A j \in 1 .. Len(q[k]) : t[p[k - 1] + j] = q[k][j]
  BY FlattenPlaces, ZenonT(60)
<1> HIDE DEF t
<1>3. ASSUME NEW k \in 1 .. Len(q) PROVE p[k] = p[k - 1] + Len(q[k]) /\ LiesAt(q[k], t, p[k - 1])
  BY <1>2 DEF LiesAt
<1>4. ArePlaces(p, q, t)
  BY <1>2, <1>3 DEF ArePlaces
<1> QED BY <1>1, <1>4 DEF t

\* The bytes that encode writes.
CodeBytes == Unreserved \cup {Plus, Percent}

\* The code of a byte is made of them.
LEMMA CodeBytesAre ==
    ASSUME NEW c \in Byte
    PROVE  EncodeChar(c) \in Seq(CodeBytes)
<1>1. CASE c = Space
  <2>1. EncodeChar(c) = <<Plus>>
    BY <1>1 DEF EncodeChar, Unreserved, Space
  <2> QED BY <2>1 DEF CodeBytes
<1>2. CASE c # Space /\ c \in Unreserved
  <2>1. EncodeChar(c) = <<c>>
    BY <1>2 DEF EncodeChar
  <2> QED BY <1>2, <2>1 DEF CodeBytes
<1>3. CASE c \notin Unreserved \cup {Space}
  <2>1. c \div 16 \in 0 .. 15 /\ c % 16 \in 0 .. 15
    BY DEF Byte
  <2>2. \A d \in 0 .. 15 : HexDigit(d) \in CodeBytes
    BY DEF HexDigit, Unreserved, CodeBytes
  <2>3. <<Percent>> \in Seq(CodeBytes) /\ CharToHex(c) \in Seq(CodeBytes)
    BY <2>1, <2>2 DEF CharToHex, CodeBytes
  <2>4. EncodeChar(c) = <<Percent>> \o CharToHex(c)
    BY <1>3 DEF EncodeChar
  <2> QED BY <2>3, <2>4
<1> QED BY <1>1, <1>2, <1>3

\* They are bytes, and none of them is blank or a separator.
LEMMA CodeBytesAreInert ==
    /\ CodeBytes \subseteq Byte
    /\ CodeBytes \cap (Blank \cup LineBreaks \cup {Slash, Colon, Equals, Semicolon}) = {}
BY DEF CodeBytes, Unreserved, Plus, Percent, Byte, Blank, LineBreaks, Space, Slash, Colon, Equals, Semicolon

\* And so is the code of a text.
LEMMA EncodedBytes ==
    ASSUME NEW s \in Seq(Byte)
    PROVE  Encode(s) \in Seq(CodeBytes)
<1> DEFINE q == [i \in 1 .. Len(s) |-> EncodeChar(s[i])]
<1>1. \A i \in 1 .. Len(s) : EncodeChar(s[i]) \in Seq(CodeBytes)
  BY ElementOfSeq, CodeBytesAre
<1>2. q \in Seq(Seq(CodeBytes))
  BY <1>1
<1>3. Encode(s) = FlattenSeq(q)
  BY DEF Encode
<1> HIDE DEF q
<1>4. CASE q = <<>>
  <2>1. FlattenSeq(<<>>) = <<>> /\ <<>> \in Seq(CodeBytes)
    BY DEF FlattenSeq
  <2> QED BY <1>3, <1>4, <2>1
<1>5. CASE q # <<>>
  BY <1>2, <1>3, <1>5, FlattenType
<1> QED BY <1>4, <1>5

\* A sequence of numbers, each less than the next, ascends.
LEMMA Ascends ==
    ASSUME NEW n \in Nat, NEW c \in [1 .. n -> Nat], \A k \in 1 .. n - 1 : c[k] < c[k + 1]
    PROVE  \A i, j \in 1 .. n : i < j => c[i] < c[j]
<1> SUFFICES ASSUME NEW i \in 1 .. n PROVE \A j \in 1 .. n : i < j => c[i] < c[j]
  OBVIOUS
<1> DEFINE G == {j \in 0 .. n : i < j => c[i] < c[j]}
<1>1. ASSUME NEW j \in 0 .. n, \A m \in 0 .. j - 1 : m \in G PROVE j \in G
  <2> SUFFICES ASSUME i < j PROVE c[i] < c[j]
    OBVIOUS
  <2>1. j - 1 \in 1 .. n - 1 /\ (j - 1) + 1 = j /\ j - 1 \in G /\ i <= j - 1 /\ j \in 1 .. n
    BY <1>1
  <2> HIDE DEF G
  <2>2. c[j - 1] < c[j] /\ c[j] \in Nat /\ c[j - 1] \in Nat /\ c[i] \in Nat
    BY <2>1
  <2>3. CASE i = j - 1
    BY <2>2, <2>3
  <2>4. CASE i < j - 1
    <3>1. c[i] < c[j - 1]
      BY <2>1, <2>4 DEF G
    <3> QED BY <2>2, <3>1
  <2> QED BY <2>1, <2>3, <2>4
<1> HIDE DEF G
<1>2. \A j \in 0 .. n : j \in G
  BY <1>1, Upwards
<1> QED BY <1>2 DEF G

\* Each number lies at one of them, or between one and the next.
LEMMA Between ==
    ASSUME NEW n \in Nat, NEW c \in [1 .. n + 1 -> Nat], NEW x \in Nat, c[1] <= x, x < c[n + 1]
    PROVE  \E k \in 1 .. n : c[k] <= x /\ x < c[k + 1]
<1> DEFINE T == {k \in 1 .. n + 1 : x < c[k]}
<1>1. T \subseteq Nat /\ T # {}
  OBVIOUS
<1>2. PICK k \in T : \A j \in T : k <= j
  <2> HIDE DEF T
  <2> QED BY <1>1, LeastNumber
<1>3. k \in 1 .. n + 1 /\ k # 1 /\ x < c[k]
  OBVIOUS
<1>4. k - 1 \in 1 .. n /\ (k - 1) + 1 = k /\ k - 1 \notin T
  BY <1>2, <1>3
<1>5. c[k - 1] <= x
  BY <1>4
<1> QED BY <1>3, <1>4, <1>5

\* A code is a text.
LEMMA EncodedText ==
    ASSUME NEW s \in Seq(Byte)
    PROVE  Encode(s) \in Seq(Byte)
BY EncodedBytes, CodeBytesAreInert

-----------------------------------------------------------------------------
\* The least of some numbers.
LEMMA MinIs ==
    ASSUME NEW S, S \subseteq Int, NEW m \in S, \A x \in S : m <= x
    PROVE  Min(S) = m
<1>1. Min(S) \in S /\ \A x \in S : Min(S) <= x
  BY DEF Min
<1>2. Min(S) \in Int /\ m \in Int /\ Min(S) <= m /\ m <= Min(S)
  BY <1>1
<1> QED BY <1>2

\* And the greatest.
LEMMA MaxIs ==
    ASSUME NEW S, S \subseteq Int, NEW m \in S, \A x \in S : x <= m
    PROVE  Max(S) = m
<1>1. Max(S) \in S /\ \A x \in S : Max(S) >= x
  BY DEF Max
<1>2. Max(S) \in Int /\ m \in Int /\ Max(S) >= m /\ Max(S) <= m
  BY <1>1
<1> QED BY <1>2

\* The first position of some bytes has one of them, or the text ends, and none is in front of it.
IsFirst(i, s, bytes, pos) ==
    /\ i \in Nat
    /\ i = Len(s) + 1 \/ (i \in pos .. Len(s) /\ s[i] \in bytes)
    /\ \A j \in pos .. i - 1 : s[j] \notin bytes

\* There is one such position only.
LEMMA FirstUnique ==
    ASSUME NEW s, Len(s) \in Nat, NEW bytes, NEW pos \in Nat, NEW i, IsFirst(i, s, bytes, pos)
    PROVE  FirstOf(s, bytes, pos) = i
<1> DEFINE S == {j \in pos .. Len(s) : s[j] \in bytes} \cup {Len(s) + 1}
<1>1. /\ i \in Nat
      /\ i = Len(s) + 1 \/ (i \in pos .. Len(s) /\ s[i] \in bytes)
      /\ \A j \in pos .. i - 1 : s[j] \notin bytes
  BY DEF IsFirst
<1>2. S \subseteq Int /\ i \in S
  BY <1>1
<1>3. \A x \in S : i <= x
  <2> SUFFICES ASSUME NEW x \in S, x < i PROVE FALSE
    BY <1>1
  <2>1. x # Len(s) + 1
    BY <1>1
  <2>2. x \in pos .. Len(s) /\ s[x] \in bytes
    BY <2>1
  <2>3. x \in pos .. i - 1
    BY <1>1, <2>2
  <2> QED BY <1>1, <2>2, <2>3
<1> HIDE DEF S
<1>4. Min(S) = i
  BY <1>2, <1>3, MinIs
<1> QED BY <1>4 DEF S, FirstOf

\* And FirstOf is one.
LEMMA FirstFound ==
    ASSUME NEW s, Len(s) \in Nat, NEW bytes, NEW pos \in Nat
    PROVE  IsFirst(FirstOf(s, bytes, pos), s, bytes, pos)
<1> DEFINE found == {j \in pos .. Len(s) : s[j] \in bytes}
<1>1. \E i : IsFirst(i, s, bytes, pos)
  <2>1. CASE found = {}
    <3>1. \A j \in pos .. Len(s) : s[j] \notin bytes
      BY <2>1
    <3>2. IsFirst(Len(s) + 1, s, bytes, pos)
      BY <3>1 DEF IsFirst
    <3> QED BY <3>2
  <2>2. CASE found # {}
    <3>1. found \subseteq Nat
      OBVIOUS
    <3>2. PICK i \in found : \A j \in found : i <= j
      <4> HIDE DEF found
      <4> QED BY <2>2, <3>1, LeastNumber
    <3>3. i \in Nat /\ i \in pos .. Len(s) /\ s[i] \in bytes
      BY <3>2
    <3>4. \A j \in pos .. i - 1 : s[j] \notin bytes
      BY <3>2
    <3>5. IsFirst(i, s, bytes, pos)
      BY <3>3, <3>4 DEF IsFirst
    <3> QED BY <3>5
  <2> QED BY <2>1, <2>2
<1> QED BY <1>1, FirstUnique

-----------------------------------------------------------------------------
\* The number of the first digits, one digit more at a time.
AreNumbers(f, digits) ==
    f[0] = 0 /\ \A k \in 1 .. Len(digits) : f[k] = 10 * f[k - 1] + digits[k] - 48

\* What NumberOf folds a set of places into.
NumberBody(f, d, S) == IF S = {} THEN 0 ELSE 10 * f[S \ {Max(S)}] + d[Max(S)] - 48

\* The recursion of the fold ends.
LEMMA NumbersExist ==
    ASSUME NEW d, NEW n \in Nat
    PROVE  \E f : f = [S \in SUBSET (1 .. n) |-> NumberBody(f, d, S)]
<1> DEFINE Exists(k) == \E f : f = [S \in SUBSET (1 .. k) |-> NumberBody(f, d, S)]
           G == {k \in 0 .. n : Exists(k)}
<1>1. ASSUME NEW k \in 0 .. n, \A m \in 0 .. k - 1 : m \in G PROVE Exists(k)
  <2>1. CASE k = 0
    <3> DEFINE f == [S \in {{}} |-> 0]
    <3>1. SUBSET (1 .. k) = {{}}
      BY <2>1
    <3>2. f = [S \in SUBSET (1 .. k) |-> NumberBody(f, d, S)]
      BY <3>1 DEF NumberBody
    <3> HIDE DEF f
    <3> QED BY <3>2
  <2>2. CASE k > 0
    <3>1. Exists(k - 1)
      <4> HIDE DEF Exists
      <4>1. k - 1 \in 0 .. k - 1
        BY <2>2
      <4> QED BY <1>1, <4>1
    <3>2. PICK f : f = [S \in SUBSET (1 .. k - 1) |-> NumberBody(f, d, S)]
      BY <3>1
    <3> HIDE DEF Exists
    <3> DEFINE g == [S \in SUBSET (1 .. k) |-> IF k \in S THEN 10 * f[S \ {k}] + d[k] - 48 ELSE f[S]]
    <3>3. \A S \in SUBSET (1 .. k - 1) : S \in SUBSET (1 .. k) /\ k \notin S
      OBVIOUS
    <3>4. \A S \in SUBSET (1 .. k - 1) : g[S] = f[S]
      BY <3>3
    <3>5. ASSUME NEW S \in SUBSET (1 .. k) PROVE g[S] = NumberBody(g, d, S)
      <4>1. CASE k \in S
        <5>1. Max(S) = k
          <6>1. S \subseteq Int /\ \A x \in S : x <= k
            OBVIOUS
          <6> QED BY <4>1, <6>1, MaxIs
        <5>2. S \ {k} \in SUBSET (1 .. k - 1)
          OBVIOUS
        <5>3. g[S] = 10 * f[S \ {k}] + d[k] - 48 /\ g[S \ {k}] = f[S \ {k}]
          BY <3>4, <4>1, <5>2
        <5> HIDE DEF g
        <5> QED BY <4>1, <5>1, <5>3 DEF NumberBody
      <4>2. CASE k \notin S
        <5>1. S \in SUBSET (1 .. k - 1)
          BY <4>2
        <5>2. S \ {Max(S)} \in SUBSET (1 .. k - 1)
          BY <5>1
        <5>3. g[S] = f[S] /\ g[S \ {Max(S)}] = f[S \ {Max(S)}] /\ f[S] = NumberBody(f, d, S)
          <6>1. f[S] = NumberBody(f, d, S)
            BY <3>2, <5>1
          <6> HIDE DEF g
          <6> QED BY <3>4, <5>1, <5>2, <6>1
        <5> HIDE DEF g
        <5> QED BY <5>3 DEF NumberBody
      <4> QED BY <4>1, <4>2
    <3>6. g = [S \in SUBSET (1 .. k) |-> NumberBody(g, d, S)]
      <4> DEFINE h == [S \in SUBSET (1 .. k) |-> NumberBody(g, d, S)]
      <4>1. \A S \in SUBSET (1 .. k) : g[S] = h[S]
        <5> HIDE DEF g
        <5> QED BY <3>5
      <4>2. DOMAIN g = SUBSET (1 .. k) /\ g = [S \in SUBSET (1 .. k) |-> g[S]]
        OBVIOUS
      <4> HIDE DEF g
      <4> QED BY <4>1, <4>2
    <3> HIDE DEF g
    <3> QED BY <3>6 DEF Exists
  <2> HIDE DEF Exists
  <2> QED BY <2>1, <2>2
<1>2. \A k \in 0 .. n : k \in G
  <2> HIDE DEF Exists
  <2>1. \A k \in 0 .. n : (\A m \in 0 .. k - 1 : m \in G) => k \in G
    BY <1>1
  <2> HIDE DEF G
  <2> QED BY <2>1, Upwards
<1>3. Exists(n)
  <2> HIDE DEF Exists
  <2> QED BY <1>2
<1> QED BY <1>3

\* A number is what its digits say.
LEMMA NumberIs ==
    ASSUME NEW digits, DOMAIN digits = 1 .. Len(digits), Len(digits) \in Nat
    PROVE  \E f : AreNumbers(f, digits) /\ NumberOf(digits) = f[Len(digits)]
<1> DEFINE n == Len(digits)
           i == CHOOSE f : f = [S \in SUBSET (1 .. n) |-> NumberBody(f, digits, S)]
           g == [k \in 0 .. n |-> i[1 .. k]]
<1>1. i = [S \in SUBSET (1 .. n) |-> NumberBody(i, digits, S)]
  BY NumbersExist
<1>2. NumberOf(digits) = i[1 .. n]
  <2>1. NumberOf(digits) = LET iter[S \in SUBSET DOMAIN digits] ==
                                IF S = {} THEN 0
                                ELSE 10 * iter[S \ {Max(S)}] + digits[Max(S)] - 48
                           IN  iter[DOMAIN digits]
    BY DEF NumberOf, FoldLeft, MapThenFoldSet
  <2> QED BY <2>1 DEF NumberBody
<1> HIDE DEF i
<1>3. 1 .. 0 = {} /\ {} \in SUBSET (1 .. n)
  OBVIOUS
<1>4. i[1 .. 0] = 0
  BY <1>1, <1>3 DEF NumberBody
<1>5. ASSUME NEW k \in 1 .. n PROVE i[1 .. k] = 10 * i[1 .. k - 1] + digits[k] - 48
  <2>1. 1 .. k \in SUBSET (1 .. n) /\ 1 .. k # {} /\ (1 .. k) \ {k} = 1 .. k - 1
    <3>1. n \in Nat /\ k \in Nat /\ 1 <= k /\ k <= n
      OBVIOUS
    <3> HIDE DEF n
    <3>2. \A x \in 1 .. k : x \in 1 .. n
      BY <3>1
    <3>3. k \in 1 .. k
      BY <3>1
    <3>4. (1 .. k) \ {k} = 1 .. k - 1
      BY <3>1
    <3> QED BY <3>2, <3>3, <3>4
  <2>2. Max(1 .. k) = k
    <3>1. 1 .. k \subseteq Int /\ k \in 1 .. k /\ \A x \in 1 .. k : x <= k
      OBVIOUS
    <3> QED BY <3>1, MaxIs
  <2>3. i[1 .. k] = NumberBody(i, digits, 1 .. k)
    BY <1>1, <2>1
  <2> QED BY <2>1, <2>2, <2>3 DEF NumberBody
<1>6. ASSUME NEW k \in 1 .. n PROVE g[k] = 10 * g[k - 1] + digits[k] - 48
  <2>1. g[k] = i[1 .. k] /\ g[k - 1] = i[1 .. k - 1]
    OBVIOUS
  <2> QED BY <1>5, <2>1
<1>7. g[0] = 0 /\ NumberOf(digits) = g[n]
  BY <1>2, <1>4
<1>8. AreNumbers(g, digits)
  <2> HIDE DEF g
  <2> QED BY <1>6, <1>7 DEF AreNumbers
<1> HIDE DEF g
<1> QED BY <1>7, <1>8

\* One number is made of digits, a natural one, and one digit more counts the others tenfold.
LEMMA NumberOfMore ==
    ASSUME NEW digits \in Seq(Digit), NEW c \in Digit
    PROVE  /\ NumberOf(digits) \in Nat
           /\ NumberOf(<<>>) = 0
           /\ NumberOf(Append(digits, c)) = 10 * NumberOf(digits) + c - 48
<1> DEFINE n == Len(digits)
           more == Append(digits, c)
<1>1. n \in Nat /\ DOMAIN digits = 1 .. n /\ \A k \in 1 .. n : digits[k] \in Digit
  BY ElementOfSeq
<1>2. more \in Seq(Digit) /\ Len(more) = n + 1 /\ DOMAIN more = 1 .. n + 1 /\ more[n + 1] = c /\ \A k \in 1 .. n : more[k] = digits[k]
  OBVIOUS
<1> HIDE DEF more
<1>3. PICK f : AreNumbers(f, digits) /\ NumberOf(digits) = f[n]
  BY <1>1, NumberIs
<1>4. PICK g : AreNumbers(g, more) /\ NumberOf(more) = g[n + 1]
  <2>1. DOMAIN more = 1 .. Len(more) /\ Len(more) \in Nat
    BY <1>1, <1>2
  <2>2. \E g : AreNumbers(g, more) /\ NumberOf(more) = g[Len(more)]
    BY <2>1, NumberIs
  <2> QED BY <1>2, <2>2
<1>5. f[0] = 0 /\ \A k \in 1 .. n : f[k] = 10 * f[k - 1] + digits[k] - 48
  BY <1>3 DEF AreNumbers
<1>6. g[0] = 0 /\ \A k \in 1 .. n + 1 : g[k] = 10 * g[k - 1] + more[k] - 48
  BY <1>2, <1>4 DEF AreNumbers
<1> DEFINE H == {k \in 0 .. n : f[k] \in Nat /\ g[k] = f[k]}
<1>7. ASSUME NEW k \in 0 .. n, \A m \in 0 .. k - 1 : m \in H PROVE k \in H
  <2>1. CASE k = 0
    BY <1>5, <1>6, <2>1
  <2>2. CASE k > 0
    <3>1. k - 1 \in H
      BY <1>7, <2>2
    <3>2. k \in 1 .. n /\ k \in 1 .. n + 1
      BY <1>1, <2>2
    <3>3. f[k] = 10 * f[k - 1] + digits[k] - 48 /\ g[k] = 10 * g[k - 1] + digits[k] - 48
      BY <1>2, <1>5, <1>6, <3>2
    <3>4. digits[k] - 48 \in Nat /\ digits[k] \in Nat
      BY <1>1, <3>2 DEF Digit
    <3>5. f[k - 1] \in Nat /\ g[k - 1] = f[k - 1]
      BY <3>1
    <3> QED BY <3>3, <3>4, <3>5, SMTT(40)
  <2> QED BY <2>1, <2>2
<1>8. n \in H
  <2> HIDE DEF H
  <2>1. \A k \in 0 .. n : k \in H
    BY <1>1, <1>7, Upwards
  <2> QED BY <1>1, <2>1
<1>9. NumberOf(digits) \in Nat
  BY <1>3, <1>8
<1>10. NumberOf(more) = 10 * NumberOf(digits) + c - 48
  <2>1. n + 1 \in 1 .. n + 1 /\ (n + 1) - 1 = n
    BY <1>1
  <2>2. g[n + 1] = 10 * g[n] + c - 48
    BY <1>2, <1>6, <2>1
  <2> QED BY <1>3, <1>4, <1>8, <2>2
<1>11. NumberOf(<<>>) = 0
  <2>1. Len(<<>>) = 0 /\ DOMAIN <<>> = 1 .. 0
    OBVIOUS
  <2>2. PICK h : AreNumbers(h, <<>>) /\ NumberOf(<<>>) = h[0]
    BY <2>1, NumberIs
  <2> QED BY <2>2 DEF AreNumbers
<1> QED BY <1>9, <1>10, <1>11 DEF more

-----------------------------------------------------------------------------
\* What the digits of a number are made of.
DigitsBody(f, n) == IF n < 10 THEN <<48 + n>> ELSE Append(f[n \div 10], 48 + (n % 10))

AreDigits(f, k) == f = [n \in 0 .. k |-> DigitsBody(f, n)]

\* Two functions that follow the recursion agree.
LEMMA DigitsAgreeUpTo ==
    ASSUME NEW k \in Nat, NEW l \in Nat, NEW f, NEW g, AreDigits(f, k), AreDigits(g, l), NEW n \in Nat, n <= k, n <= l
    PROVE  f[n] = g[n]
<1> DEFINE H == {m \in 0 .. n : f[m] = g[m]}
<1>1. ASSUME NEW m \in 0 .. n, \A x \in 0 .. m - 1 : x \in H PROVE m \in H
  <2>1. f[m] = DigitsBody(f, m) /\ g[m] = DigitsBody(g, m)
    <3>1. m \in 0 .. k /\ m \in 0 .. l
      OBVIOUS
    <3>2. f = [x \in 0 .. k |-> DigitsBody(f, x)] /\ g = [x \in 0 .. l |-> DigitsBody(g, x)]
      BY DEF AreDigits
    <3> HIDE DEF H
    <3>3. f[m] = DigitsBody(f, m)
      BY <3>1, <3>2
    <3>4. g[m] = DigitsBody(g, m)
      BY <3>1, <3>2
    <3> QED BY <3>3, <3>4
  <2>2. CASE m < 10
    BY <2>1, <2>2 DEF DigitsBody
  <2>3. CASE m >= 10
    <3>1. m \div 10 \in 0 .. m - 1
      BY <2>3
    <3>2. f[m \div 10] = g[m \div 10]
      BY <1>1, <3>1
    <3> QED BY <2>1, <3>2 DEF DigitsBody
  <2> QED BY <2>2, <2>3
<1>2. n \in H
  <2> HIDE DEF H
  <2> QED BY <1>1, Upwards
<1> QED BY <1>2

\* The digits of a number are no more than its size allows, and say the number.
LEMMA DigitsUpTo ==
    ASSUME NEW n \in Nat
    PROVE  \E f : AreDigits(f, n)
<1> DEFINE G == {k \in 0 .. n : \E f : AreDigits(f, k)}
<1>1. ASSUME NEW k \in 0 .. n, \A m \in 0 .. k - 1 : m \in G PROVE k \in G
  <2>1. \E f : \A m \in 0 .. k - 1 : f[m] = DigitsBody(f, m)
    <3>1. CASE k = 0
      BY <3>1
    <3>2. CASE k > 0
      <4>1. k - 1 \in G
        BY <1>1, <3>2
      <4>2. PICK f : AreDigits(f, k - 1)
        BY <4>1
      <4>3. \A m \in 0 .. k - 1 : f[m] = DigitsBody(f, m)
        BY <4>2 DEF AreDigits
      <4> QED BY <4>3
    <3> QED BY <3>1, <3>2
  <2>2. PICK f : \A m \in 0 .. k - 1 : f[m] = DigitsBody(f, m)
    BY <2>1
  <2> DEFINE g == [m \in 0 .. k |-> IF m = k THEN DigitsBody(f, m) ELSE f[m]]
  <2>3. ASSUME NEW m \in 0 .. k PROVE g[m] = DigitsBody(g, m)
    <3>1. g[m] = DigitsBody(f, m)
      BY <2>2
    <3>2. CASE m < 10
      BY <3>1, <3>2 DEF DigitsBody
    <3>3. CASE m >= 10
      <4>1. m \div 10 \in 0 .. k /\ m \div 10 # k
        BY <3>3
      <4>2. g[m \div 10] = f[m \div 10]
        BY <4>1
      <4> HIDE DEF g
      <4> QED BY <3>1, <4>2 DEF DigitsBody
    <3> QED BY <3>2, <3>3
  <2>4. AreDigits(g, k)
    <3>1. g = [m \in 0 .. k |-> g[m]]
      OBVIOUS
    <3> HIDE DEF g
    <3> QED BY <2>3, <3>1 DEF AreDigits
  <2> HIDE DEF g
  <2> QED BY <2>4
<1>2. \A k \in 0 .. n : k \in G
  <2> HIDE DEF G
  <2> QED BY <1>1, Upwards
<1> QED BY <1>2

\* The recursion of DigitsOfPort ends.
LEMMA DigitsAre ==
    ASSUME NEW n \in Nat
    PROVE  DigitsOfPort[n] = DigitsBody(DigitsOfPort, n)
<1> DEFINE upTo(k) == CHOOSE f : AreDigits(f, k)
           g == [k \in Nat |-> upTo(k)[k]]
<1>1. \A k \in Nat : AreDigits(upTo(k), k)
  BY DigitsUpTo
<1> HIDE DEF upTo
<1>2. ASSUME NEW k \in Nat PROVE g[k] = DigitsBody(g, k)
  <2>1. AreDigits(upTo(k), k) /\ k \in 0 .. k
    BY <1>1
  <2>2. g[k] = DigitsBody(upTo(k), k)
    BY <2>1 DEF AreDigits
  <2>3. CASE k < 10
    BY <2>2, <2>3 DEF DigitsBody
  <2>4. CASE k >= 10
    <3>1. k \div 10 \in Nat /\ k \div 10 <= k
      BY <2>4
    <3>2. upTo(k)[k \div 10] = upTo(k \div 10)[k \div 10]
      BY <1>1, <3>1, DigitsAgreeUpTo
    <3>3. g[k \div 10] = upTo(k \div 10)[k \div 10]
      BY <3>1
    <3> HIDE DEF g
    <3> QED BY <2>2, <3>2, <3>3 DEF DigitsBody
  <2> QED BY <2>3, <2>4
<1>3. g = [k \in Nat |-> DigitsBody(g, k)]
  <2>1. g = [k \in Nat |-> g[k]]
    OBVIOUS
  <2> HIDE DEF g
  <2> QED BY <1>2, <2>1
<1> HIDE DEF g
<1>4. DigitsOfPort = [k \in Nat |-> DigitsBody(DigitsOfPort, k)]
  <2>1. DigitsOfPort = CHOOSE f : f = [k \in Nat |-> DigitsBody(f, k)]
    BY DEF DigitsOfPort, DigitsBody
  <2> HIDE DEF DigitsOfPort
  <2> QED BY <1>3, <2>1
<1> QED BY <1>4

\* A number of five digits at most is read back from them.
LEMMA DigitsCount ==
    ASSUME NEW n \in Nat, n < 10 * (10 * (10 * (10 * 10)))
    PROVE  /\ DigitsOfPort[n] \in Seq(Digit)
           /\ Len(DigitsOfPort[n]) \in 1 .. 5
           /\ NumberOf(DigitsOfPort[n]) = n
<1> DEFINE Good(m, k) == /\ DigitsOfPort[m] \in Seq(Digit)
                         /\ Len(DigitsOfPort[m]) \in 1 .. k
                         /\ NumberOf(DigitsOfPort[m]) = m
<1>1. ASSUME NEW m \in Nat, m < 10 PROVE Good(m, 1)
  <2>1. DigitsOfPort[m] = <<48 + m>> /\ 48 + m \in Digit
    <3>1. DigitsOfPort[m] = DigitsBody(DigitsOfPort, m)
      BY DigitsAre
    <3>2. DigitsBody(DigitsOfPort, m) = <<48 + m>>
      BY <1>1 DEF DigitsBody
    <3> QED BY <1>1, <3>1, <3>2 DEF Digit
  <2>2. <<48 + m>> = Append(<<>>, 48 + m) /\ <<>> \in Seq(Digit)
    OBVIOUS
  <2>3. NumberOf(<<48 + m>>) = 10 * 0 + (48 + m) - 48
    BY <2>1, <2>2, NumberOfMore
  <2> QED BY <2>1, <2>3
<1>2. ASSUME NEW k \in 1 .. 4, NEW b \in Nat, \A m \in Nat : m < b => Good(m, k), NEW m \in Nat, m < 10 * b, m >= 10
      PROVE  Good(m, k + 1)
  <2> DEFINE c == 48 + (m % 10)
             d == DigitsOfPort[m \div 10]
  <2>1. m \div 10 \in Nat /\ m \div 10 < b /\ m % 10 \in 0 .. 9 /\ m = 10 * (m \div 10) + (m % 10)
    BY <1>2
  <2>2. d \in Seq(Digit) /\ Len(d) \in 1 .. k /\ NumberOf(d) = m \div 10 /\ c \in Digit
    BY <1>2, <2>1 DEF Digit
  <2>3. DigitsOfPort[m] = Append(d, c)
    <3>1. DigitsOfPort[m] = DigitsBody(DigitsOfPort, m)
      BY DigitsAre
    <3>2. DigitsBody(DigitsOfPort, m) = Append(d, c)
      BY <1>2 DEF DigitsBody
    <3> QED BY <3>1, <3>2
  <2>4. NumberOf(Append(d, c)) = 10 * NumberOf(d) + c - 48
    BY <2>2, NumberOfMore
  <2>5. 10 * NumberOf(d) + c - 48 = m
    <3>1. 10 * NumberOf(d) + c - 48 = 10 * (m \div 10) + (48 + (m % 10)) - 48
      BY <2>2
    <3> QED BY <2>1, <3>1
  <2> HIDE DEF c, d
  <2>6. Append(d, c) \in Seq(Digit) /\ Len(Append(d, c)) \in 1 .. k + 1
    BY <2>2
  <2> QED BY <2>3, <2>4, <2>5, <2>6
<1> HIDE DEF Good
<1>3. ASSUME NEW m \in Nat, NEW k \in 1 .. 4, Good(m, k) PROVE Good(m, k + 1)
  BY <1>3 DEF Good
<1>4. \A m \in Nat : m < 10 => Good(m, 1)
  BY <1>1
<1>5. ASSUME NEW k \in 1 .. 4, NEW b \in Nat, b >= 10, \A m \in Nat : m < b => Good(m, k)
      PROVE  \A m \in Nat : m < 10 * b => Good(m, k + 1)
  <2> SUFFICES ASSUME NEW m \in Nat, m < 10 * b PROVE Good(m, k + 1)
    OBVIOUS
  <2>1. CASE m < 10
    BY <1>3, <1>5, <2>1
  <2>2. CASE m >= 10
    BY <1>2, <1>5, <2>2
  <2> QED BY <2>1, <2>2
<1>6. \A m \in Nat : m < 10 * 10 => Good(m, 2)
  BY <1>4, <1>5
<1>7. \A m \in Nat : m < 10 * (10 * 10) => Good(m, 3)
  <2> DEFINE b == 10 * 10
  <2>1. b \in Nat /\ b >= 10 /\ 2 \in 1 .. 4 /\ 2 + 1 = 3
    OBVIOUS
  <2>2. \A m \in Nat : m < b => Good(m, 2)
    BY <1>6
  <2> HIDE DEF b
  <2>3. \A m \in Nat : m < 10 * b => Good(m, 2 + 1)
    BY <1>5, <2>1, <2>2
  <2> QED BY <2>1, <2>3 DEF b
<1>8. \A m \in Nat : m < 10 * (10 * (10 * 10)) => Good(m, 4)
  <2> DEFINE b == 10 * (10 * 10)
  <2>1. b \in Nat /\ b >= 10 /\ 3 \in 1 .. 4 /\ 3 + 1 = 4
    OBVIOUS
  <2>2. \A m \in Nat : m < b => Good(m, 3)
    BY <1>7
  <2> HIDE DEF b
  <2>3. \A m \in Nat : m < 10 * b => Good(m, 3 + 1)
    BY <1>5, <2>1, <2>2
  <2> QED BY <2>1, <2>3 DEF b
<1>9. \A m \in Nat : m < 10 * (10 * (10 * (10 * 10))) => Good(m, 5)
  <2> DEFINE b == 10 * (10 * (10 * 10))
  <2>1. b \in Nat /\ b >= 10 /\ 4 \in 1 .. 4 /\ 4 + 1 = 5
    OBVIOUS
  <2>2. \A m \in Nat : m < b => Good(m, 4)
    BY <1>8
  <2> HIDE DEF b
  <2>3. \A m \in Nat : m < 10 * b => Good(m, 4 + 1)
    BY <1>5, <2>1, <2>2
  <2> QED BY <2>1, <2>3 DEF b
<1> QED BY <1>9 DEF Good

-----------------------------------------------------------------------------
\* Two texts, one behind the other.
Joins(r, a, b) == r = a \o b

\* Concatenation is associative.
LEMMA Associates ==
    ASSUME NEW S, NEW a \in Seq(S), NEW b \in Seq(S), NEW c \in Seq(S),
           NEW r, Joins(r, b, c), NEW x, Joins(x, a, b), NEW y, Joins(y, x, c)
    PROVE  Joins(y, a, r)
BY DEF Joins

\* Where the two of them are.
LEMMA Joined ==
    ASSUME NEW S, NEW a \in Seq(S), NEW b \in Seq(S), NEW r, Joins(r, a, b)
    PROVE  /\ r \in Seq(S) /\ Len(r) = Len(a) + Len(b)
           /\ LiesAt(a, r, 0) /\ LiesAt(b, r, Len(a))
<1>1. LiesAt(a, a \o b, 0) /\ LiesAt(b, a \o b, Len(a))
  BY WrittenInConcat
<1>2. a \o b \in Seq(S) /\ Len(a \o b) = Len(a) + Len(b)
  OBVIOUS
<1> QED BY <1>1, <1>2 DEF Joins

\* The lesser of two numbers.
LEMMA MinOfTwo ==
    ASSUME NEW a \in Int, NEW b \in Int
    PROVE  Min({a, b}) = IF a <= b THEN a ELSE b
<1>1. CASE a <= b
  <2>1. {a, b} \subseteq Int /\ a \in {a, b} /\ \A x \in {a, b} : a <= x
    BY <1>1
  <2> QED BY <1>1, <2>1, MinIs
<1>2. CASE ~(a <= b)
  <2>1. {a, b} \subseteq Int /\ b \in {a, b} /\ \A x \in {a, b} : b <= x
    BY <1>2
  <2> QED BY <1>2, <2>1, MinIs
<1> QED BY <1>1, <1>2

\* A part of a text is made of the bytes found there.
LEMMA PartType ==
    ASSUME NEW S, NEW T, NEW s \in Seq(S), NEW a \in Nat, NEW b \in Nat, 1 <= a, b <= Len(s) + 1,
           \A j \in a .. b - 1 : s[j] \in T
    PROVE  SubSeq(s, a, b - 1) \in Seq(T)
<1>1. a \in Int /\ b - 1 \in Int
  OBVIOUS
<1> QED BY <1>1, SubSeqProperties

-----------------------------------------------------------------------------
\* What an address is made of, behind its scheme.
AreParts(h, d, t, r) ==
    /\ Len(r) = Len(h) + Len(d) + Len(t) + 2
    /\ LiesAt(h, r, 0)
    /\ r[Len(h) + 1] = Colon
    /\ LiesAt(d, r, Len(h) + 1)
    /\ r[Len(h) + Len(d) + 2] = Slash
    /\ LiesAt(t, r, Len(h) + Len(d) + 2)

\* It is taken apart there.
LEMMA PartsAreRead ==
    ASSUME NEW ssl, NEW h \in Seq(Byte \ {Colon, Slash}), NEW d \in Seq(Digit), Len(d) \in 1 .. 5,
           NEW t \in Seq(Byte), NEW r \in Seq(Byte), AreParts(h, d, t, r)
    PROVE  Address(ssl, r) = [ssl |-> ssl, host |-> h, port |-> NumberOf(d), target |-> t]
<1> DEFINE lh == Len(h)
           ld == Len(d)
           lt == Len(t)
           hostEnd == FirstOf(r, {Colon, Slash}, 1)
           other == FirstOf(r, Byte \ Digit, hostEnd + 1)
           digitsEnd == Min({other, hostEnd + 6})
<1>0. /\ lh \in Nat /\ ld \in Nat /\ lt \in Nat /\ Len(r) \in Nat /\ ld \in 1 .. 5
      /\ h \in Seq(Byte) /\ d \in Seq(Byte)
      /\ Len(r) = lh + ld + lt + 2
      /\ \A j \in 1 .. lh : h[j] \notin {Colon, Slash}
      /\ \A j \in 1 .. ld : d[j] \in Digit
  <2>1. d \in Seq(Byte)
    <3>1. Digit \subseteq Byte
      BY DEF Digit, Byte
    <3> QED BY <3>1
  <2>2. \A j \in 1 .. lh : h[j] \in Byte \ {Colon, Slash}
    BY ElementOfSeq
  <2>3. \A j \in 1 .. ld : d[j] \in Digit
    BY ElementOfSeq
  <2> QED BY <2>1, <2>2, <2>3 DEF AreParts
<1>00. lh \in Nat /\ ld \in Nat /\ 1 <= ld /\ ld <= 5 /\ lt \in Nat /\ Len(r) = lh + ld + lt + 2
  <2>1. lh \in Nat /\ lt \in Nat /\ ld \in 1 .. 5
    BY LenProperties
  <2>2. Len(r) = lh + ld + lt + 2
    BY DEF AreParts
  <2> HIDE DEF lh, ld, lt
  <2> QED BY <2>1, <2>2
<1>1. /\ LiesAt(h, r, 0) /\ LiesAt(d, r, lh + 1) /\ LiesAt(t, r, lh + ld + 2)
      /\ r[lh + 1] = Colon /\ r[lh + ld + 2] = Slash
  BY DEF AreParts
<1>2. /\ \A j \in 1 .. lh : r[j] = h[j]
      /\ \A j \in 1 .. ld : r[lh + 1 + j] = d[j]
  BY <1>1 DEF LiesAt
<1>3. hostEnd = lh + 1
  <2>1. lh + 1 \in 1 .. Len(r) /\ r[lh + 1] \in {Colon, Slash} /\ lh + 1 \in Nat
    BY <1>0, <1>1
  <2>2. \A j \in 1 .. (lh + 1) - 1 : r[j] \notin {Colon, Slash}
    BY <1>0, <1>2
  <2>3. IsFirst(lh + 1, r, {Colon, Slash}, 1)
    BY <2>1, <2>2 DEF IsFirst
  <2> QED BY <1>0, <2>3, FirstUnique
<1> HIDE DEF hostEnd
<1>4. other = lh + ld + 2
  <2>1. lh + ld + 2 \in lh + 2 .. Len(r) /\ lh + ld + 2 \in Nat /\ lh + 2 \in Nat
    BY <1>0
  <2>2. r[lh + ld + 2] \in Byte \ Digit
    BY <1>1 DEF Slash, Byte, Digit
  <2>3. ASSUME NEW j \in lh + 2 .. (lh + ld + 2) - 1 PROVE r[j] \notin Byte \ Digit
    <3> DEFINE k == j - (lh + 1)
    <3>1. k \in 1 .. ld /\ lh + 1 + k = j
      BY <1>0
    <3> HIDE DEF k
    <3> QED BY <1>0, <1>2, <3>1
  <2>4. IsFirst(lh + ld + 2, r, Byte \ Digit, lh + 2)
    BY <2>1, <2>2, <2>3 DEF IsFirst
  <2>5. hostEnd + 1 = lh + 2
    BY <1>0, <1>3
  <2> QED BY <1>0, <2>1, <2>4, <2>5, FirstUnique
<1> HIDE DEF other
<1>5. digitsEnd = lh + ld + 2
  <2>1. other \in Int /\ hostEnd + 6 \in Int /\ other <= hostEnd + 6
    <3> HIDE DEF lh, ld, lt
    <3> QED BY <1>00, <1>3, <1>4
  <2> QED BY <1>4, <2>1, MinOfTwo
<1> HIDE DEF digitsEnd
<1>6. hostEnd < Len(r) /\ r[hostEnd] = Colon /\ digitsEnd > hostEnd + 1
  <2>1. r[hostEnd] = Colon
    BY <1>1, <1>3
  <2> HIDE DEF lh, ld, lt
  <2> QED BY <1>00, <1>3, <1>5, <2>1
<1>7. digitsEnd <= Len(r) /\ r[digitsEnd] = Slash
  BY <1>0, <1>1, <1>5
<1>8. Address(ssl, r) = [ssl    |-> ssl,
                         host   |-> SubSeq(r, 1, hostEnd - 1),
                         port   |-> NumberOf(SubSeq(r, hostEnd + 1, digitsEnd - 1)),
                         target |-> SubSeq(r, digitsEnd + 1, Len(r))]
  BY <1>6, <1>7 DEF Address, hostEnd, other, digitsEnd
<1>9. SubSeq(r, 1, hostEnd - 1) = h
  <2>1. SubSeq(r, 0 + 1, 0 + Len(h)) = h
    BY <1>0, <1>1, WrittenIsPart
  <2>2. 0 + 1 = 1 /\ 0 + Len(h) = hostEnd - 1
    BY <1>0, <1>3
  <2> QED BY <2>1, <2>2
<1>10. SubSeq(r, hostEnd + 1, digitsEnd - 1) = d
  <2>1. lh + 1 \in Nat
    BY <1>0
  <2>2. SubSeq(r, (lh + 1) + 1, (lh + 1) + Len(d)) = d
    BY <1>0, <1>1, <2>1, WrittenIsPart
  <2>3. (lh + 1) + 1 = hostEnd + 1 /\ (lh + 1) + Len(d) = digitsEnd - 1
    BY <1>0, <1>3, <1>5
  <2> QED BY <2>2, <2>3
<1>11. SubSeq(r, digitsEnd + 1, Len(r)) = t
  <2>1. lh + ld + 2 \in Nat
    BY <1>0
  <2>2. SubSeq(r, (lh + ld + 2) + 1, (lh + ld + 2) + Len(t)) = t
    BY <1>1, <2>1, WrittenIsPart
  <2>3. (lh + ld + 2) + 1 = digitsEnd + 1 /\ (lh + ld + 2) + Len(t) = Len(r)
    BY <1>0, <1>5
  <2> QED BY <2>2, <2>3
<1> QED BY <1>8, <1>9, <1>10, <1>11

\* Of any address the host is a text without a colon and a slash, and the port a number.
LEMMA AddressType ==
    ASSUME NEW ssl \in BOOLEAN, NEW r \in Seq(Byte)
    PROVE  Address(ssl, r) \in [ssl : {ssl}, host : Seq(Byte \ {Colon, Slash}), port : Nat, target : Seq(Byte)]
<1> DEFINE hostEnd == FirstOf(r, {Colon, Slash}, 1)
           other == FirstOf(r, Byte \ Digit, hostEnd + 1)
           digitsEnd == Min({other, hostEnd + 6})
           ported == hostEnd < Len(r) /\ r[hostEnd] = Colon /\ digitsEnd > hostEnd + 1
           digits == SubSeq(r, hostEnd + 1, digitsEnd - 1)
           rest == IF ported THEN digitsEnd ELSE hostEnd
           slash == rest <= Len(r) /\ r[rest] = Slash
           from == IF slash THEN rest + 1 ELSE rest
<1>0. Len(r) \in Nat /\ \A j \in 1 .. Len(r) : r[j] \in Byte
  BY ElementOfSeq
<1>1. Address(ssl, r) = [ssl    |-> ssl,
                         host   |-> SubSeq(r, 1, hostEnd - 1),
                         port   |-> IF ported THEN NumberOf(digits) ELSE IF ssl THEN 443 ELSE 80,
                         target |-> SubSeq(r, from, Len(r))]
  BY DEF Address
<1>2. /\ hostEnd \in Nat /\ 1 <= hostEnd /\ hostEnd <= Len(r) + 1
      /\ \A j \in 1 .. hostEnd - 1 : r[j] \notin {Colon, Slash}
  <2>1. IsFirst(hostEnd, r, {Colon, Slash}, 1)
    BY <1>0, FirstFound
  <2> HIDE DEF hostEnd
  <2> QED BY <1>0, <2>1 DEF IsFirst
<1> HIDE DEF hostEnd
<1>3. /\ other \in Nat /\ other <= Len(r) + 1
      /\ \A j \in hostEnd + 1 .. other - 1 : r[j] \notin Byte \ Digit
  <2>1. IsFirst(other, r, Byte \ Digit, hostEnd + 1)
    BY <1>0, <1>2, FirstFound
  <2> HIDE DEF other
  <2> QED BY <1>0, <2>1 DEF IsFirst
<1> HIDE DEF other
<1>4. digitsEnd \in Nat /\ digitsEnd <= other
  <2>1. digitsEnd = IF other <= hostEnd + 6 THEN other ELSE hostEnd + 6
    BY <1>2, <1>3, MinOfTwo
  <2> QED BY <1>2, <1>3, <2>1
<1> HIDE DEF digitsEnd
<1>5. SubSeq(r, 1, hostEnd - 1) \in Seq(Byte \ {Colon, Slash})
  <2>1. \A j \in 1 .. hostEnd - 1 : r[j] \in Byte \ {Colon, Slash}
    BY <1>0, <1>2
  <2> QED BY <1>2, <2>1, PartType
<1>6. digits \in Seq(Digit)
  <2>1. \A j \in hostEnd + 1 .. digitsEnd - 1 : r[j] \in Digit
    <3> TAKE j \in hostEnd + 1 .. digitsEnd - 1
    <3>1. j \in hostEnd + 1 .. other - 1 /\ j \in 1 .. Len(r)
      BY <1>0, <1>2, <1>3, <1>4
    <3> QED BY <1>0, <1>3, <3>1
  <2>2. hostEnd + 1 \in Nat /\ 1 <= hostEnd + 1 /\ digitsEnd <= Len(r) + 1
    BY <1>0, <1>2, <1>3, <1>4
  <2> QED BY <1>4, <2>1, <2>2, PartType
<1>7. NumberOf(digits) \in Nat
  <2>1. 48 \in Digit
    BY DEF Digit
  <2> HIDE DEF digits
  <2> QED BY <1>6, <2>1, NumberOfMore
<1> HIDE DEF digits
<1>8. from \in Nat /\ 1 <= from
  <2>1. rest \in Nat /\ 1 <= rest
    BY <1>2, <1>4
  <2> HIDE DEF rest
  <2> QED BY <2>1
<1> HIDE DEF from, ported
<1>9. SubSeq(r, from, Len(r)) \in Seq(Byte)
  <2>1. Len(r) = (Len(r) + 1) - 1 /\ Len(r) + 1 \in Nat /\ Len(r) + 1 <= Len(r) + 1
    BY <1>0
  <2>2. \A j \in from .. (Len(r) + 1) - 1 : r[j] \in Byte
    <3> TAKE j \in from .. (Len(r) + 1) - 1
    <3>1. j \in 1 .. Len(r)
      BY <1>0, <1>8
    <3> QED BY <1>0, <3>1
  <2>3. SubSeq(r, from, (Len(r) + 1) - 1) \in Seq(Byte)
    BY <1>8, <2>1, <2>2, PartType
  <2> QED BY <2>1, <2>3
<1> QED BY <1>1, <1>5, <1>7, <1>9

-----------------------------------------------------------------------------
\* A text behind a scheme begins with this scheme only.
LEMMA OneScheme ==
    ASSUME NEW b \in BOOLEAN, NEW r \in Seq(Byte)
    PROVE  /\ Scheme(b) \in Seq(Byte)
           /\ {ssl \in BOOLEAN : IsPrefix(Scheme(ssl), Scheme(b) \o r)} = {b}
<1> DEFINE s == Scheme(b) \o r
<1>2. Colon \in Byte /\ Slash \in Byte /\ Colon # 115
  BY DEF Colon, Slash, Byte
<1>3. ASSUME NEW ssl \in BOOLEAN
      PROVE  /\ Scheme(ssl) \in Seq(Byte) /\ Len(Scheme(ssl)) >= 5
             /\ Scheme(ssl)[5] = (IF ssl THEN 115 ELSE Colon)
  <2> DEFINE http == <<104, 116, 116, 112>>
             more == IF ssl THEN <<115>> ELSE <<>>
             last == <<Colon, Slash, Slash>>
  <2>1. http \in Seq(Byte) /\ Len(http) = 4
    BY DEF Byte
  <2>2. /\ more \in Seq(Byte)
        /\ ssl = TRUE => Len(more) = 1 /\ more[1] = 115
        /\ ssl = FALSE => Len(more) = 0
    <3>1. CASE ssl = TRUE
      <4>1. more = <<115>>
        BY <3>1
      <4> HIDE DEF more
      <4> QED BY <3>1, <4>1 DEF Byte
    <3>2. CASE ssl = FALSE
      <4>1. more = <<>>
        BY <3>2
      <4> HIDE DEF more
      <4> QED BY <3>2, <4>1
    <3> QED BY <3>1, <3>2
  <2>3. last \in Seq(Byte) /\ Len(last) = 3 /\ last[1] = Colon
    BY <1>2
  <2>4. Scheme(ssl) = (http \o more) \o last
    BY DEF Scheme
  <2> HIDE DEF http, more, last
  <2> DEFINE hm == http \o more
             all == hm \o last
  <2> HIDE DEF hm, all
  <2>5. hm \in Seq(Byte) /\ Len(hm) = 4 + Len(more) /\ LiesAt(more, hm, 4)
    <3>1. http \in Seq(Byte) /\ more \in Seq(Byte)
      BY <2>1, <2>2
    <3>2. hm \in Seq(Byte) /\ Len(hm) = Len(http) + Len(more) /\ LiesAt(more, hm, Len(http))
      <4>1. Joins(hm, http, more)
        BY DEF Joins, hm
      <4> QED BY <3>1, <4>1, Joined
    <3> QED BY <2>1, <3>2
  <2>6. /\ all \in Seq(Byte) /\ Len(all) = Len(hm) + 3
        /\ LiesAt(hm, all, 0) /\ LiesAt(last, all, Len(hm))
    <3>1. hm \in Seq(Byte) /\ last \in Seq(Byte)
      BY <2>3, <2>5
    <3>2. all \in Seq(Byte) /\ Len(all) = Len(hm) + Len(last) /\ LiesAt(hm, all, 0) /\ LiesAt(last, all, Len(hm))
      <4>1. Joins(all, hm, last)
        BY DEF Joins, all
      <4> QED BY <3>1, <4>1, Joined
    <3> QED BY <2>3, <3>2
  <2>7. CASE ssl = TRUE
    <3>1. Len(more) = 1 /\ more[1] = 115 /\ Len(hm) = 5 /\ Len(all) = 8
      <4>1. Len(more) = 1 /\ more[1] = 115
        BY <2>2, <2>7
      <4> QED BY <2>5, <2>6, <4>1
    <3>2. hm[4 + 1] = more[1]
      BY <2>5, <3>1 DEF LiesAt
    <3>3. all[0 + 5] = hm[5]
      BY <2>6, <3>1 DEF LiesAt
    <3>4. all[5] = 115
      BY <3>1, <3>2, <3>3
    <3> QED BY <2>4, <2>6, <2>7, <3>1, <3>4 DEF hm, all
  <2>8. CASE ssl = FALSE
    <3>1. Len(more) = 0 /\ Len(hm) = 4 /\ Len(all) = 7
      BY <2>2, <2>5, <2>6, <2>8
    <3>2. all[4 + 1] = last[1]
      BY <2>3, <2>6, <3>1 DEF LiesAt
    <3>3. all[5] = Colon
      BY <2>3, <3>2
    <3> QED BY <2>4, <2>6, <2>8, <3>1, <3>3 DEF hm, all
  <2> QED BY <2>7, <2>8
<1>4. s \in Seq(Byte) /\ Len(s) = Len(Scheme(b)) + Len(r) /\ LiesAt(Scheme(b), s, 0)
  <2>1. Scheme(b) \in Seq(Byte)
    BY <1>3
  <2> HIDE DEF Scheme
  <2> QED BY <2>1, WrittenInConcat
<1> HIDE DEF s
<1>5. IsPrefix(Scheme(b), s)
  <2> DEFINE c == Scheme(b)
  <2>1. c \in Seq(Byte) /\ Len(c) \in Nat
    BY <1>3
  <2> HIDE DEF c
  <2>2. SubSeq(s, 0 + 1, 0 + Len(c)) = c
    BY <1>4, <2>1, WrittenIsPart DEF c
  <2>3. SubSeq(c, 1, Len(c)) = c
    BY <2>1
  <2>4. 0 + 1 = 1 /\ 0 + Len(c) = Len(c) /\ Len(c) <= Len(s)
    BY <1>4, <2>1 DEF c, LiesAt
  <2>5. IsPrefix(c, s)
    BY <2>2, <2>3, <2>4 DEF IsPrefix
  <2> QED BY <2>5 DEF c
<1>6. ASSUME NEW ssl \in BOOLEAN, IsPrefix(Scheme(ssl), s) PROVE ssl = b
  <2> DEFINE c == Scheme(ssl)
             e == Scheme(b)
  <2>1. /\ c \in Seq(Byte) /\ Len(c) >= 5 /\ Len(c) \in Nat /\ c[5] = (IF ssl THEN 115 ELSE Colon)
        /\ e \in Seq(Byte) /\ Len(e) >= 5 /\ Len(e) \in Nat /\ e[5] = (IF b THEN 115 ELSE Colon)
    BY <1>3
  <2> HIDE DEF c, e
  <2>2. s[5] = e[5]
    <3>1. 5 \in 1 .. Len(e) /\ 0 + 5 = 5
      BY <2>1
    <3>2. \A j \in 1 .. Len(e) : s[0 + j] = e[j]
      BY <1>4 DEF LiesAt, e
    <3> QED BY <3>1, <3>2
  <2>3. Len(c) <= Len(s) /\ SubSeq(c, 1, Len(c)) = SubSeq(s, 1, Len(c)) /\ Len(s) \in Nat
    BY <1>4, <1>6 DEF IsPrefix, c
  <2>4. SubSeq(c, 1, Len(c))[5] = c[5]
    BY <2>1
  <2>5. SubSeq(s, 1, Len(c))[5] = s[5]
    BY <1>4, <2>1, <2>3
  <2>6. c[5] = e[5]
    BY <2>2, <2>3, <2>4, <2>5
  <2> QED BY <1>2, <2>1, <2>6
<1>7. {ssl \in BOOLEAN : IsPrefix(Scheme(ssl), s)} = {b}
  <2> HIDE DEF Scheme
  <2> QED BY <1>5, <1>6
<1> QED BY <1>3, <1>7 DEF s

\* What from_string makes of a text behind a scheme.
LEMMA FromString ==
    ASSUME NEW b \in BOOLEAN, NEW r \in Seq(Byte)
    PROVE  LET url == Address(b, r)
           IN  UrlFromString(Scheme(b) \o r) =
                  IF url.host # <<>> /\ Range(url.target) \cap LineBreaks = {} /\ PortFits(url.port) THEN url ELSE DefaultUrl
<1> DEFINE s == Scheme(b) \o r
           url == Address(b, r)
           accepted(u) == u.host # <<>> /\ Range(u.target) \cap LineBreaks = {} /\ PortFits(u.port)
<1>1. {ssl \in BOOLEAN : IsPrefix(Scheme(ssl), s)} = {b} /\ Scheme(b) \in Seq(Byte)
  BY OneScheme
<1>2. SubSeq(s, Len(Scheme(b)) + 1, Len(s)) = r
  <2> DEFINE c == Scheme(b)
  <2>1. c \in Seq(Byte)
    BY <1>1
  <2> HIDE DEF c
  <2>2. LiesAt(r, c \o r, Len(c)) /\ c \o r \in Seq(Byte) /\ Len(c) \in Nat /\ Len(c \o r) = Len(c) + Len(r)
    BY <2>1, WrittenInConcat
  <2>3. SubSeq(c \o r, Len(c) + 1, Len(c) + Len(r)) = r
    BY <2>2, WrittenIsPart
  <2>4. SubSeq(c \o r, Len(c) + 1, Len(c \o r)) = r
    BY <2>2, <2>3
  <2> QED BY <2>4 DEF c
<1> HIDE DEF s
<1>3. {Address(ssl, SubSeq(s, Len(Scheme(ssl)) + 1, Len(s))) : ssl \in {b}} = {url}
  BY <1>2
<1> HIDE DEF url, accepted
<1>4. UrlFromString(s) = LET matches == {u \in {url} : accepted(u)}
                         IN  IF matches = {} THEN DefaultUrl ELSE CHOOSE u \in matches : TRUE
  BY <1>1, <1>3 DEF UrlFromString, accepted
<1>5. UrlFromString(s) = IF accepted(url) THEN url ELSE DefaultUrl
  <2>1. CASE accepted(url)
    <3>1. {u \in {url} : accepted(u)} = {url}
      BY <2>1
    <3>2. (CHOOSE u \in {url} : TRUE) = url
      OBVIOUS
    <3> QED BY <1>4, <2>1, <3>1, <3>2
  <2>2. CASE ~accepted(url)
    <3>1. {u \in {url} : accepted(u)} = {}
      BY <2>2
    <3> QED BY <1>4, <2>2, <3>1
  <2> QED BY <2>1, <2>2
<1> QED BY <1>5 DEF s, url, accepted

\* No byte of a text is a line break if it has none.
LEMMA NoLineBreaks ==
    ASSUME NEW t \in Seq(Byte)
    PROVE  Range(t) \cap LineBreaks = {} <=> t \in Seq(Byte \ LineBreaks)
<1>1. Len(t) \in Nat /\ DOMAIN t = 1 .. Len(t) /\ \A j \in 1 .. Len(t) : t[j] \in Byte
  BY ElementOfSeq
<1>2. ASSUME Range(t) \cap LineBreaks = {} PROVE t \in Seq(Byte \ LineBreaks)
  <2>1. \A j \in 1 .. Len(t) : t[j] \in Byte \ LineBreaks
    BY <1>1, <1>2 DEF Range
  <2>2. t = [j \in 1 .. Len(t) |-> t[j]]
    OBVIOUS
  <2> QED BY <1>1, <2>1, <2>2
<1>3. ASSUME t \in Seq(Byte \ LineBreaks) PROVE Range(t) \cap LineBreaks = {}
  <2>1. \A j \in 1 .. Len(t) : t[j] \in Byte \ LineBreaks
    BY <1>3, ElementOfSeq
  <2> QED BY <1>1, <2>1 DEF Range
<1> QED BY <1>2, <1>3

\* Six texts, two of them of one byte.
AreSix(S, c, h, k, d, l, t) ==
    /\ c \in Seq(S) /\ h \in Seq(S) /\ k \in Seq(S) /\ d \in Seq(S) /\ l \in Seq(S) /\ t \in Seq(S)
    /\ Len(k) = 1 /\ Len(l) = 1

\* Where they are, one behind the other.
LEMMA SixTexts ==
    ASSUME NEW S, NEW c, NEW h, NEW k, NEW d, NEW l, NEW t, AreSix(S, c, h, k, d, l, t)
    PROVE  LET r == h \o (k \o (d \o (l \o t)))
           IN  /\ c \o h \o k \o d \o l \o t = c \o r
               /\ r \in Seq(S) /\ Len(r) = Len(h) + Len(d) + Len(t) + 2
               /\ LiesAt(h, r, 0) /\ LiesAt(k, r, Len(h)) /\ LiesAt(d, r, Len(h) + 1)
               /\ LiesAt(l, r, Len(h) + Len(d) + 1) /\ LiesAt(t, r, Len(h) + Len(d) + 2)
<1> DEFINE r4 == l \o t
           r3 == d \o r4
           r2 == k \o r3
           r  == h \o r2
           p2 == c \o h
           p3 == p2 \o k
           p4 == p3 \o d
           p5 == p4 \o l
           p6 == p5 \o t
           lh == Len(h)
           ld == Len(d)
           lt == Len(t)
<1> HIDE DEF r, r2, r3, r4, p2, p3, p4, p5, p6
<1>c. c \in Seq(S)
  BY DEF AreSix
<1>h. h \in Seq(S)
  BY DEF AreSix
<1>k. k \in Seq(S) /\ Len(k) = 1
  BY DEF AreSix
<1>d. d \in Seq(S)
  BY DEF AreSix
<1>l. l \in Seq(S) /\ Len(l) = 1
  BY DEF AreSix
<1>t. t \in Seq(S)
  BY DEF AreSix
<1>0. lh \in Nat /\ ld \in Nat /\ lt \in Nat
  BY <1>h, <1>d, <1>t, LenProperties
<1>1. r4 \in Seq(S) /\ Len(r4) = Len(l) + lt
  <2>1. Joins(r4, l, t)
    BY DEF Joins, r4
  <2> QED BY <1>l, <1>t, <2>1, Joined, ZenonT(60)
<1>2. r3 \in Seq(S) /\ Len(r3) = ld + Len(r4)
  <2>1. Joins(r3, d, r4)
    BY DEF Joins, r3
  <2> QED BY <1>d, <1>1, <2>1, Joined
<1>3. r2 \in Seq(S) /\ Len(r2) = Len(k) + Len(r3)
  <2>1. Joins(r2, k, r3)
    BY DEF Joins, r2
  <2> QED BY <1>k, <1>2, <2>1, Joined
<1>4. r \in Seq(S) /\ Len(r) = lh + Len(r2) /\ LiesAt(h, r, 0) /\ LiesAt(r2, r, lh)
  <2>1. Joins(r, h, r2)
    BY DEF Joins, r
  <2> QED BY <1>h, <1>3, <2>1, Joined
<1>5. p2 \in Seq(S)
  <2>1. Joins(p2, c, h)
    BY DEF Joins, p2
  <2> QED BY <1>c, <1>h, <2>1, Joined
<1>6. p3 \in Seq(S)
  <2>1. Joins(p3, p2, k)
    BY DEF Joins, p3
  <2> QED BY <1>5, <1>k, <2>1, Joined
<1>7. p4 \in Seq(S)
  <2>1. Joins(p4, p3, d)
    BY DEF Joins, p4
  <2> QED BY <1>6, <1>d, <2>1, Joined
<1>8. /\ Joins(r4, l, t) /\ Joins(r3, d, r4) /\ Joins(r2, k, r3) /\ Joins(r, h, r2)
      /\ Joins(p2, c, h) /\ Joins(p3, p2, k) /\ Joins(p4, p3, d) /\ Joins(p5, p4, l) /\ Joins(p6, p5, t)
  BY DEF Joins, r, r2, r3, r4, p2, p3, p4, p5, p6
<1>9. Joins(p6, p4, r4)
  BY <1>7, <1>l, <1>t, <1>8, Associates
<1>10. Joins(p6, p3, r3)
  BY <1>6, <1>d, <1>1, <1>8, <1>9, Associates
<1>11. Joins(p6, p2, r2)
  BY <1>5, <1>k, <1>2, <1>8, <1>10, Associates
<1>12. p6 = c \o r
  <2>1. Joins(p6, c, r)
    BY <1>c, <1>h, <1>3, <1>8, <1>11, Associates
  <2> QED BY <2>1 DEF Joins
<1>13. LiesAt(k, r, lh) /\ LiesAt(r3, r, lh + 1)
  <2>1. LiesAt(k \o r3, r, lh)
    BY <1>4 DEF r2
  <2>2. LiesAt(k, r, lh) /\ LiesAt(r3, r, lh + Len(k))
    BY <1>0, <1>2, <1>4, <1>k, <2>1, WrittenParts
  <2> QED BY <1>k, <2>2
<1>14. LiesAt(d, r, lh + 1) /\ LiesAt(r4, r, lh + ld + 1)
  <2>1. LiesAt(d \o r4, r, lh + 1) /\ lh + 1 \in Nat
    BY <1>0, <1>13 DEF r3
  <2>2. LiesAt(d, r, lh + 1) /\ LiesAt(r4, r, lh + 1 + Len(d))
    BY <1>1, <1>4, <1>d, <2>1, WrittenParts
  <2>3. lh + 1 + Len(d) = lh + ld + 1
    BY <1>0
  <2> QED BY <2>2, <2>3
<1>15. LiesAt(l, r, lh + ld + 1) /\ LiesAt(t, r, lh + ld + 2)
  <2>1. LiesAt(l \o t, r, lh + ld + 1) /\ lh + ld + 1 \in Nat
    BY <1>0, <1>14 DEF r4
  <2>2. LiesAt(l, r, lh + ld + 1) /\ LiesAt(t, r, lh + ld + 1 + Len(l))
    BY <1>4, <1>l, <1>t, <2>1, WrittenParts
  <2>3. lh + ld + 1 + Len(l) = lh + ld + 2
    BY <1>0, <1>l
  <2> QED BY <2>2, <2>3
<1>16. Len(r) = lh + ld + lt + 2
  <2>1. Len(r) = lh + (1 + (ld + (1 + lt)))
    BY <1>1, <1>2, <1>3, <1>4, <1>k, <1>l
  <2> QED BY <1>0, <2>1
<1> QED BY <1>4, <1>12, <1>13, <1>14, <1>15, <1>16 DEF r, r2, r3, r4, p2, p3, p4, p5, p6

\* What to_string writes is the address of its parts, behind the scheme.
LEMMA ToStringIs ==
    ASSUME NEW ssl \in BOOLEAN, NEW h \in Seq(Byte \ {Colon, Slash}), NEW d \in Seq(Digit), NEW t \in Seq(Byte)
    PROVE  \E r \in Seq(Byte) : /\ AreParts(h, d, t, r)
                                /\ Scheme(ssl) \o h \o <<Colon>> \o d \o <<Slash>> \o t = Scheme(ssl) \o r
<1> DEFINE k == <<Colon>>
           l == <<Slash>>
           c == Scheme(ssl)
           r == h \o (k \o (d \o (l \o t)))
<1>1. d \in Seq(Byte)
  <2>1. Digit \subseteq Byte
    BY DEF Digit, Byte
  <2> QED BY <2>1
<1>2. k \in Seq(Byte) /\ l \in Seq(Byte) /\ Len(k) = 1 /\ Len(l) = 1 /\ k[1] = Colon /\ l[1] = Slash
  <2>1. Colon \in Byte /\ Slash \in Byte
    BY DEF Colon, Slash, Byte
  <2> QED BY <2>1
<1>3. c \in Seq(Byte)
  <2>1. <<>> \in Seq(Byte)
    OBVIOUS
  <2> QED BY <2>1, OneScheme
<1>4. h \in Seq(Byte)
  OBVIOUS
<1> HIDE DEF k, l, c
<1>5. /\ c \o h \o k \o d \o l \o t = c \o r
      /\ r \in Seq(Byte) /\ Len(r) = Len(h) + Len(d) + Len(t) + 2
      /\ LiesAt(h, r, 0) /\ LiesAt(k, r, Len(h)) /\ LiesAt(d, r, Len(h) + 1)
      /\ LiesAt(l, r, Len(h) + Len(d) + 1) /\ LiesAt(t, r, Len(h) + Len(d) + 2)
  <2>1. AreSix(Byte, c, h, k, d, l, t)
    BY <1>1, <1>2, <1>3, <1>4 DEF AreSix
  <2> QED BY <2>1, SixTexts
<1> HIDE DEF r
<1>6. r[Len(h) + 1] = Colon /\ r[Len(h) + Len(d) + 2] = Slash
  <2>1. r[Len(h) + 1] = k[1] /\ r[Len(h) + Len(d) + 1 + 1] = l[1]
    BY <1>2, <1>5 DEF LiesAt
  <2>2. Len(h) + Len(d) + 1 + 1 = Len(h) + Len(d) + 2
    <3>1. Len(h) \in Nat /\ Len(d) \in Nat
      BY LenProperties
    <3> QED BY <3>1
  <2> QED BY <1>2, <2>1, <2>2
<1>7. AreParts(h, d, t, r)
  BY <1>5, <1>6 DEF AreParts
<1> QED BY <1>5, <1>7 DEF c, k, l

\* A URL that is written is read back, if its port is one.
LEMMA WrittenUrlRead ==
    ASSUME NEW ssl \in BOOLEAN, NEW h \in Seq(Byte \ {Colon, Slash}), h # <<>>,
           NEW n \in Nat, n < 10 * (10 * (10 * (10 * 10))), NEW t \in Seq(Byte \ LineBreaks)
    PROVE  LET url == [ssl |-> ssl, host |-> h, port |-> n, target |-> t]
           IN  UrlFromString(UrlToString(url)) = IF PortFits(n) THEN url ELSE DefaultUrl
<1> DEFINE url == [ssl |-> ssl, host |-> h, port |-> n, target |-> t]
           d == DigitsOfPort[n]
<1>1. d \in Seq(Digit) /\ Len(d) \in 1 .. 5 /\ NumberOf(d) = n
  BY DigitsCount
<1> HIDE DEF d
<1>2. t \in Seq(Byte)
  OBVIOUS
<1>3. PICK r \in Seq(Byte) : /\ AreParts(h, d, t, r)
                             /\ Scheme(ssl) \o h \o <<Colon>> \o d \o <<Slash>> \o t = Scheme(ssl) \o r
  BY <1>1, <1>2, ToStringIs
<1>4. UrlToString(url) = Scheme(ssl) \o r
  <2>1. UrlToString(url) = Scheme(ssl) \o h \o <<Colon>> \o d \o <<Slash>> \o t
    BY DEF UrlToString, d
  <2> QED BY <1>3, <2>1
<1>5. Address(ssl, r) = url
  BY <1>1, <1>2, <1>3, PartsAreRead
<1>6. Range(t) \cap LineBreaks = {}
  BY <1>2, NoLineBreaks
<1>7. UrlFromString(Scheme(ssl) \o r) =
        IF url.host # <<>> /\ Range(url.target) \cap LineBreaks = {} /\ PortFits(url.port) THEN url ELSE DefaultUrl
  BY <1>3, <1>5, FromString
<1>8. url.host = h /\ url.target = t /\ url.port = n
  OBVIOUS
<1> HIDE DEF url
<1> QED BY <1>4, <1>6, <1>7, <1>8 DEF url

\* What is made of an address, and written, is read as the same.
LEMMA ReadUrlStays ==
    ASSUME NEW b \in BOOLEAN, NEW r \in Seq(Byte)
    PROVE  LET url == UrlFromString(Scheme(b) \o r)
           IN  url = DefaultUrl \/ (url.ssl = b /\ UrlFromString(UrlToString(url)) = url)
<1> DEFINE a == Address(b, r)
           url == UrlFromString(Scheme(b) \o r)
<1> SUFFICES ASSUME url # DefaultUrl PROVE url.ssl = b /\ UrlFromString(UrlToString(url)) = url
  OBVIOUS
<1>1. a \in [ssl : {b}, host : Seq(Byte \ {Colon, Slash}), port : Nat, target : Seq(Byte)]
  BY AddressType
<1>2. url = IF a.host # <<>> /\ Range(a.target) \cap LineBreaks = {} /\ PortFits(a.port) THEN a ELSE DefaultUrl
  BY FromString
<1> HIDE DEF a, url
<1>3. url = a /\ a.host # <<>> /\ Range(a.target) \cap LineBreaks = {} /\ PortFits(a.port)
  BY <1>2
<1>4. /\ a = [ssl |-> b, host |-> a.host, port |-> a.port, target |-> a.target]
      /\ a.ssl = b /\ a.host \in Seq(Byte \ {Colon, Slash}) /\ a.port \in Nat /\ a.target \in Seq(Byte)
  BY <1>1
<1>5. a.target \in Seq(Byte \ LineBreaks)
  BY <1>3, <1>4, NoLineBreaks
<1>6. a.port < 10 * (10 * (10 * (10 * 10)))
  BY <1>3, <1>4, SMT DEF PortFits, MaxPort
<1>7. UrlFromString(UrlToString([ssl |-> b, host |-> a.host, port |-> a.port, target |-> a.target])) =
        IF PortFits(a.port) THEN [ssl |-> b, host |-> a.host, port |-> a.port, target |-> a.target] ELSE DefaultUrl
  BY <1>3, <1>4, <1>5, <1>6, WrittenUrlRead
<1> QED BY <1>3, <1>4, <1>7

-----------------------------------------------------------------------------
\* What parse_cookie_values yields from a position of its text on.
CookieBody(s, last, from, pos) ==
    LET start == FirstOf(s, Byte \ {Equals}, pos)
        equal == FirstOf(s, {Equals}, start)
        end   == FirstOf(s, {Semicolon}, equal + 1)
    IN  [left \in 0 .. last |->
            IF left = 0 \/ equal > Len(s) THEN <<>>
            ELSE <<[key   |-> Decode(SubSeq(s, KeyStart(s, start, equal), equal - 1)),
                    value |-> Decode(SubSeq(s, equal + 1, end - 1))]>>
                 \o from[end + 1][left - 1]]

AreCookies(f, s, last, m) == f = [pos \in m .. Len(s) + 2 |-> CookieBody(s, last, f, pos)]

\* It depends on what is yielded further on.
LEMMA CookieBodyLooksAhead ==
    ASSUME NEW s, Len(s) \in Nat, NEW last, NEW f, NEW g, NEW pos \in 1 .. Len(s) + 2,
           \A i \in pos + 1 .. Len(s) + 2 : f[i] = g[i]
    PROVE  CookieBody(s, last, f, pos) = CookieBody(s, last, g, pos)
<1> DEFINE start == FirstOf(s, Byte \ {Equals}, pos)
           equal == FirstOf(s, {Equals}, start)
           end   == FirstOf(s, {Semicolon}, equal + 1)
<1>1. start \in Nat /\ (start = Len(s) + 1 \/ start \in pos .. Len(s))
  <2>1. IsFirst(start, s, Byte \ {Equals}, pos)
    BY FirstFound
  <2> HIDE DEF start
  <2> QED BY <2>1 DEF IsFirst
<1> HIDE DEF start
<1>2. equal \in Nat /\ (equal = Len(s) + 1 \/ equal \in start .. Len(s))
  <2>1. IsFirst(equal, s, {Equals}, start)
    BY <1>1, FirstFound
  <2> HIDE DEF equal
  <2> QED BY <2>1 DEF IsFirst
<1> HIDE DEF equal
<1>3. end \in Nat /\ (end = Len(s) + 1 \/ end \in equal + 1 .. Len(s))
  <2>1. IsFirst(end, s, {Semicolon}, equal + 1)
    BY <1>2, FirstFound
  <2> HIDE DEF end
  <2> QED BY <2>1 DEF IsFirst
<1> HIDE DEF end
<1>4. equal > Len(s) \/ end + 1 \in pos + 1 .. Len(s) + 2
  BY <1>1, <1>2, <1>3
<1>5. equal > Len(s) \/ f[end + 1] = g[end + 1]
  BY <1>4
<1> DEFINE read == [key   |-> Decode(SubSeq(s, KeyStart(s, start, equal), equal - 1)),
                    value |-> Decode(SubSeq(s, equal + 1, end - 1))]
<1> HIDE DEF read
<1>6. \A h : CookieBody(s, last, h, pos) =
                [left \in 0 .. last |-> IF left = 0 \/ equal > Len(s) THEN <<>> ELSE <<read>> \o h[end + 1][left - 1]]
  BY DEF CookieBody, start, equal, end, read
<1>7. CASE equal > Len(s)
  <2>1. \A h : CookieBody(s, last, h, pos) = [left \in 0 .. last |-> <<>>]
    BY <1>6, <1>7
  <2> QED BY <2>1
<1>8. CASE f[end + 1] = g[end + 1]
  BY <1>6, <1>8
<1> QED BY <1>5, <1>7, <1>8

\* The recursion ends: each search goes on behind the one before.
LEMMA CookiesExist ==
    ASSUME NEW s, Len(s) \in Nat, NEW last
    PROVE  \E f : AreCookies(f, s, last, 1)
<1> DEFINE L == Len(s) + 2
           G == {k \in 0 .. L : \E f : AreCookies(f, s, last, k + 1)}
<1>1. ASSUME NEW k \in 0 .. L, \A m \in k + 1 .. L : m \in G PROVE k \in G
  <2>1. \E f : \A i \in k + 2 .. L : f[i] = CookieBody(s, last, f, i)
    <3>1. CASE k = L
      BY <3>1
    <3>2. CASE k < L
      <4>1. k + 1 \in G
        BY <1>1, <3>2
      <4>2. PICK f : AreCookies(f, s, last, (k + 1) + 1)
        BY <4>1
      <4>3. f = [i \in (k + 1) + 1 .. L |-> CookieBody(s, last, f, i)] /\ (k + 1) + 1 = k + 2
        BY <4>2 DEF AreCookies
      <4>4. \A i \in k + 2 .. L : f[i] = CookieBody(s, last, f, i)
        BY <4>3
      <4> QED BY <4>4
    <3> QED BY <3>1, <3>2
  <2>2. PICK f : \A i \in k + 2 .. L : f[i] = CookieBody(s, last, f, i)
    BY <2>1
  <2> DEFINE g == [i \in k + 1 .. L |-> IF i = k + 1 THEN CookieBody(s, last, f, i) ELSE f[i]]
  <2>3. \A i \in k + 2 .. L : g[i] = f[i]
    OBVIOUS
  <2>4. ASSUME NEW i \in k + 1 .. L PROVE g[i] = CookieBody(s, last, g, i)
    <3>1. g[i] = CookieBody(s, last, f, i)
      BY <2>2
    <3>2. \A j \in i + 1 .. L : f[j] = g[j]
      <4> HIDE DEF g
      <4> QED BY <2>3
    <3>3. i \in 1 .. Len(s) + 2
      OBVIOUS
    <3> HIDE DEF g
    <3>4. CookieBody(s, last, f, i) = CookieBody(s, last, g, i)
      BY <3>2, <3>3, CookieBodyLooksAhead
    <3> QED BY <3>1, <3>4
  <2>5. AreCookies(g, s, last, k + 1)
    <3>1. g = [i \in k + 1 .. L |-> g[i]]
      OBVIOUS
    <3> HIDE DEF g
    <3> QED BY <2>4, <3>1 DEF AreCookies
  <2> HIDE DEF g
  <2> QED BY <2>5
<1>2. \A k \in 0 .. L : k \in G
  <2>1. L \in Nat
    OBVIOUS
  <2> HIDE DEF G, L
  <2> QED BY <1>1, <2>1, Downwards
<1>3. 0 \in G /\ 0 + 1 = 1
  <2>1. 0 \in 0 .. L
    OBVIOUS
  <2> HIDE DEF G, L
  <2> QED BY <1>2, <2>1
<1> QED BY <1>3

\* What parse_cookie_values yields is what its recursion makes of the whole text.
LEMMA CookiesAre ==
    ASSUME NEW s, Len(s) \in Nat, NEW last
    PROVE  \E f : AreCookies(f, s, last, 1) /\ ParseCookieValues(s, last) = f[1][last]
<1> DEFINE d == CHOOSE f : AreCookies(f, s, last, 1)
<1>1. AreCookies(d, s, last, 1)
  BY CookiesExist
<1>2. ParseCookieValues(s, last) = d[1][last]
  <2>1. d = CHOOSE f : f = [pos \in 1 .. Len(s) + 2 |-> CookieBody(s, last, f, pos)]
    BY DEF AreCookies
  <2>2. ParseCookieValues(s, last) =
           (CHOOSE f : f = [pos \in 1 .. Len(s) + 2 |-> CookieBody(s, last, f, pos)])[1][last]
    BY DEF ParseCookieValues, CookieBody
  <2> QED BY <2>1, <2>2
<1> HIDE DEF d
<1> QED BY <1>1, <1>2
=============================================================================
