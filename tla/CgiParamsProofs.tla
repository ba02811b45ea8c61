---------------------------- MODULE CgiParamsProofs ----------------------------
(***************************************************************************)
(* What cgi2params does with every query: its cursor advances, what        *)
(* follows a separator is parsed on its own, and what params2cgi wrote is  *)
(* read back.                                                              *)
(***************************************************************************)
EXTENDS CgiParams, UrlCodecProofs

\* find answers the first place of the token.
LEMMA FindFirst ==
    ASSUME NEW str, Len(str) \in Nat, NEW token, NEW pos \in Nat
    PROVE  LET i == Find(str, token, pos)
           IN  /\ i \in Nat
               /\ i = Len(str) + 1 \/ (i \in pos .. Len(str) /\ str[i] = token)
               /\ \A j \in pos .. i - 1 : str[j] # token
<1> DEFINE found == {i \in pos .. Len(str) : str[i] = token}
<1>1. CASE found = {}
  <2>1. Find(str, token, pos) = Len(str) + 1
    BY <1>1 DEF Find
  <2>2. \A j \in pos .. Len(str) : str[j] # token
    BY <1>1
  <2> QED BY <2>1, <2>2
<1>2. CASE found # {}
  <2>1. found \subseteq Nat
    OBVIOUS
  <2>2. \E i \in found : \A j \in found : i <= j
    <3> HIDE DEF found
    <3> QED BY <1>2, <2>1, LeastNumber
  <2>3. Find(str, token, pos) = CHOOSE i \in found : \A j \in found : i <= j
    BY <1>2 DEF Find
  <2>4. PICK i : i = Find(str, token, pos) /\ i \in found /\ \A j \in found : i <= j
    <3> HIDE DEF found
    <3> QED BY <2>2, <2>3
  <2>5. i \in Nat /\ i \in pos .. Len(str) /\ str[i] = token
    BY <2>4
  <2>6. \A j \in pos .. i - 1 : str[j] # token
    BY <2>4
  <2> QED BY <2>4, <2>5, <2>6
<1> QED BY <1>1, <1>2

\* No other place has these properties.
LEMMA FindUnique ==
    ASSUME NEW str, Len(str) \in Nat, NEW token, NEW pos \in Nat, NEW k \in pos .. Len(str) + 1,
           k <= Len(str) => str[k] = token, \A j \in pos .. k - 1 : str[j] # token
    PROVE  Find(str, token, pos) = k
<1>1. PICK i \in Nat : /\ i = Find(str, token, pos)
                       /\ i = Len(str) + 1 \/ (i \in pos .. Len(str) /\ str[i] = token)
                       /\ \A j \in pos .. i - 1 : str[j] # token
  BY FindFirst
<1>2. ~(i < k)
  <2> SUFFICES ASSUME i < k PROVE FALSE
    OBVIOUS
  <2>1. i \in pos .. Len(str) /\ str[i] = token
    BY <1>1
  <2>2. i \in pos .. k - 1
    BY <2>1
  <2> QED BY <2>1, <2>2
<1>3. ~(k < i)
  <2> SUFFICES ASSUME k < i PROVE FALSE
    OBVIOUS
  <2>1. k <= Len(str) /\ k \in pos .. i - 1
    BY <1>1
  <2> QED BY <1>1, <2>1
<1> QED BY <1>1, <1>2, <1>3

\* The separators of the base of a key.
Separators == {"=", "&", "["}

\* parse_base_key ends at the first of its separators.
LEMMA BaseEndIs ==
    ASSUME NEW str, Len(str) \in Nat, NEW pos \in 1 .. Len(str) + 1
    PROVE  LET b == BaseEnd(str, pos)
           IN  /\ b \in pos .. Len(str) + 1
               /\ b <= Len(str) => str[b] \in Separators
               /\ \A j \in pos .. b - 1 : str[j] \notin Separators
<1> DEFINE e == Find(str, "=", pos)
           a == Find(str, "&", pos)
           b == Find(str, "[", pos)
<1>0. pos \in Nat
  OBVIOUS
<1>1. /\ e \in Nat /\ (e = Len(str) + 1 \/ (e \in pos .. Len(str) /\ str[e] = "="))
      /\ \A j \in pos .. e - 1 : str[j] # "="
  BY <1>0, FindFirst
<1>2. /\ a \in Nat /\ (a = Len(str) + 1 \/ (a \in pos .. Len(str) /\ str[a] = "&"))
      /\ \A j \in pos .. a - 1 : str[j] # "&"
  BY <1>0, FindFirst
<1>3. /\ b \in Nat /\ (b = Len(str) + 1 \/ (b \in pos .. Len(str) /\ str[b] = "["))
      /\ \A j \in pos .. b - 1 : str[j] # "["
  BY <1>0, FindFirst
<1> HIDE DEF e, a, b
<1> DEFINE m == BaseEnd(str, pos)
<1>4. m \in {e, a, b} /\ m <= e /\ m <= a /\ m <= b
  BY <1>1, <1>2, <1>3 DEF BaseEnd, Least, e, a, b
<1> HIDE DEF m
<1>5. m \in pos .. Len(str) + 1
  BY <1>1, <1>2, <1>3, <1>4
<1>6. m <= Len(str) => str[m] \in Separators
  BY <1>1, <1>2, <1>3, <1>4 DEF Separators
<1>7. \A j \in pos .. m - 1 : str[j] \notin Separators
  BY <1>1, <1>2, <1>3, <1>4 DEF Separators
<1> QED BY <1>5, <1>6, <1>7 DEF m

\* What parse_subscripts does at a place of its string.
SubscriptsBody(str, from, p) ==
    LET end == Find(str, "]", p + 1) IN
    [depth \in 1 .. MaxKeyDepth + Len(str) |->
        IF ~At(str, p, "[") THEN [ok |-> TRUE, pos |-> p, keys |-> <<>>]
        ELSE IF end > Len(str) \/ TooDeep(depth) THEN [ok |-> FALSE, pos |-> p, keys |-> <<>>]
        ELSE [from[end + 1][depth + 1] EXCEPT !.keys = <<SubSeq(str, p + 1, end - 1)>> \o @]]

\* It depends on the places behind, only.
LEMMA SubscriptsBehind ==
    ASSUME NEW str, Len(str) \in Nat, NEW f, NEW g, NEW p \in 1 .. Len(str) + 1,
           \A i \in p + 1 .. Len(str) + 1 : f[i] = g[i]
    PROVE  SubscriptsBody(str, f, p) = SubscriptsBody(str, g, p)
<1> DEFINE end == Find(str, "]", p + 1)
<1>1. end \in Nat /\ (end = Len(str) + 1 \/ end \in p + 1 .. Len(str))
  BY FindFirst
<1> HIDE DEF end
<1>2. CASE end > Len(str)
  BY <1>2 DEF SubscriptsBody, end
<1>3. CASE end <= Len(str)
  <2>1. f[end + 1] = g[end + 1]
    BY <1>1, <1>3
  <2> QED BY <2>1 DEF SubscriptsBody, end
<1> QED BY <1>1, <1>2, <1>3

\* The recursion ends, then.
LEMMA SubscriptsExist ==
    ASSUME NEW str, Len(str) \in Nat
    PROVE  \E f : f = [p \in 1 .. Len(str) + 1 |-> SubscriptsBody(str, f, p)]
<1> DEFINE L == Len(str) + 1
           G == {k \in 0 .. L : \E f : f = [p \in k + 1 .. L |-> SubscriptsBody(str, f, p)]}
<1>0. L \in Nat
  OBVIOUS
<1>1. ASSUME NEW k \in 0 .. L, \A m \in k + 1 .. L : m \in G PROVE k \in G
  <2>1. CASE k = L
    <3>1. [p \in {} |-> 0] = [p \in k + 1 .. L |-> SubscriptsBody(str, [j \in {} |-> 0], p)]
      BY <1>0, <2>1
    <3> QED BY <3>1
  <2>2. CASE k < L
    <3>1. k + 1 \in G
      <4>1. k + 1 \in k + 1 .. L
        BY <1>0, <2>2
      <4> HIDE DEF G, L
      <4> QED BY <1>1, <4>1
    <3>2. PICK f : f = [p \in k + 2 .. L |-> SubscriptsBody(str, f, p)]
      BY <3>1
    <3> DEFINE g == [p \in k + 1 .. L |-> IF p = k + 1 THEN SubscriptsBody(str, f, p) ELSE f[p]]
    <3>3. ASSUME NEW p \in k + 1 .. L PROVE SubscriptsBody(str, g, p) = SubscriptsBody(str, f, p)
      <4>1. p \in 1 .. Len(str) + 1 /\ \A i \in p + 1 .. Len(str) + 1 : g[i] = f[i]
        BY <1>0
      <4> HIDE DEF g
      <4> QED BY <4>1, SubscriptsBehind
    <3>4. ASSUME NEW p \in k + 1 .. L PROVE g[p] = SubscriptsBody(str, g, p)
      <4>1. CASE p = k + 1
        BY <3>3, <4>1
      <4>2. CASE p \in k + 2 .. L
        BY <3>2, <3>3, <4>2
      <4> QED BY <1>0, <4>1, <4>2
    <3>5. g = [p \in k + 1 .. L |-> SubscriptsBody(str, g, p)]
      BY <3>4
    <3> QED BY <3>5
  <2> QED BY <1>0, <2>1, <2>2
<1>2. 0 \in G
  <2> HIDE DEF G, L
  <2>1. \A k \in 0 .. L : k \in G
    BY <1>0, <1>1, Downwards
  <2> QED BY <1>0, <2>1
<1> QED BY <1>2

\* The recursion of parse_subscripts, unfolded.
LEMMA SubscriptsAre ==
    ASSUME NEW str, Len(str) \in Nat
    PROVE  \E d : /\ \A pos : Subscripts(str, pos) = d[pos][1]
                  /\ \A p \in 1 .. Len(str) + 1 : d[p] = SubscriptsBody(str, d, p)
<1> DEFINE d == CHOOSE f : f = [p \in 1 .. Len(str) + 1 |-> SubscriptsBody(str, f, p)]
<1>1. d = [p \in 1 .. Len(str) + 1 |-> SubscriptsBody(str, d, p)]
  BY SubscriptsExist
<1>2. \A pos : Subscripts(str, pos) = d[pos][1]
  BY DEF Subscripts, SubscriptsBody
<1> HIDE DEF d
<1> QED BY <1>1, <1>2

\* Where parse_subscripts goes on, it has moved its cursor over what it has read, at most to the
\* end; over a bracket it moves.
LEMMA SubscriptsAdvance ==
    ASSUME NEW str, Len(str) \in Nat, NEW pos \in 1 .. Len(str) + 1, Subscripts(str, pos).ok
    PROVE  /\ Subscripts(str, pos).pos \in pos .. Len(str) + 1
           /\ At(str, pos, "[") => Subscripts(str, pos).pos # pos
<1> DEFINE L == Len(str) + 1
           D == 1 .. MaxKeyDepth + Len(str)
<1>1. PICK d : /\ \A x : Subscripts(str, x) = d[x][1]
               /\ \A p \in 1 .. Len(str) + 1 : d[p] = SubscriptsBody(str, d, p)
  BY SubscriptsAre
<1>2. Subscripts(str, pos) = d[pos][1]
  BY <1>1
<1>0. L \in Nat /\ MaxKeyDepth \in Nat /\ MaxKeyDepth > 0 /\ 1 \in D
  BY CgiAssumption
<1> DEFINE Good(p, r) == r.ok => r.pos \in p .. L /\ (At(str, p, "[") => r.pos # p)
           G == {p \in 0 .. L : p = 0 \/ \A depth \in D : Good(p, d[p][depth])}
<1>3. ASSUME NEW p \in 0 .. L, \A m \in p + 1 .. L : m \in G PROVE p \in G
  <2> SUFFICES ASSUME p # 0, NEW depth \in D PROVE Good(p, d[p][depth])
    BY <1>0
  <2> DEFINE end == Find(str, "]", p + 1)
             r   == d[p][depth]
  <2>0. p \in 1 .. L /\ p \in Nat
    BY <1>0
  <2>1. end \in Nat /\ (end = L \/ end \in p + 1 .. Len(str))
    BY <2>0, FindFirst
  <2>2. r = IF ~At(str, p, "[") THEN [ok |-> TRUE, pos |-> p, keys |-> <<>>]
            ELSE IF end > Len(str) \/ TooDeep(depth) THEN [ok |-> FALSE, pos |-> p, keys |-> <<>>]
            ELSE [d[end + 1][depth + 1] EXCEPT !.keys = <<SubSeq(str, p + 1, end - 1)>> \o @]
    <3>1. d[p] = SubscriptsBody(str, d, p)
      BY <1>1, <2>0
    <3>2. SubscriptsBody(str, d, p)[depth] =
            IF ~At(str, p, "[") THEN [ok |-> TRUE, pos |-> p, keys |-> <<>>]
            ELSE IF end > Len(str) \/ TooDeep(depth) THEN [ok |-> FALSE, pos |-> p, keys |-> <<>>]
            ELSE [d[end + 1][depth + 1] EXCEPT !.keys = <<SubSeq(str, p + 1, end - 1)>> \o @]
      BY DEF SubscriptsBody
    <3> QED BY <3>1, <3>2
  <2> HIDE DEF end, r
  <2>3. CASE ~At(str, p, "[")
    BY <2>0, <2>2, <2>3 DEF r
  <2>4. CASE At(str, p, "[") /\ (end > Len(str) \/ TooDeep(depth))
    BY <2>2, <2>4 DEF r
  <2>5. CASE At(str, p, "[") /\ ~(end > Len(str) \/ TooDeep(depth))
    <3>1. end \in p + 1 .. Len(str) /\ end + 1 \in p + 2 .. L
      BY <2>0, <2>1, <2>5
    <3>2. depth + 1 \in D
      BY <1>0, <2>5 DEF TooDeep
    <3> DEFINE next == d[end + 1][depth + 1]
    <3>3. Good(end + 1, next)
      <4>1. end + 1 \in G
        BY <1>3, <3>1
      <4> QED BY <2>0, <3>1, <3>2, <4>1
    <3>4. r = [next EXCEPT !.keys = <<SubSeq(str, p + 1, end - 1)>> \o @]
      BY <2>2, <2>5
    <3> HIDE DEF next
    <3>5. r.ok = next.ok /\ r.pos = next.pos
      BY <3>4
    <3> QED BY <2>0, <3>1, <3>3, <3>5 DEF r
  <2> QED BY <2>3, <2>4, <2>5
<1>4. pos \in G
  <2> HIDE DEF G, L
  <2>1. \A p \in 0 .. L : p \in G
    BY <1>0, <1>3, Downwards
  <2>2. pos \in 0 .. L
    BY DEF L
  <2> QED BY <2>1, <2>2
<1>5. Good(pos, d[pos][1])
  BY <1>0, <1>4
<1> QED BY <1>2, <1>5

\* Every turn of the loop of cgi2params that goes on moves the cursor forward, to the end at most.
LEMMA TurnsAdvance ==
    ASSUME NEW str, Len(str) \in Nat, NEW pos \in 1 .. Len(str), Turn(str, pos).ok
    PROVE  Turn(str, pos).pos \in pos + 1 .. Len(str) + 1
<1> DEFINE base  == BaseEnd(str, pos)
           subs  == Subscripts(str, base)
           value == Find(str, "&", subs.pos + 1)
<1>0. pos \in Nat /\ Len(str) \in Nat
  OBVIOUS
<1>1. base \in pos .. Len(str) + 1 /\ (base <= Len(str) => str[base] \in Separators)
  BY <1>0, BaseEndIs
<1>2. /\ subs.ok
      /\ Turn(str, pos).pos = SkipSeparator(str, IF At(str, subs.pos, "=") THEN value ELSE subs.pos)
  BY DEF Turn
<1> HIDE DEF base
<1>3. /\ subs.pos \in base .. Len(str) + 1
      /\ At(str, base, "[") => subs.pos # base
  <2>1. base \in 1 .. Len(str) + 1
    BY <1>0, <1>1
  <2> QED BY <1>2, <2>1, SubscriptsAdvance
<1> HIDE DEF subs
<1>4. subs.pos \in pos .. Len(str) + 1
  BY <1>0, <1>1, <1>3
<1>5. CASE At(str, subs.pos, "=")
  <2>1. subs.pos <= Len(str) /\ subs.pos + 1 \in Nat
    BY <1>0, <1>4, <1>5 DEF At
  <2>2. value \in subs.pos + 1 .. Len(str) + 1
    <3>1. value \in Nat /\ (value = Len(str) + 1 \/ value \in subs.pos + 1 .. Len(str))
      BY <2>1, FindFirst
    <3> HIDE DEF value
    <3> QED BY <1>0, <1>4, <2>1, <3>1
  <2>3. Turn(str, pos).pos = SkipSeparator(str, value)
    BY <1>2, <1>5
  <2> HIDE DEF value
  <2> QED BY <1>0, <1>4, <2>1, <2>2, <2>3 DEF SkipSeparator, At
<1>6. CASE ~At(str, subs.pos, "=")
  <2>1. Turn(str, pos).pos = SkipSeparator(str, subs.pos)
    BY <1>2, <1>6
  <2>2. CASE subs.pos > pos
    BY <1>0, <1>4, <2>1, <2>2 DEF SkipSeparator, At
  <2>3. CASE subs.pos = pos
    <3>1. base = pos /\ str[pos] \in Separators
      BY <1>0, <1>1, <1>3, <2>3
    <3>2. str[pos] = "&"
      BY <1>0, <1>3, <1>6, <2>3, <3>1 DEF At, Separators
    <3>3. SkipSeparator(str, subs.pos) = pos + 1
      BY <1>0, <2>3, <3>2 DEF SkipSeparator, At
    <3> QED BY <1>0, <2>1, <3>3
  <2> QED BY <1>0, <1>4, <2>2, <2>3
<1> QED BY <1>5, <1>6

\* A part w of the string q, from the place o on: it ends at a separator, or where q does.
Part(w, q, o) ==
    /\ o + Len(w) <= Len(q)
    /\ \A k \in 1 .. Len(w) : w[k] = q[o + k]
    /\ o + Len(w) < Len(q) => q[o + Len(w) + 1] = "&"

\* What find finds in a part, it finds in the string; and a separator at its end.
LEMMA FindInside ==
    ASSUME NEW w, NEW q, NEW o \in Nat, Len(w) \in Nat, Len(q) \in Nat, Part(w, q, o),
           NEW pos \in 1 .. Len(w) + 1, NEW token
    PROVE  /\ Find(w, token, pos) <= Len(w) => Find(q, token, o + pos) = o + Find(w, token, pos)
           /\ Find(w, token, pos) > Len(w) /\ (o + Len(w) = Len(q) \/ token = "&")
                => Find(w, token, pos) = Len(w) + 1 /\ Find(q, token, o + pos) = o + Len(w) + 1
<1>0. pos \in Nat /\ o + pos \in Nat
  OBVIOUS
<1>1. PICK i \in Nat : /\ i = Find(w, token, pos)
                       /\ i = Len(w) + 1 \/ (i \in pos .. Len(w) /\ w[i] = token)
                       /\ \A j \in pos .. i - 1 : w[j] # token
  BY <1>0, FindFirst
<1>2. \A j \in o + pos .. o + i - 1 : q[j] # token
  <2> TAKE j \in o + pos .. o + i - 1
  <2>1. j - o \in pos .. i - 1 /\ j - o \in 1 .. Len(w) /\ o + (j - o) = j
    BY <1>1
  <2>2. q[o + (j - o)] = w[j - o] /\ w[j - o] # token
    BY <1>1, <2>1 DEF Part
  <2> QED BY <2>1, <2>2
<1>3. o + i \in o + pos .. Len(q) + 1
  BY <1>1 DEF Part
<1>4. CASE i <= Len(w)
  <2>1. q[o + i] = token
    BY <1>1, <1>4 DEF Part
  <2>2. Find(q, token, o + pos) = o + i
    BY <1>0, <1>2, <1>3, <2>1, FindUnique
  <2> QED BY <1>1, <1>4, <2>2
<1>5. CASE i > Len(w) /\ (o + Len(w) = Len(q) \/ token = "&")
  <2>1. o + i <= Len(q) => q[o + i] = token
    BY <1>1, <1>5 DEF Part
  <2>2. Find(q, token, o + pos) = o + i
    BY <1>0, <1>2, <1>3, <2>1, FindUnique
  <2> QED BY <1>1, <1>5, <2>2
<1> QED BY <1>1, <1>4, <1>5

\* A base key ends in the string where it ends in the part.
LEMMA BaseInside ==
    ASSUME NEW w, NEW q, NEW o \in Nat, Len(w) \in Nat, Len(q) \in Nat, Part(w, q, o),
           NEW pos \in 1 .. Len(w) + 1
    PROVE  BaseEnd(q, o + pos) = o + BaseEnd(w, pos)
<1> DEFINE b == BaseEnd(w, pos)
           c == BaseEnd(q, o + pos)
<1>1. /\ b \in pos .. Len(w) + 1 /\ (b <= Len(w) => w[b] \in Separators)
      /\ \A j \in pos .. b - 1 : w[j] \notin Separators
  BY BaseEndIs
<1>2. /\ c \in o + pos .. Len(q) + 1 /\ (c <= Len(q) => q[c] \in Separators)
      /\ \A j \in o + pos .. c - 1 : q[j] \notin Separators
  <2>1. o + pos \in 1 .. Len(q) + 1
    BY DEF Part
  <2> QED BY <2>1, BaseEndIs
<1> HIDE DEF b, c
<1>3. ~(c < o + b)
  <2> SUFFICES ASSUME c < o + b PROVE FALSE
    OBVIOUS
  <2>1. c - o \in pos .. b - 1 /\ c - o \in 1 .. Len(w) /\ o + (c - o) = c /\ c <= Len(q)
    BY <1>1, <1>2 DEF Part
  <2>2. q[c] = w[c - o]
    BY <2>1 DEF Part
  <2> QED BY <1>1, <1>2, <2>1, <2>2
<1>4. ~(o + b < c)
  <2> SUFFICES ASSUME o + b < c PROVE FALSE
    OBVIOUS
  <2>1. o + b \in o + pos .. c - 1 /\ o + b <= Len(q)
    BY <1>1, <1>2
  <2>2. CASE b <= Len(w)
    BY <1>1, <1>2, <2>1, <2>2 DEF Part
  <2>3. CASE b = Len(w) + 1
    BY <1>2, <2>1, <2>3 DEF Part, Separators
  <2> QED BY <1>1, <2>2, <2>3
<1>5. b \in Int /\ c \in Int
  BY <1>1, <1>2
<1>6. c = o + b
  BY <1>3, <1>4, <1>5
<1> QED BY <1>6 DEF b, c

\* Both have the same token at the cursor, but for the separator at the end of the part.
LEMMA AtInside ==
    ASSUME NEW w, NEW q, NEW o \in Nat, Len(w) \in Nat, Len(q) \in Nat, Part(w, q, o),
           NEW pos \in 1 .. Len(w) + 1, NEW token, token # "&"
    PROVE  At(w, pos, token) <=> At(q, o + pos, token)
<1>1. CASE pos <= Len(w)
  BY <1>1 DEF At, Part
<1>2. CASE pos = Len(w) + 1
  BY <1>2 DEF At, Part
<1> QED BY <1>1, <1>2

\* A piece of the part is a piece of the string.
LEMMA SubSeqInside ==
    ASSUME NEW T, NEW w \in Seq(T), NEW q \in Seq(T), NEW o \in Nat, Part(w, q, o),
           NEW a \in 1 .. Len(w) + 1, NEW b \in 0 .. Len(w)
    PROVE  SubSeq(w, a, b) = SubSeq(q, o + a, o + b)
<1>0. Len(w) \in Nat /\ Len(q) \in Nat
  OBVIOUS
<1> DEFINE v == SubSeq(w, a, b)
           u == SubSeq(q, o + a, o + b)
           l == IF a <= b THEN b - a + 1 ELSE 0
<1>1. v \in Seq(T) /\ Len(v) = l /\ \A k \in 1 .. l : v[k] = w[a + k - 1]
  <2>1. v \in Seq(T)
    BY <1>0
  <2>2. Len(v) = l
    BY <1>0
  <2>3. \A k \in 1 .. l : v[k] = w[a + k - 1]
    BY <1>0
  <2> QED BY <2>1, <2>2, <2>3
<1>2. u \in Seq(T) /\ Len(u) = l /\ \A k \in 1 .. l : u[k] = q[o + a + k - 1]
  <2>0. o + a \in 1 .. Len(q) + 1 /\ o + b \in 0 .. Len(q)
    BY <1>0 DEF Part
  <2>1. u \in Seq(T)
    BY <1>0, <2>0
  <2>2. Len(u) = l
    BY <1>0, <2>0
  <2>3. \A k \in 1 .. l : u[k] = q[o + a + k - 1]
    BY <1>0, <2>0
  <2> QED BY <2>1, <2>2, <2>3
<1>3. \A k \in 1 .. l : v[k] = u[k]
  <2> TAKE k \in 1 .. l
  <2>1. a + k - 1 \in 1 .. Len(w) /\ o + (a + k - 1) = o + a + k - 1
    BY <1>0
  <2> HIDE DEF l
  <2>2. w[a + k - 1] = q[o + (a + k - 1)]
    BY <2>1 DEF Part
  <2> QED BY <1>1, <1>2, <2>1, <2>2
<1> HIDE DEF u, v, l
<1>4. u = v
  BY <1>1, <1>2, <1>3, SeqEqual
<1> QED BY <1>4 DEF u, v

\* The brackets of a part are parsed as those of the string.
LEMMA SubscriptsInside ==
    ASSUME NEW T, NEW w \in Seq(T), NEW q \in Seq(T), NEW o \in Nat, Part(w, q, o),
           NEW pos \in 1 .. Len(w) + 1
    PROVE  /\ Subscripts(w, pos).ok
                => /\ Subscripts(q, o + pos).ok
                   /\ Subscripts(q, o + pos).pos = o + Subscripts(w, pos).pos
                   /\ Subscripts(q, o + pos).keys = Subscripts(w, pos).keys
           /\ ~Subscripts(w, pos).ok /\ o + Len(w) = Len(q) => ~Subscripts(q, o + pos).ok
<1>0. Len(w) \in Nat /\ Len(q) \in Nat
  OBVIOUS
<1>1. PICK d : /\ \A x : Subscripts(w, x) = d[x][1]
               /\ \A p \in 1 .. Len(w) + 1 : d[p] = SubscriptsBody(w, d, p)
  BY <1>0, SubscriptsAre
<1>2. PICK f : /\ \A x : Subscripts(q, x) = f[x][1]
               /\ \A p \in 1 .. Len(q) + 1 : f[p] = SubscriptsBody(q, f, p)
  BY <1>0, SubscriptsAre
<1> DEFINE L == Len(w) + 1
           D == 1 .. MaxKeyDepth
           IsResult(r) == r = [ok |-> r.ok, pos |-> r.pos, keys |-> r.keys]
           Same(r, u) == /\ r.ok => u = [ok |-> r.ok, pos |-> o + r.pos, keys |-> r.keys]
                         /\ ~r.ok /\ o + Len(w) = Len(q) => ~u.ok
           G == {p \in 0 .. L : p = 0 \/ \A depth \in D : IsResult(d[p][depth]) /\ Same(d[p][depth], f[o + p][depth])}
<1>3. L \in Nat /\ MaxKeyDepth \in Nat /\ 1 \in D
  BY <1>0, CgiAssumption
<1>4. ASSUME NEW p \in 0 .. L, \A m \in p + 1 .. L : m \in G PROVE p \in G
  <2> SUFFICES ASSUME p # 0, NEW depth \in D
               PROVE  IsResult(d[p][depth]) /\ Same(d[p][depth], f[o + p][depth])
    BY <1>3
  <2> DEFINE end == Find(w, "]", p + 1)
             fin == Find(q, "]", o + p + 1)
             r   == d[p][depth]
             u   == f[o + p][depth]
  <2>0. /\ p \in 1 .. L /\ p \in Nat /\ p + 1 \in Nat /\ depth \in 1 .. MaxKeyDepth + Len(w)
        /\ o + p \in 1 .. Len(q) + 1 /\ depth \in 1 .. MaxKeyDepth + Len(q)
    BY <1>0, <1>3 DEF Part
  <2>1. r = IF ~At(w, p, "[") THEN [ok |-> TRUE, pos |-> p, keys |-> <<>>]
            ELSE IF end > Len(w) \/ TooDeep(depth) THEN [ok |-> FALSE, pos |-> p, keys |-> <<>>]
            ELSE [d[end + 1][depth + 1] EXCEPT !.keys = <<SubSeq(w, p + 1, end - 1)>> \o @]
    <3>1. d[p] = SubscriptsBody(w, d, p)
      BY <1>1, <2>0
    <3>2. SubscriptsBody(w, d, p)[depth] =
            IF ~At(w, p, "[") THEN [ok |-> TRUE, pos |-> p, keys |-> <<>>]
            ELSE IF end > Len(w) \/ TooDeep(depth) THEN [ok |-> FALSE, pos |-> p, keys |-> <<>>]
            ELSE [d[end + 1][depth + 1] EXCEPT !.keys = <<SubSeq(w, p + 1, end - 1)>> \o @]
      BY <2>0 DEF SubscriptsBody
    <3> QED BY <3>1, <3>2
  <2>2. u = IF ~At(q, o + p, "[") THEN [ok |-> TRUE, pos |-> o + p, keys |-> <<>>]
            ELSE IF fin > Len(q) \/ TooDeep(depth) THEN [ok |-> FALSE, pos |-> o + p, keys |-> <<>>]
            ELSE [f[fin + 1][depth + 1] EXCEPT !.keys = <<SubSeq(q, o + p + 1, fin - 1)>> \o @]
    <3>1. f[o + p] = SubscriptsBody(q, f, o + p)
      BY <1>2, <2>0
    <3>2. SubscriptsBody(q, f, o + p)[depth] =
            IF ~At(q, o + p, "[") THEN [ok |-> TRUE, pos |-> o + p, keys |-> <<>>]
            ELSE IF fin > Len(q) \/ TooDeep(depth) THEN [ok |-> FALSE, pos |-> o + p, keys |-> <<>>]
            ELSE [f[fin + 1][depth + 1] EXCEPT !.keys = <<SubSeq(q, o + p + 1, fin - 1)>> \o @]
      BY <2>0 DEF SubscriptsBody
    <3> QED BY <3>1, <3>2
  <2>3. At(w, p, "[") <=> At(q, o + p, "[")
    BY <1>0, <2>0, AtInside
  <2>4. CASE ~At(w, p, "[")
    <3>1. r = [ok |-> TRUE, pos |-> p, keys |-> <<>>] /\ u = [ok |-> TRUE, pos |-> o + p, keys |-> <<>>]
      BY <2>1, <2>2, <2>3, <2>4
    <3> HIDE DEF r, u
    <3>2. IsResult(r) /\ Same(r, u)
      BY <3>1
    <3> QED BY <3>2 DEF r, u
  <2>5. CASE At(w, p, "[")
    <3>1. p + 1 \in 1 .. Len(w) + 1 /\ o + (p + 1) = o + p + 1
      BY <1>0, <2>0, <2>5 DEF At
    <3>2. /\ end \in Nat /\ (end = Len(w) + 1 \/ end \in p + 1 .. Len(w))
      BY <1>0, <2>0, FindFirst
    <3>3. /\ end <= Len(w) => fin = o + end
          /\ end > Len(w) /\ o + Len(w) = Len(q) => fin = Len(q) + 1
      <4>1. /\ Find(w, "]", p + 1) <= Len(w) => Find(q, "]", o + (p + 1)) = o + Find(w, "]", p + 1)
            /\ Find(w, "]", p + 1) > Len(w) /\ (o + Len(w) = Len(q) \/ "]" = "&")
                => Find(w, "]", p + 1) = Len(w) + 1 /\ Find(q, "]", o + (p + 1)) = o + Len(w) + 1
        BY <1>0, <3>1, FindInside
      <4> QED BY <3>1, <4>1
    <3> HIDE DEF end, fin
    <3>4. CASE end > Len(w) \/ TooDeep(depth)
      <4>1. r = [ok |-> FALSE, pos |-> p, keys |-> <<>>]
        BY <2>1, <2>5, <3>4
      <4>2. o + Len(w) = Len(q) => u = [ok |-> FALSE, pos |-> o + p, keys |-> <<>>]
        BY <1>0, <2>2, <2>3, <2>5, <3>3, <3>4
      <4> HIDE DEF r, u
      <4>3. IsResult(r) /\ Same(r, u)
        BY <4>1, <4>2
      <4> QED BY <4>3 DEF r, u
    <3>5. CASE ~(end > Len(w) \/ TooDeep(depth))
      <4>1. /\ end \in p + 1 .. Len(w) /\ end + 1 \in p + 1 .. L /\ end + 1 # 0
            /\ fin = o + end /\ ~(fin > Len(q)) /\ fin + 1 = o + (end + 1)
        BY <1>0, <2>0, <3>2, <3>3, <3>5 DEF Part
      <4>2. depth + 1 \in D
        BY <1>3, <3>5 DEF TooDeep
      <4> DEFINE rnext == d[end + 1][depth + 1]
                 unext == f[o + (end + 1)][depth + 1]
      <4>3. IsResult(rnext) /\ Same(rnext, unext)
        <5>1. end + 1 \in G
          BY <1>4, <4>1
        <5> QED BY <4>1, <4>2, <5>1
      <4>4. SubSeq(w, p + 1, end - 1) = SubSeq(q, o + p + 1, fin - 1)
        <5>1. /\ p + 1 \in 1 .. Len(w) + 1 /\ end - 1 \in 0 .. Len(w)
              /\ o + (p + 1) = o + p + 1 /\ o + (end - 1) = fin - 1
          BY <1>0, <2>0, <3>1, <4>1
        <5>2. SubSeq(w, p + 1, end - 1) = SubSeq(q, o + (p + 1), o + (end - 1))
          BY <5>1, SubSeqInside
        <5> QED BY <5>1, <5>2
      <4> DEFINE key == <<SubSeq(w, p + 1, end - 1)>>
      <4>5. r = [rnext EXCEPT !.keys = key \o @]
        BY <2>1, <2>5, <3>5
      <4>6. u = [unext EXCEPT !.keys = key \o @]
        BY <2>2, <2>3, <2>5, <3>5, <4>1, <4>4
      <4> HIDE DEF r, u, rnext, unext, key
      <4>7. r = [ok |-> rnext.ok, pos |-> rnext.pos, keys |-> key \o rnext.keys]
        BY <4>3, <4>5
      <4>8. IsResult(r) /\ Same(r, u)
        <5>1. CASE rnext.ok
          <6>1. unext = [ok |-> rnext.ok, pos |-> o + rnext.pos, keys |-> rnext.keys]
            BY <4>3, <5>1
          <6>2. u = [ok |-> rnext.ok, pos |-> o + rnext.pos, keys |-> key \o rnext.keys]
            BY <4>6, <6>1
          <6> QED BY <4>7, <5>1, <6>2
        <5>2. CASE ~rnext.ok
          <6>1. o + Len(w) = Len(q) => ~unext.ok
            BY <4>3, <5>2
          <6>2. u.ok = unext.ok
            BY <4>6
          <6> QED BY <4>7, <5>2, <6>1, <6>2
        <5> QED BY <5>1, <5>2
      <4> QED BY <4>8 DEF r, u
    <3> QED BY <3>4, <3>5
  <2> QED BY <2>4, <2>5
<1>5. pos \in G
  <2> HIDE DEF G, L
  <2>1. \A p \in 0 .. L : p \in G
    BY <1>3, <1>4, Downwards
  <2>2. pos \in 0 .. L
    BY DEF L
  <2> QED BY <2>1, <2>2
<1>6. IsResult(d[pos][1]) /\ Same(d[pos][1], f[o + pos][1])
  BY <1>3, <1>5
<1>7. Subscripts(w, pos) = d[pos][1] /\ Subscripts(q, o + pos) = f[o + pos][1]
  BY <1>1, <1>2
<1> DEFINE r == d[pos][1]
           u == f[o + pos][1]
<1>8. IsResult(r) /\ Same(r, u)
  BY <1>6
<1> HIDE DEF r, u
<1>9. r.ok => u.ok /\ u.pos = o + r.pos /\ u.keys = r.keys
  BY <1>8
<1> QED BY <1>7, <1>8, <1>9 DEF r, u

\* The separator at the end of a part is skipped in the string only.
LEMMA SkipInside ==
    ASSUME NEW w, NEW q, NEW o \in Nat, Len(w) \in Nat, Len(q) \in Nat, Part(w, q, o),
           NEW x \in 1 .. Len(w) + 1
    PROVE  \/ SkipSeparator(q, o + x) = o + SkipSeparator(w, x)
           \/ /\ o + Len(w) < Len(q) /\ SkipSeparator(w, x) = Len(w) + 1
              /\ SkipSeparator(q, o + x) = o + Len(w) + 2
<1>1. CASE x <= Len(w)
  <2>1. w[x] = q[o + x] /\ o + x <= Len(q)
    BY <1>1 DEF Part
  <2>2. SkipSeparator(q, o + x) = o + SkipSeparator(w, x)
    BY <1>1, <2>1 DEF SkipSeparator, At
  <2> QED BY <2>2
<1>2. CASE x = Len(w) + 1
  <2>1. SkipSeparator(w, x) = Len(w) + 1
    BY <1>2 DEF SkipSeparator, At
  <2>2. CASE o + Len(w) < Len(q)
    <3>1. SkipSeparator(q, o + x) = o + Len(w) + 2
      BY <1>2, <2>2 DEF SkipSeparator, At, Part
    <3> QED BY <2>1, <2>2, <3>1
  <2>3. CASE o + Len(w) = Len(q)
    <3>1. SkipSeparator(q, o + x) = o + x
      BY <1>2, <2>3 DEF SkipSeparator, At
    <3> QED BY <1>2, <2>1, <3>1
  <2> QED BY <2>2, <2>3 DEF Part
<1> QED BY <1>1, <1>2

\* A turn of the loop in a part does what it does in the string; at the end of the part it may
\* skip the separator.
LEMMA TurnInside ==
    ASSUME NEW T, NEW w \in Seq(T), NEW q \in Seq(T), NEW o \in Nat, Part(w, q, o),
           NEW pos \in 1 .. Len(w)
    PROVE  /\ Turn(w, pos).ok =>
                /\ Turn(q, o + pos).ok
                /\ Turn(q, o + pos).params = Turn(w, pos).params
                /\ \/ Turn(q, o + pos).pos = o + Turn(w, pos).pos
                   \/ /\ o + Len(w) < Len(q) /\ Turn(w, pos).pos = Len(w) + 1
                      /\ Turn(q, o + pos).pos = o + Len(w) + 2
           /\ ~Turn(w, pos).ok /\ o + Len(w) = Len(q) => ~Turn(q, o + pos).ok
<1>0. Len(w) \in Nat /\ Len(q) \in Nat /\ pos \in Nat
  OBVIOUS
<1> DEFINE base   == BaseEnd(w, pos)
           subs   == Subscripts(w, base)
           value  == Find(w, "&", subs.pos + 1)
           baseQ  == BaseEnd(q, o + pos)
           subsQ  == Subscripts(q, baseQ)
           valueQ == Find(q, "&", subsQ.pos + 1)
<1>1. /\ Turn(w, pos).ok => subs.ok
      /\ ~Turn(w, pos).ok => ~subs.ok
      /\ ~subsQ.ok => ~Turn(q, o + pos).ok
  BY DEF Turn
<1>2. baseQ = o + base /\ base \in pos .. Len(w) + 1 /\ base \in 1 .. Len(w) + 1
  <2>1. pos \in 1 .. Len(w) + 1
    BY <1>0
  <2>2. baseQ = o + base
    BY <1>0, <2>1, BaseInside
  <2>3. base \in pos .. Len(w) + 1
    BY <1>0, <2>1, BaseEndIs
  <2> HIDE DEF base
  <2> QED BY <1>0, <2>2, <2>3
<1>3. /\ subs.ok => subsQ.ok /\ subsQ.pos = o + subs.pos /\ subsQ.keys = subs.keys
      /\ ~subs.ok /\ o + Len(w) = Len(q) => ~subsQ.ok
  <2> HIDE DEF base, baseQ
  <2>1. base \in 1 .. Len(w) + 1
    BY <1>2
  <2>2. /\ Subscripts(w, base).ok =>
             /\ Subscripts(q, o + base).ok
             /\ Subscripts(q, o + base).pos = o + Subscripts(w, base).pos
             /\ Subscripts(q, o + base).keys = Subscripts(w, base).keys
        /\ ~Subscripts(w, base).ok /\ o + Len(w) = Len(q) => ~Subscripts(q, o + base).ok
    BY <2>1, SubscriptsInside
  <2> QED BY <1>2, <2>2
<1>4. ASSUME subs.ok
      PROVE  /\ Turn(q, o + pos).ok
             /\ Turn(q, o + pos).params = Turn(w, pos).params
             /\ \/ Turn(q, o + pos).pos = o + Turn(w, pos).pos
                \/ /\ o + Len(w) < Len(q) /\ Turn(w, pos).pos = Len(w) + 1
                   /\ Turn(q, o + pos).pos = o + Len(w) + 2
  <2>1. subs.pos \in base .. Len(w) + 1 /\ subs.pos \in 1 .. Len(w) + 1 /\ subs.pos \in Nat
    <3>1. subs.pos \in base .. Len(w) + 1
      <4> HIDE DEF base
      <4> QED BY <1>0, <1>2, <1>4, SubscriptsAdvance
    <3> HIDE DEF subs, base
    <3> QED BY <1>0, <1>2, <3>1
  <2>2. subsQ.ok /\ subsQ.pos = o + subs.pos /\ subsQ.keys = subs.keys
    BY <1>3, <1>4
  <2>3. At(w, subs.pos, "=") <=> At(q, o + subs.pos, "=")
    <3> HIDE DEF subs
    <3> QED BY <1>0, <2>1, AtInside
  <2> DEFINE keys == <<SubSeq(w, pos, base - 1)>> \o subs.keys
  <2>4. keys = <<SubSeq(q, o + pos, baseQ - 1)>> \o subsQ.keys
    <3>1. pos \in 1 .. Len(w) + 1 /\ base - 1 \in 0 .. Len(w) /\ o + (base - 1) = baseQ - 1
      <4> HIDE DEF base, baseQ
      <4> QED BY <1>0, <1>2
    <3>2. SubSeq(w, pos, base - 1) = SubSeq(q, o + pos, o + (base - 1))
      <4> HIDE DEF base
      <4> QED BY <3>1, SubSeqInside
    <3> HIDE DEF base, baseQ, subs, subsQ
    <3> QED BY <2>2, <3>1, <3>2
  <2>5. CASE At(w, subs.pos, "=")
    <3> DEFINE keysQ   == <<SubSeq(q, o + pos, baseQ - 1)>> \o subsQ.keys
               leaf    == SubSeq(w, subs.pos + 1, value - 1)
               leafQ   == SubSeq(q, subsQ.pos + 1, valueQ - 1)
               params  == <<[keys |-> keys, value |-> leaf]>>
               paramsQ == <<[keys |-> keysQ, value |-> leafQ]>>
    <3>1. Turn(w, pos) = [ok |-> TRUE, pos |-> SkipSeparator(w, value), params |-> params]
      BY <1>4, <2>5 DEF Turn
    <3>2. At(q, subsQ.pos, "=")
      BY <2>2, <2>3, <2>5
    <3>3. Turn(q, o + pos) = [ok |-> TRUE, pos |-> SkipSeparator(q, valueQ), params |-> paramsQ]
      BY <2>2, <3>2 DEF Turn
    <3>4. subs.pos + 1 \in 1 .. Len(w) + 1 /\ o + (subs.pos + 1) = subsQ.pos + 1 /\ subs.pos + 1 \in Nat
      <4> HIDE DEF subs, subsQ
      <4> QED BY <1>0, <2>1, <2>2, <2>5, SMTT(40) DEF At
    <3> DEFINE start == subs.pos + 1
    <3>5. value \in start .. Len(w) + 1 /\ valueQ = o + value
      <4>1. value \in Nat /\ (value = Len(w) + 1 \/ value \in start .. Len(w))
        <5> HIDE DEF subs
        <5> QED BY <1>0, <3>4, FindFirst
      <4>2. /\ Find(w, "&", start) <= Len(w) => Find(q, "&", o + start) = o + Find(w, "&", start)
            /\ Find(w, "&", start) > Len(w) /\ (o + Len(w) = Len(q) \/ "&" = "&")
                => Find(w, "&", start) = Len(w) + 1 /\ Find(q, "&", o + start) = o + Len(w) + 1
        <5>1. start \in 1 .. Len(w) + 1
          BY <3>4
        <5> HIDE DEF start
        <5> QED BY <1>0, <5>1, FindInside
      <4>3. value = Find(w, "&", start) /\ valueQ = Find(q, "&", o + start)
        BY <3>4
      <4>4. start \in 1 .. Len(w) + 1
        BY <3>4
      <4> HIDE DEF value, valueQ, start
      <4> QED BY <1>0, <4>1, <4>2, <4>3, <4>4
    <3>6. SubSeq(w, start, value - 1) = SubSeq(q, subsQ.pos + 1, valueQ - 1)
      <4>1. /\ start \in 1 .. Len(w) + 1 /\ value - 1 \in 0 .. Len(w)
            /\ o + (value - 1) = valueQ - 1
        <5>1. start \in 1 .. Len(w) + 1
          BY <3>4
        <5> HIDE DEF start, value, valueQ
        <5> QED BY <1>0, <3>5, <5>1
      <4>2. SubSeq(w, start, value - 1) = SubSeq(q, o + start, o + (value - 1))
        <5> HIDE DEF start, value
        <5> QED BY <4>1, SubSeqInside
      <4> HIDE DEF value, valueQ, subs, subsQ
      <4> QED BY <3>4, <4>1, <4>2
    <3>7. value \in 1 .. Len(w) + 1
      <4> HIDE DEF value, subs
      <4> QED BY <1>0, <3>4, <3>5
    <3>8. \/ SkipSeparator(q, valueQ) = o + SkipSeparator(w, value)
          \/ /\ o + Len(w) < Len(q) /\ SkipSeparator(w, value) = Len(w) + 1
             /\ SkipSeparator(q, valueQ) = o + Len(w) + 2
      <4> HIDE DEF value, valueQ
      <4> QED BY <1>0, <3>5, <3>7, SkipInside
    <3> HIDE DEF value, valueQ, base, baseQ, subs, subsQ, keys, keysQ
    <3>9. params = paramsQ
      <4>1. keys = keysQ /\ leaf = leafQ
        BY <2>4, <3>6 DEF keysQ
      <4> HIDE DEF leaf, leafQ
      <4> QED BY <4>1
    <3> HIDE DEF leaf, leafQ, params, paramsQ
    <3>10. Turn(q, o + pos).ok /\ Turn(q, o + pos).pos = SkipSeparator(q, valueQ) /\ Turn(w, pos).pos = SkipSeparator(w, value)
      BY <3>1, <3>3
    <3>11. Turn(q, o + pos).params = Turn(w, pos).params
      BY <3>1, <3>3, <3>9
    <3> QED BY <3>8, <3>10, <3>11
  <2>6. CASE ~At(w, subs.pos, "=")
    <3>1. Turn(w, pos) = [ok |-> TRUE, pos |-> SkipSeparator(w, subs.pos), params |-> <<>>]
      BY <1>4, <2>6 DEF Turn
    <3>2. ~At(q, subsQ.pos, "=")
      BY <2>2, <2>3, <2>6
    <3>3. Turn(q, o + pos) = [ok |-> TRUE, pos |-> SkipSeparator(q, subsQ.pos), params |-> <<>>]
      BY <2>2, <3>2 DEF Turn
    <3> HIDE DEF base, baseQ, subs, subsQ
    <3>4. \/ SkipSeparator(q, o + subs.pos) = o + SkipSeparator(w, subs.pos)
          \/ /\ o + Len(w) < Len(q) /\ SkipSeparator(w, subs.pos) = Len(w) + 1
             /\ SkipSeparator(q, o + subs.pos) = o + Len(w) + 2
      BY <1>0, <2>1, SkipInside
    <3> QED BY <2>2, <3>1, <3>3, <3>4
  <2> QED BY <2>5, <2>6
<1> HIDE DEF base, baseQ, subs, subsQ
<1> QED BY <1>1, <1>3, <1>4

-----------------------------------------------------------------------------
\* What the loop of cgi2params does from a place of its string on.
ParseBody(str, from, pos) ==
    IF pos > Len(str) THEN [ok |-> TRUE, params |-> <<>>]
    ELSE LET turn == Turn(str, pos)
         IN  IF ~turn.ok \/ turn.pos <= pos THEN [ok |-> FALSE, params |-> <<>>]
             ELSE [from[turn.pos] EXCEPT !.params = turn.params \o @]

\* It depends on the places behind, only.
LEMMA ParseBehind ==
    ASSUME NEW str, Len(str) \in Nat, NEW f, NEW g, NEW p \in 1 .. Len(str) + 1,
           \A i \in p + 1 .. Len(str) + 1 : f[i] = g[i]
    PROVE  ParseBody(str, f, p) = ParseBody(str, g, p)
<1>1. CASE p > Len(str)
  BY <1>1 DEF ParseBody
<1>2. CASE p <= Len(str) /\ ~Turn(str, p).ok
  BY <1>2 DEF ParseBody
<1>3. CASE p <= Len(str) /\ Turn(str, p).ok
  <2>1. Turn(str, p).pos \in p + 1 .. Len(str) + 1
    BY <1>3, TurnsAdvance
  <2>2. f[Turn(str, p).pos] = g[Turn(str, p).pos]
    BY <2>1
  <2> QED BY <2>2 DEF ParseBody
<1> QED BY <1>1, <1>2, <1>3

\* The recursion ends, as every turn advances.
LEMMA ParseExists ==
    ASSUME NEW str, Len(str) \in Nat
    PROVE  \E f : f = [p \in 1 .. Len(str) + 1 |-> ParseBody(str, f, p)]
<1> DEFINE L == Len(str) + 1
           G == {k \in 0 .. L : \E f : f = [p \in k + 1 .. L |-> ParseBody(str, f, p)]}
<1>0. L \in Nat
  OBVIOUS
<1>1. ASSUME NEW k \in 0 .. L, \A m \in k + 1 .. L : m \in G PROVE k \in G
  <2>1. CASE k = L
    <3>1. [p \in {} |-> 0] = [p \in k + 1 .. L |-> ParseBody(str, [j \in {} |-> 0], p)]
      BY <1>0, <2>1
    <3> QED BY <3>1
  <2>2. CASE k < L
    <3>1. k + 1 \in G
      <4>1. k + 1 \in k + 1 .. L
        BY <1>0, <2>2
      <4> HIDE DEF G, L
      <4> QED BY <1>1, <4>1
    <3>2. PICK f : f = [p \in k + 2 .. L |-> ParseBody(str, f, p)]
      BY <3>1
    <3> DEFINE g == [p \in k + 1 .. L |-> IF p = k + 1 THEN ParseBody(str, f, p) ELSE f[p]]
    <3>3. ASSUME NEW p \in k + 1 .. L PROVE ParseBody(str, g, p) = ParseBody(str, f, p)
      <4>1. p \in 1 .. Len(str) + 1 /\ \A i \in p + 1 .. Len(str) + 1 : g[i] = f[i]
        BY <1>0
      <4> HIDE DEF g
      <4> QED BY <4>1, ParseBehind
    <3>4. ASSUME NEW p \in k + 1 .. L PROVE g[p] = ParseBody(str, g, p)
      <4>1. CASE p = k + 1
        BY <3>3, <4>1
      <4>2. CASE p \in k + 2 .. L
        BY <3>2, <3>3, <4>2
      <4> QED BY <1>0, <4>1, <4>2
    <3>5. g = [p \in k + 1 .. L |-> ParseBody(str, g, p)]
      BY <3>4
    <3> QED BY <3>5
  <2> QED BY <1>0, <2>1, <2>2
<1>2. 0 \in G
  <2> HIDE DEF G, L
  <2>1. \A k \in 0 .. L : k \in G
    BY <1>0, <1>1, Downwards
  <2> QED BY <1>0, <2>1
<1> QED BY <1>2

\* What the loop of cgi2params does, turn by turn, from each place of its string on.
IsLoop(f, str) ==
    /\ f[Len(str) + 1] = [ok |-> TRUE, params |-> <<>>]
    /\ \A p \in 1 .. Len(str) :
          /\ ~Turn(str, p).ok => f[p] = [ok |-> FALSE, params |-> <<>>]
          /\ Turn(str, p).ok =>
                f[p] = [f[Turn(str, p).pos] EXCEPT !.params = Turn(str, p).params \o @]

\* cgi2params is this loop, from the first place on.
LEMMA ParseIs ==
    ASSUME NEW str, Len(str) \in Nat
    PROVE  \E f : Parse(str) = f[1] /\ IsLoop(f, str)
<1> DEFINE d == CHOOSE f : f = [p \in 1 .. Len(str) + 1 |-> ParseBody(str, f, p)]
<1>1. d = [p \in 1 .. Len(str) + 1 |-> ParseBody(str, d, p)]
  BY ParseExists
<1>2. Parse(str) = d[1]
  BY DEF Parse, ParseBody
<1> HIDE DEF d
<1>3. \A p \in 1 .. Len(str) + 1 : d[p] = ParseBody(str, d, p)
  BY <1>1
<1>4. d[Len(str) + 1] = [ok |-> TRUE, params |-> <<>>]
  <2>1. Len(str) + 1 \in 1 .. Len(str) + 1 /\ Len(str) + 1 > Len(str)
    OBVIOUS
  <2>2. d[Len(str) + 1] = ParseBody(str, d, Len(str) + 1)
    BY <1>3, <2>1
  <2> QED BY <2>1, <2>2 DEF ParseBody
<1>5. ASSUME NEW p \in 1 .. Len(str), ~Turn(str, p).ok
      PROVE  d[p] = [ok |-> FALSE, params |-> <<>>]
  <2>1. d[p] = ParseBody(str, d, p)
    BY <1>3
  <2> QED BY <1>5, <2>1 DEF ParseBody
<1>6. ASSUME NEW p \in 1 .. Len(str), Turn(str, p).ok
      PROVE  d[p] = [d[Turn(str, p).pos] EXCEPT !.params = Turn(str, p).params \o @]
  <2>1. d[p] = ParseBody(str, d, p)
    BY <1>3
  <2>2. Turn(str, p).pos \in p + 1 .. Len(str) + 1
    BY <1>6, TurnsAdvance
  <2>3. ~(Turn(str, p).pos <= p) /\ ~(p > Len(str))
    BY <2>2
  <2> QED BY <1>6, <2>1, <2>3 DEF ParseBody
<1>7. IsLoop(d, str)
  BY <1>4, <1>5, <1>6 DEF IsLoop
<1> QED BY <1>2, <1>7

\* Parameters in front of those of a result.
InFront(params, result) == [result EXCEPT !.params = params \o @]

\* The parameters of the result, behind those in front.
LEMMA InFrontOf ==
    ASSUME NEW x, NEW y, NEW ok
    PROVE  InFront(x, [ok |-> ok, params |-> y]) = [ok |-> ok, params |-> x \o y]
<1> DEFINE z == x \o y
           r == [ok |-> ok, params |-> y]
<1>1. InFront(x, r) = [r EXCEPT !.params = z]
  BY DEF InFront
<1> HIDE DEF z
<1>2. [r EXCEPT !.params = z] = [ok |-> ok, params |-> z]
  OBVIOUS
<1> QED BY <1>1, <1>2 DEF z

\* It makes no difference which are put in front first.
LEMMA InFrontTwice ==
    ASSUME NEW S, NEW a \in Seq(S), NEW b \in Seq(S), NEW result \in [ok : BOOLEAN, params : Seq(S)]
    PROVE  InFront(a, InFront(b, result)) = InFront(a \o b, result)
<1> DEFINE ok == result.ok
           c  == result.params
<1>1. result = [ok |-> ok, params |-> c] /\ c \in Seq(S)
  OBVIOUS
<1> HIDE DEF ok, c
<1>2. InFront(a, InFront(b, result)) = [ok |-> ok, params |-> a \o (b \o c)]
  <2>1. InFront(b, result) = [ok |-> ok, params |-> b \o c]
    <3>1. InFront(b, [ok |-> ok, params |-> c]) = [ok |-> ok, params |-> b \o c]
      BY InFrontOf
    <3> QED BY <1>1, <3>1
  <2>2. InFront(a, [ok |-> ok, params |-> b \o c]) = [ok |-> ok, params |-> a \o (b \o c)]
    BY InFrontOf
  <2> QED BY <2>1, <2>2
<1>3. InFront(a \o b, result) = [ok |-> ok, params |-> (a \o b) \o c]
  <2>1. InFront(a \o b, [ok |-> ok, params |-> c]) = [ok |-> ok, params |-> (a \o b) \o c]
    BY InFrontOf
  <2> QED BY <1>1, <2>1
<1>4. (a \o b) \o c = a \o (b \o c)
  BY <1>1, ConcatAssociative, SMTT(40)
<1> QED BY <1>2, <1>3, <1>4

\* A turn assigns one parameter or none.
Assigned(str) == {Turn(str, p).params[1] : p \in 1 .. Len(str)}

\* What a turn assigns is a sequence.
LEMMA TurnAssigns ==
    ASSUME NEW str, NEW p \in 1 .. Len(str), NEW S, Assigned(str) \subseteq S
    PROVE  Turn(str, p).params \in Seq(S)
<1>1. Turn(str, p).params = <<>> \/ \E x : Turn(str, p).params = <<x>>
  BY DEF Turn
<1>2. CASE Turn(str, p).params = <<>>
  BY <1>2
<1>3. CASE \E x : Turn(str, p).params = <<x>>
  <2>1. PICK x : Turn(str, p).params = <<x>>
    BY <1>3
  <2>2. Turn(str, p).params[1] = x
    BY <2>1
  <2>3. x \in S
    BY <2>2 DEF Assigned
  <2> QED BY <2>1, <2>3
<1> QED BY <1>1, <1>2, <1>3

\* From each place on, the loop yields an answer and parameters.
LEMMA LoopResults ==
    ASSUME NEW str, Len(str) \in Nat, NEW f, IsLoop(f, str), NEW S, Assigned(str) \subseteq S
    PROVE  \A p \in 1 .. Len(str) + 1 : f[p] \in [ok : BOOLEAN, params : Seq(S)]
<1> DEFINE L == Len(str) + 1
           G == {p \in 0 .. L : p = 0 \/ f[p] \in [ok : BOOLEAN, params : Seq(S)]}
<1>0. L \in Nat
  OBVIOUS
<1>1. ASSUME NEW p \in 0 .. L, \A m \in p + 1 .. L : m \in G PROVE p \in G
  <2>1. CASE p = 0
    BY <2>1
  <2>2. CASE p = L
    <3>1. f[p] = [ok |-> TRUE, params |-> <<>>]
      BY <2>2 DEF IsLoop
    <3>2. f[p] \in [ok : BOOLEAN, params : Seq(S)]
      BY <3>1
    <3> QED BY <3>2
  <2>3. CASE p \in 1 .. Len(str) /\ ~Turn(str, p).ok
    <3>1. f[p] = [ok |-> FALSE, params |-> <<>>]
      BY <2>3 DEF IsLoop
    <3>2. f[p] \in [ok : BOOLEAN, params : Seq(S)]
      BY <3>1
    <3> QED BY <3>2
  <2>4. CASE p \in 1 .. Len(str) /\ Turn(str, p).ok
    <3> DEFINE next   == f[Turn(str, p).pos]
               params == Turn(str, p).params
    <3>1. f[p] = [next EXCEPT !.params = params \o @]
      BY <2>4 DEF IsLoop
    <3>2. Turn(str, p).pos \in p + 1 .. L /\ Turn(str, p).pos # 0
      BY <2>4, TurnsAdvance
    <3>3. next \in [ok : BOOLEAN, params : Seq(S)]
      <4>1. Turn(str, p).pos \in G
        <5> HIDE DEF G, L
        <5> QED BY <1>1, <3>2
      <4> QED BY <3>2, <4>1
    <3>4. params \in Seq(S)
      BY <2>4, TurnAssigns
    <3> HIDE DEF next, params
    <3>5. f[p] \in [ok : BOOLEAN, params : Seq(S)]
      <4>1. PICK ok \in BOOLEAN, rest \in Seq(S) : next = [ok |-> ok, params |-> rest]
        BY <3>3
      <4>2. f[p] = [ok |-> ok, params |-> params \o rest]
        BY <3>1, <4>1
      <4>3. params \o rest \in Seq(S)
        BY <3>4
      <4> QED BY <4>2, <4>3
    <3> QED BY <3>5
  <2> QED BY <1>0, <2>1, <2>2, <2>3, <2>4
<1>2. ASSUME NEW p \in 1 .. L PROVE f[p] \in [ok : BOOLEAN, params : Seq(S)]
  <2>1. p \in G
    <3> HIDE DEF G, L
    <3>1. \A k \in 0 .. L : k \in G
      BY <1>0, <1>1, Downwards
    <3>2. p \in 0 .. L
      BY <1>0
    <3> QED BY <3>1, <3>2
  <2> QED BY <2>1
<1> QED BY <1>2

\* The loop does at the end of a string what it does in that end alone.
LEMMA LoopInSuffix ==
    ASSUME NEW T, NEW w \in Seq(T), NEW q \in Seq(T), NEW o \in Nat, Part(w, q, o), o + Len(w) = Len(q),
           NEW g, IsLoop(g, w), NEW f, IsLoop(f, q)
    PROVE  \A p \in 1 .. Len(w) + 1 : f[o + p] = g[p]
<1> DEFINE L == Len(w) + 1
           G == {p \in 0 .. L : p = 0 \/ f[o + p] = g[p]}
<1>0. L \in Nat /\ Len(w) \in Nat /\ Len(q) \in Nat
  OBVIOUS
<1>1. ASSUME NEW p \in 0 .. L, \A m \in p + 1 .. L : m \in G PROVE p \in G
  <2>1. CASE p = 0
    BY <2>1
  <2>2. CASE p = L
    <3>1. o + p = Len(q) + 1
      BY <1>0, <2>2
    <3>2. f[o + p] = [ok |-> TRUE, params |-> <<>>] /\ g[p] = [ok |-> TRUE, params |-> <<>>]
      BY <2>2, <3>1 DEF IsLoop
    <3> QED BY <3>2
  <2>3. CASE p \in 1 .. Len(w)
    <3>0. o + p \in 1 .. Len(q)
      BY <1>0, <2>3
    <3>1. /\ Turn(w, p).ok =>
                /\ Turn(q, o + p).ok
                /\ Turn(q, o + p).params = Turn(w, p).params
                /\ Turn(q, o + p).pos = o + Turn(w, p).pos
          /\ ~Turn(w, p).ok => ~Turn(q, o + p).ok
      <4>1. /\ Turn(w, p).ok =>
                /\ Turn(q, o + p).ok
                /\ Turn(q, o + p).params = Turn(w, p).params
                /\ \/ Turn(q, o + p).pos = o + Turn(w, p).pos
                   \/ /\ o + Len(w) < Len(q) /\ Turn(w, p).pos = Len(w) + 1
                      /\ Turn(q, o + p).pos = o + Len(w) + 2
            /\ ~Turn(w, p).ok /\ o + Len(w) = Len(q) => ~Turn(q, o + p).ok
        BY <2>3, TurnInside
      <4> QED BY <1>0, <4>1
    <3>2. CASE ~Turn(w, p).ok
      <4>1. g[p] = [ok |-> FALSE, params |-> <<>>]
        BY <2>3, <3>2 DEF IsLoop
      <4>2. f[o + p] = [ok |-> FALSE, params |-> <<>>]
        BY <3>0, <3>1, <3>2 DEF IsLoop
      <4> QED BY <4>1, <4>2
    <3>3. CASE Turn(w, p).ok
      <4>1. g[p] = [g[Turn(w, p).pos] EXCEPT !.params = Turn(w, p).params \o @]
        BY <2>3, <3>3 DEF IsLoop
      <4>2. f[o + p] = [f[Turn(q, o + p).pos] EXCEPT !.params = Turn(q, o + p).params \o @]
        BY <3>0, <3>1, <3>3 DEF IsLoop
      <4>3. Turn(w, p).pos \in p + 1 .. L /\ Turn(w, p).pos # 0
        BY <1>0, <2>3, <3>3, TurnsAdvance
      <4>4. f[o + Turn(w, p).pos] = g[Turn(w, p).pos]
        <5>1. Turn(w, p).pos \in G
          <6> HIDE DEF G, L
          <6> QED BY <1>1, <4>3
        <5> QED BY <4>3, <5>1
      <4>5. f[o + p] = g[p]
        BY <3>1, <3>3, <4>1, <4>2, <4>4
      <4> QED BY <4>5
    <3> QED BY <3>2, <3>3
  <2> QED BY <1>0, <2>1, <2>2, <2>3
<1>2. ASSUME NEW p \in 1 .. L PROVE f[o + p] = g[p]
  <2>1. p \in G
    <3> HIDE DEF G, L
    <3>1. \A k \in 0 .. L : k \in G
      BY <1>0, <1>1, Downwards
    <3>2. p \in 0 .. L
      BY <1>0
    <3> QED BY <3>1, <3>2
  <2> QED BY <2>1
<1> QED BY <1>2

\* What follows a separator is parsed on its own.
LEMMA ParseSplits ==
    ASSUME NEW T, NEW q \in Seq(T), NEW i \in 1 .. Len(q), q[i] = "&",
           Parse(SubSeq(q, 1, i - 1)).ok
    PROVE  Parse(q) = [Parse(SubSeq(q, i + 1, Len(q))) EXCEPT !.params = Parse(SubSeq(q, 1, i - 1)).params \o @]
<1> DEFINE n == Len(q)
           w == SubSeq(q, 1, i - 1)
           v == SubSeq(q, i + 1, n)
<1>0. n \in Nat /\ i \in Nat /\ 1 <= i /\ i <= n
  OBVIOUS
<1>1. w \in Seq(T) /\ Len(w) = i - 1 /\ \A k \in 1 .. i - 1 : w[k] = q[k]
  <2>1. w \in Seq(T)
    BY <1>0
  <2>2. Len(w) = i - 1
    BY <1>0
  <2>3. \A k \in 1 .. i - 1 : w[k] = q[k]
    BY <1>0
  <2> QED BY <2>1, <2>2, <2>3
<1>2. v \in Seq(T) /\ Len(v) = n - i /\ \A k \in 1 .. n - i : v[k] = q[i + k]
  <2>1. v \in Seq(T)
    BY <1>0
  <2>2. Len(v) = n - i
    BY <1>0
  <2>3. \A k \in 1 .. n - i : v[k] = q[i + k]
    BY <1>0
  <2> QED BY <2>1, <2>2, <2>3
<1> HIDE DEF w, v
<1>3. Part(w, q, 0) /\ Part(v, q, i) /\ i + Len(v) = Len(q)
  BY <1>0, <1>1, <1>2 DEF Part
<1>4. PICK f : Parse(q) = f[1] /\ IsLoop(f, q)
  BY <1>0, ParseIs
<1>5. PICK h : Parse(w) = h[1] /\ IsLoop(h, w)
  <2>1. Len(w) \in Nat
    BY <1>0, <1>1
  <2> QED BY <2>1, ParseIs
<1>6. PICK g : Parse(v) = g[1] /\ IsLoop(g, v)
  <2>1. Len(v) \in Nat
    BY <1>0, <1>2
  <2> QED BY <2>1, ParseIs
<1>7. f[i + 1] = g[1]
  <2>1. 1 \in 1 .. Len(v) + 1
    BY <1>0, <1>2
  <2> QED BY <1>2, <1>3, <1>4, <1>6, <2>1, LoopInSuffix
<1> DEFINE S == Assigned(w) \cup Assigned(v)
           after == g[1]
           G == {p \in 0 .. i : p = 0 \/ (h[p].ok => f[p] = [after EXCEPT !.params = h[p].params \o @])}
<1>8. after \in [ok : BOOLEAN, params : Seq(S)]
  <2>1. Len(v) \in Nat /\ 1 \in 1 .. Len(v) + 1
    BY <1>0, <1>2
  <2>2. Assigned(v) \subseteq S
    OBVIOUS
  <2> HIDE DEF S
  <2> QED BY <1>6, <2>1, <2>2, LoopResults
<1>9. \A p \in 1 .. i : h[p] \in [ok : BOOLEAN, params : Seq(S)]
  <2>1. Len(w) \in Nat /\ Len(w) + 1 = i
    BY <1>0, <1>1
  <2>2. Assigned(w) \subseteq S
    OBVIOUS
  <2> HIDE DEF S
  <2> QED BY <1>5, <2>1, <2>2, LoopResults
<1>10. \A p \in 1 .. i - 1 : Turn(w, p).params \in Seq(S)
  <2>1. Assigned(w) \subseteq S
    OBVIOUS
  <2> HIDE DEF S
  <2> QED BY <1>1, <2>1, TurnAssigns
<1> HIDE DEF after, S
<1>11. f[i] = [after EXCEPT !.params = <<>> \o @]
  <2>1. /\ BaseEnd(q, i) = i
    <3>1. PICK b : b = BaseEnd(q, i) /\ b \in i .. Len(q) + 1 /\ \A j \in i .. b - 1 : q[j] \notin Separators
      <4>1. i \in 1 .. Len(q) + 1
        BY <1>0
      <4> QED BY <1>0, <4>1, BaseEndIs
    <3>2. ~(i < b)
      BY <1>0, <3>1 DEF Separators
    <3> QED BY <1>0, <3>1, <3>2
  <2>2. Subscripts(q, i) = [ok |-> TRUE, pos |-> i, keys |-> <<>>]
    <3>1. PICK d : /\ \A x : Subscripts(q, x) = d[x][1]
                   /\ \A p \in 1 .. Len(q) + 1 : d[p] = SubscriptsBody(q, d, p)
      BY <1>0, SubscriptsAre
    <3>2. d[i] = SubscriptsBody(q, d, i)
      BY <1>0, <3>1
    <3>3. ~At(q, i, "[")
      BY DEF At
    <3>4. 1 \in 1 .. MaxKeyDepth + Len(q)
      BY <1>0, CgiAssumption
    <3>5. SubscriptsBody(q, d, i)[1] = [ok |-> TRUE, pos |-> i, keys |-> <<>>]
      BY <3>3, <3>4 DEF SubscriptsBody
    <3> QED BY <3>1, <3>2, <3>5
  <2>3. ~At(q, i, "=") /\ SkipSeparator(q, i) = i + 1
    BY <1>0 DEF At, SkipSeparator
  <2>4. Turn(q, i) = [ok |-> TRUE, pos |-> i + 1, params |-> <<>>]
    BY <2>1, <2>2, <2>3 DEF Turn
  <2>5. f[i] = [f[Turn(q, i).pos] EXCEPT !.params = Turn(q, i).params \o @]
    <3>1. Turn(q, i).ok
      BY <2>4
    <3> QED BY <1>4, <3>1 DEF IsLoop
  <2>6. f[i + 1] = after
    BY <1>7 DEF after
  <2> QED BY <2>4, <2>5, <2>6
<1>12. ASSUME NEW p \in 0 .. i, \A m \in p + 1 .. i : m \in G PROVE p \in G
  <2>1. CASE p = 0
    BY <2>1
  <2>2. CASE p = i
    <3>1. h[i] = [ok |-> TRUE, params |-> <<>>]
      BY <1>0, <1>1, <1>5 DEF IsLoop
    <3>2. f[p] = [after EXCEPT !.params = h[p].params \o @]
      BY <1>11, <2>2, <3>1
    <3> QED BY <3>2
  <2>3. CASE p \in 1 .. i - 1
    <3> SUFFICES ASSUME h[p].ok PROVE f[p] = [after EXCEPT !.params = h[p].params \o @]
      OBVIOUS
    <3>0. p \in 1 .. Len(w) /\ p \in 1 .. Len(q) /\ 0 + p = p
      BY <1>0, <1>1, <2>3
    <3>1. Turn(w, p).ok
      <4> SUFFICES ASSUME ~Turn(w, p).ok PROVE FALSE
        OBVIOUS
      <4>1. h[p] = [ok |-> FALSE, params |-> <<>>]
        BY <1>5, <3>0 DEF IsLoop
      <4> QED BY <4>1
    <3> DEFINE next   == Turn(w, p).pos
               params == Turn(w, p).params
               rest   == h[next]
    <3>2. next \in p + 1 .. i /\ next \in 1 .. i
      <4>1. next \in p + 1 .. Len(w) + 1
        <5>1. Len(w) \in Nat
          BY <1>1
        <5> QED BY <3>0, <3>1, <5>1, TurnsAdvance
      <4> HIDE DEF next
      <4> QED BY <1>0, <1>1, <4>1
    <3>3. h[p] = [rest EXCEPT !.params = params \o @]
      BY <1>5, <3>0, <3>1 DEF IsLoop
    <3>4. /\ Turn(q, p).ok /\ Turn(q, p).params = params
          /\ Turn(q, p).pos = next \/ (next = i /\ Turn(q, p).pos = i + 1)
      <4>1. /\ Turn(w, p).ok =>
                /\ Turn(q, 0 + p).ok
                /\ Turn(q, 0 + p).params = Turn(w, p).params
                /\ \/ Turn(q, 0 + p).pos = 0 + Turn(w, p).pos
                   \/ /\ 0 + Len(w) < Len(q) /\ Turn(w, p).pos = Len(w) + 1
                      /\ Turn(q, 0 + p).pos = 0 + Len(w) + 2
            /\ ~Turn(w, p).ok /\ 0 + Len(w) = Len(q) => ~Turn(q, 0 + p).ok
        <5>1. w \in Seq(T) /\ Part(w, q, 0) /\ 0 \in Nat /\ p \in 1 .. Len(w)
          BY <1>1, <1>3, <3>0
        <5> QED BY <5>1, TurnInside
      <4>2. 0 + Turn(w, p).pos = Turn(w, p).pos
        BY <1>0, <3>2
      <4> QED BY <1>0, <1>1, <3>0, <3>1, <4>1, <4>2
    <3>5. f[p] = [f[Turn(q, p).pos] EXCEPT !.params = params \o @]
      BY <1>4, <3>0, <3>4, ZenonT(60) DEF IsLoop
    <3>6. rest \in [ok : BOOLEAN, params : Seq(S)] /\ params \in Seq(S)
      BY <1>9, <1>10, <2>3, <3>2
    <3>7. rest.ok /\ h[p].params = params \o rest.params
      <4> HIDE DEF rest, params
      <4> QED BY <3>3, <3>6
    <3>8. next \in G
      <4> HIDE DEF G, next
      <4> QED BY <1>12, <3>2
    <3>9. f[next] = [after EXCEPT !.params = rest.params \o @]
      <4>1. next # 0 /\ h[next].ok
        BY <1>0, <3>2, <3>7
      <4> HIDE DEF next
      <4> QED BY <3>8, <4>1
    <3>10. f[Turn(q, p).pos] = [after EXCEPT !.params = rest.params \o @]
      <4>1. CASE Turn(q, p).pos = next
        BY <3>9, <4>1
      <4>2. CASE next = i /\ Turn(q, p).pos = i + 1
        <5>1. f[i + 1] = after
          BY <1>7 DEF after
        <5>2. rest = [ok |-> TRUE, params |-> <<>>]
          BY <1>0, <1>1, <1>5, <4>2 DEF IsLoop
        <5> HIDE DEF rest
        <5>3. [after EXCEPT !.params = rest.params \o @] = after
          BY <1>8, <5>2
        <5> QED BY <4>2, <5>1, <5>3
      <4> QED BY <3>4, <4>1, <4>2
    <3> HIDE DEF rest, params, next
    <3>11. rest.params \in Seq(S)
      BY <3>6
    <3>12. f[p] = InFront(params, InFront(rest.params, after))
      BY <3>5, <3>10 DEF InFront
    <3>13. f[p] = InFront(params \o rest.params, after)
      <4> DEFINE b == rest.params
      <4>1. after \in [ok : BOOLEAN, params : Seq(S)] /\ params \in Seq(S) /\ b \in Seq(S)
        BY <1>8, <3>6, <3>11
      <4> HIDE DEF b, G, n
      <4>2. InFront(params, InFront(b, after)) = InFront(params \o b, after)
        BY <4>1, InFrontTwice
      <4> QED BY <3>12, <4>2 DEF b
    <3> QED BY <3>7, <3>13 DEF InFront
  <2> QED BY <1>0, <2>1, <2>2, <2>3
<1>13. 1 \in G
  <2> HIDE DEF G
  <2>1. \A p \in 0 .. i : p \in G
    BY <1>0, <1>12, Downwards
  <2> QED BY <1>0, <2>1
<1>14. h[1].ok
  BY <1>5 DEF w
<1>15. f[1] = [after EXCEPT !.params = h[1].params \o @]
  BY <1>13, <1>14
<1>16. Parse(q) = [Parse(v) EXCEPT !.params = Parse(w).params \o @]
  BY <1>4, <1>5, <1>6, <1>15 DEF after
<1> QED BY <1>16 DEF w, v

\* What is assigned before the loop stops in front of a separator is assigned whatever follows it.
LEMMA FrontStays ==
    ASSUME NEW T, NEW q \in Seq(T), NEW i \in 1 .. Len(q), q[i] = "&",
           ~Parse(SubSeq(q, 1, i - 1)).ok
    PROVE  IsPrefix(Parse(SubSeq(q, 1, i - 1)).params, Parse(q).params)
<1> DEFINE w == SubSeq(q, 1, i - 1)
           S == Assigned(w) \cup Assigned(q)
<1>0. Len(q) \in Nat /\ i \in Nat /\ 1 <= i /\ i <= Len(q)
  OBVIOUS
<1>1. w \in Seq(T) /\ Len(w) = i - 1 /\ \A k \in 1 .. i - 1 : w[k] = q[k]
  <2>1. w \in Seq(T)
    BY <1>0
  <2>2. Len(w) = i - 1
    BY <1>0
  <2>3. \A k \in 1 .. i - 1 : w[k] = q[k]
    BY <1>0
  <2> QED BY <2>1, <2>2, <2>3
<1>2. ~Parse(w).ok
  OBVIOUS
<1>3. Assigned(w) \subseteq S /\ Assigned(q) \subseteq S
  OBVIOUS
<1> HIDE DEF w, S
<1>4. PICK f : Parse(q) = f[1] /\ IsLoop(f, q)
  BY <1>0, ParseIs
<1>5. PICK h : Parse(w) = h[1] /\ IsLoop(h, w)
  <2>1. Len(w) \in Nat
    BY <1>0, <1>1
  <2> QED BY <2>1, ParseIs
<1>6. \A p \in 1 .. Len(q) + 1 : f[p] \in [ok : BOOLEAN, params : Seq(S)]
  BY <1>0, <1>3, <1>4, LoopResults
<1>7. \A p \in 1 .. i : h[p] \in [ok : BOOLEAN, params : Seq(S)]
  <2>1. Len(w) \in Nat /\ Len(w) + 1 = i
    BY <1>0, <1>1
  <2> QED BY <1>3, <1>5, <2>1, LoopResults
<1>8. h[i].ok
  <2>1. h[i] = [ok |-> TRUE, params |-> <<>>]
    BY <1>0, <1>1, <1>5 DEF IsLoop
  <2> QED BY <2>1
<1> DEFINE G == {p \in 0 .. i : p = 0 \/ h[p].ok \/ \E rest \in Seq(S) : f[p].params = h[p].params \o rest}
<1>9. ASSUME NEW p \in 0 .. i, \A m \in p + 1 .. i : m \in G PROVE p \in G
  <2>1. CASE p = 0
    BY <2>1
  <2>2. CASE p = i
    BY <1>8, <2>2
  <2>3. CASE p \in 1 .. i - 1
    <3>0. p \in 1 .. Len(w) /\ p \in 1 .. Len(q) /\ 0 + p = p /\ p \in 1 .. Len(q) + 1
      BY <1>0, <1>1, <2>3
    <3>1. CASE ~Turn(w, p).ok
      <4>1. h[p] = [ok |-> FALSE, params |-> <<>>]
        BY <1>5, <3>0, <3>1 DEF IsLoop
      <4> DEFINE all == f[p].params
      <4>2. all \in Seq(S)
        BY <1>6, <3>0
      <4> HIDE DEF all
      <4>3. all = h[p].params \o all
        BY <4>1, <4>2
      <4> QED BY <4>2, <4>3 DEF all
    <3>2. CASE Turn(w, p).ok
      <4> SUFFICES ASSUME ~h[p].ok PROVE \E rest \in Seq(S) : f[p].params = h[p].params \o rest
        OBVIOUS
      <4> DEFINE next   == Turn(w, p).pos
                 params == Turn(w, p).params
      <4>1. next \in p + 1 .. i /\ next \in 1 .. i /\ next # 0 /\ next \in 1 .. Len(q) + 1
        <5>1. next \in p + 1 .. Len(w) + 1
          <6>1. Len(w) \in Nat
            BY <1>0, <1>1
          <6> QED BY <3>0, <3>2, <6>1, TurnsAdvance
        <5> HIDE DEF next
        <5> QED BY <1>0, <1>1, <2>3, <5>1
      <4>2. params \in Seq(S)
        BY <1>3, <3>0, TurnAssigns
      <4>3. h[p] = [h[next] EXCEPT !.params = params \o @]
        BY <1>5, <3>0, <3>2 DEF IsLoop
      <4>4. /\ Turn(q, p).ok /\ Turn(q, p).params = params
            /\ Turn(q, p).pos = next \/ next = i
        <5>1. Part(w, q, 0)
          BY <1>0, <1>1 DEF Part
        <5>2. /\ Turn(w, p).ok =>
                  /\ Turn(q, 0 + p).ok
                  /\ Turn(q, 0 + p).params = Turn(w, p).params
                  /\ \/ Turn(q, 0 + p).pos = 0 + Turn(w, p).pos
                     \/ /\ 0 + Len(w) < Len(q) /\ Turn(w, p).pos = Len(w) + 1
                        /\ Turn(q, 0 + p).pos = 0 + Len(w) + 2
              /\ ~Turn(w, p).ok /\ 0 + Len(w) = Len(q) => ~Turn(q, 0 + p).ok
          <6>1. w \in Seq(T) /\ 0 \in Nat /\ p \in 1 .. Len(w)
            BY <1>1, <3>0
          <6> QED BY <5>1, <6>1, TurnInside
        <5>3. 0 + Turn(w, p).pos = Turn(w, p).pos
          BY <1>0, <4>1
        <5> QED BY <1>0, <1>1, <3>0, <3>2, <5>2, <5>3
      <4>5. f[p] = [f[Turn(q, p).pos] EXCEPT !.params = params \o @]
        BY <1>4, <3>0, <4>4, ZenonT(60) DEF IsLoop
      <4> HIDE DEF next, params
      <4>6. h[next] \in [ok : BOOLEAN, params : Seq(S)] /\ f[next] \in [ok : BOOLEAN, params : Seq(S)]
        BY <1>6, <1>7, <4>1
      <4>7. ~h[next].ok /\ h[p].params = params \o h[next].params
        BY <4>3, <4>6
      <4>8. f[p].params = params \o f[next].params
        <5>1. Turn(q, p).pos = next
          BY <1>8, <4>4, <4>7
        <5>2. f[p] = [f[next] EXCEPT !.params = params \o @]
          BY <4>5, <5>1
        <5> QED BY <4>6, <5>2
      <4>9. next \in G
        <5> HIDE DEF G
        <5> QED BY <1>9, <4>1
      <4>10. PICK rest \in Seq(S) : f[next].params = h[next].params \o rest
        BY <4>1, <4>7, <4>9
      <4> DEFINE b == h[next].params
      <4>11. b \in Seq(S)
        BY <4>6
      <4> HIDE DEF b, G
      <4>12. (params \o b) \o rest = params \o (b \o rest)
        BY <4>2, <4>11, ConcatAssociative, SMTT(40)
      <4>13. f[p].params = h[p].params \o rest
        BY <4>7, <4>8, <4>10, <4>12 DEF b
      <4> QED BY <4>13
    <3> QED BY <3>1, <3>2
  <2>4. p = 0 \/ p = i \/ p \in 1 .. i - 1
    BY <1>0
  <2> HIDE DEF G
  <2> QED BY <2>1, <2>2, <2>3, <2>4
<1>10. 1 \in G
  <2> HIDE DEF G
  <2>1. \A p \in 0 .. i : p \in G
    BY <1>0, <1>9, Downwards
  <2> QED BY <1>0, <2>1
<1>11. PICK rest \in Seq(S) : f[1].params = h[1].params \o rest
  BY <1>2, <1>5, <1>10
<1> DEFINE b == h[1].params
<1>12. b \in Seq(S)
  BY <1>0, <1>7
<1> HIDE DEF b, G
<1>13. IsPrefix(b, b \o rest)
  <2>1. Len(b) \in Nat /\ Len(b \o rest) = Len(b) + Len(rest) /\ Len(rest) \in Nat
    BY <1>12
  <2>2. SubSeq(b \o rest, 1, Len(b)) = SubSeq(b, 1, Len(b))
    BY <1>12, <2>1
  <2> QED BY <2>1, <2>2 DEF IsPrefix
<1> QED BY <1>4, <1>5, <1>11, <1>13 DEF b, w

-----------------------------------------------------------------------------
\* The parts of a path in a form: the first key, and the others in brackets.
KeyCode(keys, i) == IF i = 1 THEN keys[1] ELSE <<"[">> \o keys[i] \o <<"]">>

\* A key in its brackets.
LEMMA Bracketed ==
    ASSUME NEW key \in Seq(Characters)
    PROVE  LET code == <<"[">> \o key \o <<"]">>
           IN  /\ code \in Seq(Tokens) /\ Len(code) = Len(key) + 2
               /\ code[1] = "[" /\ code[Len(key) + 2] = "]"
               /\ \A j \in 1 .. Len(key) : code[1 + j] = key[j]
<1> DEFINE open  == <<"[">>
           close == <<"]">>
           first == open \o key
<1>0. Len(key) \in Nat /\ key \in Seq(Tokens)
  BY DEF Tokens
<1>1. /\ open \in Seq(Tokens) /\ Len(open) = 1 /\ open[1] = "["
      /\ close \in Seq(Tokens) /\ Len(close) = 1 /\ close[1] = "]"
  BY DEF Tokens
<1> HIDE DEF open, close
<1>2. /\ Len(first) = Len(open) + Len(key)
      /\ \A i \in 1 .. Len(open) : first[i] = open[i]
      /\ \A j \in 1 .. Len(key) : first[Len(open) + j] = key[j]
  <2>1. open \in Seq(Tokens) /\ key \in Seq(Tokens)
    BY <1>0, <1>1
  <2> QED BY <2>1, ConcatOf
<1>3. first \in Seq(Tokens)
  BY <1>0, <1>1
<1> HIDE DEF first
<1>4. /\ Len(first \o close) = Len(first) + Len(close)
      /\ \A i \in 1 .. Len(first) : (first \o close)[i] = first[i]
      /\ \A j \in 1 .. Len(close) : (first \o close)[Len(first) + j] = close[j]
  <2>1. first \in Seq(Tokens) /\ close \in Seq(Tokens)
    BY <1>1, <1>3
  <2> QED BY <2>1, ConcatOf
<1>5. first \o close \in Seq(Tokens)
  BY <1>1, <1>3
<1> DEFINE code == first \o close
<1>6. code \in Seq(Tokens) /\ Len(code) = Len(key) + 2 /\ Len(first) = Len(key) + 1
  BY <1>0, <1>1, <1>2, <1>4, <1>5
<1>7. code[1] = "["
  <2>1. 1 \in 1 .. Len(first) /\ 1 \in 1 .. Len(open)
    BY <1>0, <1>1, <1>6
  <2> QED BY <1>1, <1>2, <1>4, <2>1
<1>8. code[Len(key) + 2] = "]"
  <2>1. 1 \in 1 .. Len(close) /\ Len(first) + 1 = Len(key) + 2
    BY <1>0, <1>1, <1>6
  <2>2. code[Len(first) + 1] = close[1]
    BY <1>4, <2>1
  <2> QED BY <1>1, <2>1, <2>2
<1>9. \A j \in 1 .. Len(key) : code[1 + j] = key[j]
  <2> TAKE j \in 1 .. Len(key)
  <2>1. 1 + j \in 1 .. Len(first) /\ Len(open) + j = 1 + j
    BY <1>0, <1>1, <1>6
  <2>2. code[1 + j] = first[1 + j]
    BY <1>4, <2>1
  <2>3. first[Len(open) + j] = key[j]
    BY <1>2
  <2> QED BY <2>1, <2>2, <2>3
<1> QED BY <1>6, <1>7, <1>8, <1>9 DEF first, open, close

\* p says where each key of a path ends in the string.
KeyPlaces(p, keys, str) ==
    /\ p \in [1 .. Len(keys) -> Nat]
    /\ p[1] = Len(keys[1]) /\ p[1] <= Len(str)
    /\ \A j \in 1 .. p[1] : str[j] = keys[1][j]
    /\ \A k \in 2 .. Len(keys) :
          /\ p[k] = p[k - 1] + Len(keys[k]) + 2 /\ p[k] <= Len(str)
          /\ str[p[k - 1] + 1] = "[" /\ str[p[k]] = "]"
          /\ \A j \in 1 .. Len(keys[k]) : str[p[k - 1] + 1 + j] = keys[k][j]

LEMMA RenderedKeys ==
    ASSUME NEW keys \in Seq(Seq(Characters)), keys # <<>>
    PROVE  /\ RenderKeys(keys) \in Seq(Tokens)
           /\ \E p : KeyPlaces(p, keys, RenderKeys(keys)) /\ p[Len(keys)] = Len(RenderKeys(keys))
<1> DEFINE K == Len(keys)
           z == [i \in 1 .. K |-> KeyCode(keys, i)]
           str == RenderKeys(keys)
<1>0. K \in Nat /\ K > 0
  BY LenProperties, EmptySeq
<1>1. \A i \in 1 .. K : keys[i] \in Seq(Characters)
  BY <1>0, ElementOfSeq
<1>2. \A i \in 1 .. K : KeyCode(keys, i) \in Seq(Tokens)
  <2> TAKE i \in 1 .. K
  <2>1. keys[i] \in Seq(Characters) /\ keys[1] \in Seq(Characters)
    BY <1>0, <1>1
  <2>2. CASE i = 1
    BY <2>1, <2>2 DEF KeyCode, Tokens
  <2>3. CASE i # 1
    <3>1. <<"[">> \o keys[i] \o <<"]">> \in Seq(Tokens)
      BY <2>1, Bracketed
    <3> QED BY <2>3, <3>1 DEF KeyCode
  <2> QED BY <2>2, <2>3
<1>3. z \in Seq(Seq(Tokens)) /\ Len(z) = K /\ z # <<>>
  <2>1. z \in Seq(Seq(Tokens)) /\ Len(z) = K
    BY <1>0, <1>2
  <2> QED BY <1>0, <2>1, EmptySeq
<1>4. str = FlattenSeq(z)
  BY DEF RenderKeys, KeyCode
<1>5. /\ z[1] = keys[1]
      /\ \A k \in 2 .. K : z[k] = <<"[">> \o keys[k] \o <<"]">>
  BY <1>0 DEF KeyCode
<1> HIDE DEF z, str
<1>6. str \in Seq(Tokens)
  BY <1>3, <1>4, FlattenType
<1>7. PICK r \in [0 .. K -> Nat] :
         /\ r[0] = 0 /\ r[K] = Len(str)
         /\ \A k \in 1 .. K :
               /\ r[k] = r[k - 1] + Len(z[k]) /\ r[k] <= Len(str)
               /\ \A j \in 1 .. Len(z[k]) : str[r[k - 1] + j] = z[k][j]
  <2> HIDE DEF K
  <2>1. PICK r \in [0 .. Len(z) -> Nat] :
         /\ r[0] = 0 /\ r[Len(z)] = Len(FlattenSeq(z))
         /\ \A k \in 1 .. Len(z) :
               /\ r[k] = r[k - 1] + Len(z[k]) /\ r[k] <= Len(FlattenSeq(z))
               /\ \A j \in 1 .. Len(z[k]) : FlattenSeq(z)[r[k - 1] + j] = z[k][j]
    BY <1>3, FlattenPlaces, ZenonT(60)
  <2> QED BY <1>3, <1>4, <2>1
<1> DEFINE p == [k \in 1 .. K |-> r[k]]
<1>8. \A k \in 1 .. K : p[k] = r[k] /\ r[k] \in Nat
  <2>1. \A k \in 1 .. K : k \in 0 .. K
    BY <1>0
  <2> HIDE DEF K
  <2> QED BY <1>7, <2>1
<1>9. p \in [1 .. K -> Nat]
  BY <1>8
<1> HIDE DEF p
<1>10. /\ p[1] = Len(keys[1]) /\ p[1] <= Len(str)
       /\ \A j \in 1 .. p[1] : str[j] = keys[1][j]
  <2>1. 1 \in 1 .. K /\ 1 - 1 = 0
    BY <1>0
  <2>2. Len(keys[1]) \in Nat
    BY <1>1, <2>1
  <2> HIDE DEF K
  <2>3. /\ r[1] = r[1 - 1] + Len(z[1]) /\ r[1] <= Len(str)
        /\ \A j \in 1 .. Len(z[1]) : str[r[1 - 1] + j] = z[1][j]
    BY <1>7, <2>1
  <2>4. r[1] = Len(keys[1])
    BY <1>5, <1>7, <2>1, <2>2, <2>3
  <2>5. \A j \in 1 .. Len(keys[1]) : str[0 + j] = keys[1][j]
    BY <1>5, <1>7, <2>1, <2>3
  <2> QED BY <1>8, <2>1, <2>2, <2>3, <2>4, <2>5
<1>11. ASSUME NEW k \in 2 .. K
       PROVE  /\ p[k] = p[k - 1] + Len(keys[k]) + 2 /\ p[k] <= Len(str)
              /\ str[p[k - 1] + 1] = "[" /\ str[p[k]] = "]"
              /\ \A j \in 1 .. Len(keys[k]) : str[p[k - 1] + 1 + j] = keys[k][j]
  <2>1. k \in 1 .. K /\ k - 1 \in 1 .. K
    BY <1>0
  <2>2. keys[k] \in Seq(Characters)
    BY <1>1, <2>1
  <2>3. Len(keys[k]) \in Nat
    BY <2>2
  <2> DEFINE code == <<"[">> \o keys[k] \o <<"]">>
  <2>4. /\ Len(code) = Len(keys[k]) + 2
        /\ code[1] = "[" /\ code[Len(keys[k]) + 2] = "]"
        /\ \A j \in 1 .. Len(keys[k]) : code[1 + j] = keys[k][j]
    BY <2>2, Bracketed
  <2>5. z[k] = code
    BY <1>5
  <2> HIDE DEF K, code
  <2>6. /\ p[k] = p[k - 1] + Len(code) /\ p[k] <= Len(str) /\ p[k - 1] \in Nat
        /\ \A j \in 1 .. Len(code) : str[p[k - 1] + j] = code[j]
    BY <1>7, <1>8, <2>1, <2>5
  <2>7. p[k] = p[k - 1] + Len(keys[k]) + 2
    BY <2>3, <2>4, <2>6
  <2>8. str[p[k - 1] + 1] = "["
    <3>1. 1 \in 1 .. Len(code)
      BY <2>3, <2>4
    <3> QED BY <2>4, <2>6, <3>1
  <2>9. str[p[k]] = "]"
    <3>1. Len(keys[k]) + 2 \in 1 .. Len(code) /\ p[k - 1] + (Len(keys[k]) + 2) = p[k]
      BY <2>3, <2>4, <2>6
    <3>2. str[p[k - 1] + (Len(keys[k]) + 2)] = code[Len(keys[k]) + 2]
      BY <2>6, <3>1
    <3> QED BY <2>4, <3>1, <3>2
  <2>10. \A j \in 1 .. Len(keys[k]) : str[p[k - 1] + 1 + j] = keys[k][j]
    <3> TAKE j \in 1 .. Len(keys[k])
    <3>0. Len(code) = Len(keys[k]) + 2 /\ code[1 + j] = keys[k][j]
      BY <2>4
    <3>1. 1 + j \in 1 .. Len(code)
      BY <2>3, <3>0
    <3>2. str[p[k - 1] + (1 + j)] = code[1 + j]
      BY <2>6, <3>1
    <3>3. p[k - 1] + (1 + j) = p[k - 1] + 1 + j
      <4> DEFINE o == p[k - 1]
      <4>1. o \in Nat /\ j \in Nat
        BY <2>3, <2>6
      <4> HIDE DEF o
      <4>2. o + (1 + j) = o + 1 + j
        BY <4>1
      <4> QED BY <4>2 DEF o
    <3> QED BY <3>0, <3>2, <3>3
  <2> QED BY <2>6, <2>7, <2>8, <2>9, <2>10
<1>12. KeyPlaces(p, keys, str)
  BY <1>9, <1>10, <1>11 DEF KeyPlaces
<1>13. p[K] = Len(str)
  <2>1. K \in 1 .. K
    BY <1>0
  <2> HIDE DEF K
  <2> QED BY <1>7, <1>8, <2>1
<1>14. \E x : KeyPlaces(x, keys, str) /\ x[Len(keys)] = Len(str)
  BY <1>12, <1>13
<1> QED BY <1>6, <1>14 DEF str

-----------------------------------------------------------------------------
\* No other place than the end of a base key has these properties.
LEMMA BaseEndUnique ==
    ASSUME NEW str, Len(str) \in Nat, NEW pos \in 1 .. Len(str) + 1, NEW m \in pos .. Len(str) + 1,
           m <= Len(str) => str[m] \in Separators, \A j \in pos .. m - 1 : str[j] \notin Separators
    PROVE  BaseEnd(str, pos) = m
<1>1. PICK b : /\ b = BaseEnd(str, pos) /\ b \in pos .. Len(str) + 1
               /\ b <= Len(str) => str[b] \in Separators
               /\ \A j \in pos .. b - 1 : str[j] \notin Separators
  BY BaseEndIs
<1>2. ~(b < m)
  <2> SUFFICES ASSUME b < m PROVE FALSE
    OBVIOUS
  <2>1. b \in pos .. m - 1 /\ b <= Len(str)
    BY <1>1
  <2> QED BY <1>1, <2>1
<1>3. ~(m < b)
  <2> SUFFICES ASSUME m < b PROVE FALSE
    OBVIOUS
  <2>1. m \in pos .. b - 1 /\ m <= Len(str)
    BY <1>1
  <2> QED BY <1>1, <2>1
<1> QED BY <1>1, <1>2, <1>3

\* The string begins with a leaf, whose keys end at p, and with nothing but a separator behind it.
LeafAt(keys, value, p, q) ==
    LET r == p[Len(keys)] IN
    /\ KeyPlaces(p, keys, q)
    /\ r + 1 + Len(value) <= Len(q)
    /\ q[r + 1] = "="
    /\ \A j \in 1 .. Len(value) : q[r + 1 + j] = value[j]
    /\ r + 1 + Len(value) < Len(q) => q[r + Len(value) + 2] = "&"

\* The places of a leaf are numbers.
LEMMA LeafPlaces ==
    ASSUME NEW keys \in Seq(Seq(Characters)), keys # <<>>, NEW value, NEW q \in Seq(Tokens),
           NEW p, LeafAt(keys, value, p, q)
    PROVE  p[1] \in Nat /\ p[Len(keys)] \in Nat
<1>1. Len(keys) \in Nat /\ Len(keys) > 0
  BY LenProperties, EmptySeq
<1>2. 1 \in 1 .. Len(keys) /\ Len(keys) \in 1 .. Len(keys)
  BY <1>1
<1>3. p \in [1 .. Len(keys) -> Nat]
  BY DEF LeafAt, KeyPlaces
<1> QED BY <1>2, <1>3

\* The first key of a leaf is its base key.
LEMMA BaseOfLeaf ==
    ASSUME NEW keys \in Seq(Seq(Characters)), keys # <<>>, NEW value \in Seq(Characters),
           NEW q \in Seq(Tokens), NEW p, LeafAt(keys, value, p, q)
    PROVE  BaseEnd(q, 1) = p[1] + 1 /\ SubSeq(q, 1, p[1]) = keys[1]
<1> DEFINE K == Len(keys)
<1>0. K \in Nat /\ K > 0 /\ Len(q) \in Nat /\ Len(value) \in Nat
  BY LenProperties, EmptySeq
<1>1. keys[1] \in Seq(Characters) /\ keys[1] \in Seq(Tokens)
  <2>1. keys[1] \in Seq(Characters)
    BY <1>0, ElementOfSeq
  <2> QED BY <2>1 DEF Tokens
<1>2. /\ p[1] \in Nat /\ p[1] = Len(keys[1]) /\ p[1] <= Len(q)
      /\ \A j \in 1 .. p[1] : q[j] = keys[1][j]
  BY <1>0 DEF LeafAt, KeyPlaces
<1>3. \A j \in 1 .. p[1] : q[j] \notin Separators
  <2> TAKE j \in 1 .. p[1]
  <2>1. keys[1][j] \in Characters
    BY <1>1, <1>2, ElementOfSeq
  <2> QED BY <1>2, <2>1, CgiAssumption DEF Separators
<1>4. p[1] + 1 <= Len(q) /\ q[p[1] + 1] \in Separators
  <2>1. CASE K = 1
    BY <1>0, <1>2, <2>1 DEF LeafAt, Separators
  <2>2. CASE K > 1
    <3>1. 2 \in 2 .. K /\ 2 - 1 = 1
      BY <1>0, <2>2
    <3>2. p[2] = p[2 - 1] + Len(keys[2]) + 2 /\ p[2] <= Len(q) /\ q[p[2 - 1] + 1] = "["
      BY <3>1 DEF LeafAt, KeyPlaces
    <3>3. Len(keys[2]) \in Nat
      <4>1. keys[2] \in Seq(Characters)
        BY <3>1, <1>0, ElementOfSeq
      <4> QED BY <4>1
    <3>4. p[2 - 1] = p[1]
      OBVIOUS
    <3> HIDE DEF K
    <3>5. p[1] + 1 <= Len(q) /\ q[p[1] + 1] = "["
      <4> DEFINE a == p[1]
                 b == p[2]
                 m == Len(keys[2])
      <4>1. a \in Nat /\ m \in Nat /\ b = a + m + 2 /\ b <= Len(q) /\ q[a + 1] = "["
        BY <1>2, <3>2, <3>3, <3>4
      <4> HIDE DEF a, b, m
      <4>2. a + 1 <= Len(q)
        BY <1>0, <4>1
      <4> QED BY <4>1, <4>2 DEF a
    <3>6. "[" \in Separators
      BY DEF Separators
    <3> QED BY <3>5, <3>6
  <2>3. K = 1 \/ K > 1
    <3> HIDE DEF K
    <3> QED BY <1>0
  <2> QED BY <2>1, <2>2, <2>3
<1>5. BaseEnd(q, 1) = p[1] + 1
  <2>1. /\ 1 \in 1 .. Len(q) + 1 /\ p[1] + 1 \in 1 .. Len(q) + 1
        /\ \A j \in 1 .. (p[1] + 1) - 1 : q[j] \notin Separators
    BY <1>0, <1>2, <1>3
  <2> QED BY <1>0, <1>4, <2>1, BaseEndUnique
<1>6. SubSeq(q, 1, p[1]) = keys[1]
  <2>1. /\ 1 \in 1 .. Len(q) + 1 /\ p[1] = 1 + Len(keys[1]) - 1
        /\ \A j \in 1 .. Len(keys[1]) : q[1 + j - 1] = keys[1][j]
    BY <1>0, <1>2
  <2> QED BY <1>1, <1>2, <2>1, SubSeqIs
<1> QED BY <1>5, <1>6

\* The others are each between brackets.
LEMMA BracketsOfLeaf ==
    ASSUME NEW keys \in Seq(Seq(Characters)), keys # <<>>, NEW value \in Seq(Characters),
           NEW q \in Seq(Tokens), NEW p, LeafAt(keys, value, p, q), NEW k \in 2 .. Len(keys)
    PROVE  /\ At(q, p[k - 1] + 1, "[") /\ Find(q, "]", p[k - 1] + 1 + 1) = p[k] /\ p[k] <= Len(q)
           /\ SubSeq(q, p[k - 1] + 1 + 1, p[k] - 1) = keys[k]
<1>0. Len(keys) \in Nat /\ Len(q) \in Nat /\ k \in 1 .. Len(keys) /\ k - 1 \in 1 .. Len(keys)
  BY LenProperties
<1>1. keys[k] \in Seq(Characters) /\ keys[k] \in Seq(Tokens)
  <2>1. keys[k] \in Seq(Characters)
    BY <1>0, ElementOfSeq
  <2> QED BY <2>1 DEF Tokens
<1>2. /\ p[k] \in Nat /\ p[k - 1] \in Nat
      /\ p[k] = p[k - 1] + Len(keys[k]) + 2 /\ p[k] <= Len(q)
      /\ q[p[k - 1] + 1] = "[" /\ q[p[k]] = "]"
      /\ \A j \in 1 .. Len(keys[k]) : q[p[k - 1] + 1 + j] = keys[k][j]
  BY <1>0 DEF LeafAt, KeyPlaces
<1> DEFINE o == p[k - 1]
           e == p[k]
           n == Len(keys[k])
<1>3. o \in Nat /\ e \in Nat /\ n \in Nat /\ e = o + n + 2 /\ e <= Len(q)
      /\ q[o + 1] = "[" /\ q[e] = "]" /\ \A j \in 1 .. n : q[o + 1 + j] = keys[k][j]
  <2>1. n \in Nat
    BY <1>1
  <2> QED BY <1>2, <2>1
<1>4. \A j \in 1 .. n : keys[k][j] \in Characters
  BY <1>1, ElementOfSeq
<1> HIDE DEF o, e, n
<1>5. At(q, o + 1, "[")
  BY <1>0, <1>3 DEF At
<1>6. \A j \in o + 2 .. e - 1 : q[j] # "]"
  <2> TAKE j \in o + 2 .. e - 1
  <2>1. j - o - 1 \in 1 .. n /\ o + 1 + (j - o - 1) = j
    BY <1>3
  <2>2. q[j] = keys[k][j - o - 1]
    BY <1>3, <2>1
  <2>3. keys[k][j - o - 1] \in Characters
    BY <1>4, <2>1
  <2> QED BY <2>2, <2>3, CgiAssumption
<1>7. Find(q, "]", o + 1 + 1) = e
  <2>1. o + 1 + 1 = o + 2 /\ o + 2 \in Nat /\ e \in o + 2 .. Len(q) + 1
    BY <1>0, <1>3
  <2> QED BY <1>0, <1>3, <1>6, <2>1, FindUnique
<1>8. SubSeq(q, o + 1 + 1, e - 1) = keys[k]
  <2>1. /\ o + 1 + 1 \in 1 .. Len(q) + 1 /\ e - 1 = (o + 1 + 1) + n - 1 /\ e - 1 <= Len(q)
        /\ \A j \in 1 .. n : q[(o + 1 + 1) + j - 1] = keys[k][j]
    BY <1>0, <1>3
  <2> QED BY <1>1, <2>1, SubSeqIs DEF n
<1> QED BY <1>3, <1>5, <1>7, <1>8 DEF o, e

\* A key in front of those of a result.
AddKey(key, result) == [result EXCEPT !.keys = <<key>> \o @]

\* The keys of the result, behind the one in front.
LEMMA AddKeyTo ==
    ASSUME NEW ok, NEW pos, NEW keys, NEW key
    PROVE  AddKey(key, [ok |-> ok, pos |-> pos, keys |-> keys])
             = [ok |-> ok, pos |-> pos, keys |-> <<key>> \o keys]
<1> DEFINE r == [ok |-> ok, pos |-> pos, keys |-> keys]
           z == <<key>> \o keys
<1>1. AddKey(key, r) = [r EXCEPT !.keys = z]
  BY DEF AddKey
<1> HIDE DEF z
<1>2. [r EXCEPT !.keys = z] = [ok |-> ok, pos |-> pos, keys |-> z]
  OBVIOUS
<1> QED BY <1>1, <1>2 DEF z

\* The brackets of a leaf that is not nested too deep are its other keys.
LEMMA LeafRead ==
    ASSUME NEW keys \in Seq(Seq(Characters)), keys # <<>>, NEW value \in Seq(Characters),
           NEW q \in Seq(Tokens), NEW p, LeafAt(keys, value, p, q), Len(keys) <= MaxKeyDepth
    PROVE  Subscripts(q, p[1] + 1) = [ok |-> TRUE, pos |-> p[Len(keys)] + 1, keys |-> SubSeq(keys, 2, Len(keys))]
<1> DEFINE K == Len(keys)
           Rest(k) == SubSeq(keys, k + 1, K)
           Result(k) == [ok |-> TRUE, pos |-> p[K] + 1, keys |-> Rest(k)]
<1>0. K \in Nat /\ K > 0 /\ Len(q) \in Nat /\ K <= MaxKeyDepth /\ MaxKeyDepth \in Nat
  BY LenProperties, EmptySeq, CgiAssumption
<1>1. PICK d : /\ \A x : Subscripts(q, x) = d[x][1]
               /\ \A x \in 1 .. Len(q) + 1 : d[x] = SubscriptsBody(q, d, x)
  BY <1>0, SubscriptsAre
<1>2. \A k \in 1 .. K : p[k] \in Nat /\ p[k] <= Len(q)
  <2> TAKE k \in 1 .. K
  <2>1. CASE k = 1
    BY <1>0, <2>1 DEF LeafAt, KeyPlaces
  <2>2. CASE k \in 2 .. K
    BY <2>2 DEF LeafAt, KeyPlaces
  <2> QED BY <1>0, <2>1, <2>2
<1> DEFINE G == {k \in 0 .. K : k = 0 \/ d[p[k] + 1][k] = Result(k)}
<1>3. ASSUME NEW k \in 0 .. K, \A m \in k + 1 .. K : m \in G PROVE k \in G
  <2> SUFFICES ASSUME k # 0 PROVE d[p[k] + 1][k] = Result(k)
    OBVIOUS
  <2>1. k \in 1 .. K /\ p[k] \in Nat /\ p[k] <= Len(q) /\ p[k] + 1 \in 1 .. Len(q) + 1
        /\ k \in 1 .. MaxKeyDepth + Len(q)
    BY <1>0, <1>2
  <2> DEFINE x == p[k] + 1
             end == Find(q, "]", x + 1)
  <2>2. d[x][k] = IF ~At(q, x, "[") THEN [ok |-> TRUE, pos |-> x, keys |-> <<>>]
                  ELSE IF end > Len(q) \/ TooDeep(k) THEN [ok |-> FALSE, pos |-> x, keys |-> <<>>]
                  ELSE [d[end + 1][k + 1] EXCEPT !.keys = <<SubSeq(q, x + 1, end - 1)>> \o @]
    <3>1. d[x] = SubscriptsBody(q, d, x)
      BY <1>1, <2>1
    <3> HIDE DEF x
    <3> QED BY <2>1, <3>1 DEF SubscriptsBody
  <2>3. CASE k = K
    <3>1. ~At(q, x, "[")
      BY <2>1, <2>3 DEF LeafAt, At
    <3>2. Rest(k) = <<>>
      BY <1>0, <2>3
    <3> HIDE DEF Rest
    <3> QED BY <2>2, <2>3, <3>1, <3>2
  <2>4. CASE k < K
    <3>1. k + 1 \in 2 .. K /\ k + 1 \in k + 1 .. K /\ (k + 1) - 1 = k /\ k + 1 # 0 /\ ~TooDeep(k)
      BY <1>0, <2>1, <2>4 DEF TooDeep
    <3>2. /\ At(q, p[(k + 1) - 1] + 1, "[") /\ Find(q, "]", p[(k + 1) - 1] + 1 + 1) = p[k + 1] /\ p[k + 1] <= Len(q)
          /\ SubSeq(q, p[(k + 1) - 1] + 1 + 1, p[k + 1] - 1) = keys[k + 1]
      BY <3>1, BracketsOfLeaf, ZenonT(60)
    <3>3. At(q, x, "[") /\ end = p[k + 1] /\ end <= Len(q) /\ SubSeq(q, x + 1, end - 1) = keys[k + 1]
      BY <3>1, <3>2
    <3>4. d[p[k + 1] + 1][k + 1] = Result(k + 1)
      <4>1. k + 1 \in G
        <5> HIDE DEF G, K
        <5> QED BY <1>3, <3>1
      <4> QED BY <3>1, <4>1
    <3>5. <<keys[k + 1]>> \o Rest(k + 1) = Rest(k)
      <4>1. k \in 0 .. K - 1 /\ (k + 1) + 1 = k + 2 /\ K \in 0 .. Len(keys)
        BY <1>0, <2>1, <2>4
      <4> QED BY <4>1, FirstAndRest
    <3>6. end \in Nat
      BY <1>2, <3>1, <3>3
    <3> HIDE DEF x, end, K
    <3>7. d[x][k] = AddKey(keys[k + 1], Result(k + 1))
      <4>1. ~(end > Len(q))
        BY <1>0, <3>3, <3>6
      <4> HIDE DEF Result
      <4> QED BY <2>2, <3>1, <3>3, <3>4, <4>1 DEF AddKey
    <3> HIDE DEF Rest
    <3>8. AddKey(keys[k + 1], Result(k + 1)) = [ok |-> TRUE, pos |-> p[K] + 1, keys |-> <<keys[k + 1]>> \o Rest(k + 1)]
      BY AddKeyTo
    <3> QED BY <3>5, <3>7, <3>8 DEF x
  <2> HIDE DEF Result, x
  <2> QED BY <1>0, <2>1, <2>3, <2>4 DEF x
<1>4. d[p[1] + 1][1] = Result(1)
  <2>1. 1 \in G
    <3> HIDE DEF G
    <3>1. \A k \in 0 .. K : k \in G
      BY <1>0, <1>3, Downwards
    <3> QED BY <1>0, <3>1
  <2> QED BY <2>1
<1> QED BY <1>1, <1>4

\* Those of a leaf that is nested too deep are refused.
LEMMA LeafRefused ==
    ASSUME NEW keys \in Seq(Seq(Characters)), keys # <<>>, NEW value \in Seq(Characters),
           NEW q \in Seq(Tokens), NEW p, LeafAt(keys, value, p, q), Len(keys) > MaxKeyDepth
    PROVE  ~Subscripts(q, p[1] + 1).ok
<1> DEFINE K == Len(keys)
<1>0. /\ K \in Nat /\ K > 0 /\ Len(q) \in Nat
      /\ MaxKeyDepth \in Nat /\ MaxKeyDepth > 0 /\ MaxKeyDepth < K
  BY LenProperties, EmptySeq, CgiAssumption
<1>1. PICK d : /\ \A x : Subscripts(q, x) = d[x][1]
               /\ \A x \in 1 .. Len(q) + 1 : d[x] = SubscriptsBody(q, d, x)
  BY <1>0, SubscriptsAre
<1> DEFINE G == {k \in 0 .. MaxKeyDepth : k = 0 \/ ~d[p[k] + 1][k].ok}
<1>2. ASSUME NEW k \in 0 .. MaxKeyDepth, \A m \in k + 1 .. MaxKeyDepth : m \in G PROVE k \in G
  <2> SUFFICES ASSUME k # 0 PROVE ~d[p[k] + 1][k].ok
    OBVIOUS
  <2>1. k + 1 \in 2 .. K /\ (k + 1) - 1 = k /\ k + 1 # 0 /\ k \in 1 .. MaxKeyDepth + Len(q)
    BY <1>0
  <2>2. /\ At(q, p[(k + 1) - 1] + 1, "[") /\ Find(q, "]", p[(k + 1) - 1] + 1 + 1) = p[k + 1] /\ p[k + 1] <= Len(q)
        /\ SubSeq(q, p[(k + 1) - 1] + 1 + 1, p[k + 1] - 1) = keys[k + 1]
    BY <2>1, BracketsOfLeaf, ZenonT(60)
  <2> DEFINE x == p[k] + 1
             end == Find(q, "]", x + 1)
             next == d[end + 1][k + 1]
             key == SubSeq(q, x + 1, end - 1)
  <2>3. At(q, x, "[") /\ end = p[k + 1] /\ end <= Len(q)
    BY <2>1, <2>2
  <2>4. x \in 1 .. Len(q) + 1 /\ end \in Nat
    <3>0. k \in 1 .. K /\ k + 1 \in 1 .. K
      BY <1>0
    <3>1. p[k] \in Nat /\ p[k + 1] \in Nat
      BY <3>0 DEF LeafAt, KeyPlaces
    <3> HIDE DEF end
    <3> QED BY <1>0, <2>3, <3>1, SMTT(40) DEF At
  <2> HIDE DEF x, end
  <2>5. d[x][k] = IF TooDeep(k) THEN [ok |-> FALSE, pos |-> x, keys |-> <<>>]
                  ELSE [next EXCEPT !.keys = <<key>> \o @]
    <3>1. d[x] = SubscriptsBody(q, d, x)
      BY <1>1, <2>4
    <3>2. d[x][k] = IF ~At(q, x, "[") THEN [ok |-> TRUE, pos |-> x, keys |-> <<>>]
                    ELSE IF end > Len(q) \/ TooDeep(k) THEN [ok |-> FALSE, pos |-> x, keys |-> <<>>]
                    ELSE [next EXCEPT !.keys = <<key>> \o @]
      BY <2>1, <3>1 DEF SubscriptsBody, end
    <3>3. ~(end > Len(q))
      BY <1>0, <2>3, <2>4
    <3> HIDE DEF next, key
    <3> QED BY <2>3, <3>2, <3>3
  <2>6. CASE TooDeep(k)
    BY <2>5, <2>6 DEF x
  <2>7. CASE ~TooDeep(k)
    <3>1. k + 1 \in G
      <4>1. k + 1 \in k + 1 .. MaxKeyDepth
        BY <1>0, <2>7 DEF TooDeep
      <4> HIDE DEF G
      <4> QED BY <1>2, <4>1
    <3>2. ~next.ok
      BY <2>1, <2>3, <3>1
    <3> HIDE DEF next, key
    <3>3. d[x][k].ok = next.ok
      BY <2>5, <2>7
    <3> QED BY <3>2, <3>3 DEF x
  <2> QED BY <2>6, <2>7
<1>3. 1 \in G
  <2> HIDE DEF G
  <2>1. \A k \in 0 .. MaxKeyDepth : k \in G
    BY <1>0, <1>2, Downwards
  <2> QED BY <1>0, <2>1
<1> QED BY <1>1, <1>3

\* A turn at a leaf that is not nested too deep assigns it and goes on behind it.
LEMMA LeafTurns ==
    ASSUME NEW keys \in Seq(Seq(Characters)), keys # <<>>, NEW value \in Seq(Characters),
           NEW q \in Seq(Tokens), NEW p, LeafAt(keys, value, p, q), Len(keys) <= MaxKeyDepth
    PROVE  Turn(q, 1) = [ok |-> TRUE, pos |-> SkipSeparator(q, p[Len(keys)] + Len(value) + 2),
                         params |-> <<[keys |-> keys, value |-> value]>>]
<1> DEFINE K == Len(keys)
           r == p[K]
           l == Len(value)
           subs == Subscripts(q, p[1] + 1)
<1>0. K \in Nat /\ K > 0 /\ Len(q) \in Nat /\ l \in Nat /\ value \in Seq(Tokens)
  <2>1. K \in Nat /\ K > 0 /\ Len(q) \in Nat /\ l \in Nat
    BY LenProperties, EmptySeq
  <2>2. value \in Seq(Tokens)
    BY DEF Tokens
  <2> QED BY <2>1, <2>2
<1>1. BaseEnd(q, 1) = p[1] + 1 /\ SubSeq(q, 1, p[1]) = keys[1]
  BY BaseOfLeaf
<1>2. subs = [ok |-> TRUE, pos |-> r + 1, keys |-> SubSeq(keys, 2, K)]
  BY LeafRead
<1>3. /\ r \in Nat /\ r + 1 + l <= Len(q) /\ q[r + 1] = "="
      /\ \A j \in 1 .. l : q[r + 1 + j] = value[j]
      /\ r + 1 + l < Len(q) => q[r + l + 2] = "&"
      /\ p[1] \in Nat
  <2>1. p[1] \in Nat /\ r \in Nat
    BY LeafPlaces
  <2> QED BY <2>1 DEF LeafAt
<1>4. \A j \in 1 .. l : value[j] # "&"
  <2> TAKE j \in 1 .. l
  <2>1. value[j] \in Characters
    BY ElementOfSeq
  <2> QED BY <2>1, CgiAssumption
<1> HIDE DEF r, l
<1>5. At(q, r + 1, "=")
  BY <1>0, <1>3 DEF At
<1>6. Find(q, "&", r + 1 + 1) = r + l + 2
  <2>1. \A j \in r + 1 + 1 .. (r + l + 2) - 1 : q[j] # "&"
    <3> TAKE j \in r + 1 + 1 .. (r + l + 2) - 1
    <3>1. j - r - 1 \in 1 .. l /\ r + 1 + (j - r - 1) = j
      BY <1>0, <1>3
    <3>2. q[j] = value[j - r - 1]
      BY <1>3, <3>1
    <3> QED BY <1>4, <3>1, <3>2
  <2>2. r + 1 + 1 \in Nat /\ r + l + 2 \in r + 1 + 1 .. Len(q) + 1
    BY <1>0, <1>3
  <2>3. r + l + 2 <= Len(q) => q[r + l + 2] = "&"
    BY <1>0, <1>3
  <2> DEFINE a == r + 1 + 1
             b == r + l + 2
  <2>4. a \in Nat /\ b \in a .. Len(q) + 1 /\ (b <= Len(q) => q[b] = "&") /\ \A j \in a .. b - 1 : q[j] # "&"
    BY <2>1, <2>2, <2>3
  <2> HIDE DEF a, b
  <2>5. Find(q, "&", a) = b
    BY <1>0, <2>4, FindUnique
  <2> QED BY <2>5 DEF a, b
<1>7. SubSeq(q, r + 1 + 1, (r + l + 2) - 1) = value
  <2>1. /\ r + 1 + 1 \in 1 .. Len(q) + 1 /\ (r + l + 2) - 1 = (r + 1 + 1) + l - 1 /\ (r + l + 2) - 1 <= Len(q)
        /\ \A j \in 1 .. l : q[(r + 1 + 1) + j - 1] = value[j]
    BY <1>0, <1>3
  <2> QED BY <1>0, <2>1, SubSeqIs DEF l
<1>8. <<keys[1]>> \o SubSeq(keys, 2, K) = keys
  <2>1. 0 \in 0 .. Len(keys) - 1 /\ 0 + 1 = 1 /\ 0 + 2 = 2 /\ Len(keys) \in 0 .. Len(keys)
    BY <1>0
  <2>2. <<keys[0 + 1]>> \o SubSeq(keys, 0 + 2, Len(keys)) = SubSeq(keys, 0 + 1, Len(keys))
    BY <2>1, FirstAndRest
  <2>3. SubSeq(keys, 1, Len(keys)) = keys
    OBVIOUS
  <2> QED BY <2>1, <2>2, <2>3
<1>9. (p[1] + 1) - 1 = p[1]
  BY <1>3
<1> DEFINE result == [ok |-> TRUE, pos |-> SkipSeparator(q, r + l + 2), params |-> <<[keys |-> keys, value |-> value]>>]
           all == <<keys[1]>> \o subs.keys
           other == [ok |-> TRUE, pos |-> SkipSeparator(q, subs.pos), params |-> <<>>]
<1>10. subs.ok = TRUE /\ subs.pos = r + 1 /\ all = keys
  BY <1>2, <1>8
<1>11. Turn(q, 1) =
         IF ~subs.ok THEN [ok |-> FALSE, pos |-> 1, params |-> <<>>]
         ELSE IF At(q, subs.pos, "=")
         THEN [ok |-> TRUE, pos |-> SkipSeparator(q, Find(q, "&", subs.pos + 1)),
               params |-> <<[keys |-> all, value |-> SubSeq(q, subs.pos + 1, Find(q, "&", subs.pos + 1) - 1)]>>]
         ELSE other
  BY <1>1, <1>9 DEF Turn
<1> HIDE DEF subs, all, other
<1>12. Turn(q, 1) = result
  BY <1>5, <1>6, <1>7, <1>10, <1>11
<1> QED BY <1>12 DEF r, l

\* A leaf that is not nested too deep is read back.
LEMMA LeafParses ==
    ASSUME NEW keys \in Seq(Seq(Characters)), keys # <<>>, NEW value \in Seq(Characters),
           NEW q \in Seq(Tokens), NEW p, LeafAt(keys, value, p, q), Len(keys) <= MaxKeyDepth,
           Len(q) = p[Len(keys)] + Len(value) + 1
    PROVE  Parse(q) = [ok |-> TRUE, params |-> <<[keys |-> keys, value |-> value]>>]
<1> DEFINE leaf == [keys |-> keys, value |-> value]
<1>0. Len(q) \in Nat /\ 1 \in 1 .. Len(q) /\ p[Len(keys)] + Len(value) + 2 = Len(q) + 1
  <2>1. p[Len(keys)] \in Nat /\ Len(value) \in Nat /\ Len(q) \in Nat
    BY LeafPlaces
  <2> QED BY <2>1
<1>1. PICK f : Parse(q) = f[1] /\ IsLoop(f, q)
  BY <1>0, ParseIs
<1>2. Turn(q, 1) = [ok |-> TRUE, pos |-> SkipSeparator(q, p[Len(keys)] + Len(value) + 2), params |-> <<leaf>>]
  BY LeafTurns
<1>3. SkipSeparator(q, Len(q) + 1) = Len(q) + 1
  BY <1>0 DEF SkipSeparator, At
<1> HIDE DEF leaf
<1>4. Turn(q, 1) = [ok |-> TRUE, pos |-> Len(q) + 1, params |-> <<leaf>>]
  BY <1>0, <1>2, <1>3
<1>5. f[1] = [f[Len(q) + 1] EXCEPT !.params = <<leaf>> \o @]
  <2>1. Turn(q, 1).ok /\ Turn(q, 1).pos = Len(q) + 1 /\ Turn(q, 1).params = <<leaf>>
    BY <1>4
  <2> QED BY <1>0, <1>1, <2>1 DEF IsLoop
<1>6. f[Len(q) + 1] = [ok |-> TRUE, params |-> <<>>]
  BY <1>1 DEF IsLoop
<1>7. f[1] = InFront(<<leaf>>, [ok |-> TRUE, params |-> <<>>])
  BY <1>5, <1>6 DEF InFront
<1>8. InFront(<<leaf>>, [ok |-> TRUE, params |-> <<>>]) = [ok |-> TRUE, params |-> <<leaf>> \o <<>>]
  BY InFrontOf
<1>9. <<leaf>> \o <<>> = <<leaf>>
  OBVIOUS
<1> QED BY <1>1, <1>7, <1>8, <1>9 DEF leaf

\* One that is nested too deep ends the loop.
LEMMA LeafStops ==
    ASSUME NEW keys \in Seq(Seq(Characters)), keys # <<>>, NEW value \in Seq(Characters),
           NEW q \in Seq(Tokens), NEW p, LeafAt(keys, value, p, q), Len(keys) > MaxKeyDepth
    PROVE  Parse(q) = [ok |-> FALSE, params |-> <<>>]
<1>0. Len(q) \in Nat /\ 1 \in 1 .. Len(q)
  <2>1. p[Len(keys)] \in Nat /\ Len(value) \in Nat /\ Len(q) \in Nat
    BY LeafPlaces
  <2>2. p[Len(keys)] + 1 + Len(value) <= Len(q)
    BY DEF LeafAt
  <2> QED BY <2>1, <2>2
<1>1. PICK f : Parse(q) = f[1] /\ IsLoop(f, q)
  BY <1>0, ParseIs
<1>2. ~Subscripts(q, BaseEnd(q, 1)).ok
  <2>1. BaseEnd(q, 1) = p[1] + 1
    BY BaseOfLeaf
  <2>2. ~Subscripts(q, p[1] + 1).ok
    BY LeafRefused
  <2> QED BY <2>1, <2>2
<1>3. ~Turn(q, 1).ok
  BY <1>2 DEF Turn
<1> QED BY <1>0, <1>1, <1>3 DEF IsLoop

-----------------------------------------------------------------------------
\* A parameter as params2cgi writes it.
Leaf(param) == RenderKeys(param.keys) \o <<"=">> \o param.value

\* The parameters of a tree: paths of one key at least, and values.
Leaves == [keys : Seq(Seq(Characters)) \ {<<>>}, value : Seq(Characters)]

\* The keys stand in a longer string where they stand at its beginning.
LEMMA PlacesInside ==
    ASSUME NEW keys \in Seq(Seq(Characters)), keys # <<>>, NEW p, NEW w \in Seq(Tokens), KeyPlaces(p, keys, w),
           NEW q \in Seq(Tokens), Len(w) <= Len(q), \A j \in 1 .. Len(w) : q[j] = w[j]
    PROVE  KeyPlaces(p, keys, q)
<1>0. Len(keys) \in Nat /\ Len(keys) > 0 /\ Len(w) \in Nat /\ Len(q) \in Nat
  BY LenProperties, EmptySeq
<1>1. p \in [1 .. Len(keys) -> Nat] /\ \A k \in 1 .. Len(keys) : p[k] \in Nat
  BY DEF KeyPlaces
<1>2. /\ p[1] = Len(keys[1]) /\ p[1] <= Len(q)
      /\ \A j \in 1 .. p[1] : q[j] = keys[1][j]
  <2>1. p[1] \in Nat
    BY <1>0, <1>1
  <2>2. p[1] = Len(keys[1]) /\ p[1] <= Len(w) /\ \A j \in 1 .. p[1] : w[j] = keys[1][j]
    BY DEF KeyPlaces
  <2> DEFINE e == p[1]
  <2>3. e \in Nat /\ e <= Len(w) /\ \A j \in 1 .. e : w[j] = keys[1][j]
    BY <2>1, <2>2
  <2> HIDE DEF e
  <2>4. e <= Len(q) /\ \A j \in 1 .. e : q[j] = keys[1][j]
    BY <1>0, <2>3
  <2> QED BY <2>2, <2>4 DEF e
<1>3. ASSUME NEW k \in 2 .. Len(keys)
      PROVE  /\ p[k] = p[k - 1] + Len(keys[k]) + 2 /\ p[k] <= Len(q)
             /\ q[p[k - 1] + 1] = "[" /\ q[p[k]] = "]"
             /\ \A j \in 1 .. Len(keys[k]) : q[p[k - 1] + 1 + j] = keys[k][j]
  <2>1. /\ p[k] = p[k - 1] + Len(keys[k]) + 2 /\ p[k] <= Len(w)
        /\ w[p[k - 1] + 1] = "[" /\ w[p[k]] = "]"
        /\ \A j \in 1 .. Len(keys[k]) : w[p[k - 1] + 1 + j] = keys[k][j]
    BY DEF KeyPlaces
  <2>2. k \in 1 .. Len(keys) /\ k - 1 \in 1 .. Len(keys)
    BY <1>0
  <2> DEFINE o == p[k - 1]
             e == p[k]
             key == keys[k]
             n == Len(key)
  <2>3. o \in Nat /\ e \in Nat /\ n \in Nat
    <3>1. keys[k] \in Seq(Characters)
      BY <2>2, ElementOfSeq
    <3>2. n \in Nat
      BY <3>1
    <3> QED BY <1>1, <2>2, <3>2
  <2>4. /\ e = o + n + 2 /\ e <= Len(w) /\ w[o + 1] = "[" /\ w[e] = "]"
        /\ \A j \in 1 .. n : w[o + 1 + j] = key[j]
    BY <2>1
  <2> HIDE DEF o, e, n, key
  <2>5. /\ e <= Len(q) /\ q[o + 1] = "[" /\ q[e] = "]"
        /\ \A j \in 1 .. n : q[o + 1 + j] = key[j]
    <3>1. o + 1 \in 1 .. Len(w) /\ e \in 1 .. Len(w) /\ e <= Len(q)
      BY <1>0, <2>3, <2>4
    <3>2. \A j \in 1 .. n : q[o + 1 + j] = key[j]
      <4> TAKE j \in 1 .. n
      <4>1. o + 1 + j \in 1 .. Len(w)
        BY <1>0, <2>3, <2>4
      <4> QED BY <2>4, <4>1
    <3>3. q[o + 1] = "[" /\ q[e] = "]"
      BY <2>4, <3>1
    <3> QED BY <3>1, <3>2, <3>3
  <2> QED BY <2>4, <2>5 DEF o, e, n, key
<1> QED BY <1>1, <1>2, <1>3 DEF KeyPlaces

\* A string that begins with a written parameter, at its end or before a separator, begins with a leaf.
LEMMA LeafIsAt ==
    ASSUME NEW param \in Leaves
    PROVE  /\ Leaf(param) \in Seq(Tokens) /\ Len(Leaf(param)) > 0
           /\ \A q \in Seq(Tokens) : Part(Leaf(param), q, 0) =>
                 \E p : /\ LeafAt(param.keys, param.value, p, q)
                        /\ Len(Leaf(param)) = p[Len(param.keys)] + Len(param.value) + 1
<1> DEFINE keys  == param.keys
           value == param.value
           r     == RenderKeys(keys)
           sign  == <<"=">>
           front == r \o sign
           leaf  == front \o value
<1>0. keys \in Seq(Seq(Characters)) /\ keys # <<>> /\ value \in Seq(Characters)
  BY DEF Leaves
<1> HIDE DEF keys, value
<1>1. /\ r \in Seq(Tokens)
      /\ \E p : KeyPlaces(p, keys, r) /\ p[Len(keys)] = Len(r)
  BY <1>0, RenderedKeys
<1>2. value \in Seq(Tokens) /\ sign \in Seq(Tokens) /\ Len(sign) = 1 /\ sign[1] = "="
  BY <1>0 DEF Tokens
<1>3. Leaf(param) = leaf
  BY DEF Leaf, keys, value
<1> HIDE DEF r, sign
<1>4. /\ Len(front) = Len(r) + Len(sign)
      /\ \A i \in 1 .. Len(r) : front[i] = r[i]
      /\ \A j \in 1 .. Len(sign) : front[Len(r) + j] = sign[j]
  <2>1. r \in Seq(Tokens) /\ sign \in Seq(Tokens)
    BY <1>1, <1>2
  <2> QED BY <2>1, ConcatOf
<1>5. front \in Seq(Tokens)
  BY <1>1, <1>2
<1> HIDE DEF front
<1>6. /\ Len(leaf) = Len(front) + Len(value)
      /\ \A i \in 1 .. Len(front) : leaf[i] = front[i]
      /\ \A j \in 1 .. Len(value) : leaf[Len(front) + j] = value[j]
  BY <1>2, <1>5, ConcatOf
<1>7. leaf \in Seq(Tokens)
  BY <1>2, <1>5
<1> HIDE DEF leaf
<1>8. Len(r) \in Nat /\ Len(value) \in Nat /\ Len(front) = Len(r) + 1 /\ Len(leaf) = Len(r) + Len(value) + 1
  <2>1. Len(r) \in Nat /\ Len(value) \in Nat
    BY <1>1, <1>2
  <2> QED BY <1>2, <1>4, <1>6, <2>1
<1>9. /\ \A i \in 1 .. Len(r) : leaf[i] = r[i]
      /\ leaf[Len(r) + 1] = "="
      /\ \A j \in 1 .. Len(value) : leaf[Len(r) + 1 + j] = value[j]
  <2>1. ASSUME NEW i \in 1 .. Len(r) PROVE leaf[i] = r[i]
    <3>1. i \in 1 .. Len(front)
      BY <1>8
    <3> QED BY <1>4, <1>6, <3>1
  <2>2. leaf[Len(r) + 1] = "="
    <3>1. Len(r) + 1 \in 1 .. Len(front) /\ 1 \in 1 .. Len(sign)
      BY <1>2, <1>8
    <3> QED BY <1>2, <1>4, <1>6, <3>1
  <2> QED BY <1>6, <1>8, <2>1, <2>2
<1>10. ASSUME NEW q \in Seq(Tokens), Part(leaf, q, 0)
       PROVE  \E p : LeafAt(keys, value, p, q) /\ Len(leaf) = p[Len(keys)] + Len(value) + 1
  <2>1. PICK p : KeyPlaces(p, keys, r) /\ p[Len(keys)] = Len(r)
    BY <1>1
  <2>2. /\ Len(q) \in Nat /\ Len(leaf) <= Len(q)
        /\ \A k \in 1 .. Len(leaf) : q[k] = leaf[k]
        /\ Len(leaf) < Len(q) => q[Len(leaf) + 1] = "&"
    <3>1. Len(leaf) \in Nat /\ Len(q) \in Nat
      BY <1>7
    <3>2. \A k \in 1 .. Len(leaf) : leaf[k] = q[0 + k]
      BY <1>10 DEF Part
    <3> QED BY <1>10, <3>1, <3>2 DEF Part
  <2>3. Len(r) <= Len(q) /\ \A j \in 1 .. Len(r) : q[j] = r[j]
    <3>1. Len(r) <= Len(q)
      BY <1>8, <2>2
    <3>2. ASSUME NEW j \in 1 .. Len(r) PROVE q[j] = r[j]
      <4>1. j \in 1 .. Len(leaf)
        BY <1>8
      <4> QED BY <1>9, <2>2, <4>1
    <3> QED BY <3>1, <3>2
  <2>4. KeyPlaces(p, keys, q)
    BY <1>0, <1>1, <2>1, <2>3, PlacesInside
  <2>5. /\ Len(r) + 1 + Len(value) <= Len(q)
        /\ q[Len(r) + 1] = "="
        /\ \A j \in 1 .. Len(value) : q[Len(r) + 1 + j] = value[j]
        /\ Len(r) + 1 + Len(value) < Len(q) => q[Len(r) + Len(value) + 2] = "&"
    <3>1. Len(r) + 1 \in 1 .. Len(leaf)
      BY <1>8
    <3>2. ASSUME NEW j \in 1 .. Len(value) PROVE q[Len(r) + 1 + j] = value[j]
      <4>1. Len(r) + 1 + j \in 1 .. Len(leaf)
        BY <1>8
      <4> QED BY <1>9, <2>2, <4>1
    <3>3. q[Len(r) + 1] = "="
      BY <1>9, <2>2, <3>1
    <3>4. Len(r) + 1 + Len(value) = Len(leaf) /\ Len(leaf) + 1 = Len(r) + Len(value) + 2
      BY <1>8
    <3> QED BY <2>2, <3>2, <3>3, <3>4
  <2>6. LeafAt(keys, value, p, q)
    BY <2>1, <2>4, <2>5 DEF LeafAt
  <2>7. Len(leaf) = p[Len(keys)] + Len(value) + 1
    BY <1>8, <2>1
  <2> QED BY <2>6, <2>7
<1>11. Len(leaf) > 0
  BY <1>8
<1> QED BY <1>3, <1>7, <1>10, <1>11 DEF keys, value

\* A written parameter that is not nested too deep is read back, alone; one that is stops the loop.
LEMMA WrittenLeaf ==
    ASSUME NEW param \in Leaves
    PROVE  /\ Len(param.keys) <= MaxKeyDepth => Parse(Leaf(param)) = [ok |-> TRUE, params |-> <<param>>]
           /\ Len(param.keys) > MaxKeyDepth =>
                 \A q \in Seq(Tokens) : Part(Leaf(param), q, 0) => Parse(q) = [ok |-> FALSE, params |-> <<>>]
<1>0. /\ param.keys \in Seq(Seq(Characters)) /\ param.keys # <<>> /\ param.value \in Seq(Characters)
      /\ param = [keys |-> param.keys, value |-> param.value]
  BY DEF Leaves
<1>1. Leaf(param) \in Seq(Tokens)
  BY LeafIsAt
<1>2. ASSUME Len(param.keys) <= MaxKeyDepth
      PROVE  Parse(Leaf(param)) = [ok |-> TRUE, params |-> <<param>>]
  <2>1. Part(Leaf(param), Leaf(param), 0)
    <3>1. Len(Leaf(param)) \in Nat
      BY <1>1
    <3> QED BY <3>1 DEF Part
  <2>2. PICK p : /\ LeafAt(param.keys, param.value, p, Leaf(param))
                 /\ Len(Leaf(param)) = p[Len(param.keys)] + Len(param.value) + 1
    BY <1>1, <2>1, LeafIsAt
  <2> QED BY <1>0, <1>1, <1>2, <2>2, LeafParses
<1>3. ASSUME Len(param.keys) > MaxKeyDepth, NEW q \in Seq(Tokens), Part(Leaf(param), q, 0)
      PROVE  Parse(q) = [ok |-> FALSE, params |-> <<>>]
  <2>1. PICK p : LeafAt(param.keys, param.value, p, q)
    BY <1>3, LeafIsAt
  <2> QED BY <1>0, <1>3, <2>1, LeafStops
<1> QED BY <1>2, <1>3

\* o says in front of which place of the string each parameter is written.
WrittenAt(params, o, str) ==
    LET n == Len(params) IN
    /\ o \in [1 .. n -> Nat] /\ o[1] = 0
    /\ \A i \in 1 .. n :
          /\ o[i] + Len(Leaf(params[i])) <= Len(str)
          /\ \A j \in 1 .. Len(Leaf(params[i])) : str[o[i] + j] = Leaf(params[i])[j]
          /\ i = n => o[i] + Len(Leaf(params[i])) = Len(str)
          /\ i < n => /\ o[i + 1] = o[i] + Len(Leaf(params[i])) + 1
                      /\ o[i + 1] <= Len(str) /\ str[o[i + 1]] = "&"

\* Where params2cgi writes them.
LEMMA RenderWrites ==
    ASSUME NEW params \in Seq(Leaves), params # <<>>
    PROVE  Render(params) \in Seq(Tokens) /\ \E o : WrittenAt(params, o, Render(params))
<1> DEFINE n == Len(params)
           Code(i) == (IF i = 1 THEN <<>> ELSE <<"&">>) \o RenderKeys(params[i].keys) \o <<"=">> \o params[i].value
           z == [i \in 1 .. n |-> Code(i)]
           str == Render(params)
           L(i) == Len(Leaf(params[i]))
<1>0. n \in Nat /\ n > 0
  BY LenProperties, EmptySeq
<1>1. \A i \in 1 .. n : params[i] \in Leaves
  BY <1>0, ElementOfSeq
<1>2. ASSUME NEW i \in 1 .. n
      PROVE  /\ Leaf(params[i]) \in Seq(Tokens) /\ L(i) \in Nat
             /\ i = 1 => Code(i) = Leaf(params[i])
             /\ i # 1 => Code(i) = <<"&">> \o Leaf(params[i])
  <2>1. params[i] \in Leaves
    BY <1>1
  <2>2. Leaf(params[i]) \in Seq(Tokens) /\ L(i) \in Nat
    <3>1. Leaf(params[i]) \in Seq(Tokens)
      BY <2>1, LeafIsAt
    <3> QED BY <3>1
  <2> DEFINE r == RenderKeys(params[i].keys)
             sign == <<"=">>
             value == params[i].value
             mark == <<"&">>
  <2>3. r \in Seq(Tokens) /\ sign \in Seq(Tokens) /\ value \in Seq(Tokens) /\ mark \in Seq(Tokens)
    <3>1. params[i].keys \in Seq(Seq(Characters)) /\ params[i].keys # <<>> /\ value \in Seq(Characters)
      BY <2>1 DEF Leaves
    <3>2. r \in Seq(Tokens)
      BY <3>1, RenderedKeys
    <3>3. sign \in Seq(Tokens) /\ value \in Seq(Tokens) /\ mark \in Seq(Tokens)
      BY <3>1 DEF Tokens
    <3> QED BY <3>2, <3>3
  <2>4. Leaf(params[i]) = (r \o sign) \o value
    BY DEF Leaf
  <2>5. Code(i) = (((IF i = 1 THEN <<>> ELSE mark) \o r) \o sign) \o value
    OBVIOUS
  <2> HIDE DEF r, sign, value, mark, Code
  <2>6. ASSUME i = 1 PROVE Code(i) = Leaf(params[i])
    <3>1. <<>> \o r = r
      BY <2>3
    <3> QED BY <2>4, <2>5, <2>6, <3>1
  <2>7. ASSUME i # 1 PROVE Code(i) = mark \o Leaf(params[i])
    <3>1. (mark \o r) \o sign = mark \o (r \o sign) /\ r \o sign \in Seq(Tokens)
      BY <2>3, ConcatAssociative, ConcatProperties, SMTT(40)
    <3>2. (mark \o (r \o sign)) \o value = mark \o ((r \o sign) \o value)
      <4> DEFINE front == r \o sign
      <4>1. mark \in Seq(Tokens) /\ front \in Seq(Tokens) /\ value \in Seq(Tokens)
        BY <2>3, <3>1
      <4> HIDE DEF front, z, L, str, n
      <4>2. (mark \o front) \o value = mark \o (front \o value)
        BY <4>1, ConcatAssociative, SMTT(40)
      <4> QED BY <4>2 DEF front
    <3> QED BY <2>4, <2>5, <2>7, <3>1, <3>2
  <2> QED BY <2>2, <2>6, <2>7 DEF mark
<1>3. ASSUME NEW i \in 1 .. n
      PROVE  /\ Code(i) \in Seq(Tokens)
             /\ i = 1 => /\ Len(Code(i)) = L(i)
                         /\ \A j \in 1 .. L(i) : Code(i)[j] = Leaf(params[i])[j]
             /\ i # 1 => /\ Len(Code(i)) = L(i) + 1 /\ Code(i)[1] = "&"
                         /\ \A j \in 1 .. L(i) : Code(i)[1 + j] = Leaf(params[i])[j]
  <2>1. CASE i = 1
    BY <1>2, <2>1
  <2>2. CASE i # 1
    <3> DEFINE mark == <<"&">>
               leaf == Leaf(params[i])
    <3>1. mark \in Seq(Tokens) /\ Len(mark) = 1 /\ mark[1] = "&" /\ 1 \in 1 .. Len(mark)
      BY DEF Tokens
    <3>2. leaf \in Seq(Tokens) /\ L(i) = Len(leaf) /\ Len(leaf) \in Nat /\ Code(i) = mark \o leaf
      BY <1>2, <2>2
    <3> HIDE DEF mark, leaf, L, Code
    <3>3. /\ Len(mark \o leaf) = Len(mark) + Len(leaf)
          /\ \A j \in 1 .. Len(mark) : (mark \o leaf)[j] = mark[j]
          /\ \A j \in 1 .. Len(leaf) : (mark \o leaf)[Len(mark) + j] = leaf[j]
      <4>1. mark \in Seq(Tokens) /\ leaf \in Seq(Tokens)
        BY <3>1, <3>2
      <4> QED BY <4>1, ConcatOf
    <3>4. mark \o leaf \in Seq(Tokens)
      BY <3>1, <3>2
    <3>5. Len(Code(i)) = L(i) + 1 /\ Code(i)[1] = "&"
      BY <3>1, <3>2, <3>3
    <3>6. \A j \in 1 .. L(i) : Code(i)[1 + j] = leaf[j]
      BY <3>1, <3>2, <3>3
    <3> QED BY <2>2, <3>2, <3>4, <3>5, <3>6 DEF leaf
  <2> QED BY <2>1, <2>2
<1> HIDE DEF Code
<1>4. z \in Seq(Seq(Tokens)) /\ Len(z) = n /\ z # <<>> /\ \A i \in 1 .. n : z[i] = Code(i)
  <2>1. \A i \in 1 .. n : Code(i) \in Seq(Tokens)
    BY <1>3
  <2>2. z \in Seq(Seq(Tokens)) /\ Len(z) = n
    BY <1>0, <2>1
  <2>3. \A i \in 1 .. n : z[i] = Code(i)
    OBVIOUS
  <2> QED BY <1>0, <2>2, <2>3, EmptySeq
<1>5. str = FlattenSeq(z)
  BY DEF Render, Code
<1> HIDE DEF z, str
<1>6. str \in Seq(Tokens)
  BY <1>4, <1>5, FlattenType
<1>7. PICK p \in [0 .. n -> Nat] :
         /\ p[0] = 0 /\ p[n] = Len(str)
         /\ \A k \in 1 .. n :
               /\ p[k] = p[k - 1] + Len(z[k]) /\ p[k] <= Len(str)
               /\ \A j \in 1 .. Len(z[k]) : str[p[k - 1] + j] = z[k][j]
  <2> HIDE DEF n
  <2>1. PICK p \in [0 .. Len(z) -> Nat] :
         /\ p[0] = 0 /\ p[Len(z)] = Len(FlattenSeq(z))
         /\ \A k \in 1 .. Len(z) :
               /\ p[k] = p[k - 1] + Len(z[k]) /\ p[k] <= Len(FlattenSeq(z))
               /\ \A j \in 1 .. Len(z[k]) : FlattenSeq(z)[p[k - 1] + j] = z[k][j]
    <3>1. z \in Seq(Seq(Tokens)) /\ z # <<>>
      BY <1>4
    <3> QED BY <3>1, FlattenPlaces, ZenonT(60)
  <2>2. Len(z) = n
    BY <1>4
  <2> QED BY <1>5, <2>1, <2>2
<1> DEFINE o == [i \in 1 .. n |-> IF i = 1 THEN 0 ELSE p[i - 1] + 1]
<1> HIDE DEF L, n
<1>8. \A i \in 1 .. n : /\ i - 1 \in 0 .. n /\ p[i - 1] \in Nat
                        /\ i = 1 => o[i] = 0
                        /\ i # 1 => o[i] = p[i - 1] + 1
  <2> TAKE i \in 1 .. n
  <2>1. i - 1 \in 0 .. n
    BY <1>0
  <2> QED BY <1>7, <2>1
<1>9. o \in [1 .. n -> Nat] /\ o[1] = 0
  <2>1. \A i \in 1 .. n : (IF i = 1 THEN 0 ELSE p[i - 1] + 1) \in Nat
    BY <1>8
  <2>2. 1 \in 1 .. n
    BY <1>0
  <2> QED BY <1>8, <2>1, <2>2
<1> HIDE DEF o
<1>10. ASSUME NEW i \in 1 .. n
       PROVE  /\ o[i] + L(i) = p[i] /\ p[i] <= Len(str)
              /\ \A j \in 1 .. L(i) : str[o[i] + j] = Leaf(params[i])[j]
  <2>1. /\ p[i] = p[i - 1] + Len(Code(i)) /\ p[i] <= Len(str)
        /\ \A j \in 1 .. Len(Code(i)) : str[p[i - 1] + j] = Code(i)[j]
    BY <1>4, <1>7
  <2>2. L(i) \in Nat
    BY <1>2
  <2>3. CASE i = 1
    <3>1. p[i - 1] = 0 /\ o[i] = 0 /\ Len(Code(i)) = L(i)
      BY <1>3, <1>7, <1>8, <2>2, <2>3
    <3>2. \A j \in 1 .. L(i) : Code(i)[j] = Leaf(params[i])[j]
      BY <1>3, <2>3
    <3> QED BY <2>1, <2>2, <3>1, <3>2
  <2>4. CASE i # 1
    <3> DEFINE a == p[i - 1]
               c == Code(i)
    <3>1. a \in Nat /\ o[i] = a + 1 /\ Len(c) = L(i) + 1
      BY <1>3, <1>8, <2>4
    <3>2. \A j \in 1 .. L(i) : c[1 + j] = Leaf(params[i])[j]
      BY <1>3, <2>4
    <3>3. p[i] = a + Len(c) /\ \A j \in 1 .. Len(c) : str[a + j] = c[j]
      BY <2>1
    <3> HIDE DEF a, c
    <3>4. o[i] + L(i) = p[i]
      BY <2>2, <3>1, <3>3
    <3>5. ASSUME NEW j \in 1 .. L(i) PROVE str[o[i] + j] = Leaf(params[i])[j]
      <4>1. 1 + j \in 1 .. Len(c) /\ a + (1 + j) = o[i] + j
        BY <2>2, <3>1
      <4>2. str[a + (1 + j)] = c[1 + j]
        BY <3>3, <4>1
      <4> QED BY <3>2, <4>1, <4>2
    <3> QED BY <2>1, <3>4, <3>5
  <2> QED BY <2>3, <2>4
<1>11. ASSUME NEW i \in 1 .. n, i < n
       PROVE  /\ o[i + 1] = o[i] + L(i) + 1
              /\ o[i + 1] <= Len(str) /\ str[o[i + 1]] = "&"
  <2>1. i + 1 \in 1 .. n /\ i + 1 # 1 /\ (i + 1) - 1 = i
    BY <1>0, <1>11
  <2>2. o[i + 1] = p[i] + 1 /\ p[i] \in Nat
    <3>1. o[i + 1] = p[(i + 1) - 1] + 1 /\ p[(i + 1) - 1] \in Nat
      BY <1>8, <2>1
    <3> QED BY <2>1, <3>1
  <2>3. Len(Code(i + 1)) = L(i + 1) + 1 /\ Code(i + 1)[1] = "&" /\ L(i + 1) \in Nat
    BY <1>2, <1>3, <2>1
  <2>4. /\ p[i + 1] = p[i] + Len(Code(i + 1)) /\ p[i + 1] <= Len(str)
        /\ \A j \in 1 .. Len(Code(i + 1)) : str[p[i] + j] = Code(i + 1)[j]
    <3>1. /\ p[i + 1] = p[(i + 1) - 1] + Len(z[i + 1]) /\ p[i + 1] <= Len(str)
          /\ \A j \in 1 .. Len(z[i + 1]) : str[p[(i + 1) - 1] + j] = z[i + 1][j]
      BY <1>7, <2>1
    <3>2. z[i + 1] = Code(i + 1)
      BY <1>4, <2>1
    <3> QED BY <2>1, <3>1, <3>2
  <2>5. 1 \in 1 .. Len(Code(i + 1))
    BY <2>3
  <2>6. str[p[i] + 1] = "&"
    BY <2>3, <2>4, <2>5
  <2>7. p[i] + 1 <= Len(str) /\ o[i] + L(i) = p[i]
    <3>1. o[i] + L(i) = p[i]
      BY <1>10
    <3>2. Len(str) \in Nat
      BY <1>6
    <3> QED BY <2>2, <2>3, <2>4, <3>1, <3>2
  <2> QED BY <2>2, <2>6, <2>7
<1>12. WrittenAt(params, o, str)
  <2>1. ASSUME NEW i \in 1 .. n PROVE i = n => o[i] + L(i) = Len(str)
    BY <1>7, <1>10
  <2> QED BY <1>9, <1>10, <1>11, <2>1 DEF WrittenAt, L, n
<1> QED BY <1>6, <1>12 DEF str

\* What is written from parameter i on.
From(i, o, str) == SubSeq(str, o[i] + 1, Len(str))

\* It begins with that parameter; behind it, and a separator, follows the rest.
LEMMA FromLeaf ==
    ASSUME NEW params \in Seq(Leaves), params # <<>>, NEW str \in Seq(Tokens), NEW o, WrittenAt(params, o, str),
           NEW i \in 1 .. Len(params)
    PROVE  LET q == From(i, o, str)
               l == Len(Leaf(params[i]))
           IN  /\ q \in Seq(Tokens) /\ l \in Nat /\ Part(Leaf(params[i]), q, 0)
               /\ SubSeq(q, 1, l) = Leaf(params[i])
               /\ i = Len(params) => q = Leaf(params[i])
               /\ i < Len(params) => /\ l + 1 \in 1 .. Len(q) /\ q[l + 1] = "&"
                                     /\ SubSeq(q, l + 1 + 1, Len(q)) = From(i + 1, o, str)
<1> DEFINE n == Len(params)
           leaf == Leaf(params[i])
           l == Len(leaf)
           q == From(i, o, str)
           a == o[i]
           S == Len(str)
<1>0. n \in Nat /\ S \in Nat /\ leaf \in Seq(Tokens) /\ l \in Nat
  <2>1. n \in Nat /\ S \in Nat
    OBVIOUS
  <2>2. params[i] \in Leaves
    BY ElementOfSeq
  <2>3. leaf \in Seq(Tokens)
    BY <2>2, LeafIsAt
  <2>4. l \in Nat
    BY <2>3
  <2> QED BY <2>1, <2>3, <2>4
<1>1. /\ a \in Nat /\ a + l <= S
      /\ \A j \in 1 .. l : str[a + j] = leaf[j]
      /\ i = n => a + l = S
      /\ i < n => o[i + 1] = a + l + 1 /\ o[i + 1] <= S /\ str[o[i + 1]] = "&"
  <2>1. a \in Nat
    BY DEF WrittenAt
  <2>2. /\ a + l <= S
        /\ \A j \in 1 .. l : str[a + j] = leaf[j]
        /\ i = n => a + l = S
        /\ i < n => o[i + 1] = a + l + 1 /\ o[i + 1] <= S /\ str[o[i + 1]] = "&"
    BY DEF WrittenAt
  <2> QED BY <2>1, <2>2
<1>2. q = SubSeq(str, a + 1, S)
  BY DEF From
<1> HIDE DEF leaf, l, q, a, n
<1>3. q \in Seq(Tokens) /\ Len(q) = S - a /\ \A j \in 1 .. S - a : q[j] = str[a + j]
  <2>1. q \in Seq(Tokens)
    BY <1>0, <1>1, <1>2
  <2>2. Len(q) = S - a
    BY <1>0, <1>1, <1>2
  <2>3. \A j \in 1 .. S - a : q[j] = str[a + 1 + j - 1]
    BY <1>0, <1>1, <1>2
  <2>4. \A j \in 1 .. S - a : a + 1 + j - 1 = a + j
    BY <1>0, <1>1
  <2> QED BY <2>1, <2>2, <2>3, <2>4
<1> HIDE DEF S
<1>4. /\ l <= Len(q) /\ Len(q) \in Nat
      /\ \A j \in 1 .. l : q[j] = leaf[j]
  <2>1. l <= Len(q) /\ Len(q) \in Nat
    BY <1>0, <1>1, <1>3
  <2>2. ASSUME NEW j \in 1 .. l PROVE q[j] = leaf[j]
    <3>1. j \in 1 .. S - a
      BY <1>0, <1>1
    <3> QED BY <1>1, <1>3, <3>1
  <2> QED BY <2>1, <2>2
<1>5. i < n => l + 1 \in 1 .. Len(q) /\ q[l + 1] = "&"
  <2> SUFFICES ASSUME i < n PROVE l + 1 \in 1 .. Len(q) /\ q[l + 1] = "&"
    OBVIOUS
  <2>1. l + 1 \in 1 .. S - a /\ a + (l + 1) = a + l + 1
    BY <1>0, <1>1
  <2>2. q[l + 1] = str[a + (l + 1)]
    BY <1>3, <2>1
  <2> QED BY <1>1, <1>3, <2>1, <2>2
<1>6. i = n => Len(q) = l
  BY <1>0, <1>1, <1>3
<1>7. i = n \/ i < n
  BY <1>0 DEF n
<1>8. Part(leaf, q, 0)
  <2>1. 0 + Len(leaf) = l /\ 0 + Len(leaf) + 1 = l + 1
    BY <1>0 DEF l
  <2>2. \A k \in 1 .. Len(leaf) : leaf[k] = q[0 + k]
    BY <1>0, <1>4 DEF l
  <2>3. l < Len(q) => q[l + 1] = "&"
    BY <1>0, <1>4, <1>5, <1>6, <1>7
  <2> QED BY <1>4, <2>1, <2>2, <2>3 DEF Part
<1>9. SubSeq(q, 1, l) = leaf
  <2>1. /\ 1 \in 1 .. Len(q) + 1 /\ l = 1 + Len(leaf) - 1
        /\ \A j \in 1 .. Len(leaf) : q[1 + j - 1] = leaf[j]
    BY <1>0, <1>4 DEF l
  <2> QED BY <1>0, <1>3, <1>4, <2>1, SubSeqIs
<1>10. i = n => q = leaf
  <2> SUFFICES ASSUME i = n PROVE q = leaf
    OBVIOUS
  <2>1. SubSeq(q, 1, Len(q)) = leaf
    BY <1>6, <1>9
  <2>2. SubSeq(q, 1, Len(q)) = q
    BY <1>3
  <2> QED BY <2>1, <2>2
<1>11. i < n => SubSeq(q, l + 1 + 1, Len(q)) = From(i + 1, o, str)
  <2> SUFFICES ASSUME i < n PROVE SubSeq(q, l + 1 + 1, Len(q)) = From(i + 1, o, str)
    OBVIOUS
  <2> DEFINE v == From(i + 1, o, str)
             b == o[i + 1]
  <2>1. b = a + l + 1 /\ b <= S /\ b \in Nat
    BY <1>0, <1>1
  <2>2. v = SubSeq(str, b + 1, S)
    BY DEF From, S
  <2> HIDE DEF v, b
  <2>3. v \in Seq(Tokens) /\ Len(v) = S - b /\ \A j \in 1 .. S - b : v[j] = str[b + j]
    <3> USE DEF S
    <3>0. b \in Nat /\ b <= S /\ S \in Nat
      BY <1>0, <2>1
    <3>1. v \in Seq(Tokens)
      BY <2>2, <3>0
    <3>2. Len(v) = S - b
      BY <2>2, <3>0
    <3>3. \A j \in 1 .. S - b : v[j] = str[b + 1 + j - 1]
      BY <2>2, <3>0
    <3>4. \A j \in 1 .. S - b : b + 1 + j - 1 = b + j
      BY <1>0, <2>1
    <3> QED BY <3>1, <3>2, <3>3, <3>4
  <2>4. /\ l + 1 + 1 \in 1 .. Len(q) + 1
        /\ Len(q) = (l + 1 + 1) + Len(v) - 1
    BY <1>0, <1>1, <1>3, <2>1, <2>3
  <2>5. ASSUME NEW j \in 1 .. Len(v) PROVE q[(l + 1 + 1) + j - 1] = v[j]
    <3>1. (l + 1 + 1) + j - 1 \in 1 .. S - a /\ a + ((l + 1 + 1) + j - 1) = b + j /\ j \in 1 .. S - b
      BY <1>0, <1>1, <2>1, <2>3
    <3> QED BY <1>3, <2>3, <3>1
  <2>6. SubSeq(q, l + 1 + 1, Len(q)) = v
    <3> DEFINE c == l + 1 + 1
               e == Len(q)
    <3>1. /\ q \in Seq(Tokens) /\ v \in Seq(Tokens) /\ c \in 1 .. Len(q) + 1
          /\ e = c + Len(v) - 1 /\ e <= Len(q) /\ \A j \in 1 .. Len(v) : q[c + j - 1] = v[j]
      BY <1>3, <1>4, <2>3, <2>4, <2>5
    <3> HIDE DEF c, e
    <3>2. SubSeq(q, c, e) = v
      BY <3>1, SubSeqIs
    <3> QED BY <3>2 DEF c, e
  <2> QED BY <2>6 DEF v
<1> QED BY <1>0, <1>3, <1>5, <1>8, <1>9, <1>10, <1>11 DEF leaf, l, q, n

\* cgi2params gives back what params2cgi wrote, up to the first parameter that is nested too deep.
LEMMA RenderParses ==
    ASSUME NEW params \in Seq(Leaves), params # <<>>, NEW stop \in 1 .. Len(params) + 1,
           \A i \in 1 .. stop - 1 : Len(params[i].keys) <= MaxKeyDepth,
           stop <= Len(params) => Len(params[stop].keys) > MaxKeyDepth
    PROVE  Parse(Render(params)) = [ok |-> stop = Len(params) + 1, params |-> SubSeq(params, 1, stop - 1)]
<1> DEFINE n == Len(params)
           all == stop = n + 1
           str == Render(params)
           Read(i) == SubSeq(params, i, stop - 1)
<1>0. n \in Nat /\ n > 0 /\ stop \in Nat /\ stop >= 1 /\ stop <= n + 1
  BY LenProperties, EmptySeq
<1>1. str \in Seq(Tokens)
  BY RenderWrites
<1>2. PICK o : WrittenAt(params, o, str)
  BY RenderWrites
<1> HIDE DEF str
<1> DEFINE G == {i \in 0 .. n : i = 0 \/ (i <= stop => Parse(From(i, o, str)) = [ok |-> all, params |-> Read(i)])}
<1>3. ASSUME NEW i \in 0 .. n, \A m \in i + 1 .. n : m \in G PROVE i \in G
  <2> SUFFICES ASSUME i # 0, i <= stop
               PROVE  Parse(From(i, o, str)) = [ok |-> all, params |-> Read(i)]
    OBVIOUS
  <2>0. i \in 1 .. n /\ params[i] \in Leaves
    <3>1. i \in 1 .. n
      BY <1>0
    <3> QED BY <3>1, ElementOfSeq
  <2> DEFINE q == From(i, o, str)
             leaf == Leaf(params[i])
             l == Len(leaf)
  <2>1. /\ q \in Seq(Tokens) /\ l \in Nat /\ Part(leaf, q, 0) /\ SubSeq(q, 1, l) = leaf
        /\ i = n => q = leaf
        /\ i < n => /\ l + 1 \in 1 .. Len(q) /\ q[l + 1] = "&"
                    /\ SubSeq(q, l + 1 + 1, Len(q)) = From(i + 1, o, str)
    BY <1>1, <1>2, <2>0, FromLeaf
  <2> HIDE DEF q, leaf, l
  <2>2. CASE i = stop
    <3>1. Len(params[i].keys) > MaxKeyDepth
      BY <1>0, <2>0, <2>2
    <3>2. Parse(q) = [ok |-> FALSE, params |-> <<>>]
      BY <2>0, <2>1, <3>1, WrittenLeaf DEF leaf
    <3>3. Read(i) = <<>>
      BY <1>0, <2>2
    <3>4. all = FALSE
      BY <1>0, <2>0, <2>2
    <3> HIDE DEF all, Read
    <3> QED BY <3>2, <3>3, <3>4 DEF q
  <2>3. CASE i < stop
    <3>1. Parse(leaf) = [ok |-> TRUE, params |-> <<params[i]>>]
      <4>1. i \in 1 .. stop - 1
        BY <1>0, <2>0, <2>3
      <4> QED BY <2>0, <4>1, WrittenLeaf DEF leaf
    <3>2. <<params[i]>> \o Read(i + 1) = Read(i)
      <4>1. /\ stop - 1 \in 0 .. Len(params) /\ i - 1 \in 0 .. (stop - 1) - 1
            /\ (i - 1) + 1 = i /\ (i - 1) + 2 = i + 1
        BY <1>0, <2>0, <2>3
      <4>2. <<params[(i - 1) + 1]>> \o SubSeq(params, (i - 1) + 2, stop - 1) = SubSeq(params, (i - 1) + 1, stop - 1)
        BY <4>1, FirstAndRest
      <4> QED BY <4>1, <4>2
    <3>3. CASE i = n
      <4>1. stop = n + 1 /\ i + 1 > stop - 1
        BY <1>0, <2>3, <3>3
      <4>2. Read(i + 1) = <<>>
        BY <1>0, <2>0, <4>1
      <4>3. <<params[i]>> \o <<>> = <<params[i]>>
        OBVIOUS
      <4>4. Read(i) = <<params[i]>>
        BY <3>2, <4>2, <4>3
      <4>5. all = TRUE
        BY <4>1
      <4> HIDE DEF all, Read
      <4> QED BY <2>1, <3>1, <3>3, <4>4, <4>5 DEF q
    <3>4. CASE i < n
      <4>1. Parse(From(i + 1, o, str)) = [ok |-> all, params |-> Read(i + 1)]
        <5>1. i + 1 \in i + 1 .. n /\ i + 1 <= stop /\ i + 1 # 0
          BY <1>0, <2>0, <2>3, <3>4
        <5>2. i + 1 \in G
          <6> HIDE DEF G, n
          <6> QED BY <1>3, <5>1
        <5> QED BY <5>1, <5>2
      <4> DEFINE k == l + 1
                 rest == From(i + 1, o, str)
      <4>2. /\ k \in 1 .. Len(q) /\ q[k] = "&" /\ k - 1 = l
            /\ SubSeq(q, k + 1, Len(q)) = rest /\ SubSeq(q, 1, k - 1) = leaf
        BY <2>1, <3>4
      <4> HIDE DEF k, rest
      <4>3. Parse(q) = [Parse(SubSeq(q, k + 1, Len(q))) EXCEPT !.params = Parse(SubSeq(q, 1, k - 1)).params \o @]
        <5>1. Parse(SubSeq(q, 1, k - 1)).ok
          <6>1. Parse(leaf).ok
            BY <3>1
          <6> QED BY <4>2, <6>1
        <5> QED BY <2>1, <4>2, <5>1, ParseSplits
      <4>4. Parse(q) = InFront(Parse(leaf).params, Parse(rest))
        BY <4>2, <4>3 DEF InFront
      <4>5. Parse(leaf).params = <<params[i]>>
        BY <3>1
      <4> HIDE DEF all, Read
      <4>6. Parse(rest) = [ok |-> all, params |-> Read(i + 1)]
        BY <4>1 DEF rest
      <4>7. Parse(q) = InFront(<<params[i]>>, [ok |-> all, params |-> Read(i + 1)])
        BY <4>4, <4>5, <4>6
      <4>8. InFront(<<params[i]>>, [ok |-> all, params |-> Read(i + 1)]) = [ok |-> all, params |-> <<params[i]>> \o Read(i + 1)]
        BY InFrontOf
      <4> QED BY <3>2, <4>7, <4>8 DEF q
    <3>5. i = n \/ i < n
      BY <1>0, <2>0
    <3> QED BY <3>3, <3>4, <3>5
  <2>4. i = stop \/ i < stop
    BY <1>0, <2>0
  <2> HIDE DEF all, Read
  <2> QED BY <2>2, <2>3, <2>4
<1>4. 1 \in G
  <2> HIDE DEF G
  <2>1. \A i \in 0 .. n : i \in G
    BY <1>0, <1>3, Downwards
  <2> QED BY <1>0, <2>1
<1>5. Parse(From(1, o, str)) = [ok |-> all, params |-> Read(1)]
  <2> HIDE DEF all, Read
  <2> QED BY <1>0, <1>4
<1>6. From(1, o, str) = str
  <2>1. o[1] = 0 /\ 0 + 1 = 1
    BY <1>2 DEF WrittenAt
  <2>2. From(1, o, str) = SubSeq(str, 1, Len(str))
    BY <2>1 DEF From
  <2> QED BY <1>1, <2>2
<1>7. Parse(str) = [ok |-> all, params |-> Read(1)]
  <2> HIDE DEF all, Read
  <2> QED BY <1>5, <1>6
<1> QED BY <1>7 DEF str
=============================================================================
