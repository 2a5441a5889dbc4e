--------------------------- MODULE Toolchain_proof ---------------------------
(***************************************************************************)
(* Proofs about the lexer and the assembler, for every source over every   *)
(* set of words.                                                           *)
(***************************************************************************)
EXTENDS Sweep, FiniteSetTheorems, SequenceTheorems, WellFoundedInduction, TLAPS

---------------------------------------------------------------------------
\* Numbers, sets of numbers and induction.

\* A set of naturals that is not empty has a least member.
LEMMA LeastNat ==
  ASSUME NEW S \in SUBSET Nat, S # {}
  PROVE  \E n \in S : \A m \in S : n <= m
<1>1. IsWellFoundedOn(OpToRel(<, Nat), Nat)
  BY NatLessThanWellFounded
<1>2. \E x \in S : \A y \in S : ~(<<y, x>> \in OpToRel(<, Nat))
  BY <1>1, WFMin
<1>3. ASSUME NEW x \in S, NEW y \in S, ~(<<y, x>> \in OpToRel(<, Nat))
      PROVE  x <= y
  BY <1>3 DEF OpToRel
<1> QED
  BY <1>2, <1>3

\* Induction: a set with 0 that has n + 1 with every n has all naturals.
LEMMA SetInduction ==
  ASSUME NEW S, 0 \in S, \A n \in S \cap Nat : n + 1 \in S
  PROVE  Nat \subseteq S
<1> SUFFICES ASSUME Nat \ S # {} PROVE FALSE
  OBVIOUS
<1>1. PICK n \in Nat \ S : \A m \in Nat \ S : n <= m
  BY LeastNat
<1>2. n # 0 /\ n - 1 \in Nat
  BY <1>1
<1>3. n - 1 \in S
  BY <1>1, <1>2
<1>4. (n - 1) + 1 \in S
  BY <1>2, <1>3
<1> QED
  BY <1>1, <1>4

LEMMA MinIs ==
  ASSUME NEW S \in SUBSET Nat, S # {}
  PROVE  Min(S) \in S /\ \A m \in S : Min(S) <= m
  BY LeastNat DEF Min

\* A set of naturals below a bound has a greatest member.
LEMMA MaxIs ==
  ASSUME NEW n \in Nat, NEW S \in SUBSET (0..n), S # {}
  PROVE  Max(S) \in S /\ \A m \in S : m <= Max(S)
<1> DEFINE D == {d \in Nat : n - d \in S}
<1>1. PICK x \in S : TRUE
  OBVIOUS
<1>2. n - x \in D
  <2>1. x \in 0..n /\ n - (n - x) = x
    OBVIOUS
  <2> QED
    BY <2>1
<1>3. PICK d \in D : \A e \in D : d <= e
  BY <1>2, LeastNat
<1>4. n - d \in S
  BY <1>3
<1>5. ASSUME NEW m \in S PROVE n - d >= m
  <2>1. m \in 0..n /\ n - m \in Nat /\ n - (n - m) = m
    OBVIOUS
  <2>2. n - m \in D
    BY <2>1
  <2> QED
    BY <1>3, <2>1, <2>2
<1>6. \E y \in S : \A m \in S : y >= m
  BY <1>4, <1>5
<1> QED
  BY <1>6 DEF Max

\* Partial sums: what FirstInstr and Offset are, and where parts come to lie.
SumOf(f, n, a, step) == [k \in 1..(n + 1) |-> IF k = 1 THEN a ELSE f[k - 1] + step[k - 1]]

LEMMA SumExists ==
  ASSUME NEW n \in Nat, NEW a, NEW step
  PROVE  \E f : f = SumOf(f, n, a, step)
<1> DEFINE G(f, m) == [k \in 1..(m + 1) |-> IF k = 1 THEN a ELSE f[k - 1] + step[k - 1]]
           P(m) == \E f : f = G(f, m)
           Reached == {m \in Nat : P(m)}
<1>1. P(0)
  <2>1. [k \in 1..1 |-> a] = G([k \in 1..1 |-> a], 0)
    OBVIOUS
  <2> QED
    BY <2>1
<1>2. ASSUME NEW m \in Nat, P(m) PROVE P(m + 1)
  <2>1. PICK f : f = G(f, m)
    BY <1>2
  <2> DEFINE g == [k \in 1..((m + 1) + 1) |-> IF k = m + 2 THEN f[m + 1] + step[m + 1] ELSE f[k]]
  <2>2. ASSUME NEW k \in 1..((m + 1) + 1)
        PROVE  g[k] = IF k = 1 THEN a ELSE g[k - 1] + step[k - 1]
    <3>1. CASE k = m + 2
      <4>1. k # 1 /\ k - 1 = m + 1 /\ k - 1 \in 1..((m + 1) + 1) /\ k - 1 # m + 2
        BY <3>1
      <4>2. g[k - 1] = f[m + 1]
        BY <4>1
      <4> QED
        BY <3>1, <4>1, <4>2
    <3>2. CASE k # m + 2
      <4>1. k \in 1..(m + 1) /\ g[k] = f[k]
        BY <3>2
      <4>2. f[k] = IF k = 1 THEN a ELSE f[k - 1] + step[k - 1]
        BY <2>1, <4>1
      <4>3. k # 1 => g[k - 1] = f[k - 1]
        BY <4>1
      <4> QED
        BY <4>1, <4>2, <4>3
    <3> QED
      BY <3>1, <3>2
  <2>3. g = [k \in 1..((m + 1) + 1) |-> g[k]]
    OBVIOUS
  <2> HIDE DEF g
  <2>4. g = G(g, m + 1)
    BY <2>2, <2>3
  <2> QED
    BY <2>4
<1> HIDE DEF P
<1>3. 0 \in Reached /\ \A m \in Reached \cap Nat : m + 1 \in Reached
  BY <1>1, <1>2
<1> HIDE DEF Reached
<1>4. n \in Reached
  BY <1>3, SetInduction
<1> QED
  BY <1>4 DEF Reached, P, SumOf

LEMMA SumOfIs ==
  ASSUME NEW n \in Nat, NEW a, NEW step, NEW sum, sum = SumOf(sum, n, a, step)
  PROVE  /\ sum[1] = a
         /\ \A k \in 1..n : sum[k + 1] = sum[k] + step[k]
<1>1. sum = [k \in 1..(n + 1) |-> IF k = 1 THEN a ELSE sum[k - 1] + step[k - 1]]
  BY DEF SumOf
<1>2. ASSUME NEW k \in 1..n PROVE sum[k + 1] = sum[k] + step[k]
  <2>1. k + 1 \in 1..(n + 1) /\ k + 1 # 1 /\ (k + 1) - 1 = k
    OBVIOUS
  <2> QED
    BY <1>1, <2>1
<1>3. sum[1] = a
  <2>1. 1 \in 1..(n + 1)
    OBVIOUS
  <2> QED
    BY <1>1, <2>1
<1> QED
  BY <1>2, <1>3

LEMMA SumIs ==
  ASSUME NEW n \in Nat, NEW a, NEW step, NEW sum,
         sum = CHOOSE f : f = SumOf(f, n, a, step)
  PROVE  /\ sum[1] = a
         /\ \A k \in 1..n : sum[k + 1] = sum[k] + step[k]
<1>1. \E f : f = SumOf(f, n, a, step)
  BY SumExists
<1>2. PICK g : g = sum /\ g = SumOf(g, n, a, step)
  BY <1>1
<1>3. g[1] = a /\ \A k \in 1..n : g[k + 1] = g[k] + step[k]
  <2>1. g = SumOf(g, n, a, step)
    BY <1>2
  <2> QED
    BY ONLY <2>1, n \in Nat, SumOfIs
<1> QED
  BY <1>2, <1>3

\* FlattenSeq puts one part behind the other.
LEMMA FlattenIs ==
  ASSUME NEW S, NEW n \in Nat, n # 0, NEW parts \in [1..n -> Seq(S)]
  PROVE  \E f : /\ f[1] = parts[1] /\ \A k \in 1..(n - 1) : f[k + 1] = f[k] \o parts[k + 1]
                /\ FlattenSeq(parts) = f[n]
<1> DEFINE G(f, m) == [k \in 1..m |-> IF k = 1 THEN parts[k] ELSE f[k - 1] \o parts[k]]
           P(m) == \E f : f = G(f, m + 1)
           Reached == {m \in Nat : P(m)}
<1>1. Len(parts) = n /\ n >= 1
  OBVIOUS
<1>2. P(0)
  <2>1. [k \in 1..1 |-> parts[k]] = G([k \in 1..1 |-> parts[k]], 0 + 1)
    OBVIOUS
  <2> QED
    BY <2>1
<1>3. ASSUME NEW m \in Nat, P(m) PROVE P(m + 1)
  <2>1. PICK f : f = G(f, m + 1)
    BY <1>3
  <2> DEFINE g == [k \in 1..(m + 2) |-> IF k = m + 2 THEN f[m + 1] \o parts[k] ELSE f[k]]
  <2>2. ASSUME NEW k \in 1..(m + 2)
        PROVE  g[k] = IF k = 1 THEN parts[k] ELSE g[k - 1] \o parts[k]
    <3>1. CASE k = m + 2
      <4>1. k # 1 /\ k - 1 = m + 1 /\ k - 1 \in 1..(m + 2) /\ k - 1 # m + 2
        BY <3>1
      <4>2. g[k - 1] = f[m + 1]
        BY <4>1
      <4> QED
        BY <3>1, <4>1, <4>2
    <3>2. CASE k # m + 2
      <4>1. k \in 1..(m + 1) /\ g[k] = f[k]
        BY <3>2
      <4>2. f[k] = IF k = 1 THEN parts[k] ELSE f[k - 1] \o parts[k]
        BY <2>1, <4>1
      <4>3. k # 1 => g[k - 1] = f[k - 1]
        BY <4>1
      <4> QED
        BY <4>1, <4>2, <4>3
    <3> QED
      BY <3>1, <3>2
  <2>3. g = G(g, (m + 1) + 1)
    <3> HIDE DEF g
    <3>1. g = [k \in 1..(m + 2) |-> g[k]]
      BY DEF g
    <3>2. g = [k \in 1..(m + 2) |-> IF k = 1 THEN parts[k] ELSE g[k - 1] \o parts[k]]
      BY <2>2, <3>1
    <3>3. (m + 1) + 1 = m + 2
      OBVIOUS
    <3> QED
      BY <3>2, <3>3
  <2> QED
    BY <2>3
<1>4. P(n - 1) /\ (n - 1) + 1 = n
  <2> HIDE DEF P
  <2>1. 0 \in Reached /\ \A m \in Reached \cap Nat : m + 1 \in Reached
    BY <1>2, <1>3
  <2>2. n - 1 \in Nat /\ (n - 1) + 1 = n
    BY <1>1
  <2> HIDE DEF Reached
  <2>3. n - 1 \in Reached
    BY <2>1, <2>2, SetInduction
  <2> QED
    BY <2>2, <2>3 DEF Reached
<1>5. \E f : f = G(f, n)
  BY <1>4
<1> DEFINE flatten == CHOOSE f : f = G(f, n)
<1>6. flatten = G(flatten, n)
  BY <1>5
<1> HIDE DEF flatten
<1>7. FlattenSeq(parts) = flatten[n]
  BY <1>1 DEF FlattenSeq, flatten
<1>8. flatten[1] = parts[1]
  BY <1>1, <1>6
<1>9. ASSUME NEW k \in 1..(n - 1) PROVE flatten[k + 1] = flatten[k] \o parts[k + 1]
  <2>1. k + 1 \in 1..n /\ k + 1 # 1 /\ (k + 1) - 1 = k
    OBVIOUS
  <2> QED
    BY <1>6, <2>1
<1> QED
  BY <1>7, <1>8, <1>9

\* place[k] counts what the parts in front of part k hold.
Fronts(place, n, parts) ==
    place[1] = 0 /\ \A k \in 1..n : place[k + 1] = place[k] + Len(parts[k])

\* The first n parts lie in s one behind the other.
Placed(s, place, n, parts) ==
    /\ Len(s) = place[n + 1]
    /\ \A k \in 1..n : /\ place[k] \in Nat /\ place[k + 1] <= place[n + 1]
                      /\ \A j \in 1..Len(parts[k]) : s[place[k] + j] = parts[k][j]

LEMMA InFront ==
  ASSUME NEW a \in Nat, NEW b \in Nat, NEW c \in Nat, NEW d \in Nat, a + b <= c, NEW j \in 1..b
  PROVE  a + j <= c /\ a + j \in 1..(c + d)
  OBVIOUS

\* Where the parts have come to lie.
LEMMA FlattenPlaces ==
  ASSUME NEW S, NEW n \in Nat, n # 0, NEW parts \in [1..n -> Seq(S)],
         NEW place, Fronts(place, n, parts)
  PROVE  FlattenSeq(parts) \in Seq(S) /\ Placed(FlattenSeq(parts), place, n, parts)
<1>1. PICK f : /\ f[1] = parts[1] /\ \A k \in 1..(n - 1) : f[k + 1] = f[k] \o parts[k + 1]
               /\ FlattenSeq(parts) = f[n]
  BY FlattenIs
<1> DEFINE Good(m) == f[m] \in Seq(S) /\ Placed(f[m], place, m, parts)
           U == {m \in Nat : m + 1 \in 1..n => Good(m + 1)}
<1>2. Good(1)
  <2>1. 1 \in 1..n /\ parts[1] \in Seq(S) /\ Len(parts[1]) \in Nat
    OBVIOUS
  <2>2. place[1] = 0 /\ place[1 + 1] = place[1] + Len(parts[1])
    BY <2>1 DEF Fronts
  <2>3. Len(parts[1]) = place[1 + 1] /\ place[1] \in Nat /\ place[1 + 1] <= place[1 + 1]
    BY <2>1, <2>2
  <2>4. \A j \in 1..Len(parts[1]) : place[1] + j = j
    BY <2>2
  <2>5. \A k \in 1..1 : k = 1
    OBVIOUS
  <2> QED
    BY <1>1, <2>1, <2>3, <2>4, <2>5 DEF Placed
<1>3. ASSUME NEW m \in 1..(n - 1), Good(m) PROVE Good(m + 1)
  <2> DEFINE c == Len(f[m])
             d == Len(parts[m + 1])
             g == f[m] \o parts[m + 1]
  <2>1. /\ m \in Nat /\ m + 1 \in 1..n /\ f[m] \in Seq(S) /\ parts[m + 1] \in Seq(S)
        /\ c \in Nat /\ d \in Nat /\ c = place[m + 1]
    BY <1>3 DEF Placed
  <2>2. f[m + 1] = g /\ place[(m + 1) + 1] = c + d
    BY <1>1, <1>3, <2>1 DEF Fronts
  <2>3. /\ g \in Seq(S) /\ Len(g) = c + d
        /\ \A i \in 1..(c + d) : g[i] = IF i <= c THEN f[m][i] ELSE parts[m + 1][i - c]
    BY <2>1, ConcatProperties
  <2> HIDE DEF c, d, g
  <2>4. ASSUME NEW k \in 1..m
        PROVE  /\ place[k] \in Nat /\ place[k + 1] <= c + d
               /\ \A j \in 1..Len(parts[k]) : g[place[k] + j] = parts[k][j]
    <3> DEFINE a == place[k]
               b == Len(parts[k])
    <3>1. k \in 1..n /\ a \in Nat /\ place[k + 1] <= c
      <4>1. m \in Nat /\ m + 1 \in 1..n /\ c = place[m + 1]
        BY <2>1
      <4>2. k \in 1..n
        BY <4>1
      <4>3. place[k] \in Nat /\ place[k + 1] <= place[m + 1]
        BY <1>3 DEF Placed
      <4> QED
        BY <4>1, <4>2, <4>3
    <3>2. b \in Nat /\ place[k + 1] = a + b
      BY <3>1 DEF Fronts
    <3>3. \A j \in 1..b : f[m][a + j] = parts[k][j]
      BY <1>3, <2>4 DEF Placed
    <3> HIDE DEF a, b
    <3>4. ASSUME NEW j \in 1..b PROVE a + j <= c /\ a + j \in 1..(c + d)
      BY <2>1, <3>1, <3>2, <3>4, InFront
    <3>5. \A j \in 1..b : g[a + j] = f[m][a + j]
      BY <2>3, <3>4
    <3>6. a + b <= c + d
      BY <2>1, <3>1, <3>2
    <3> QED
      BY <3>1, <3>2, <3>3, <3>5, <3>6 DEF a, b
  <2>5. \A j \in 1..d : g[c + j] = parts[m + 1][j]
    <3>1. ASSUME NEW j \in 1..d
          PROVE  c + j \in 1..(c + d) /\ ~(c + j <= c) /\ (c + j) - c = j
      <4>1. c \in Nat /\ d \in Nat
        BY <2>1
      <4> QED
        BY <4>1
    <3> QED
      BY <2>3, <3>1
  <2>6. c + d \in Nat /\ c + d <= c + d
    BY <2>1
  <2>7. ASSUME NEW k \in 1..(m + 1)
        PROVE  /\ place[k] \in Nat /\ place[k + 1] <= c + d
               /\ \A j \in 1..Len(parts[k]) : g[place[k] + j] = parts[k][j]
    <3>1. CASE k \in 1..m
      BY <2>4, <3>1
    <3>2. CASE k = m + 1
      BY <2>1, <2>2, <2>5, <2>6, <3>2 DEF d
    <3> QED
      BY <2>1, <3>1, <3>2
  <2> QED
    BY <2>2, <2>3, <2>7 DEF Placed
<1> HIDE DEF Good
<1>4. Nat \subseteq U
  <2>1. 0 \in U
    BY <1>2
  <2>2. ASSUME NEW m \in U \cap Nat PROVE m + 1 \in U
    <3> SUFFICES ASSUME (m + 1) + 1 \in 1..n PROVE Good((m + 1) + 1)
      OBVIOUS
    <3>1. m + 1 \in 1..(n - 1) /\ m + 1 \in 1..n
      OBVIOUS
    <3> QED
      BY <1>3, <3>1
  <2> HIDE DEF U
  <2> QED
    BY <2>1, <2>2, SetInduction
<1>5. Good(n)
  <2>1. n - 1 \in Nat /\ (n - 1) + 1 = n /\ n \in 1..n
    OBVIOUS
  <2>2. n - 1 \in U
    BY <1>4, <2>1
  <2> QED
    BY <2>1, <2>2
<1> QED
  BY <1>1, <1>5 DEF Good

\* What FlattenSeq puts together are members of the parts.
LEMMA FlattenTyped ==
  ASSUME NEW S, NEW n \in Nat, n # 0, NEW parts \in [1..n -> Seq(S)]
  PROVE  FlattenSeq(parts) \in Seq(S)
<1> DEFINE step == [k \in 1..n |-> Len(parts[k])]
<1>1. \A k \in 1..n : step[k] = Len(parts[k])
  OBVIOUS
<1> HIDE DEF step
<1>2. PICK place : place[1] = 0 /\ \A k \in 1..n : place[k + 1] = place[k] + step[k]
  <2>1. PICK f : f = SumOf(f, n, 0, step)
    BY SumExists
  <2>2. f[1] = 0 /\ \A k \in 1..n : f[k + 1] = f[k] + step[k]
    BY <2>1, SumOfIs
  <2> QED
    BY <2>2
<1>3. Fronts(place, n, parts)
  BY <1>1, <1>2 DEF Fronts
<1> QED
  BY <1>3, FlattenPlaces

---------------------------------------------------------------------------
\* Tokens.

SourceOK ==
    /\ source \in Seq(Items)
    /\ \A i \in DOMAIN source : source[i].t = "word" => source[i].s \in Words

Behind == Len(source) + 1

WordKinds == {"reg", "directive", "instr", "label"}

\* The words of the source, and the tokens made of its items.
SourceWords == {source[i].s : i \in {i \in DOMAIN source : source[i].t = "word"}}
Tokens == [t : WordKinds \union {"none", "literal", "string", "nl", "gap"},
           s : Words \union {NoName}, n : Nat]

Labels == {w \in Words : Kind(w) = "label"}

GoodToken(a, i) ==
    /\ a.next \in i..Behind
    /\ a.tok \in Tokens
    /\ a.tok.t = "label" => a.tok.s \in Labels
    /\ a.tok.t \in WordKinds => a.tok.s \in Words \intersect SourceWords

LEMMA SourceTyped ==
  ASSUME source \in Sources
  PROVE  SourceOK
  BY SourceAssumption DEF SourceOK

LEMMA BehindIs ==
  ASSUME SourceOK
  PROVE  /\ Behind \in Nat /\ Behind >= 1 /\ Len(source) \in Nat
         /\ Len(source) = Behind - 1 /\ DOMAIN source = 1..Len(source)
  BY DEF SourceOK, Behind

LEMMA SkipBlanksIs ==
  ASSUME SourceOK, NEW i \in 1..Behind
  PROVE  SkipBlanks(i) \in i..Behind
<1> DEFINE S == {j \in i..Behind : ~Blank(j)}
<1>1. Behind \in S /\ S \in SUBSET Nat
  BY BehindIs DEF Blank
<1>2. Min(S) \in S
  BY <1>1, MinIs
<1>3. SkipBlanks(i) = Min(S)
  BY DEF SkipBlanks, Behind
<1> QED
  BY <1>2, <1>3

LEMMA KindIs ==
  ASSUME NEW w
  PROVE  Kind(w) \in WordKinds
  BY DEF Kind, WordKinds

LEMMA TokenAtIs ==
  ASSUME SourceOK, NEW j \in 1..Behind
  PROVE  GoodToken(TokenAt[j], j)
<1>1. TokenAt[j] =
        IF j > Len(source) THEN [tok |-> NoToken, next |-> j]
        ELSE IF source[j].t \in {"comment", "bang"} THEN [tok |-> NoToken, next |-> j]
        ELSE IF source[j].t = "comma" THEN [tok |-> NoToken, next |-> j + 1]
        ELSE [tok |-> Classified(source[j]), next |-> j + 1]
  BY DEF TokenAt, Behind
<1>2. NoToken \in Tokens /\ NoToken.t = "none"
  BY DEF NoToken, Tokens
<1>3. j \in j..Behind /\ (j <= Len(source) => j + 1 \in j..Behind)
  BY BehindIs
<1>4. ASSUME j <= Len(source), source[j].t \notin {"comment", "bang", "comma"}
      PROVE  /\ Classified(source[j]) \in Tokens
             /\ Classified(source[j]).t = "label" => Classified(source[j]).s \in Labels
             /\ Classified(source[j]).t \in WordKinds =>
                  Classified(source[j]).s \in Words \intersect SourceWords
  <2>1. j \in DOMAIN source /\ source[j] \in Items
    BY <1>4, BehindIs DEF SourceOK
  <2>2. CASE source[j].t = "word"
    <3>1. Classified(source[j]) = [source[j] EXCEPT !.t = Kind(source[j].s)]
      BY <2>2 DEF Classified
    <3>2. source[j].s \in Words \intersect SourceWords /\ Kind(source[j].s) \in WordKinds
      BY <2>1, <2>2, KindIs DEF SourceOK, SourceWords
    <3> QED
      BY <2>1, <3>1, <3>2 DEF Items, Tokens, Labels
  <2>3. CASE source[j].t # "word"
    BY <1>4, <2>1, <2>3 DEF Classified, Items, Tokens, WordKinds
  <2> QED
    BY <2>2, <2>3
<1>5. CASE j > Len(source)
  BY <1>1, <1>2, <1>3, <1>5 DEF GoodToken, WordKinds
<1>6. CASE j <= Len(source)
  BY <1>1, <1>2, <1>3, <1>4, <1>6, BehindIs DEF GoodToken, WordKinds
<1> QED
  BY <1>5, <1>6, BehindIs

LEMMA TokenIs ==
  ASSUME SourceOK, NEW i \in 1..Behind
  PROVE  GoodToken(Token(i), i)
<1>1. SkipBlanks(i) \in i..Behind
  BY SkipBlanksIs
<1>2. GoodToken(TokenAt[SkipBlanks(i)], SkipBlanks(i))
  BY <1>1, TokenAtIs
<1> QED
  BY <1>1, <1>2, BehindIs DEF GoodToken, Token

---------------------------------------------------------------------------
\* The operands of a line: of which type they leave it, and its size.

Regs == Words \union {"NONE", "S"}
\* The instructions a line may hold: what is lexed, or stands for a directive.
Codes == LexedOps \union {"INVALID", "AND"}

Line == [instr : Codes, reg : [1..2 -> Regs], imm : Nat, symbol : Labels \union {NoName},
         label : Labels \union {NoName}, bytes : Seq(A!Byte), addr : Nat, error : BOOLEAN]

\* The size the lexer counts for an instruction that is in order.
SizeOf(op, bytes) ==
    IF op \in DataOps THEN Len(bytes)
    ELSE IF op \in ImmOps \union {"MVI"} THEN 2
    ELSE IF op \in JumpOps \union CallOps \union {"LXI"} THEN 3 ELSE 1

\* A new line, that no operand has been stored in.
Fresh(l) ==
    /\ l \in Line /\ l.bytes = <<>> /\ l.symbol = NoName /\ l.instr = "INVALID"
    /\ l.reg[2] = "NONE"

GoodOutcome(out, l, i) ==
    /\ out = Outcome(out.line, out.next, out.size, out.ok)
    /\ out.line \in Line /\ out.line.label = l.label /\ out.line.instr = l.instr
    /\ out.next \in i..Behind /\ out.size \in Nat /\ out.ok \in BOOLEAN

LEMMA EmptyLineFresh ==
  /\ Fresh(EmptyLine) /\ EmptyLine.label = NoName
  /\ \A w \in Labels : Fresh([EmptyLine EXCEPT !.label = w])
<1>1. <<"NONE", "NONE">> \in [1..2 -> Regs]
  BY DEF Regs
<1>2. <<>> \in Seq(A!Byte) /\ "INVALID" \in Codes
  BY EmptySeq DEF Codes
<1>3. EmptyLine \in Line
  <2>1. PICK r \in [1..2 -> Regs], b \in Seq(A!Byte) : r = <<"NONE", "NONE">> /\ b = <<>>
    BY <1>1, <1>2
  <2>2. PICK c \in Codes : c = "INVALID"
    BY <1>2
  <2>3. EmptyLine = [instr |-> c, reg |-> r, imm |-> 0, symbol |-> NoName,
                     label |-> NoName, bytes |-> b, addr |-> 0, error |-> FALSE]
    BY <2>1, <2>2 DEF EmptyLine
  <2> QED
    BY <2>3 DEF Line
<1>4. /\ EmptyLine.bytes = <<>> /\ EmptyLine.symbol = NoName
      /\ EmptyLine.instr = "INVALID" /\ EmptyLine.label = NoName
      /\ EmptyLine.reg[2] = "NONE"
  BY DEF EmptyLine
<1>5. ASSUME NEW w \in Labels
      PROVE  Fresh([EmptyLine EXCEPT !.label = w])
  BY <1>3, <1>4 DEF Fresh, Line
<1> QED
  BY <1>3, <1>4, <1>5 DEF Fresh

LEMMA RegOfIs ==
  ASSUME NEW tok, tok.t = "reg" => tok.s \in Words
  PROVE  RegOf(tok) \in Regs
  BY DEF RegOf, Regs

LEMMA OneRegIs ==
  ASSUME SourceOK, NEW l, Fresh(l), NEW i \in 1..Behind
  PROVE  GoodOutcome(OneReg(l, i), l, i) /\ OneReg(l, i).size = 1
<1> DEFINE a == Token(i)
<1>1. GoodToken(a, i)
  BY TokenIs
<1> HIDE DEF a
<1>2. RegOf(a.tok) \in Regs /\ (a.tok.t = "reg") \in BOOLEAN
  BY <1>1, RegOfIs DEF GoodToken, WordKinds
<1> DEFINE line == [l EXCEPT !.reg[1] = RegOf(a.tok)]
           good == a.tok.t = "reg"
<1>3. line \in Line /\ line.label = l.label /\ line.instr = l.instr
  BY <1>2 DEF Fresh, Line
<1>4. OneReg(l, i) = Outcome(line, a.next, 1, good)
  BY DEF OneReg, a
<1>5. a.next \in i..Behind /\ good \in BOOLEAN
  BY <1>1 DEF GoodToken
<1> HIDE DEF line, good
<1> QED
  BY <1>3, <1>4, <1>5 DEF GoodOutcome, Outcome

LEMMA TwoRegIs ==
  ASSUME SourceOK, NEW l, Fresh(l), NEW i \in 1..Behind
  PROVE  GoodOutcome(TwoReg(l, i), l, i) /\ TwoReg(l, i).size = 1
<1> DEFINE a == Token(i)
           b == Token(a.next)
<1>1. GoodToken(a, i)
  BY TokenIs
<1>2. a.next \in 1..Behind
  BY <1>1, BehindIs DEF GoodToken
<1>3. GoodToken(b, a.next)
  BY <1>2, TokenIs
<1> DEFINE good == a.tok.t = "reg" /\ b.tok.t = "reg"
           line == [l EXCEPT !.reg = <<RegOf(a.tok), RegOf(b.tok)>>]
<1>4. TwoReg(l, i) = Outcome(line, b.next, 1, good)
  BY DEF TwoReg
<1>5. b.next \in i..Behind
  BY <1>1, <1>2, <1>3, BehindIs DEF GoodToken
<1> HIDE DEF a, b
<1>6. RegOf(a.tok) \in Regs /\ RegOf(b.tok) \in Regs /\ good \in BOOLEAN
  BY <1>1, <1>3, RegOfIs DEF GoodToken, WordKinds
<1>7. <<RegOf(a.tok), RegOf(b.tok)>> \in [1..2 -> Regs]
  BY <1>6
<1>8. line \in Line /\ line.label = l.label /\ line.instr = l.instr
  BY <1>7 DEF Fresh, Line
<1> HIDE DEF line, good
<1> QED
  BY <1>4, <1>5, <1>6, <1>8 DEF GoodOutcome, Outcome

LEMMA ImmIs ==
  ASSUME SourceOK, NEW l, Fresh(l), NEW i \in 1..Behind, NEW size \in Nat
  PROVE  GoodOutcome(Imm(l, i, size), l, i) /\ Imm(l, i, size).size = size
<1> DEFINE a == Token(i)
<1>1. GoodToken(a, i)
  BY TokenIs
<1>2. \/ Imm(l, i, size) = Outcome([l EXCEPT !.imm = a.tok.n], a.next, size, TRUE)
      \/ /\ a.tok.t = "label"
         /\ Imm(l, i, size) = Outcome([l EXCEPT !.symbol = a.tok.s], a.next, size, TRUE)
      \/ Imm(l, i, size) = Outcome(l, a.next, size, FALSE)
  BY DEF Imm
<1> HIDE DEF a
<1>3. a.tok.n \in Nat /\ (a.tok.t = "label" => a.tok.s \in Labels) /\ a.next \in i..Behind
  BY <1>1 DEF GoodToken, WordKinds, Tokens
<1>4. CASE Imm(l, i, size) = Outcome([l EXCEPT !.imm = a.tok.n], a.next, size, TRUE)
  BY <1>3, <1>4 DEF GoodOutcome, Outcome, Fresh, Line
<1>5. CASE /\ a.tok.t = "label"
           /\ Imm(l, i, size) = Outcome([l EXCEPT !.symbol = a.tok.s], a.next, size, TRUE)
  BY <1>3, <1>5 DEF GoodOutcome, Outcome, Fresh, Line
<1>6. CASE Imm(l, i, size) = Outcome(l, a.next, size, FALSE)
  BY <1>3, <1>6 DEF GoodOutcome, Outcome, Fresh, Line
<1> QED
  BY <1>2, <1>4, <1>5, <1>6

LEMMA RegImmIs ==
  ASSUME SourceOK, NEW l, Fresh(l), NEW i \in 1..Behind, NEW size \in Nat
  PROVE  GoodOutcome(RegImm(l, i, size), l, i) /\ RegImm(l, i, size).size = size
<1> DEFINE a == Token(i)
           b == Token(a.next)
<1>1. GoodToken(a, i)
  BY TokenIs
<1>2. a.next \in 1..Behind
  BY <1>1, BehindIs DEF GoodToken
<1>3. GoodToken(b, a.next)
  BY <1>2, TokenIs
<1>4. \/ RegImm(l, i, size) = Outcome([l EXCEPT !.reg[1] = RegOf(a.tok), !.imm = b.tok.n],
                                     b.next, size, a.tok.t = "reg")
      \/ /\ b.tok.t = "label"
         /\ RegImm(l, i, size) = Outcome([l EXCEPT !.symbol = b.tok.s], b.next, size, TRUE)
      \/ RegImm(l, i, size) = Outcome(l, b.next, size, FALSE)
  BY DEF RegImm
<1>5. b.next \in i..Behind
  BY <1>1, <1>2, <1>3, BehindIs DEF GoodToken
<1> HIDE DEF a, b
<1>6. b.tok.n \in Nat /\ (b.tok.t = "label" => b.tok.s \in Labels)
      /\ RegOf(a.tok) \in Regs /\ (a.tok.t = "reg") \in BOOLEAN
  BY <1>1, <1>3, RegOfIs DEF GoodToken, WordKinds, Tokens
<1> DEFINE line == [l EXCEPT !.reg[1] = RegOf(a.tok), !.imm = b.tok.n]
<1>7. line \in Line /\ line.label = l.label /\ line.instr = l.instr
  BY <1>6 DEF Fresh, Line
<1> HIDE DEF line
<1>8. CASE RegImm(l, i, size) = Outcome(line, b.next, size, a.tok.t = "reg")
  BY <1>5, <1>6, <1>7, <1>8 DEF GoodOutcome, Outcome
<1>9. CASE /\ b.tok.t = "label"
           /\ RegImm(l, i, size) = Outcome([l EXCEPT !.symbol = b.tok.s], b.next, size, TRUE)
  BY <1>5, <1>6, <1>9 DEF GoodOutcome, Outcome, Fresh, Line
<1>10. CASE RegImm(l, i, size) = Outcome(l, b.next, size, FALSE)
  BY <1>5, <1>10 DEF GoodOutcome, Outcome, Fresh, Line
<1> QED
  BY <1>4, <1>8, <1>9, <1>10 DEF line

LEMMA DataBytesIs ==
  ASSUME NEW tok \in Tokens
  PROVE  DataBytes(tok) \in Seq(A!Byte)
<1>1. tok.n \in Nat /\ tok.n % 256 \in A!Byte /\ 0 \in A!Byte /\ Char \in A!Byte
  BY DEF Tokens, Char, A!Byte
<1>2. <<tok.n % 256>> \in Seq(A!Byte) /\ <<>> \in Seq(A!Byte)
  BY <1>1
<1> DEFINE text == [k \in 1..(tok.n + 1) |-> IF k <= tok.n THEN Char ELSE 0]
<1>3. text \in Seq(A!Byte)
  <2>1. text \in [1..(tok.n + 1) -> A!Byte] /\ tok.n + 1 \in Nat
    BY <1>1
  <2> HIDE DEF text
  <2> QED
    BY <2>1
<1>4. DataBytes(tok) = <<tok.n % 256>> \/ DataBytes(tok) = text \/ DataBytes(tok) = <<>>
  BY DEF DataBytes
<1> QED
  BY <1>2, <1>3, <1>4

LEMMA DataIs ==
  ASSUME SourceOK, NEW l, Fresh(l), NEW i \in 1..Behind
  PROVE  /\ GoodOutcome(Data(l, i), l, i) /\ Data(l, i).size = Len(Data(l, i).line.bytes)
         /\ Data(l, i).line.reg = l.reg
<1> DEFINE Ends(j) == LET a == TokenAt[j]
                      IN  \/ ~IsArg(a.tok) \/ a.next > Len(source)
                          \/ LineAt(a.next) > LineAt(i)
           S == {j \in i..(Len(source) + 1) : ~Blank(j) /\ Ends(j)}
           end == Min(S)
           bytes == FlattenSeq([k \in 1..(end - i + 1) |-> DataBytes(TokenAt[i + k - 1].tok)])
           labels == {j \in i..end : TokenAt[j].tok.t = "label"}
           symbol == IF labels = {} THEN NoName ELSE TokenAt[Max(labels)].tok.s
           line == [l EXCEPT !.bytes = bytes, !.symbol = symbol]
           good == IsArg(TokenAt[end].tok)
<1>1. Data(l, i) = Outcome(line, TokenAt[end].next, Len(bytes), good)
  BY DEF Data
<1>2. end \in i..Behind
  <2>1. ~Blank(Behind)
    BY BehindIs DEF Blank
  <2>2. Ends(Behind)
    <3>1. TokenAt[Behind] = [tok |-> NoToken, next |-> Behind]
      BY BehindIs DEF TokenAt, Behind
    <3> QED
      BY <3>1 DEF NoToken, IsArg
  <2> HIDE DEF Ends
  <2>3. Behind \in S /\ S \in SUBSET Nat
    BY <2>1, <2>2, BehindIs DEF Behind
  <2>4. Min(S) \in S
    BY <2>3, MinIs
  <2> QED
    BY <2>4 DEF Behind
<1> HIDE DEF end
<1>3. \A j \in i..end : j \in 1..Behind /\ GoodToken(TokenAt[j], j)
  BY <1>2, BehindIs, TokenAtIs
<1>4. bytes \in Seq(A!Byte) /\ Len(bytes) \in Nat
  <2> DEFINE parts == [k \in 1..(end - i + 1) |-> DataBytes(TokenAt[i + k - 1].tok)]
  <2>1. end - i + 1 \in Nat /\ end - i + 1 # 0
    BY <1>2, BehindIs
  <2>2. \A k \in 1..(end - i + 1) : i + k - 1 \in i..end
    BY <1>2, BehindIs
  <2>3. \A k \in 1..(end - i + 1) : DataBytes(TokenAt[i + k - 1].tok) \in Seq(A!Byte)
    BY <1>3, <2>2, DataBytesIs DEF GoodToken
  <2>4. parts \in [1..(end - i + 1) -> Seq(A!Byte)]
    BY <2>3
  <2> HIDE DEF parts
  <2>5. FlattenSeq(parts) \in Seq(A!Byte)
    BY <2>1, <2>4, FlattenTyped
  <2> QED
    BY <2>5 DEF parts
<1> HIDE DEF bytes
<1>5. symbol \in Labels \union {NoName}
  <2>1. CASE labels = {}
    BY <2>1
  <2>2. CASE labels # {}
    <3>1. labels \in SUBSET (0..end) /\ end \in Nat
      BY <1>2, BehindIs
    <3>2. Max(labels) \in labels
      BY <2>2, <3>1, MaxIs
    <3> QED
      BY <1>3, <2>2, <3>2 DEF GoodToken, WordKinds
  <2> QED
    BY <2>1, <2>2
<1> HIDE DEF symbol
<1>6. /\ line \in Line /\ line.label = l.label /\ line.instr = l.instr
      /\ line.bytes = bytes /\ line.reg = l.reg
  BY <1>4, <1>5 DEF Fresh, Line
<1>7. TokenAt[end].next \in i..Behind /\ good \in BOOLEAN
  BY <1>2, <1>3, BehindIs DEF GoodToken, IsArg
<1> HIDE DEF line, good
<1> QED
  BY <1>1, <1>4, <1>6, <1>7 DEF GoodOutcome, Outcome

LEMMA OperandsAre ==
  ASSUME NEW op \in LexedOps, NEW l, NEW i
  PROVE  \/ op \in OneRegOps /\ Operands(op, l, i) = OneReg(l, i)
         \/ op \in ImmOps /\ Operands(op, l, i) = Imm(l, i, 2)
         \/ op = "MOV" /\ Operands(op, l, i) = TwoReg(l, i)
         \/ op = "MVI" /\ Operands(op, l, i) = RegImm(l, i, 2)
         \/ op = "LXI" /\ Operands(op, l, i) = RegImm(l, i, 3)
         \/ op \in JumpOps \union CallOps /\ Operands(op, l, i) = Imm(l, i, 3)
         \/ op \in NoOperandOps /\ Operands(op, l, i) = Outcome(l, i, 1, TRUE)
         \/ op \in DataOps /\ Operands(op, l, i) = Data(l, i)
         \/ op = "DS" /\ Operands(op, l, i) = Imm(l, i, 1)
<1>1. \/ op \in OneRegOps \/ op \in ImmOps \/ op = "MOV" \/ op = "MVI" \/ op = "LXI"
      \/ op \in JumpOps \union CallOps \/ op \in NoOperandOps \/ op \in DataOps \/ op = "DS"
  BY DEF LexedOps
\* The groups are disjoint.
<1>2. /\ op \in OneRegOps \union ImmOps \union JumpOps \union CallOps \union NoOperandOps
               \union DataOps => op \notin {"MOV", "MVI", "LXI", "DS"}
      /\ op \in OneRegOps =>
           op \notin ImmOps \union JumpOps \union CallOps \union NoOperandOps \union DataOps
      /\ op \in ImmOps => op \notin JumpOps \union CallOps \union NoOperandOps \union DataOps
      /\ op \in JumpOps \union CallOps => op \notin NoOperandOps \union DataOps
      /\ op \in NoOperandOps => op \notin DataOps
  BY DEF OneRegOps, ImmOps, JumpOps, CallOps, NoOperandOps, DataOps
<1> QED
  BY <1>1, <1>2 DEF Operands

LEMMA SizeOfIs ==
  ASSUME NEW op, NEW b
  PROVE  /\ op \in OneRegOps \union NoOperandOps \union {"MOV", "DS"} => SizeOf(op, b) = 1
         /\ op \in ImmOps \union {"MVI"} => SizeOf(op, b) = 2
         /\ op \in JumpOps \union CallOps \union {"LXI"} => SizeOf(op, b) = 3
         /\ op \in DataOps => SizeOf(op, b) = Len(b)
  BY DEF SizeOf, OneRegOps, ImmOps, JumpOps, CallOps, NoOperandOps, DataOps

LEMMA OperandsIs ==
  ASSUME SourceOK, NEW op \in LexedOps, NEW l, Fresh(l), NEW i \in 1..Behind
  PROVE  /\ GoodOutcome(Operands(op, l, i), l, i)
         /\ Operands(op, l, i).size = SizeOf(op, Operands(op, l, i).line.bytes)
<1> DEFINE out == Operands(op, l, i)
<1>1. CASE op \in OneRegOps /\ out = OneReg(l, i)
  BY <1>1, OneRegIs, SizeOfIs
<1>2. CASE op \in ImmOps /\ out = Imm(l, i, 2)
  BY <1>2, ImmIs, SizeOfIs
<1>3. CASE op = "MOV" /\ out = TwoReg(l, i)
  BY <1>3, TwoRegIs, SizeOfIs
<1>4. CASE op = "MVI" /\ out = RegImm(l, i, 2)
  BY <1>4, RegImmIs, SizeOfIs
<1>5. CASE op = "LXI" /\ out = RegImm(l, i, 3)
  BY <1>5, RegImmIs, SizeOfIs
<1>6. CASE op \in JumpOps \union CallOps /\ out = Imm(l, i, 3)
  BY <1>6, ImmIs, SizeOfIs
<1>7. CASE op \in NoOperandOps /\ out = Outcome(l, i, 1, TRUE)
  <2>1. l \in Line /\ i \in i..Behind
    BY BehindIs DEF Fresh
  <2>2. GoodOutcome(Outcome(l, i, 1, TRUE), l, i) /\ Outcome(l, i, 1, TRUE).size = 1
    BY <2>1 DEF GoodOutcome, Outcome
  <2> QED
    BY <1>7, <2>2, SizeOfIs
<1>8. CASE op \in DataOps /\ out = Data(l, i)
  BY <1>8, DataIs, SizeOfIs
<1>9. CASE op = "DS" /\ out = Imm(l, i, 1)
  BY <1>9, ImmIs, SizeOfIs
<1> HIDE DEF out
<1>10. \/ op \in OneRegOps /\ out = OneReg(l, i)
       \/ op \in ImmOps /\ out = Imm(l, i, 2)
       \/ op = "MOV" /\ out = TwoReg(l, i)
       \/ op = "MVI" /\ out = RegImm(l, i, 2)
       \/ op = "LXI" /\ out = RegImm(l, i, 3)
       \/ op \in JumpOps \union CallOps /\ out = Imm(l, i, 3)
       \/ op \in NoOperandOps /\ out = Outcome(l, i, 1, TRUE)
       \/ op \in DataOps /\ out = Data(l, i)
       \/ op = "DS" /\ out = Imm(l, i, 1)
  BY OperandsAre DEF out
<1> QED
  BY <1>1, <1>2, <1>3, <1>4, <1>5, <1>6, <1>7, <1>8, <1>9, <1>10 DEF out

---------------------------------------------------------------------------
\* Mnemonics, directives and statements.

LEMMA FirstEntryIs ==
  ASSUME NEW table, DOMAIN table \subseteq Nat, NEW others,
         \A k \in DOMAIN table : table[k].instr \in {table[k].mnemonic} \union others,
         NEW w
  PROVE  FindMnemonic(FirstEntries(table), w) \in {w, "INVALID"} \union others
<1> DEFINE S == {k \in DOMAIN table : table[k].mnemonic = w}
           entries == FirstEntries(table)
<1>1. CASE w \notin DOMAIN entries
  BY <1>1 DEF FindMnemonic
<1>2. CASE w \in DOMAIN entries
  <2>1. w \in {table[k].mnemonic : k \in DOMAIN table}
    BY <1>2 DEF FirstEntries
  <2>2. S # {} /\ S \in SUBSET Nat
    BY <2>1
  <2>3. Min(S) \in S
    BY <2>2, MinIs
  <2>4. table[Min(S)].instr \in {w} \union others
    BY <2>3
  <2>5. entries[w] = table[Min(S)].instr
    BY <2>1 DEF FirstEntries
  <2> QED
    BY <1>2, <2>4, <2>5 DEF FindMnemonic
<1> QED
  BY <1>1, <1>2

\* What a word is found as.  Only SBI has another mnemonic than its name.
LEMMA FoundIs ==
  ASSUME NEW w
  PROVE  /\ FindMnemonic(Directives, w) \in {w, "INVALID"}
         /\ FindMnemonic(Instrs, w) \in {w, "INVALID", "SBI"}
<1>1. /\ DOMAIN DirTable \subseteq Nat
      /\ \A k \in DOMAIN DirTable : DirTable[k].instr \in {DirTable[k].mnemonic} \union {}
  <2>1. DOMAIN DirCodes \subseteq Nat
    BY DEF DirCodes
  <2> QED
    BY <2>1 DEF DirTable
<1>2. FindMnemonic(Directives, w) \in {w, "INVALID"} \union {}
  BY <1>1, FirstEntryIs DEF Directives
<1>3. /\ DOMAIN InstrTable \subseteq Nat
      /\ \A k \in DOMAIN InstrTable : InstrTable[k].instr \in {InstrTable[k].mnemonic} \union {"SBI"}
  <2>1. DOMAIN InstrCodes \subseteq Nat
    BY DEF InstrCodes
  <2> QED
    BY <2>1 DEF InstrTable
<1>4. FindMnemonic(Instrs, w) \in {w, "INVALID"} \union {"SBI"}
  BY <1>3, FirstEntryIs DEF Instrs
<1> QED
  BY <1>2, <1>4

\* SBB stands in the table before SBI, which has its mnemonic.
LEMMA SbiNotFound ==
  ASSUME NEW w
  PROVE  FindMnemonic(Instrs, w) # "SBI"
<1> DEFINE S == {k \in DOMAIN InstrTable : InstrTable[k].mnemonic = w}
<1>1. /\ DOMAIN InstrTable \subseteq Nat
      /\ \A k \in DOMAIN InstrTable : InstrTable[k].instr = "SBI" =>
           InstrTable[k].mnemonic = "SBB" /\ k = 67
      /\ 66 \in DOMAIN InstrTable /\ InstrTable[66].mnemonic = "SBB"
  <2>1. DOMAIN InstrCodes = 1..76 /\ InstrCodes[66] = "SBB"
    BY DEF InstrCodes
  <2>2. \A k \in 1..76 : InstrCodes[k] = "SBI" => k = 67
    BY SMTT(60) DEF InstrCodes
  <2> QED
    BY <2>1, <2>2 DEF InstrTable
<1> SUFFICES ASSUME FindMnemonic(Instrs, w) = "SBI" PROVE FALSE
  OBVIOUS
<1>2. w \in DOMAIN Instrs /\ Instrs[w] = "SBI"
  BY DEF FindMnemonic
<1>3. w \in {InstrTable[k].mnemonic : k \in DOMAIN InstrTable}
  BY <1>2 DEF Instrs, FirstEntries
<1>4. S # {} /\ S \in SUBSET Nat
  BY <1>1, <1>3
<1>5. Min(S) \in S /\ \A k \in S : Min(S) <= k
  BY <1>4, MinIs
<1>6. Instrs[w] = InstrTable[Min(S)].instr
  BY <1>3 DEF Instrs, FirstEntries
<1> HIDE DEF S
<1>7. Min(S) = 67 /\ w = "SBB"
  BY <1>1, <1>2, <1>5, <1>6 DEF S
<1>8. 66 \in S
  BY <1>1, <1>7 DEF S
<1> QED
  BY <1>5, <1>7, <1>8

\* The instructions the directives with a case of their own stand for.
LEMMA SharedCodeIs ==
  /\ SharedCode("END") = "ACI" /\ SharedCode("ENDIF") = "ADC" /\ SharedCode("ENDM") = "ADD"
  /\ SharedCode("IF") = "ANA" /\ SharedCode("MACRO") = "AND" /\ SharedCode("ORG") = "ANI"
  /\ SharedCode("SET") = "CALL"
<1>1. ASSUME NEW d, NEW n \in 1..9, DirCodes[n] = d, \A m \in 1..9 : DirCodes[m] = d => m = n
      PROVE  SharedCode(d) = InstrCodes[n]
  <2>1. DOMAIN DirCodes = 1..9
    BY DEF DirCodes
  <2>2. (CHOOSE m \in DOMAIN DirCodes : DirCodes[m] = d) = n
    BY <1>1, <2>1
  <2> QED
    BY <2>2 DEF SharedCode
<1>2. /\ InstrCodes[2] = "ACI" /\ InstrCodes[3] = "ADC" /\ InstrCodes[4] = "ADD"
      /\ InstrCodes[6] = "ANA" /\ InstrCodes[7] = "AND" /\ InstrCodes[8] = "ANI"
      /\ InstrCodes[9] = "CALL"
  BY DEF InstrCodes
<1>3. /\ DirCodes[2] = "END" /\ DirCodes[3] = "ENDIF" /\ DirCodes[4] = "ENDM"
      /\ DirCodes[6] = "IF" /\ DirCodes[7] = "MACRO" /\ DirCodes[8] = "ORG"
      /\ DirCodes[9] = "SET" /\ DirCodes[1] = "INVALID" /\ DirCodes[5] = "EQU"
  BY DEF DirCodes
<1>4. \A m \in 1..9 : m = 1 \/ m = 2 \/ m = 3 \/ m = 4 \/ m = 5 \/ m = 6 \/ m = 7 \/ m = 8 \/ m = 9
  OBVIOUS
<1>5. /\ \A m \in 1..9 : DirCodes[m] = "END" => m = 2
      /\ \A m \in 1..9 : DirCodes[m] = "ENDIF" => m = 3
      /\ \A m \in 1..9 : DirCodes[m] = "ENDM" => m = 4
      /\ \A m \in 1..9 : DirCodes[m] = "IF" => m = 6
      /\ \A m \in 1..9 : DirCodes[m] = "MACRO" => m = 7
      /\ \A m \in 1..9 : DirCodes[m] = "ORG" => m = 8
      /\ \A m \in 1..9 : DirCodes[m] = "SET" => m = 9
  BY <1>3, <1>4
<1> QED
  BY <1>1, <1>2, <1>3, <1>5

LEMMA AssembledAre ==
  ASSUME NEW op
  PROVE  op \in Assembled <=>
           \/ op \in Ops(ArithCodes) \/ op \in Ops(ImmCodes) \/ op \in Ops(PairCodes)
           \/ op \in Ops(CountCodes) \/ op \in Ops(MovCodes) \/ op \in Ops(JumpCodes)
           \/ op \in Ops(CallCodes) \/ op \in Ops(PlainCodes) \/ op = "MVI" \/ op = "LXI"
<1>1. op \in Assembled <=> (\E t \in Tables : op \in Ops(t)) \/ op \in {"MVI", "LXI"}
  BY Zenon DEF Assembled
<1>2. (\E t \in Tables : op \in Ops(t)) <=>
           \/ op \in Ops(ArithCodes) \/ op \in Ops(ImmCodes) \/ op \in Ops(PairCodes)
           \/ op \in Ops(CountCodes) \/ op \in Ops(MovCodes) \/ op \in Ops(JumpCodes)
           \/ op \in Ops(CallCodes) \/ op \in Ops(PlainCodes)
  BY Zenon DEF Tables
<1> QED
  BY <1>1, <1>2

\* The names in the tables of opcodes.
LEMMA OpsAre ==
  /\ Ops(ArithCodes) = {"ADD", "ADC", "SUB", "SBB", "ANA", "XRA", "ORA", "CMP", "RLC", "RRC", "RAR"}
  /\ Ops(ImmCodes) = {"ADI", "ACI", "SUI", "SBI", "ANI", "XRI", "ORI", "CPI"}
  /\ Ops(PairCodes) = {"DAD", "DCX", "INX", "STAX", "LDAX"}
  /\ Ops(CountCodes) = {"INR", "DCR"}
  /\ Ops(MovCodes) = {"MOV", "POP", "PUSH", "SPHL", "XCHG"}
  /\ Ops(JumpCodes) = {"JNZ", "JMP", "JZ", "JNC", "JC", "JP", "JM"}
  /\ Ops(CallCodes) = {"CNZ", "CZ", "CALL", "CC", "CPO", "CPE", "CP", "CM"}
  /\ Ops(PlainCodes) = {"RNZ", "RZ", "RET", "RNC", "RC", "RPO", "RPE", "RP", "RM", "PCHL",
                        "CMA", "DAA"}
  BY SMTT(30) DEF Ops, ArithCodes, ImmCodes, PairCodes, CountCodes, MovCodes, JumpCodes,
                  CallCodes, PlainCodes

LEMMA InvalidIs ==
  "INVALID" \notin Assembled \union DataOps \union {"DS"}
  BY AssembledAre, OpsAre DEF DataOps

\* What a line counts for is what the assembler makes of it, unless the source
\* has something that is Miscounted.
Sized(line, size) ==
    line.instr \in Assembled \union DataOps \union {"DS"} /\ Counted =>
      line.instr # "DS" /\ size = SizeOf(line.instr, line.bytes)

\* Only MOV has a second register; SBI is never found.
Shaped(line) ==
    line.instr # "SBI" /\ (line.instr \notin {"MOV", "INVALID"} => line.reg[2] = "NONE")

\* Nothing but MOV stores a second register.
LEMMA OperandsShape ==
  ASSUME SourceOK, NEW op \in LexedOps, op # "MOV", NEW l, Fresh(l), NEW i \in 1..Behind
  PROVE  Operands(op, l, i).line.reg[2] = "NONE"
<1>1. l.reg \in [1..2 -> Regs] /\ l.reg[2] = "NONE" /\ l \in Line
  BY DEF Fresh, Line
<1>2. ASSUME NEW x PROVE [l EXCEPT !.reg[1] = x].reg[2] = "NONE"
  BY <1>1 DEF Line
<1>3. ASSUME NEW x, NEW y
      PROVE  /\ [l EXCEPT !.imm = x].reg[2] = "NONE" /\ [l EXCEPT !.symbol = x].reg[2] = "NONE"
             /\ [l EXCEPT !.reg[1] = x, !.imm = y].reg[2] = "NONE"
  BY <1>1 DEF Line
<1>4. OneReg(l, i).line.reg[2] = "NONE"
  BY <1>2 DEF OneReg, Outcome
<1>5. \A size : Imm(l, i, size).line.reg[2] = "NONE"
  BY <1>1, <1>3 DEF Imm, Outcome
<1>6. \A size : RegImm(l, i, size).line.reg[2] = "NONE"
  BY <1>1, <1>3 DEF RegImm, Outcome
<1>7. Data(l, i).line.reg[2] = "NONE"
  BY <1>1, DataIs
<1>8. Outcome(l, i, 1, TRUE).line.reg[2] = "NONE"
  BY <1>1 DEF Outcome
<1> QED
  <2> DEFINE out == Operands(op, l, i)
  <2> SUFFICES out.line.reg[2] = "NONE"
    OBVIOUS
  <2>1. \/ out = OneReg(l, i) \/ out = Imm(l, i, 2) \/ out = RegImm(l, i, 2)
        \/ out = RegImm(l, i, 3) \/ out = Imm(l, i, 3) \/ out = Outcome(l, i, 1, TRUE)
        \/ out = Data(l, i) \/ out = Imm(l, i, 1)
    BY OperandsAre
  <2> HIDE DEF out
  <2> QED
    BY <1>4, <1>5, <1>6, <1>7, <1>8, <2>1

\* A statement whose operands begin at i.
GoodStatement(out, l, i) ==
    /\ out.line \in Line /\ out.line.label = l.label
    /\ out.next \in i..Behind /\ out.size \in Nat /\ out.ok \in BOOLEAN
    /\ Sized(out.line, out.size) /\ Shaped(out.line)

LEMMA StatementIs ==
  ASSUME SourceOK, NEW l, Fresh(l), NEW j \in 1..Behind, NEW k, GoodToken(k, j)
  PROVE  GoodStatement(Statement(l, k), l, k.next)
<1> DEFINE w == k.tok.s
           dir == FindMnemonic(Directives, w)
           op == FindMnemonic(Instrs, w)
           out == Operands(op, l, k.next)
<1>4. k.next \in k.next..Behind /\ k.next \in 1..Behind
  BY BehindIs DEF GoodToken
<1>5. Counted /\ k.tok.t \in WordKinds => w \notin Miscounted
  BY DEF GoodToken, Counted, SourceWords
<1>1. CASE k.tok.t = "directive" /\ dir \in CasedDirectives
  <2>1. Statement(l, k) = Outcome([l EXCEPT !.instr = SharedCode(dir)], k.next, 1, TRUE)
    BY <1>1 DEF Statement
  <2>2. w = dir
    BY <1>1, FoundIs DEF CasedDirectives
  <2> HIDE DEF dir, w
  <2> DEFINE code == SharedCode(dir)
  <2>3. code \in {"ACI", "ADC", "ADD", "ANA", "AND", "ANI", "CALL"}
    BY <1>1, SharedCodeIs DEF CasedDirectives
  <2>4. Counted => code \in {"ADC", "ADD", "ANA", "AND"}
    BY <1>1, <1>5, <2>2, SharedCodeIs DEF CasedDirectives, Miscounted, WordKinds
  <2> HIDE DEF code
  <2>5. code \in Codes
    BY <2>3 DEF Codes, LexedOps, OneRegOps, ImmOps, CallOps
  <2>6. \A b : Counted => code # "DS" /\ SizeOf(code, b) = 1
    BY <2>4 DEF SizeOf, DataOps, ImmOps, JumpOps, CallOps
  <2> DEFINE line == [l EXCEPT !.instr = code]
  <2>7. line \in Line /\ line.label = l.label /\ line.instr = code /\ line.reg[2] = "NONE"
    BY <2>5 DEF Fresh, Line
  <2> HIDE DEF line
  <2>8. Statement(l, k) = Outcome(line, k.next, 1, TRUE)
    BY <2>1 DEF line, code
  <2> QED
    BY <1>4, <2>3, <2>6, <2>7, <2>8 DEF GoodStatement, Sized, Shaped, Outcome, code
<1>2. CASE k.tok.t = "instr" /\ op \in LexedOps
  <2>1. Statement(l, k) = [out EXCEPT !.line.instr = IF out.ok THEN op ELSE "INVALID"]
    BY <1>2 DEF Statement
  <2>2. GoodOutcome(out, l, k.next) /\ out.size = SizeOf(op, out.line.bytes)
    BY <1>2, <1>4, OperandsIs
  <2>3. op = "DS" => ~Counted
    BY <1>2, <1>5, FoundIs DEF Miscounted, WordKinds
  <2>9. op # "SBI" /\ (op # "MOV" => out.line.reg[2] = "NONE")
    BY <1>2, <1>4, SbiNotFound, OperandsShape
  <2> HIDE DEF out, op, w
  <2> DEFINE code == IF out.ok THEN op ELSE "INVALID"
             line == [out.line EXCEPT !.instr = code]
  <2>4. Statement(l, k) = Outcome(line, out.next, out.size, out.ok)
    BY <2>1, <2>2 DEF GoodOutcome, Outcome
  <2>5. code \in Codes
    BY <1>2 DEF Codes
  <2>6. /\ line \in Line /\ line.label = l.label /\ line.instr = code
        /\ line.bytes = out.line.bytes /\ line.reg = out.line.reg
    BY <2>2, <2>5 DEF GoodOutcome, Line
  <2>10. Shaped(line)
    BY <2>6, <2>9 DEF Shaped
  <2>7. code \in Assembled \union DataOps \union {"DS"} => code = op
    BY InvalidIs
  <2> HIDE DEF code, line
  <2> QED
    BY <2>2, <2>3, <2>4, <2>6, <2>7, <2>10 DEF GoodStatement, Sized, GoodOutcome, Outcome
<1>3. CASE Statement(l, k) = Outcome(l, k.next, 1, TRUE)
  BY <1>3, <1>4, InvalidIs DEF GoodStatement, Sized, Shaped, Outcome, Fresh
<1> QED
  <2>1. \/ k.tok.t = "directive" /\ dir \in CasedDirectives
        \/ k.tok.t = "instr" /\ op \in LexedOps
        \/ Statement(l, k) = Outcome(l, k.next, 1, TRUE)
    BY DEF Statement
  <2> QED
    BY <1>1, <1>2, <1>3, <2>1

---------------------------------------------------------------------------
\* The inductive invariant of the lexer.

Symbol == [name : Labels, addr : Nat]

Room ==
    /\ lines \in Seq(Line) /\ Len(lines) <= Capacity
    /\ symbols \in Seq(Symbol) /\ Len(symbols) <= Capacity

LexInv ==
    /\ source \in Sources
    /\ cursor \in 1..Behind
    /\ text_addr \in Nat
    /\ phase \in {"lexing", "failed", "resolved"}
    /\ Room
    /\ SymbolsFaithful

LEMMA CapacityIs ==
  ASSUME SourceOK
  PROVE  Capacity \in Nat
<1>1. Newlines(Len(source) + 1) \subseteq 1..Len(source)
  BY DEF Newlines
<1>2. IsFiniteSet(1..Len(source))
  BY BehindIs, FS_Interval
<1> QED
  BY <1>1, <1>2, FS_Subset, FS_CardinalityType DEF Capacity

\* An increasing enumeration of a part of 1..m has at most m members.
LEMMA IncreasingIs ==
  ASSUME NEW n \in Nat, NEW m \in Nat, NEW f \in [1..n -> 1..m],
         \A j, k \in 1..n : j < k => f[j] < f[k]
  PROVE  n <= m
<1> DEFINE U == {k \in Nat : k + 1 \in 1..n => f[k + 1] >= k + 1}
<1>1. 0 \in U
  OBVIOUS
<1>2. ASSUME NEW k \in U \cap Nat PROVE k + 1 \in U
  <2> SUFFICES ASSUME (k + 1) + 1 \in 1..n PROVE f[(k + 1) + 1] >= (k + 1) + 1
    OBVIOUS
  <2>1. k + 1 \in 1..n /\ k + 1 < (k + 1) + 1
    OBVIOUS
  <2>2. f[k + 1] >= k + 1 /\ f[k + 1] < f[(k + 1) + 1]
    BY <2>1
  <2>3. f[k + 1] \in Nat /\ f[(k + 1) + 1] \in Nat
    BY <2>1
  <2> QED
    BY <2>2, <2>3
<1>3. Nat \subseteq U
  <2> HIDE DEF U
  <2> QED
    BY <1>1, <1>2, SetInduction
<1>4. CASE n # 0
  <2>1. n - 1 \in U /\ (n - 1) + 1 = n /\ n \in 1..n
    BY SMTT(30), <1>3, <1>4
  <2>2. f[n] >= n /\ f[n] \in 1..m
    BY <2>1
  <2> QED
    BY <2>2
<1> QED
  BY <1>4

\* The symbols are the labels of the lines, in order: symbol k is of line[k].
Enumerates(line, syms, ls) ==
    /\ line \in [DOMAIN syms -> DOMAIN ls]
    /\ \A j, k \in DOMAIN syms : j < k => line[j] < line[k]
    /\ \A i \in DOMAIN ls : HasLabel(ls[i]) <=> \E k \in DOMAIN syms : line[k] = i
    /\ \A k \in DOMAIN syms : syms[k] = [name |-> ls[line[k]].label, addr |-> ls[line[k]].addr]

LEMMA FaithfulIs ==
  SymbolsFaithful <=> (phase # "failed" => \E line : Enumerates(line, symbols, lines))
  BY DEF SymbolsFaithful, Enumerates

LEMMA EnumeratesUnlabelled ==
  ASSUME NEW ls \in Seq(Line), NEW syms \in Seq(Symbol), NEW line, Enumerates(line, syms, ls),
         NEW l \in Line, ~HasLabel(l)
  PROVE  Enumerates(line, syms, Append(ls, l))
<1> DEFINE more == Append(ls, l)
<1>1. /\ DOMAIN more = 1..(Len(ls) + 1) /\ DOMAIN ls = 1..Len(ls) /\ Len(ls) \in Nat
      /\ \A i \in DOMAIN ls : more[i] = ls[i]
      /\ more[Len(ls) + 1] = l
  OBVIOUS
<1> HIDE DEF more
<1>2. \A k \in DOMAIN syms : line[k] \in DOMAIN ls
  BY DEF Enumerates
<1>3. line \in [DOMAIN syms -> DOMAIN more]
  BY <1>1, <1>2 DEF Enumerates
<1>4. ASSUME NEW i \in DOMAIN more
      PROVE  HasLabel(more[i]) <=> \E k \in DOMAIN syms : line[k] = i
  <2>1. CASE i \in DOMAIN ls
    BY <1>1, <2>1 DEF Enumerates
  <2>2. CASE i = Len(ls) + 1
    BY <1>1, <1>2, <2>2
  <2> QED
    BY <1>1, <2>1, <2>2
<1>5. \A k \in DOMAIN syms : syms[k] = [name |-> more[line[k]].label, addr |-> more[line[k]].addr]
  BY <1>1, <1>2 DEF Enumerates
<1> QED
  BY <1>3, <1>4, <1>5 DEF Enumerates, more

LEMMA EnumeratesLabelled ==
  ASSUME NEW ls \in Seq(Line), NEW syms \in Seq(Symbol), NEW line, Enumerates(line, syms, ls),
         NEW l \in Line, HasLabel(l), NEW sym, sym = [name |-> l.label, addr |-> l.addr]
  PROVE  \E line2 : Enumerates(line2, Append(syms, sym), Append(ls, l))
<1> DEFINE more == Append(ls, l)
           ext == Append(syms, sym)
           line2 == [k \in DOMAIN ext |-> IF k \in DOMAIN syms THEN line[k] ELSE Len(ls) + 1]
<1>1. /\ DOMAIN more = 1..(Len(ls) + 1) /\ DOMAIN ls = 1..Len(ls) /\ Len(ls) \in Nat
      /\ \A i \in DOMAIN ls : more[i] = ls[i]
      /\ more[Len(ls) + 1] = l
  OBVIOUS
<1>2. /\ DOMAIN ext = 1..(Len(syms) + 1) /\ DOMAIN syms = 1..Len(syms) /\ Len(syms) \in Nat
      /\ \A k \in DOMAIN syms : ext[k] = syms[k]
      /\ ext[Len(syms) + 1] = sym
  OBVIOUS
<1> HIDE DEF more, ext
<1>3. \A k \in DOMAIN syms : line[k] \in DOMAIN ls
  BY DEF Enumerates
<1>4. /\ \A k \in DOMAIN syms : k \in DOMAIN ext /\ line2[k] = line[k]
      /\ Len(syms) + 1 \in DOMAIN ext /\ line2[Len(syms) + 1] = Len(ls) + 1
      /\ \A k \in DOMAIN ext : k \in DOMAIN syms \/ k = Len(syms) + 1
  BY <1>2
<1>5. line2 \in [DOMAIN ext -> DOMAIN more]
  BY <1>1, <1>3, <1>4
<1> HIDE DEF line2
<1>6. ASSUME NEW j \in DOMAIN ext, NEW k \in DOMAIN ext, j < k PROVE line2[j] < line2[k]
  <2>1. j \in DOMAIN syms
    BY <1>2, <1>6
  <2>2. CASE k \in DOMAIN syms
    BY <1>4, <1>6, <2>1, <2>2 DEF Enumerates
  <2>3. CASE k = Len(syms) + 1
    <3>1. line[j] < Len(ls) + 1
      BY <1>1, <1>3, <2>1
    <3> QED
      BY <1>4, <2>1, <2>3, <3>1
  <2> QED
    BY <1>4, <2>2, <2>3
<1>7. ASSUME NEW i \in DOMAIN more
      PROVE  HasLabel(more[i]) <=> \E k \in DOMAIN ext : line2[k] = i
  <2>1. CASE i \in DOMAIN ls
    <3>1. HasLabel(more[i]) <=> \E k \in DOMAIN syms : line[k] = i
      BY <1>1, <2>1 DEF Enumerates
    <3>2. i # Len(ls) + 1
      BY <1>1, <2>1
    <3> QED
      BY <1>4, <3>1, <3>2
  <2>2. CASE i = Len(ls) + 1
    BY <1>1, <1>4, <2>2
  <2> QED
    BY <1>1, <2>1, <2>2
<1>8. ASSUME NEW k \in DOMAIN ext
      PROVE  ext[k] = [name |-> more[line2[k]].label, addr |-> more[line2[k]].addr]
  <2>1. CASE k \in DOMAIN syms
    BY <1>1, <1>2, <1>3, <1>4, <2>1 DEF Enumerates
  <2>2. CASE k = Len(syms) + 1
    BY <1>1, <1>2, <1>4, <2>2
  <2> QED
    BY <1>4, <2>1, <2>2
<1> QED
  BY <1>5, <1>6, <1>7, <1>8 DEF Enumerates, ext, more

---------------------------------------------------------------------------
\* The steps of the lexer.

\* What lex_line leaves for source_info_add_line.
Given(out) ==
    /\ out.line \in Line /\ out.next \in 1..Behind /\ out.size \in Nat /\ out.ok \in BOOLEAN
    /\ Sized(out.line, out.size) /\ Shaped(out.line)

\* A step of LexLine: the line it gives and the symbol it adds.
LineStep(out) ==
    /\ Given(out) /\ EndLine(out) /\ source' = source
    /\ \/ ~HasLabel(out.line) /\ symbols' = symbols
       \/ HasLabel(out.line) /\ Len(symbols) = Capacity /\ symbols' = symbols
       \/ /\ HasLabel(out.line) /\ Len(symbols) < Capacity
          /\ symbols' = Append(symbols, [name |-> out.line.label, addr |-> text_addr])

LEMMA LexLineIs ==
  ASSUME SourceOK, cursor \in 1..Behind, LexLine
  PROVE  \E out : LineStep(out)
<1> DEFINE first == Token(cursor)
           labelled == [EmptyLine EXCEPT !.label = first.tok.s]
           bad(l) == Outcome(l, first.next, 1, FALSE)
<1>1. GoodToken(first, cursor)
  BY TokenIs
<1>2. first.next \in 1..Behind
  BY <1>1, BehindIs DEF GoodToken
<1>3. Fresh(EmptyLine) /\ ~HasLabel(EmptyLine)
  BY EmptyLineFresh DEF HasLabel
<1>4. first.tok.t = "label" => Fresh(labelled) /\ HasLabel(labelled) /\ labelled.label = first.tok.s
  <2>1. first.tok.t = "label" => first.tok.s \in Labels /\ first.tok.s # NoName
    BY <1>1, SourceAssumption DEF GoodToken, Labels
  <2>2. "label" \in DOMAIN EmptyLine
    BY DEF EmptyLine
  <2>3. labelled.label = first.tok.s
    BY <2>2
  <2> QED
    BY <2>1, <2>3, EmptyLineFresh DEF HasLabel
<1>5. ASSUME NEW l, Fresh(l) PROVE Given(bad(l))
  BY <1>2, <1>5, InvalidIs DEF Given, Sized, Shaped, Outcome, Fresh
<1>6. ASSUME NEW l, Fresh(l), NEW j \in 1..Behind, NEW k, GoodToken(k, j)
      PROVE  Given(Statement(l, k)) /\ Statement(l, k).line.label = l.label
  <2>1. GoodStatement(Statement(l, k), l, k.next)
    BY <1>6, StatementIs
  <2>2. k.next \in 1..Behind
    BY <1>6, BehindIs DEF GoodToken
  <2> QED
    BY <2>1, <2>2, BehindIs DEF GoodStatement, Given
<1> HIDE DEF labelled
<1>7. \/ first.tok.t = "none" /\ EndLine(bad(EmptyLine)) /\ UNCHANGED symbols
      \/ /\ first.tok.t = "label" /\ Len(symbols) = Capacity
         /\ EndLine(bad(labelled)) /\ UNCHANGED symbols
      \/ /\ first.tok.t = "label" /\ Len(symbols) < Capacity
         /\ EndLine(Statement(labelled, Token(first.next)))
         /\ symbols' = Append(symbols, [name |-> first.tok.s, addr |-> text_addr])
      \/ /\ first.tok.t \notin {"none", "label"}
         /\ EndLine(Statement(EmptyLine, first)) /\ UNCHANGED symbols
  BY DEF LexLine, labelled
<1>8. source' = source
  BY DEF LexLine
<1> HIDE DEF first
<1>9. CASE first.tok.t = "none" /\ EndLine(bad(EmptyLine)) /\ UNCHANGED symbols
  <2>1. bad(EmptyLine).line = EmptyLine
    BY DEF Outcome
  <2>2. LineStep(bad(EmptyLine))
    BY <1>3, <1>5, <1>8, <1>9, <2>1 DEF LineStep
  <2> QED
    BY <2>2
<1>10. CASE /\ first.tok.t = "label" /\ Len(symbols) = Capacity
            /\ EndLine(bad(labelled)) /\ UNCHANGED symbols
  <2>1. bad(labelled).line = labelled
    BY DEF Outcome
  <2>2. LineStep(bad(labelled))
    BY <1>4, <1>5, <1>8, <1>10, <2>1 DEF LineStep
  <2> QED
    BY <2>2
<1>11. CASE /\ first.tok.t = "label" /\ Len(symbols) < Capacity
            /\ EndLine(Statement(labelled, Token(first.next)))
            /\ symbols' = Append(symbols, [name |-> first.tok.s, addr |-> text_addr])
  <2> DEFINE out == Statement(labelled, Token(first.next))
  <2>1. GoodToken(Token(first.next), first.next)
    BY <1>2, TokenIs
  <2>2. Given(out) /\ out.line.label = labelled.label
    BY <1>2, <1>4, <1>6, <1>11, <2>1
  <2>3. HasLabel(out.line) /\ out.line.label = first.tok.s
    BY <1>4, <1>11, <2>2 DEF HasLabel
  <2>4. LineStep(out)
    BY <1>8, <1>11, <2>2, <2>3 DEF LineStep
  <2> QED
    BY <2>4
<1>12. CASE /\ first.tok.t \notin {"none", "label"}
            /\ EndLine(Statement(EmptyLine, first)) /\ UNCHANGED symbols
  <2>1. Given(Statement(EmptyLine, first)) /\ Statement(EmptyLine, first).line.label = EmptyLine.label
    BY <1>1, <1>3, <1>6
  <2>2. ~HasLabel(Statement(EmptyLine, first).line)
    BY <1>3, <2>1 DEF HasLabel
  <2>3. LineStep(Statement(EmptyLine, first))
    BY <1>8, <1>12, <2>1, <2>2 DEF LineStep
  <2> QED
    BY <2>3
<1> QED
  BY <1>7, <1>9, <1>10, <1>11, <1>12

\* The line out has become when it is added.
Added(out) == [out.line EXCEPT !.addr = text_addr, !.error = ~out.ok]

LEMMA AddedIs ==
  ASSUME NEW out, Given(out), text_addr \in Nat
  PROVE  /\ Added(out) \in Line /\ Added(out).addr = text_addr
         /\ Added(out).label = out.line.label /\ Added(out).instr = out.line.instr
         /\ Added(out).bytes = out.line.bytes /\ Added(out).reg = out.line.reg
         /\ HasLabel(Added(out)) <=> HasLabel(out.line)
  BY DEF Given, Added, Line, HasLabel

LEMMA EndLineIs ==
  ASSUME NEW out, LineStep(out)
  PROVE  /\ cursor' = out.next /\ text_addr' = text_addr + out.size
         /\ \/ Len(lines) = Capacity /\ phase' = "failed" /\ lines' = lines
            \/ Len(lines) # Capacity /\ phase' = phase /\ lines' = Append(lines, Added(out))
  BY DEF LineStep, EndLine, Added

\* Resolving replaces immediates and nothing else.
LEMMA ResolvedIs ==
  ASSUME NEW l \in Line, symbols \in Seq(Symbol), NEW stray
  PROVE  /\ Resolved(l, stray) \in Line
         /\ [Resolved(l, stray) EXCEPT !.imm = 0] = [l EXCEPT !.imm = 0]
         /\ l.symbol = NoName => Resolved(l, stray) = l
         /\ Resolved(l, stray).label = l.label /\ Resolved(l, stray).addr = l.addr
         /\ Resolved(l, stray).instr = l.instr /\ Resolved(l, stray).bytes = l.bytes
         /\ Resolved(l, stray).symbol = l.symbol /\ Resolved(l, stray).reg = l.reg
<1> DEFINE found == {i \in 1..Len(symbols) : Matches(symbols[i].name, l.symbol, stray)}
<1>1. CASE l.symbol = NoName \/ found = {}
  BY <1>1 DEF Resolved
<1>2. CASE l.symbol # NoName /\ found # {}
  <2>1. Min(found) \in found
    <3>1. found \in SUBSET Nat
      OBVIOUS
    <3> HIDE DEF found
    <3> QED
      BY <1>2, <3>1, MinIs
  <2>2. Min(found) \in 1..Len(symbols)
    BY <2>1
  <2>3. symbols[Min(found)] \in Symbol
    <3> HIDE DEF found
    <3> QED
      BY <2>2
  <2>4. symbols[Min(found)].addr \in Nat
    BY <2>3 DEF Symbol
  <2> DEFINE imm == symbols[Min(found)].addr
  <2>5. Resolved(l, stray) = [l EXCEPT !.imm = imm]
    BY <1>2 DEF Resolved
  <2>6. imm \in Nat
    BY <2>4
  <2> HIDE DEF imm
  <2> QED
    BY <1>2, <2>5, <2>6 DEF Line
<1> QED
  BY <1>1, <1>2

\* ResolveLabels: as many lines as before, each resolved.
LEMMA ResolveLabelsIs ==
  ASSUME Room, ResolveLabels
  PROVE  \E stray : /\ lines' = [i \in 1..Len(lines) |-> Resolved(lines[i], stray)]
                    /\ lines' \in Seq(Line) /\ Len(lines') = Len(lines)
                    /\ DOMAIN lines' = DOMAIN lines
                    /\ \A i \in DOMAIN lines : lines'[i] = Resolved(lines[i], stray)
<1>1. PICK stray \in SUBSET Names :
        lines' = [i \in 1..Len(lines) |-> Resolved(lines[i], stray)]
  BY DEF ResolveLabels
<1>2. \A i \in 1..Len(lines) : lines[i] \in Line
  BY DEF Room
<1>3. \A i \in 1..Len(lines) : Resolved(lines[i], stray) \in Line
  BY <1>2, ResolvedIs DEF Room
<1>4. Len(lines) \in Nat /\ DOMAIN lines = 1..Len(lines)
  BY DEF Room
<1>5. lines' \in [1..Len(lines) -> Line]
  BY <1>1, <1>3
<1> QED
  BY <1>1, <1>4, <1>5

LEMMA LexInvInit ==
  ASSUME LexInit
  PROVE  LexInv
<1>1. SourceOK
  BY SourceTyped DEF LexInit
<1>2. Capacity \in Nat
  BY <1>1, CapacityIs
<1>3. <<>> \in Seq(Line) /\ <<>> \in Seq(Symbol) /\ Len(<<>>) = 0 /\ DOMAIN <<>> = {}
  BY EmptySeq
<1>4. Room
  BY <1>2, <1>3 DEF Room, LexInit
<1>5. Enumerates([k \in {} |-> 1], symbols, lines)
  BY <1>3 DEF Enumerates, LexInit
<1> QED
  BY <1>1, <1>4, <1>5, BehindIs, FaithfulIs, StartAssumption DEF LexInv, LexInit

\* One more is within a limit that has not been reached.
LEMMA AppendStays ==
  ASSUME NEW S, NEW s \in Seq(S), NEW e \in S, NEW n \in Nat, Len(s) <= n, Len(s) # n
  PROVE  Append(s, e) \in Seq(S) /\ Len(Append(s, e)) <= n
  OBVIOUS

LEMMA LexInvStep ==
  ASSUME LexInv, [LexNext]_lexVars
  PROVE  LexInv'
<1>1. SourceOK
  BY SourceTyped DEF LexInv
<1>2. Capacity \in Nat
  BY <1>1, CapacityIs
<1>3. CASE SkipLayout
  <2>1. /\ UNCHANGED <<source, text_addr, lines, symbols, phase>>
        /\ cursor' = cursor + 1 /\ cursor <= Len(source)
    BY <1>3 DEF SkipLayout, Lexing
  <2>2. cursor' \in 1..Behind'
    BY <1>1, <2>1, BehindIs DEF LexInv, Behind
  <2>3. Room' /\ SymbolsFaithful'
    BY <2>1 DEF LexInv, Room, Capacity, Newlines, SymbolsFaithful
  <2> QED
    BY <2>1, <2>2, <2>3 DEF LexInv
<1>4. CASE LexLine
  <2>1. PICK out : LineStep(out)
    BY <1>1, <1>4, LexLineIs DEF LexInv
  <2>2. phase = "lexing"
    BY <1>4 DEF LexLine, Lexing
  <2>3. source' = source /\ Behind' = Behind /\ Capacity' = Capacity
    BY <2>1 DEF LineStep, Behind, Capacity, Newlines
  <2>4. Given(out)
    BY <2>1 DEF LineStep
  <2>5. /\ Added(out) \in Line /\ Added(out).addr = text_addr
        /\ Added(out).label = out.line.label
        /\ HasLabel(Added(out)) <=> HasLabel(out.line)
    BY <2>4, AddedIs DEF LexInv
  <2>6. /\ cursor' = out.next /\ text_addr' = text_addr + out.size
        /\ \/ Len(lines) = Capacity /\ phase' = "failed" /\ lines' = lines
           \/ Len(lines) # Capacity /\ phase' = phase /\ lines' = Append(lines, Added(out))
    BY <2>1, EndLineIs
  <2>7. cursor' \in 1..Behind' /\ text_addr' \in Nat
    BY <2>3, <2>4, <2>6 DEF Given, LexInv
  <2>8. lines' \in Seq(Line) /\ Len(lines') <= Capacity'
    <3>1. lines \in Seq(Line) /\ Len(lines) <= Capacity
      BY DEF LexInv, Room
    <3>2. CASE lines' = lines
      BY <2>3, <3>1, <3>2
    <3>3. CASE Len(lines) # Capacity /\ lines' = Append(lines, Added(out))
      BY <1>2, <2>3, <2>5, <3>1, <3>3, AppendStays
    <3> QED
      BY <2>6, <3>2, <3>3
  <2> DEFINE sym == [name |-> out.line.label, addr |-> text_addr]
  <2>9. HasLabel(out.line) => sym \in Symbol
    BY <2>4 DEF Given, Line, HasLabel, Symbol, LexInv
  <2>10. symbols' \in Seq(Symbol) /\ Len(symbols') <= Capacity'
    <3>1. CASE symbols' = symbols
      BY <2>3, <3>1 DEF LexInv, Room
    <3>2. CASE HasLabel(out.line) /\ Len(symbols) < Capacity /\ symbols' = Append(symbols, sym)
      <4>1. symbols \in Seq(Symbol) /\ Len(symbols) < Capacity /\ sym \in Symbol
        BY <2>9, <3>2 DEF LexInv, Room
      <4> HIDE DEF sym
      <4> QED
        BY <1>2, <2>3, <3>2, <4>1, AppendStays
    <3> QED
      BY <2>1, <3>1, <3>2 DEF LineStep
  <2>11. phase' # "failed" => \E line : Enumerates(line, symbols', lines')
    <3> SUFFICES ASSUME phase' # "failed" PROVE \E line : Enumerates(line, symbols', lines')
      OBVIOUS
    <3>1. Len(lines) # Capacity /\ lines' = Append(lines, Added(out))
      BY <2>6
    <3>2. PICK line : Enumerates(line, symbols, lines)
      BY <2>2, FaithfulIs DEF LexInv
    <3>3. lines \in Seq(Line) /\ symbols \in Seq(Symbol)
      BY DEF LexInv, Room
    <3>4. CASE ~HasLabel(out.line) /\ symbols' = symbols
      <4>1. Enumerates(line, symbols, Append(lines, Added(out)))
        BY <2>5, <3>2, <3>3, <3>4, EnumeratesUnlabelled
      <4> QED
        BY <3>1, <3>4, <4>1
    <3>5. CASE Len(symbols) = Capacity
      <4>1. Len(symbols) <= Len(lines)
        <5>1. /\ DOMAIN symbols = 1..Len(symbols) /\ Len(symbols) \in Nat
              /\ DOMAIN lines = 1..Len(lines) /\ Len(lines) \in Nat
          BY <3>3
        <5>2. /\ line \in [1..Len(symbols) -> 1..Len(lines)]
              /\ \A j, k \in 1..Len(symbols) : j < k => line[j] < line[k]
          BY <3>2, <5>1 DEF Enumerates
        <5> QED
          BY <5>1, <5>2, IncreasingIs
      <4> QED
        BY <1>2, <3>1, <3>3, <3>5, <4>1 DEF LexInv, Room
    <3>6. CASE HasLabel(out.line) /\ symbols' = Append(symbols, sym)
      <4>1. sym = [name |-> Added(out).label, addr |-> Added(out).addr]
        BY <2>5
      <4>2. HasLabel(Added(out))
        BY <2>5, <3>6
      <4> QED
        BY <2>5, <3>1, <3>2, <3>3, <3>6, <4>1, <4>2, EnumeratesLabelled
    <3> QED
      BY <2>1, <3>4, <3>5, <3>6 DEF LineStep
  <2>12. SymbolsFaithful'
    BY <2>11 DEF SymbolsFaithful, Enumerates, HasLabel
  <2>13. phase' \in {"lexing", "failed", "resolved"}
    BY <2>2, <2>6
  <2>14. Room'
    BY <2>8, <2>10 DEF Room
  <2> QED
    BY <2>3, <2>7, <2>12, <2>13, <2>14 DEF LexInv
<1>5. CASE ResolveLabels
  <2>1. UNCHANGED <<source, cursor, text_addr, symbols>> /\ phase = "lexing" /\ phase' = "resolved"
    BY <1>5 DEF ResolveLabels
  <2>2. PICK stray : /\ lines' \in Seq(Line) /\ Len(lines') = Len(lines)
                     /\ DOMAIN lines' = DOMAIN lines
                     /\ \A i \in DOMAIN lines : lines'[i] = Resolved(lines[i], stray)
    BY <1>5, ResolveLabelsIs DEF LexInv
  <2>3. Room'
    BY <2>1, <2>2 DEF LexInv, Room, Capacity, Newlines
  <2>4. (\A i \in DOMAIN lines : lines[i] \in Line) /\ symbols \in Seq(Symbol)
    BY DEF LexInv, Room
  <2>5. \A i \in DOMAIN lines : lines'[i].label = lines[i].label /\ lines'[i].addr = lines[i].addr
    <3>1. \A i \in DOMAIN lines : /\ Resolved(lines[i], stray).label = lines[i].label
                                  /\ Resolved(lines[i], stray).addr = lines[i].addr
      BY <2>4, ResolvedIs
    <3> QED
      BY <2>2, <3>1
  <2>6. PICK line : Enumerates(line, symbols, lines)
    BY <2>1, FaithfulIs DEF LexInv
  <2>7. Enumerates(line, symbols', lines')
    BY <2>1, <2>2, <2>5, <2>6 DEF Enumerates, HasLabel
  <2>8. SymbolsFaithful'
    BY <2>7 DEF SymbolsFaithful, Enumerates, HasLabel
  <2> QED
    BY <2>1, <2>3, <2>8 DEF LexInv, Behind
<1>6. CASE UNCHANGED lexVars
  BY <1>6 DEF lexVars, LexInv, Behind, Room, Capacity, Newlines, SymbolsFaithful, HasLabel
<1> QED
  BY <1>3, <1>4, <1>5, <1>6 DEF LexNext

---------------------------------------------------------------------------
\* The lexer, on its own.

LEMMA LexInvHolds == LexInit /\ [][LexNext]_lexVars => []LexInv
  BY LexInvInit, LexInvStep, PTL

LEMMA LexInvTypes ==
  ASSUME LexInv
  PROVE  LexTypeOK
<1>1. /\ DOMAIN lines = 1..Len(lines) /\ Len(lines) \in Nat
      /\ DOMAIN symbols = 1..Len(symbols) /\ Len(symbols) \in Nat
      /\ \A i \in DOMAIN lines : lines[i] \in Line
      /\ \A i \in DOMAIN symbols : symbols[i] \in Symbol
  BY DEF LexInv, Room
<1>2. Capacity \in Nat
  BY SourceTyped, CapacityIs DEF LexInv
<1>3. DOMAIN lines \subseteq 1..Capacity /\ DOMAIN symbols \subseteq 1..Capacity
  BY <1>1, <1>2 DEF LexInv, Room
<1>4. \A l \in Line : DOMAIN l = DOMAIN EmptyLine /\ l.addr \in Nat /\ l.imm \in Nat
  BY DEF Line, EmptyLine
<1>5. \A sym \in Symbol : sym.addr \in Nat
  BY DEF Symbol
<1> QED
  BY <1>1, <1>3, <1>4, <1>5 DEF LexInv, LexTypeOK, Behind

\* lex_all stays inside the source and inside the room lex_read_file made for
\* lines and symbols, for every source: neither table is written behind its
\* end, although only the lines are counted against the newlines.
THEOREM LexerTypeCorrect == LexSpec => []LexTypeOK
  BY LexInvHolds, LexInvTypes, PTL DEF LexSpec

\* The symbol table is the list of the labels of the lines, each with the
\* address of its line, for every source.
THEOREM SymbolsAreLabels == LexSpec => []SymbolsFaithful
<1>1. LexInv => SymbolsFaithful
  BY DEF LexInv
<1> QED
  BY <1>1, LexInvHolds, PTL DEF LexSpec

KeepsLines ==
    \A i \in DOMAIN lines :
      /\ i \in DOMAIN lines'
      /\ [lines'[i] EXCEPT !.imm = 0] = [lines[i] EXCEPT !.imm = 0]
      /\ lines[i].symbol = NoName => lines'[i] = lines[i]

LEMMA KeepsLinesStep ==
  ASSUME LexInv, [LexNext]_lexVars
  PROVE  KeepsLines
<1>1. CASE lines' = lines
  BY <1>1 DEF KeepsLines
<1>2. CASE LexLine
  <2>1. PICK out : LineStep(out)
    BY <1>2, SourceTyped, LexLineIs DEF LexInv
  <2>2. lines' = lines \/ lines' = Append(lines, Added(out))
    BY <2>1, EndLineIs
  <2>3. CASE lines' = Append(lines, Added(out))
    <3>1. \A i \in DOMAIN lines : i \in DOMAIN lines' /\ lines'[i] = lines[i]
      BY <2>3 DEF LexInv, Room
    <3> QED
      BY <3>1 DEF KeepsLines
  <2> QED
    BY <1>1, <2>2, <2>3
<1>3. CASE ResolveLabels
  <2>1. PICK stray : /\ DOMAIN lines' = DOMAIN lines
                     /\ \A i \in DOMAIN lines : lines'[i] = Resolved(lines[i], stray)
    BY <1>3, ResolveLabelsIs DEF LexInv
  <2>2. (\A i \in DOMAIN lines : lines[i] \in Line) /\ symbols \in Seq(Symbol)
    BY DEF LexInv, Room
  <2>3. ASSUME NEW i \in DOMAIN lines
        PROVE  /\ [Resolved(lines[i], stray) EXCEPT !.imm = 0] = [lines[i] EXCEPT !.imm = 0]
               /\ lines[i].symbol = NoName => Resolved(lines[i], stray) = lines[i]
    BY <2>2, ResolvedIs
  <2> QED
    BY <2>1, <2>3 DEF KeepsLines
<1> QED
  BY <1>1, <1>2, <1>3 DEF LexNext, SkipLayout, lexVars

\* Whatever follows on a line, no later line and no label changes it but for
\* the immediate of a line that names a label, for every source.
THEOREM LinesStay == LexSpec => LinesKept
<1>1. LexInv /\ [LexNext]_lexVars => [KeepsLines]_lexVars
  BY KeepsLinesStep
<1>2. LexSpec => [][KeepsLines]_lexVars
  BY <1>1, LexInvHolds, PTL DEF LexSpec
<1>3. LinesKept <=> [][KeepsLines]_lexVars
  BY PTL DEF LinesKept, KeepsLines
<1> QED
  BY <1>2, <1>3

\* Begun and Targets of any lines.
BegunIn(ls, name) ==
    {j \in DOMAIN ls : HasLabel(ls[j]) /\ <<name, ls[j].label>> \in PrefixPairs}
TargetsIn(ls, name) ==
    {j \in DOMAIN ls :
        /\ HasLabel(ls[j])
        /\ <<name, ls[j].label>> \in PrefixPairs \/ <<ls[j].label, name>> \in PrefixPairs
        /\ \A k \in BegunIn(ls, name) : j <= k}

\* The first entry that matches a reference is that of one of its targets.
LEMMA FirstFound ==
  ASSUME Room, NEW line, Enumerates(line, symbols, lines), NEW stray,
         NEW i \in DOMAIN lines, lines[i].symbol # NoName, Begun(lines[i].symbol) # {}
  PROVE  \E j \in Targets(lines[i].symbol) : Resolved(lines[i], stray).imm = lines[j].addr
<1> DEFINE ref == lines[i].symbol
           found == {k \in 1..Len(symbols) : Matches(symbols[k].name, ref, stray)}
<1>1. /\ DOMAIN lines = 1..Len(lines) /\ DOMAIN symbols = 1..Len(symbols)
      /\ \A j \in DOMAIN lines : lines[j] \in Line
  BY DEF Room
<1>2. found \in SUBSET Nat /\ found \subseteq DOMAIN symbols
  BY <1>1
<1>3. ASSUME NEW k \in DOMAIN symbols
      PROVE  /\ line[k] \in DOMAIN lines /\ HasLabel(lines[line[k]])
             /\ symbols[k].addr = lines[line[k]].addr
             /\ symbols[k].name = lines[line[k]].label
  BY DEF Enumerates
<1>4. ASSUME NEW k \in found
      PROVE  \/ <<ref, lines[line[k]].label>> \in PrefixPairs
             \/ <<lines[line[k]].label, ref>> \in PrefixPairs
  BY <1>2, <1>3 DEF Matches
<1>5. ASSUME NEW j \in Begun(ref) PROVE \E k \in found : line[k] = j
  <2>1. j \in DOMAIN lines /\ HasLabel(lines[j]) /\ <<ref, lines[j].label>> \in PrefixPairs
    BY DEF Begun
  <2>2. PICK k \in DOMAIN symbols : line[k] = j
    BY <2>1 DEF Enumerates
  <2>3. Matches(symbols[k].name, ref, stray)
    BY <1>3, <2>1, <2>2 DEF Matches
  <2> QED
    BY <1>1, <2>2, <2>3
<1>6. found # {}
  BY <1>5
<1> HIDE DEF found
<1> DEFINE m == Min(found)
<1>7. m \in found /\ \A k \in found : m <= k
  BY <1>2, <1>6, MinIs
<1>8. Resolved(lines[i], stray) = [lines[i] EXCEPT !.imm = symbols[m].addr]
  BY <1>6 DEF Resolved, found, m
<1> HIDE DEF m
<1>9. ASSUME NEW j \in Begun(ref) PROVE line[m] <= j
  <2>1. PICK k \in found : line[k] = j
    BY <1>5
  <2>2. m \in Nat /\ k \in Nat /\ m <= k /\ m \in DOMAIN symbols /\ k \in DOMAIN symbols
    BY <1>2, <1>7
  <2>3. line[m] \in Nat /\ line[k] \in Nat
    BY <1>1, <1>3, <2>2
  <2>4. m < k => line[m] < line[k]
    BY <2>2 DEF Enumerates
  <2> QED
    BY <2>1, <2>2, <2>3, <2>4
<1>10. line[m] \in Targets(ref)
  BY <1>2, <1>3, <1>4, <1>7, <1>9 DEF Targets
<1>11. lines[i] \in Line /\ symbols[m].addr = lines[line[m]].addr
  BY <1>1, <1>2, <1>3, <1>7
<1>12. Resolved(lines[i], stray).imm = lines[line[m]].addr
  BY <1>8, <1>11 DEF Line
<1> QED
  BY <1>10, <1>12

LEMMA ResolvedToLabelStep ==
  ASSUME LexInv, ResolvedToLabel, [LexNext]_lexVars
  PROVE  ResolvedToLabel'
<1>1. CASE UNCHANGED <<lines, phase>>
  BY <1>1 DEF ResolvedToLabel, Begun, Targets, HasLabel
<1>2. CASE LexLine
  <2>1. PICK out : LineStep(out)
    BY <1>2, SourceTyped, LexLineIs DEF LexInv
  <2>2. phase' = "failed" \/ phase' = phase
    BY <2>1, EndLineIs
  <2>3. phase = "lexing"
    BY <1>2 DEF LexLine, Lexing
  <2> QED
    BY <2>2, <2>3 DEF ResolvedToLabel
<1>3. CASE ResolveLabels
  <2>1. PICK stray : /\ DOMAIN lines' = DOMAIN lines
                     /\ \A i \in DOMAIN lines : lines'[i] = Resolved(lines[i], stray)
    BY <1>3, ResolveLabelsIs DEF LexInv
  <2>2. (\A i \in DOMAIN lines : lines[i] \in Line) /\ symbols \in Seq(Symbol)
    BY DEF LexInv, Room
  <2>3. \A i \in DOMAIN lines : /\ Resolved(lines[i], stray).label = lines[i].label
                                /\ Resolved(lines[i], stray).addr = lines[i].addr
                                /\ Resolved(lines[i], stray).symbol = lines[i].symbol
    BY <2>2, ResolvedIs
  <2>4. \A i \in DOMAIN lines : /\ lines'[i].label = lines[i].label
                                /\ lines'[i].addr = lines[i].addr
                                /\ lines'[i].symbol = lines[i].symbol
    BY <2>1, <2>3
  <2>5. PICK line : Enumerates(line, symbols, lines)
    BY <1>3, FaithfulIs DEF LexInv, ResolveLabels
  <2>6. Room
    BY DEF LexInv
  <2>7. \A j \in DOMAIN lines : HasLabel(lines'[j]) <=> HasLabel(lines[j])
    BY <2>4 DEF HasLabel
  <2>8. ASSUME NEW name
        PROVE  BegunIn(lines', name) = Begun(name) /\ TargetsIn(lines', name) = Targets(name)
    <3>1. BegunIn(lines', name) = Begun(name)
      BY <2>1, <2>4, <2>7 DEF Begun, BegunIn
    <3> QED
      BY <2>1, <2>4, <2>7, <3>1 DEF Targets, TargetsIn
  <2>9. ASSUME NEW i \in DOMAIN lines, lines[i].symbol # NoName, Begun(lines[i].symbol) # {}
        PROVE  \E j \in Targets(lines[i].symbol) : lines'[i].imm = lines'[j].addr
    <3>1. PICK j \in Targets(lines[i].symbol) : Resolved(lines[i], stray).imm = lines[j].addr
      BY <2>5, <2>6, <2>9, FirstFound
    <3>2. j \in DOMAIN lines
      BY DEF Targets
    <3>3. lines'[i].imm = lines'[j].addr
      BY <2>1, <2>4, <3>1, <3>2
    <3> QED
      BY <3>3
  <2>10. ASSUME NEW i \in DOMAIN lines', lines'[i].symbol # NoName,
                BegunIn(lines', lines'[i].symbol) # {}
         PROVE  \E j \in TargetsIn(lines', lines'[i].symbol) : lines'[i].imm = lines'[j].addr
    <3> DEFINE name == lines[i].symbol
    <3>1. i \in DOMAIN lines /\ lines'[i].symbol = name
      BY <2>1, <2>4
    <3> QED
      BY <2>8, <2>9, <2>10, <3>1
  <2> QED
    BY <2>10 DEF ResolvedToLabel, Begun, BegunIn, Targets, TargetsIn, HasLabel
<1> QED
  BY <1>1, <1>2, <1>3 DEF LexNext, SkipLayout, lexVars

\* Every reference to a label that some line carries is given the address of
\* the first such line, or of one before it whose label is the beginning of
\* that label or begins with it (symbol_table_get_str), for every source.
THEOREM LabelsResolve == LexSpec => []ResolvedToLabel
<1>1. LexInit => ResolvedToLabel
  BY DEF LexInit, ResolvedToLabel
<1>2. LexInv /\ ResolvedToLabel /\ [LexNext]_lexVars => ResolvedToLabel'
  BY ResolvedToLabelStep
<1> QED
  BY <1>1, <1>2, LexInvHolds, PTL DEF LexSpec

---------------------------------------------------------------------------
\* The assembler: its inductive invariant.

Instr == {x \in [bytes : Seq(A!Byte), addr : Nat] : Len(x.bytes) \in 1..3}

\* Where line i is, or the end when there is no line i.
AddrOf(i) == IF i \in DOMAIN lines THEN lines[i].addr ELSE text_addr

\* Every line takes up what the lexer has counted for it.
Laid == \A i \in DOMAIN lines :
          \E size \in Nat : AddrOf(i + 1) = lines[i].addr + size /\ Sized(lines[i], size)

\* The instructions is lie one behind the other, from address a to address b.
Chained(is, a, b) ==
    IF is = <<>> THEN b = a
    ELSE /\ is[1].addr = a
         /\ \A k \in 2..Len(is) : is[k].addr = is[k - 1].addr + Len(is[k - 1].bytes)
         /\ b = is[Len(is)].addr + Len(is[Len(is)].bytes)

AsmInv ==
    /\ LexInv
    /\ outcome \in {"running", "assembled", "failed"}
    /\ current \in 1..(Len(lines) + 1)
    /\ instrs \in Seq(Instr)
    /\ phase = "lexing" => outcome = "running"
    /\ phase # "resolved" => current = 1 /\ instrs = <<>> /\ outcome # "assembled"
    /\ outcome = "assembled" => current = Len(lines) + 1
    /\ phase # "failed" => Laid
    /\ outcome # "failed" /\ lines # <<>> /\ Counted => Chained(instrs, AddrOf(1), AddrOf(current))

---------------------------------------------------------------------------
\* Instructions: what a line becomes, and how they follow one another.

LEMMA CodeByte ==
  ASSUME NEW table, NEW S, \A e \in table : e[2] \in S, NEW op \in Ops(table)
  PROVE  Code(table, op) \in S
<1>1. PICK e \in table : e[1] = op
  BY DEF Ops
<1> DEFINE chosen == CHOOSE d \in table : d[1] = op
<1>2. chosen \in table
  BY <1>1
<1>3. Code(table, op) = chosen[2]
  BY DEF Code
<1> HIDE DEF chosen
<1> QED
  BY <1>2, <1>3

LEMMA CodesAre ==
  /\ \A op \in Ops(ArithCodes) : Code(ArithCodes, op) \in A!Byte
  /\ \A op \in Ops(ImmCodes) : Code(ImmCodes, op) \in A!Byte
  /\ \A op \in Ops(PairCodes) : Code(PairCodes, op) \in 0..15
  /\ \A op \in Ops(CountCodes) : Code(CountCodes, op) \in A!Byte
  /\ \A op \in Ops(MovCodes) : Code(MovCodes, op) \in A!Byte
  /\ \A op \in Ops(JumpCodes) : Code(JumpCodes, op) \in A!Byte
  /\ \A op \in Ops(CallCodes) : Code(CallCodes, op) \in A!Byte
  /\ \A op \in Ops(PlainCodes) : Code(PlainCodes, op) \in A!Byte
<1>1. /\ \A e \in ArithCodes : e[2] \in A!Byte
      /\ \A e \in ImmCodes : e[2] \in A!Byte
      /\ \A e \in PairCodes : e[2] \in 0..15
      /\ \A e \in CountCodes : e[2] \in A!Byte
  BY DEF ArithCodes, ImmCodes, PairCodes, CountCodes, A!Byte
<1>2. /\ \A e \in MovCodes : e[2] \in A!Byte
      /\ \A e \in JumpCodes : e[2] \in A!Byte
      /\ \A e \in CallCodes : e[2] \in A!Byte
      /\ \A e \in PlainCodes : e[2] \in A!Byte
  BY DEF MovCodes, JumpCodes, CallCodes, PlainCodes, A!Byte
<1>3. \A op \in Ops(ArithCodes) : Code(ArithCodes, op) \in A!Byte
  BY <1>1, <1>2, CodeByte
<1>4. \A op \in Ops(ImmCodes) : Code(ImmCodes, op) \in A!Byte
  BY <1>1, <1>2, CodeByte
<1>5. \A op \in Ops(CountCodes) : Code(CountCodes, op) \in A!Byte
  BY <1>1, <1>2, CodeByte
<1>6. \A op \in Ops(MovCodes) : Code(MovCodes, op) \in A!Byte
  BY <1>1, <1>2, CodeByte
<1>7. \A op \in Ops(JumpCodes) : Code(JumpCodes, op) \in A!Byte
  BY <1>1, <1>2, CodeByte
<1>8. \A op \in Ops(CallCodes) : Code(CallCodes, op) \in A!Byte
  BY <1>1, <1>2, CodeByte
<1>9. \A op \in Ops(PlainCodes) : Code(PlainCodes, op) \in A!Byte
  BY <1>1, <1>2, CodeByte
<1>10. \A op \in Ops(PairCodes) : Code(PairCodes, op) \in 0..15
  BY <1>1, CodeByte
<1> QED
  BY <1>3, <1>4, <1>5, <1>6, <1>7, <1>8, <1>9, <1>10

LEMMA OrByte ==
  ASSUME NEW x \in Nat, NEW y \in Nat
  PROVE  A!Or(x, y) \in A!Byte
  BY SMTT(30) DEF A!Or, A!OnBits, A!OrBit, A!Byte

LEMMA RegCodesByte ==
  ASSUME NEW r
  PROVE  RegCodes(r) \subseteq A!Byte
<1>1. 0 \in A!Byte /\ 1 \in A!Byte /\ 2 \in A!Byte /\ 3 \in A!Byte /\ 4 \in A!Byte
      /\ 5 \in A!Byte /\ 6 \in A!Byte /\ 7 \in A!Byte
  BY DEF A!Byte
<1>2. \/ RegCodes(r) = {0} \/ RegCodes(r) = {1} \/ RegCodes(r) = {2} \/ RegCodes(r) = {3}
      \/ RegCodes(r) = {4} \/ RegCodes(r) = {5} \/ RegCodes(r) = {6} \/ RegCodes(r) = {7}
      \/ RegCodes(r) = PastTable
  BY DEF RegCodes
<1> QED
  BY <1>1, <1>2, TableAssumption

LEMMA PairCodeIs ==
  ASSUME NEW r
  PROVE  PairCode(r) \in 0..3
  BY DEF PairCode

\* The size the lexer has counted is that of the table the assembler uses.
LEMMA SizesAgree ==
  ASSUME NEW op \in Codes, NEW b
  PROVE  /\ op \in Ops(ArithCodes) \union Ops(PairCodes) \union Ops(CountCodes) \union Ops(MovCodes)
                 \union Ops(PlainCodes) => SizeOf(op, b) = 1
         /\ op \in Ops(ImmCodes) \union {"MVI"} => SizeOf(op, b) = 2
         /\ op \in Ops(JumpCodes) \union Ops(CallCodes) \union {"LXI"} => SizeOf(op, b) = 3
<1>1. op \in Ops(ArithCodes) \union Ops(PairCodes) \union Ops(CountCodes) \union Ops(MovCodes)
            \union Ops(PlainCodes) => SizeOf(op, b) = 1
  BY OpsAre DEF SizeOf, DataOps, ImmOps, JumpOps, CallOps
<1>2. op \in Ops(ImmCodes) => op \in ImmOps
  BY OpsAre DEF Codes, LexedOps, OneRegOps, ImmOps, JumpOps, CallOps, NoOperandOps, DataOps
<1>3. op \in Ops(JumpCodes) \union Ops(CallCodes) => op \in JumpOps \union CallOps
  BY OpsAre DEF Codes, LexedOps, OneRegOps, ImmOps, JumpOps, CallOps, NoOperandOps, DataOps
<1> QED
  BY <1>1, <1>2, <1>3, SizeOfIs

\* A line becomes an instruction of as many bytes as the lexer has counted.
Encoded(b, l) == b \in Seq(A!Byte) /\ Len(b) \in 1..3 /\ Len(b) = SizeOf(l.instr, l.bytes)

LEMMA EncodingsAre ==
  ASSUME NEW l \in Line, l.instr \in Assembled, NEW b \in Encodings(l)
  PROVE  Encoded(b, l)
<1> DEFINE op == l.instr
           first == l.reg[1]
           lo == Lo(l.imm)
           hi == Hi(l.imm)
           pair == PairCode(first)
<1>1. lo \in A!Byte /\ hi \in A!Byte
  <2>1. l.imm \in Nat
    BY DEF Line
  <2> QED
    BY <2>1 DEF Lo, Hi, A!Byte
<1>2. op \in Codes
  BY DEF Line
<1>3. A!Byte \subseteq Nat /\ \A n \in Nat : n % 256 \in A!Byte
  BY DEF A!Byte
<1>4. ASSUME NEW x \in A!Byte PROVE (8 * x) % 256 \in A!Byte
  BY DEF A!Byte
<1>5. \A x \in A!Byte, y \in A!Byte : A!Or(x, y) \in A!Byte
  BY <1>3, OrByte
<1>6. pair \in 0..3
  BY PairCodeIs
<1>7. RegCodes(first) \subseteq A!Byte /\ RegCodes(l.reg[2]) \subseteq A!Byte
  BY RegCodesByte
<1>8. ASSUME NEW x \in A!Byte, NEW y \in A!Byte, NEW z \in A!Byte
      PROVE  /\ <<x>> \in Seq(A!Byte) /\ Len(<<x>>) = 1
             /\ <<x, y>> \in Seq(A!Byte) /\ Len(<<x, y>>) = 2
             /\ <<x, y, z>> \in Seq(A!Byte) /\ Len(<<x, y, z>>) = 3
  OBVIOUS
<1>9. 0 \in A!Byte /\ \h06 \in A!Byte /\ 1 \in 1..3 /\ 2 \in 1..3 /\ 3 \in 1..3
  BY DEF A!Byte
<1> HIDE DEF op, first, lo, hi, pair
<1>10. CASE op \in Ops(ArithCodes)
  <2>1. Encodings(l) = {<<A!Or(Code(ArithCodes, op), x)>> : x \in RegCodes(first)}
    BY <1>10, OpsAre DEF Encodings, op, first
  <2>2. PICK x \in A!Byte : b = <<A!Or(Code(ArithCodes, op), x)>>
    BY <1>7, <2>1
  <2>3. A!Or(Code(ArithCodes, op), x) \in A!Byte
    BY <1>5, <1>10, CodesAre
  <2> QED
    BY <1>2, <1>8, <1>9, <1>10, <2>2, <2>3, SizesAgree DEF Encoded, op
<1>11. CASE op \in Ops(ImmCodes)
  <2>1. b = <<A!Or(Code(ImmCodes, op), hi), lo>>
    BY <1>11, OpsAre DEF Encodings, op, hi, lo
  <2>2. A!Or(Code(ImmCodes, op), hi) \in A!Byte
    BY <1>1, <1>5, <1>11, CodesAre
  <2> QED
    BY <1>1, <1>2, <1>8, <1>9, <1>11, <2>1, <2>2, SizesAgree DEF Encoded, op
<1>12. CASE op = "MVI"
  <2>1. Encodings(l) = {<<A!Or(A!Or(\h06, (8 * x) % 256), hi), lo>> : x \in RegCodes(first)}
    BY <1>12, OpsAre DEF Encodings, op, first, hi, lo
  <2>2. PICK x \in A!Byte : b = <<A!Or(A!Or(\h06, (8 * x) % 256), hi), lo>>
    BY <1>7, <2>1
  <2>3. A!Or(A!Or(\h06, (8 * x) % 256), hi) \in A!Byte
    BY <1>1, <1>4, <1>5, <1>9
  <2> QED
    BY <1>1, <1>2, <1>8, <1>9, <1>12, <2>2, <2>3, SizesAgree DEF Encoded, op
<1>13. CASE op = "LXI"
  <2>1. b = <<1 + 16 * pair, lo, hi>>
    BY <1>13, OpsAre DEF Encodings, op, first, hi, lo, pair
  <2>2. 1 + 16 * pair \in A!Byte
    BY <1>6 DEF A!Byte
  <2> QED
    BY <1>1, <1>2, <1>8, <1>9, <1>13, <2>1, <2>2, SizesAgree DEF Encoded, op
<1>14. CASE op \in Ops(PairCodes)
  <2>1. b = <<Code(PairCodes, op) + 16 * pair>>
    BY <1>14, OpsAre DEF Encodings, op, first, pair
  <2>2. Code(PairCodes, op) \in 0..15
    BY <1>14, CodesAre
  <2>3. Code(PairCodes, op) + 16 * pair \in A!Byte
    BY <1>6, <2>2 DEF A!Byte
  <2> QED
    BY <1>2, <1>8, <1>9, <1>14, <2>1, <2>3, SizesAgree DEF Encoded, op
<1>15. CASE op \in Ops(CountCodes)
  <2>1. Encodings(l) = {<<A!Or(Code(CountCodes, op), (8 * x) % 256)>> : x \in RegCodes(first)}
    BY <1>15, OpsAre DEF Encodings, op, first
  <2>2. PICK x \in A!Byte : b = <<A!Or(Code(CountCodes, op), (8 * x) % 256)>>
    BY <1>7, <2>1
  <2>3. A!Or(Code(CountCodes, op), (8 * x) % 256) \in A!Byte
    BY <1>4, <1>5, <1>15, CodesAre
  <2> QED
    BY <1>2, <1>8, <1>9, <1>15, <2>2, <2>3, SizesAgree DEF Encoded, op
<1>16. CASE op \in Ops(MovCodes)
  <2>1. Encodings(l) = {<<A!Or(A!Or(Code(MovCodes, op), (8 * x) % 256), y)>> :
                          x \in RegCodes(first), y \in RegCodes(l.reg[2])}
    BY <1>16, OpsAre DEF Encodings, op, first
  <2>2. PICK x \in A!Byte, y \in A!Byte : b = <<A!Or(A!Or(Code(MovCodes, op), (8 * x) % 256), y)>>
    BY <1>7, <2>1
  <2>3. A!Or(A!Or(Code(MovCodes, op), (8 * x) % 256), y) \in A!Byte
    BY <1>4, <1>5, <1>16, CodesAre
  <2> QED
    BY <1>2, <1>8, <1>9, <1>16, <2>2, <2>3, SizesAgree DEF Encoded, op
<1>17. CASE op \in Ops(JumpCodes)
  <2>1. b = <<Code(JumpCodes, op), A!Or(lo, hi), 0>>
    BY <1>17, OpsAre DEF Encodings, AsmJp, op, hi, lo
  <2>2. Code(JumpCodes, op) \in A!Byte /\ A!Or(lo, hi) \in A!Byte
    BY <1>1, <1>5, <1>17, CodesAre
  <2> QED
    BY <1>2, <1>8, <1>9, <1>17, <2>1, <2>2, SizesAgree DEF Encoded, op
<1>18. CASE op \in Ops(CallCodes)
  <2>1. b = <<Code(CallCodes, op), lo, hi>>
    BY <1>18, OpsAre DEF Encodings, AsmCall, op, hi, lo
  <2>2. Code(CallCodes, op) \in A!Byte
    BY <1>18, CodesAre
  <2> QED
    BY <1>1, <1>2, <1>8, <1>9, <1>18, <2>1, <2>2, SizesAgree DEF Encoded, op
<1>19. CASE op \in Ops(PlainCodes)
  <2>1. b = <<Code(PlainCodes, op)>>
    BY <1>19, OpsAre DEF Encodings, op
  <2>2. Code(PlainCodes, op) \in A!Byte
    BY <1>19, CodesAre
  <2> QED
    BY <1>2, <1>8, <1>9, <1>19, <2>1, <2>2, SizesAgree DEF Encoded, op
<1> QED
  BY <1>10, <1>11, <1>12, <1>13, <1>14, <1>15, <1>16, <1>17, <1>18, <1>19, AssembledAre DEF op

LEMMA InstrIs ==
  ASSUME NEW b \in Seq(A!Byte), Len(b) \in 1..3, NEW a \in Nat
  PROVE  [bytes |-> b, addr |-> a] \in Instr
  BY DEF Instr

LEMMA InstrFields ==
  ASSUME NEW x \in Instr
  PROVE  x.addr \in Nat /\ x.bytes \in Seq(A!Byte) /\ Len(x.bytes) \in 1..3
  BY DEF Instr

\* Two chains, the second of which begins where the first one ends, are one.
LEMMA ChainJoin ==
  ASSUME NEW s \in Seq(Instr), NEW t \in Seq(Instr), NEW a, NEW b, NEW c,
         Chained(s, a, b), Chained(t, b, c)
  PROVE  Chained(s \o t, a, c)
<1>1. CASE s = <<>>
  BY <1>1 DEF Chained
<1>2. CASE t = <<>>
  BY <1>2 DEF Chained
<1>3. CASE s # <<>> /\ t # <<>>
  <2> DEFINE u == s \o t
             m == Len(s)
             n == Len(t)
  <2>1. /\ m \in Nat /\ m >= 1 /\ n \in Nat /\ n >= 1 /\ Len(u) = m + n
        /\ \A k \in 1..m : u[k] = s[k]
        /\ \A k \in 1..n : u[m + k] = t[k]
    BY <1>3
  <2>2. /\ s[1].addr = a /\ \A k \in 2..m : s[k].addr = s[k - 1].addr + Len(s[k - 1].bytes)
        /\ b = s[m].addr + Len(s[m].bytes)
    BY <1>3 DEF Chained
  <2>3. /\ t[1].addr = b /\ \A k \in 2..n : t[k].addr = t[k - 1].addr + Len(t[k - 1].bytes)
        /\ c = t[n].addr + Len(t[n].bytes)
    BY <1>3 DEF Chained
  <2>4. u # <<>>
    BY <1>3
  <2> HIDE DEF u, m, n
  <2>5. u[1].addr = a /\ c = u[Len(u)].addr + Len(u[Len(u)].bytes)
    BY <2>1, <2>2, <2>3
  <2>6. ASSUME NEW k \in 2..Len(u)
        PROVE  u[k].addr = u[k - 1].addr + Len(u[k - 1].bytes)
    <3>1. CASE k <= m
      <4>1. k \in 2..m /\ k \in 1..m /\ k - 1 \in 1..m
        BY <2>1, <3>1
      <4> QED
        BY <2>1, <2>2, <4>1
    <3>2. CASE k = m + 1
      <4>1. m \in 1..m /\ k - 1 = m /\ 1 \in 1..n
        BY <2>1, <3>2
      <4>2. u[m] = s[m] /\ u[m + 1] = t[1]
        BY <2>1, <4>1
      <4> QED
        BY <2>2, <2>3, <3>2, <4>1, <4>2
    <3>3. CASE k > m + 1
      <4> DEFINE i == k - m
      <4>1. i \in 2..n /\ i \in 1..n /\ i - 1 \in 1..n /\ k = m + i /\ k - 1 = m + (i - 1)
        BY <2>1, <3>3
      <4> HIDE DEF i
      <4>2. u[k] = t[i] /\ u[k - 1] = t[i - 1]
        BY <2>1, <4>1
      <4> QED
        BY <2>3, <4>1, <4>2
    <3> QED
      BY <2>1, <3>1, <3>2, <3>3
  <2> QED
    BY <2>4, <2>5, <2>6 DEF Chained, u
<1> QED
  BY <1>1, <1>2, <1>3

LEMMA ChainOne ==
  ASSUME NEW b \in Seq(A!Byte), NEW a \in Nat
  PROVE  Chained(<<[bytes |-> b, addr |-> a]>>, a, a + Len(b))
  BY DEF Chained

\* The bytes of a list of data are a chain.
LEMMA ChainData ==
  ASSUME NEW bytes \in Seq(A!Byte), NEW a \in Nat, NEW is,
         is = [i \in 1..Len(bytes) |-> [bytes |-> <<bytes[i]>>, addr |-> a + i - 1]]
  PROVE  is \in Seq(Instr) /\ Chained(is, a, a + Len(bytes))
<1>1. Len(bytes) \in Nat /\ \A i \in 1..Len(bytes) : bytes[i] \in A!Byte
  OBVIOUS
<1> DEFINE n == Len(bytes)
<1>2. ASSUME NEW i \in 1..n
      PROVE  /\ is[i] \in Instr /\ is[i].addr = a + i - 1 /\ Len(is[i].bytes) = 1
  <2>1. bytes[i] \in A!Byte
    BY <1>1
  <2>2. <<bytes[i]>> \in Seq(A!Byte) /\ Len(<<bytes[i]>>) = 1 /\ 1 \in 1..3 /\ a + i - 1 \in Nat
    BY <2>1
  <2>3. is[i] = [bytes |-> <<bytes[i]>>, addr |-> a + i - 1]
    OBVIOUS
  <2> QED
    BY <2>2, <2>3, InstrIs
<1> HIDE DEF n
<1>3. is \in [1..n -> Instr] /\ n \in Nat
  BY <1>1, <1>2 DEF n
<1>4. is \in Seq(Instr) /\ Len(is) = n
  BY <1>3
<1>5. CASE n = 0
  BY <1>4, <1>5 DEF Chained, n
<1>6. CASE n # 0
  <2>1. is # <<>> /\ 1 \in 1..n /\ n \in 1..n
    BY <1>3, <1>4, <1>6
  <2>2. is[1].addr = a /\ a + n = is[n].addr + Len(is[n].bytes)
    BY <1>2, <1>3, <2>1
  <2>3. ASSUME NEW k \in 2..n PROVE is[k].addr = is[k - 1].addr + Len(is[k - 1].bytes)
    <3>1. k \in 1..n /\ k - 1 \in 1..n
      BY <1>3
    <3> QED
      BY <1>2, <1>3, <3>1
  <2> QED
    BY <1>4, <2>1, <2>2, <2>3 DEF Chained, n
<1> QED
  BY <1>4, <1>5, <1>6

---------------------------------------------------------------------------
\* The steps of the assembler.

LEMMA AsmInvInit ==
  ASSUME AsmInit
  PROVE  AsmInv
<1>1. LexInv
  BY LexInvInit DEF AsmInit
<1>2. <<>> \in Seq(Instr) /\ Len(<<>>) = 0 /\ DOMAIN <<>> = {}
  BY EmptySeq
<1>3. lines = <<>> /\ current = 1 /\ instrs = <<>> /\ outcome = "running" /\ phase = "lexing"
  BY DEF AsmInit, LexInit
<1>4. Laid
  BY <1>2, <1>3 DEF Laid
<1> QED
  BY <1>1, <1>2, <1>3, <1>4 DEF AsmInv

\* While the lexer goes on the lines stay laid out.
LEMMA LaidStep ==
  ASSUME LexInv, Laid, phase # "failed", LexNext, phase' # "failed"
  PROVE  Laid'
<1>1. DOMAIN lines = 1..Len(lines) /\ Len(lines) \in Nat
      /\ \A i \in DOMAIN lines : lines[i] \in Line
  BY DEF LexInv, Room
<1>2. CASE UNCHANGED <<source, lines, text_addr>>
  BY <1>2 DEF Laid, AddrOf, Sized, Counted
<1>3. CASE LexLine
  <2>1. PICK out : LineStep(out)
    BY <1>3, SourceTyped, LexLineIs DEF LexInv
  <2>2. Given(out) /\ source' = source
    BY <2>1 DEF LineStep
  <2>3. lines' = Append(lines, Added(out)) /\ text_addr' = text_addr + out.size
    BY <2>1, EndLineIs
  <2>4. /\ Added(out).addr = text_addr /\ Added(out).instr = out.line.instr
        /\ Added(out).bytes = out.line.bytes
    BY <2>2, AddedIs DEF LexInv
  <2>5. out.size \in Nat /\ Sized(out.line, out.size)
    BY <2>2 DEF Given
  <2> DEFINE n == Len(lines) + 1
  <2>6. /\ DOMAIN lines' = 1..n /\ \A i \in DOMAIN lines : lines'[i] = lines[i]
        /\ lines'[n] = Added(out)
    BY <1>1, <2>3
  <2>7. Counted' = Counted
    BY <2>2 DEF Counted
  <2>8. ASSUME NEW i \in DOMAIN lines'
        PROVE  \E size \in Nat : AddrOf(i + 1)' = lines'[i].addr + size /\ Sized(lines[i], size)'
    <3>1. CASE i \in DOMAIN lines
      <4>1. PICK size \in Nat : AddrOf(i + 1) = lines[i].addr + size /\ Sized(lines[i], size)
        BY <3>1 DEF Laid
      <4>2. AddrOf(i + 1)' = AddrOf(i + 1)
        <5>1. CASE i + 1 \in DOMAIN lines
          BY <2>6, <5>1, <1>1 DEF AddrOf
        <5>2. CASE i + 1 = n
          <6>1. i + 1 \notin DOMAIN lines /\ i + 1 \in DOMAIN lines'
            BY <1>1, <2>6, <5>2
          <6> QED
            BY <2>4, <2>6, <5>2, <6>1 DEF AddrOf
        <5> QED
          BY <1>1, <3>1, <5>1, <5>2
      <4>3. Sized(lines[i], size)'
        BY <2>6, <2>7, <3>1, <4>1 DEF Sized
      <4> QED
        BY <2>6, <3>1, <4>1, <4>2, <4>3
    <3>2. CASE i = n
      <4>1. i + 1 \notin DOMAIN lines'
        BY <1>1, <2>6, <3>2
      <4>2. AddrOf(i + 1)' = text_addr + out.size
        BY <2>3, <4>1 DEF AddrOf
      <4>3. Sized(lines[i], out.size)'
        BY <2>4, <2>5, <2>6, <2>7, <3>2 DEF Sized
      <4> QED
        BY <2>4, <2>5, <2>6, <3>2, <4>2, <4>3
    <3> QED
      BY <1>1, <2>6, <3>1, <3>2
  <2> QED
    BY <2>8 DEF Laid
<1>4. CASE ResolveLabels
  <2>1. PICK stray : /\ DOMAIN lines' = DOMAIN lines
                     /\ \A i \in DOMAIN lines : lines'[i] = Resolved(lines[i], stray)
    BY <1>4, ResolveLabelsIs DEF LexInv
  <2>2. symbols \in Seq(Symbol)
    BY DEF LexInv, Room
  <2>3. \A i \in DOMAIN lines : /\ lines'[i].addr = lines[i].addr
                                /\ lines'[i].instr = lines[i].instr
                                /\ lines'[i].bytes = lines[i].bytes
    <3>1. \A i \in DOMAIN lines : /\ Resolved(lines[i], stray).addr = lines[i].addr
                                  /\ Resolved(lines[i], stray).instr = lines[i].instr
                                  /\ Resolved(lines[i], stray).bytes = lines[i].bytes
      BY <1>1, <2>2, ResolvedIs
    <3> QED
      BY <2>1, <3>1
  <2>4. source' = source /\ text_addr' = text_addr
    BY <1>4 DEF ResolveLabels
  <2>5. Counted' = Counted
    BY <2>4 DEF Counted
  <2>6. \A i : AddrOf(i)' = AddrOf(i)
    BY <2>1, <2>3, <2>4 DEF AddrOf
  <2>7. ASSUME NEW i \in DOMAIN lines', NEW size \in Nat
        PROVE  Sized(lines[i], size)' <=> Sized(lines[i], size)
    BY <2>1, <2>3, <2>5 DEF Sized
  <2> QED
    BY <2>1, <2>3, <2>6, <2>7 DEF Laid
<1> QED
  BY <1>2, <1>3, <1>4 DEF LexNext, SkipLayout

\* A line is assembled into the instructions is.
Assembles(is) ==
    /\ Assembling /\ NextLine /\ UNCHANGED lexVars
    /\ is \in Seq(Instr) /\ instrs' = instrs \o is /\ Len(is) = Emitted(lines[current])
    /\ lines[current].instr \in Assembled \union DataOps \union {"DS"}
    /\ lines[current].instr \in Assembled => is[1].bytes \in Encodings(lines[current])
    /\ Counted => Chained(is, lines[current].addr, AddrOf(current + 1))

LEMMA AssembleInstrIs ==
  ASSUME AsmInv, AssembleInstr
  PROVE  \E is : Assembles(is)
<1> DEFINE l == lines[current]
<1>1. /\ Assembling /\ NextLine /\ UNCHANGED lexVars /\ l.instr \in Assembled
      /\ current \in DOMAIN lines /\ l \in Line /\ instrs \in Seq(Instr)
  BY DEF AssembleInstr, Assembling, AsmInv, LexInv, Room
<1>2. PICK b \in Encodings(l) : instrs' = Append(instrs, [bytes |-> b, addr |-> l.addr])
  BY DEF AssembleInstr
<1>3. l.addr \in Nat
  BY <1>1 DEF Line
<1>4. Encoded(b, l)
  BY <1>1, EncodingsAre
<1> DEFINE x == [bytes |-> b, addr |-> l.addr]
<1>5. x \in Instr /\ x.bytes = b /\ Chained(<<x>>, l.addr, l.addr + Len(b))
  BY <1>3, <1>4, InstrIs, ChainOne DEF Encoded
<1>6. Counted => AddrOf(current + 1) = l.addr + Len(b)
  <2>1. PICK size \in Nat : AddrOf(current + 1) = l.addr + size /\ Sized(l, size)
    BY <1>1 DEF AsmInv, Assembling, Laid
  <2> QED
    BY <1>1, <1>4, <2>1 DEF Sized, Encoded
<1>7. Emitted(l) = 1
  BY <1>1, AssembledAre, OpsAre DEF Emitted
<1> HIDE DEF x
<1>8. instrs' = instrs \o <<x>> /\ <<x>> \in Seq(Instr) /\ Len(<<x>>) = 1 /\ <<x>>[1] = x
  BY <1>1, <1>2, <1>5 DEF x
<1>9. Assembles(<<x>>)
  BY <1>1, <1>5, <1>6, <1>7, <1>8 DEF Assembles
<1> QED
  BY <1>9

LEMMA AssembleDataIs ==
  ASSUME AsmInv, AssembleData
  PROVE  \E is : Assembles(is)
<1> DEFINE l == lines[current]
           is == [i \in 1..Len(l.bytes) |-> [bytes |-> <<l.bytes[i]>>, addr |-> l.addr + i - 1]]
<1>1. /\ Assembling /\ NextLine /\ UNCHANGED lexVars /\ l.instr \in {"DB", "DW", "DS"}
      /\ current \in DOMAIN lines /\ instrs' = instrs \o is /\ l \in Line
  BY DEF AssembleData, Assembling, AsmInv, LexInv, Room
<1>2. l.addr \in Nat /\ l.bytes \in Seq(A!Byte)
  BY <1>1 DEF Line
<1>3. is \in Seq(Instr) /\ Chained(is, l.addr, l.addr + Len(l.bytes))
  BY <1>2, ChainData
<1>4. Counted => AddrOf(current + 1) = l.addr + Len(l.bytes)
  <2>1. PICK size \in Nat : AddrOf(current + 1) = l.addr + size /\ Sized(l, size)
    BY <1>1 DEF AsmInv, Assembling, Laid
  <2>2. Counted => l.instr \in DataOps /\ size = SizeOf(l.instr, l.bytes)
    BY <1>1, <2>1 DEF Sized, DataOps
  <2> QED
    BY <2>1, <2>2, SizeOfIs
<1>5. Len(is) = Emitted(l)
  <2>1. Len(l.bytes) \in Nat
    BY <1>2
  <2>2. Len(is) = Len(l.bytes)
    BY <2>1
  <2> HIDE DEF is
  <2> QED
    BY <1>1, <2>2 DEF Emitted
<1>6. l.instr \notin Assembled
  BY <1>1, AssembledAre, OpsAre
<1> HIDE DEF is
<1>7. Assembles(is)
  BY <1>1, <1>3, <1>4, <1>5, <1>6 DEF Assembles, DataOps
<1> QED
  BY <1>7

LEMMA LineAssembled ==
  ASSUME AsmInv, NEW is, Assembles(is)
  PROVE  AsmInv'
<1>0. /\ Assembling /\ is \in Seq(Instr) /\ instrs' = instrs \o is
      /\ Counted => Chained(is, lines[current].addr, AddrOf(current + 1))
      /\ NextLine /\ UNCHANGED lexVars
  BY DEF Assembles
<1>1. /\ phase = "resolved" /\ outcome = "running" /\ current <= Len(lines)
      /\ current \in 1..(Len(lines) + 1) /\ Len(lines) \in Nat /\ DOMAIN lines = 1..Len(lines)
      /\ instrs \in Seq(Instr) /\ LexInv /\ Laid
  BY <1>0 DEF Assembling, AsmInv, LexInv, Room
<1>2. /\ lines' = lines /\ phase' = phase /\ source' = source /\ text_addr' = text_addr
      /\ current' = current + 1
  BY <1>0 DEF NextLine, lexVars
<1>7. /\ current + 1 \in 1..(Len(lines) + 1)
      /\ current = Len(lines) => current + 1 = Len(lines) + 1
  <2>1. current \in Nat /\ current <= Len(lines) /\ Len(lines) \in Nat
    BY <1>1
  <2>2. \A n \in Nat, c \in Nat : c <= n => c + 1 \in 1..(n + 1)
    OBVIOUS
  <2> QED
    BY <2>1, <2>2
<1>8. /\ outcome' \in {"running", "assembled"}
      /\ outcome' = "assembled" => current' = Len(lines) + 1
  BY <1>0, <1>2, <1>7 DEF NextLine
<1>3. LexInv'
  BY <1>0, <1>1, LexInvStep
<1>4. Laid' /\ Counted' = Counted /\ \A i : AddrOf(i)' = AddrOf(i)
  BY <1>1, <1>2 DEF Laid, AddrOf, Sized, Counted
<1>5. instrs' \in Seq(Instr)
  BY <1>0, <1>1, ConcatProperties
<1>6. ASSUME Counted
      PROVE  Chained(instrs, AddrOf(1), AddrOf(current))'
  <2>1. current \in DOMAIN lines /\ lines # <<>>
    BY <1>1
  <2>2. AddrOf(current) = lines[current].addr
    BY <2>1 DEF AddrOf
  <2>3. Chained(instrs, AddrOf(1), AddrOf(current))
    BY <1>1, <1>6, <2>1 DEF AsmInv
  <2>4. Chained(instrs \o is, AddrOf(1), AddrOf(current + 1))
    BY <1>0, <1>1, <1>6, <2>2, <2>3, ChainJoin
  <2>5. Chained(instrs', AddrOf(1), AddrOf(current'))
    BY <1>0, <1>2, <2>4
  <2>6. AddrOf(1)' = AddrOf(1) /\ AddrOf(current)' = AddrOf(current')
    BY <1>2 DEF AddrOf
  <2> QED
    BY <2>5, <2>6 DEF Chained
<1> QED
  BY <1>1, <1>2, <1>3, <1>4, <1>5, <1>6, <1>7, <1>8 DEF AsmInv

LEMMA AsmInvStep ==
  ASSUME AsmInv, [AsmNext]_asmVars
  PROVE  AsmInv'
<1>1. LexInv /\ Len(lines) \in Nat /\ DOMAIN lines = 1..Len(lines)
      /\ instrs \in Seq(Instr) /\ \A i \in DOMAIN lines : lines[i] \in Line
  BY DEF AsmInv, LexInv, Room
<1>2. CASE LexNext /\ UNCHANGED <<current, instrs, outcome>>
  <2>1. phase = "lexing"
    BY <1>2 DEF LexNext, SkipLayout, LexLine, ResolveLabels, Lexing
  <2>2. current = 1 /\ instrs = <<>> /\ outcome = "running" /\ Laid
    BY <2>1 DEF AsmInv
  <2>3. LexInv' /\ Len(lines') \in Nat
    <3>1. LexInv'
      BY <1>1, <1>2, LexInvStep
    <3> QED
      BY <3>1 DEF LexInv, Room
  <2>4. phase' # "failed" => Laid'
    BY <1>1, <1>2, <2>1, <2>2, LaidStep
  <2>5. Chained(instrs, AddrOf(1), AddrOf(current))'
    BY <1>2, <2>2 DEF Chained
  <2> QED
    BY <1>2, <2>2, <2>3, <2>4, <2>5 DEF AsmInv
<1>3. CASE AssembleInstr
  BY <1>3, AssembleInstrIs, LineAssembled
<1>4. CASE AssembleData
  BY <1>4, AssembleDataIs, LineAssembled
<1>5. CASE RejectLine
  <2>1. instrs' = Append(instrs, [bytes |-> <<0>>, addr |-> 0])
    BY <1>5 DEF RejectLine
  <2>2. [bytes |-> <<0>>, addr |-> 0] \in Instr
    <3>1. <<0>> \in Seq(A!Byte) /\ Len(<<0>>) \in 1..3
      BY DEF A!Byte
    <3> QED
      BY <3>1, InstrIs
  <2>3. instrs' \in Seq(Instr)
    BY <1>1, <2>1, <2>2
  <2>4. phase = "resolved" /\ outcome' = "failed" /\ current' = current /\ UNCHANGED lexVars
    BY <1>5 DEF RejectLine, Assembling
  <2>5. LexInv' /\ Laid'
    BY <1>1, <2>4, LexInvStep DEF AsmInv, Laid, AddrOf, Sized, Counted, lexVars
  <2> QED
    BY <2>3, <2>4, <2>5 DEF AsmInv, lexVars
<1>6. CASE AssembleNothing
  <2>1. /\ phase = "resolved" /\ lines = <<>> /\ outcome' \in {"assembled", "failed"}
        /\ UNCHANGED <<source, cursor, text_addr, lines, symbols, phase, current, instrs>>
    BY <1>6 DEF AssembleNothing, lexVars
  <2>2. LexInv' /\ Laid'
    BY <1>1, <2>1, LexInvStep DEF AsmInv, Laid, AddrOf, Sized, Counted, lexVars
  <2>3. current = Len(lines) + 1
    BY <1>1, <2>1 DEF AsmInv
  <2> QED
    BY <2>1, <2>2, <2>3 DEF AsmInv
<1>7. CASE LexFailed
  <2>1. /\ phase = "failed" /\ outcome' = "failed"
        /\ UNCHANGED <<source, cursor, text_addr, lines, symbols, phase, current, instrs>>
    BY <1>7 DEF LexFailed, lexVars
  <2>2. LexInv'
    BY <1>1, <2>1, LexInvStep DEF lexVars
  <2> QED
    BY <2>1, <2>2 DEF AsmInv
<1>8. CASE UNCHANGED asmVars
  <2>1. UNCHANGED lexVars /\ UNCHANGED <<current, instrs, outcome>>
    BY <1>8 DEF asmVars, lexVars
  <2>2. LexInv' /\ (phase # "failed" => Laid')
    BY <1>1, <2>1, LexInvStep DEF AsmInv, Laid, AddrOf, Sized, Counted, lexVars
  <2> QED
    BY <2>1, <2>2 DEF AsmInv, lexVars, Counted, Chained, AddrOf
<1> QED
  BY <1>2, <1>3, <1>4, <1>5, <1>6, <1>7, <1>8 DEF AsmNext

\* asm8080's two passes stay inside their tables, on every source and
\* whatever the bytes behind asm_reg_to_code are: the line is one of the
\* source's lines, and every instruction has an address and one to three
\* bytes.
THEOREM AssemblerTypeCorrect == AsmSpec => []AsmTypeOK
<1>1. AsmInv => AsmTypeOK
  <2> SUFFICES ASSUME AsmInv PROVE AsmTypeOK
    OBVIOUS
  <2>1. \A k \in DOMAIN instrs : instrs[k] \in Instr
    BY DEF AsmInv
  <2>2. ASSUME NEW x \in Instr
        PROVE  /\ x.addr \in Nat /\ Len(x.bytes) \in 1..3
               /\ \A b \in DOMAIN x.bytes : x.bytes[b] \in A!Byte
    BY InstrFields
  <2> QED
    BY <2>1, <2>2 DEF AsmInv, AsmTypeOK
<1> QED
  BY <1>1, AsmInvInit, AsmInvStep, PTL DEF AsmSpec

\* The lexer counts a size for every line and the assembler gives every
\* instruction one, from tables of their own, and the two agree for every
\* source without a line that is known to be Miscounted: no instruction is
\* placed over another one and no address is left out.
THEOREM PassesAgree == AsmSpec => []LayoutAgrees
<1>1. AsmInv => LayoutAgrees
  <2> SUFFICES ASSUME AsmInv, outcome = "assembled", lines # <<>>, Counted
               PROVE  IF instrs = <<>> THEN text_addr = lines[1].addr
                      ELSE /\ instrs[1].addr = lines[1].addr
                           /\ \A k \in 2..Len(instrs) :
                                 instrs[k].addr = instrs[k - 1].addr + Len(instrs[k - 1].bytes)
                           /\ text_addr = instrs[Len(instrs)].addr + Len(instrs[Len(instrs)].bytes)
    BY DEF LayoutAgrees
  <2>1. DOMAIN lines = 1..Len(lines) /\ Len(lines) \in Nat
    BY DEF AsmInv, LexInv, Room
  <2>2. 1 \in DOMAIN lines /\ current \notin DOMAIN lines
    BY <2>1 DEF AsmInv
  <2>3. AddrOf(1) = lines[1].addr /\ AddrOf(current) = text_addr
    BY <2>2 DEF AddrOf
  <2>4. Chained(instrs, AddrOf(1), AddrOf(current))
    BY DEF AsmInv
  <2> QED
    BY <2>3, <2>4 DEF Chained
<1> QED
  BY <1>1, AsmInvInit, AsmInvStep, PTL DEF AsmSpec

---------------------------------------------------------------------------
\* Calls and their targets.

LEMMA FirstInstrIs ==
  ASSUME Len(lines) \in Nat
  PROVE  /\ FirstInstr[1] = 1
         /\ \A i \in 1..Len(lines) : FirstInstr[i + 1] = FirstInstr[i] + Emitted(lines[i])
<1> DEFINE n == Len(lines)
           step == [i \in 1..n |-> Emitted(lines[i])]
           H(f) == [k \in 1..(n + 1) |-> IF k = 1 THEN 1 ELSE f[k - 1] + Emitted(lines[k - 1])]
<1>1. FirstInstr = CHOOSE f : f = H(f)
  BY DEF FirstInstr
<1>2. ASSUME NEW f PROVE H(f) = SumOf(f, n, 1, step)
  <2>1. \A k \in 1..(n + 1) : k # 1 => k - 1 \in 1..n
    OBVIOUS
  <2> QED
    BY <2>1 DEF SumOf
<1>3. FirstInstr = CHOOSE f : f = SumOf(f, n, 1, step)
  <2> HIDE DEF H, step
  <2> QED
    BY <1>1, <1>2
<1>4. \A i \in 1..n : step[i] = Emitted(lines[i])
  OBVIOUS
<1> HIDE DEF step
<1>5. FirstInstr[1] = 1 /\ \A i \in 1..n : FirstInstr[i + 1] = FirstInstr[i] + step[i]
  BY <1>3, SumIs
<1> QED
  BY <1>4, <1>5

LEMMA OffsetIs ==
  ASSUME Len(instrs) \in Nat
  PROVE  /\ Offset[1] = lines[1].addr
         /\ \A k \in 1..Len(instrs) : Offset[k + 1] = Offset[k] + Len(instrs[k].bytes)
<1> DEFINE n == Len(instrs)
           step == [k \in 1..n |-> Len(instrs[k].bytes)]
           a == lines[1].addr
           H(f) == [k \in 1..(n + 1) |-> IF k = 1 THEN a ELSE f[k - 1] + Len(instrs[k - 1].bytes)]
<1>1. Offset = CHOOSE f : f = H(f)
  BY DEF Offset
<1>2. ASSUME NEW f PROVE H(f) = SumOf(f, n, a, step)
  <2>1. \A k \in 1..(n + 1) : k # 1 => k - 1 \in 1..n
    OBVIOUS
  <2> QED
    BY <2>1 DEF SumOf
<1>3. Offset = CHOOSE f : f = SumOf(f, n, a, step)
  <2> HIDE DEF H, step
  <2> QED
    BY <1>1, <1>2
<1>4. \A k \in 1..n : step[k] = Len(instrs[k].bytes)
  OBVIOUS
<1> HIDE DEF step, a
<1>5. Offset[1] = a /\ \A k \in 1..n : Offset[k + 1] = Offset[k] + step[k]
  BY <1>3, SumIs
<1> QED
  BY <1>4, <1>5 DEF a

LEMMA FirstInstrPrimed == (Len(lines) \in Nat => FirstInstr[1] = 1)'
<1>1. Len(lines) \in Nat => FirstInstr[1] = 1
  BY FirstInstrIs
<1> QED
  BY <1>1, PTL

\* Where instruction k is, or the next one will be.
AddrAt(k) == IF k \in DOMAIN instrs THEN instrs[k].addr ELSE AddrOf(current)

\* The lines assembled so far have become the instructions from FirstInstr on,
\* and these are where the lines are.
Emission ==
    phase = "resolved" /\ outcome # "failed" =>
      /\ FirstInstr[current] = Len(instrs) + 1
      /\ \A i \in 1..(current - 1) : lines[i].instr \in Assembled =>
           FirstInstr[i] \in DOMAIN instrs /\ instrs[FirstInstr[i]].bytes \in Encodings(lines[i])
      /\ Counted =>
           \A i \in 1..current :
             FirstInstr[i] \in 1..(Len(instrs) + 1) /\ AddrAt(FirstInstr[i]) = AddrOf(i)

LEMMA EmissionInit ==
  ASSUME AsmInit
  PROVE  Emission
  BY DEF AsmInit, LexInit, Emission

LEMMA LineEmitted ==
  ASSUME AsmInv, Emission, NEW is, Assembles(is)
  PROVE  Emission'
<1>0. /\ Assembling /\ is \in Seq(Instr) /\ instrs' = instrs \o is
      /\ Len(is) = Emitted(lines[current])
      /\ lines[current].instr \in Assembled => is[1].bytes \in Encodings(lines[current])
      /\ Counted => Chained(is, lines[current].addr, AddrOf(current + 1))
      /\ NextLine /\ UNCHANGED lexVars
  BY DEF Assembles
<1>1. /\ phase = "resolved" /\ outcome = "running" /\ instrs \in Seq(Instr)
      /\ Len(lines) \in Nat /\ DOMAIN lines = 1..Len(lines)
      /\ current \in 1..Len(lines)
  BY <1>0 DEF Assembling, AsmInv, LexInv, Room
<1>2. /\ lines' = lines /\ source' = source /\ text_addr' = text_addr /\ current' = current + 1
  BY <1>0 DEF NextLine, lexVars
<1>3. FirstInstr' = FirstInstr
  BY <1>2 DEF FirstInstr, Emitted
<1>4. Counted' = Counted /\ \A i : AddrOf(i)' = AddrOf(i)
  BY <1>2 DEF AddrOf, Counted
<1> DEFINE n == Len(instrs)
           m == Len(is)
<1>5. instrs \in Seq(Instr)
  BY <1>1
<1>6. n \in Nat /\ m \in Nat /\ DOMAIN instrs = 1..n
  BY <1>0, <1>5
<1>7. /\ Len(instrs') = n + m /\ DOMAIN instrs' = 1..(n + m)
      /\ \A k \in 1..n : instrs'[k] = instrs[k]
      /\ m >= 1 => instrs'[n + 1] = is[1]
  <2> DEFINE u == instrs \o is
  <2>1. /\ Len(u) = n + m /\ DOMAIN u = 1..(n + m)
        /\ \A k \in 1..n : u[k] = instrs[k]
    BY <1>0, <1>5
  <2>2. m >= 1 => u[n + 1] = is[1]
    BY <1>0, <1>5
  <2> HIDE DEF u, n, m
  <2> QED
    BY <1>0, <2>1, <2>2 DEF u
<1>8. /\ FirstInstr[current] = n + 1
      /\ \A i \in 1..(current - 1) : lines[i].instr \in Assembled =>
           FirstInstr[i] \in DOMAIN instrs /\ instrs[FirstInstr[i]].bytes \in Encodings(lines[i])
      /\ Counted =>
           \A i \in 1..current : FirstInstr[i] \in 1..(n + 1) /\ AddrAt(FirstInstr[i]) = AddrOf(i)
  BY <1>1 DEF Emission
<1> HIDE DEF n, m
<1>9. FirstInstr[current + 1] = n + m + 1
  <2>1. FirstInstr[current + 1] = FirstInstr[current] + Emitted(lines[current])
    BY <1>1, FirstInstrIs
  <2> QED
    BY <1>0, <1>6, <1>8, <2>1 DEF m
<1>10. ASSUME NEW i \in 1..current, lines[i].instr \in Assembled
       PROVE  FirstInstr[i] \in DOMAIN instrs' /\ instrs'[FirstInstr[i]].bytes \in Encodings(lines[i])
  <2>1. CASE i = current
    <3>1. lines[i].instr \notin {"DB", "DW", "DS"}
      BY <1>10, AssembledAre, OpsAre
    <3>2. m = 1
      BY <1>0, <2>1, <3>1 DEF Emitted, m
    <3>3. n + 1 \in DOMAIN instrs' /\ instrs'[n + 1] = is[1]
      BY <1>6, <1>7, <3>2
    <3> QED
      BY <1>0, <1>8, <1>10, <2>1, <3>3
  <2>2. CASE i # current
    <3>1. i \in 1..(current - 1)
      BY <1>1, <2>2
    <3>2. FirstInstr[i] \in 1..n /\ instrs[FirstInstr[i]].bytes \in Encodings(lines[i])
      BY <1>6, <1>8, <1>10, <3>1
    <3>3. \A k \in 1..n : k \in DOMAIN instrs'
      BY <1>6, <1>7
    <3> QED
      BY <1>7, <3>2, <3>3
  <2> QED
    BY <2>1, <2>2
<1>11. ASSUME Counted, NEW i \in 1..(current + 1)
       PROVE  FirstInstr[i] \in 1..(n + m + 1) /\ AddrAt(FirstInstr[i])' = AddrOf(i)
  <2> DEFINE k == FirstInstr[i]
  <2>1. \A j : AddrAt(j)' = IF j \in DOMAIN instrs' THEN instrs'[j].addr ELSE AddrOf(current + 1)
    BY <1>2, <1>4 DEF AddrAt, AddrOf
  <2>2. CASE i = current + 1
    <3>1. k = n + m + 1 /\ k \in 1..(n + m + 1) /\ k \notin DOMAIN instrs'
      BY <1>6, <1>7, <1>9, <2>2
    <3> QED
      BY <1>3, <2>1, <2>2, <3>1
  <2>3. CASE i \in 1..current
    <3>1. k \in 1..(n + 1) /\ AddrAt(k) = AddrOf(i)
      BY <1>8, <1>11, <2>3
    <3>2. k \in 1..(n + m + 1)
      BY <1>6, <3>1
    <3>3. CASE k \in 1..n
      <4>1. k \in DOMAIN instrs' /\ instrs'[k] = instrs[k] /\ k \in DOMAIN instrs
        BY <1>6, <1>7, <3>3
      <4> QED
        BY <1>3, <2>1, <3>1, <3>2, <4>1 DEF AddrAt
    <3>4. CASE k = n + 1
      <4>1. k \notin DOMAIN instrs
        BY <1>6, <3>4
      <4>2. AddrOf(i) = lines[current].addr
        BY <1>1, <3>1, <4>1 DEF AddrAt, AddrOf
      <4>3. Chained(is, lines[current].addr, AddrOf(current + 1))
        BY <1>0, <1>11
      <4>4. CASE m = 0
        <5>1. is = <<>> /\ k \notin DOMAIN instrs'
          BY <1>0, <1>6, <1>7, <3>4, <4>4 DEF m
        <5>2. AddrOf(current + 1) = lines[current].addr
          BY <4>3, <5>1 DEF Chained
        <5> QED
          BY <1>3, <2>1, <3>2, <4>2, <5>1, <5>2
      <4>5. CASE m # 0
        <5>1. is # <<>> /\ k \in DOMAIN instrs' /\ instrs'[k] = is[1]
          BY <1>0, <1>6, <1>7, <3>4, <4>5 DEF m
        <5>2. is[1].addr = lines[current].addr
          BY <4>3, <5>1 DEF Chained
        <5> QED
          BY <1>3, <2>1, <3>2, <4>2, <5>1, <5>2
      <4> QED
        BY <4>4, <4>5
    <3> QED
      BY <1>6, <3>1, <3>3, <3>4
  <2> QED
    BY <1>1, <2>2, <2>3
<1>12. FirstInstr[current'] = Len(instrs') + 1 /\ (current + 1) - 1 = current
  BY <1>1, <1>2, <1>6, <1>7, <1>9
<1> QED
  BY <1>2, <1>3, <1>4, <1>7, <1>10, <1>11, <1>12 DEF Emission

LEMMA EmissionStep ==
  ASSUME AsmInv, Emission, [AsmNext]_asmVars
  PROVE  Emission'
<1>1. CASE LexNext /\ UNCHANGED <<current, instrs, outcome>>
  <2>1. phase = "lexing"
    BY <1>1 DEF LexNext, SkipLayout, LexLine, ResolveLabels, Lexing
  <2>2. current' = 1 /\ instrs' = <<>> /\ current = 1
    BY <1>1, <2>1 DEF AsmInv
  <2>3. LexInv'
    BY <1>1, LexInvStep DEF AsmInv
  <2>4. Len(lines') \in Nat
    BY <2>3 DEF LexInv, Room
  <2>5. FirstInstr[1]' = 1
    BY <2>4, FirstInstrPrimed
  <2>6. Len(instrs') = 0 /\ DOMAIN instrs' = {} /\ 1..(1 - 1) = {} /\ 1..1 = {1} /\ 1 \in 1..(0 + 1)
    BY <2>2
  <2>7. AddrAt(1)' = AddrOf(1)'
    BY <2>2, <2>6 DEF AddrAt, AddrOf
  <2> QED
    BY <2>2, <2>5, <2>6, <2>7 DEF Emission
<1>2. CASE AssembleInstr
  BY <1>2, AssembleInstrIs, LineEmitted
<1>3. CASE AssembleData
  BY <1>3, AssembleDataIs, LineEmitted
<1>4. CASE RejectLine \/ LexFailed
  <2>1. outcome' = "failed"
    BY <1>4 DEF RejectLine, LexFailed
  <2> QED
    BY <2>1 DEF Emission
<1>5. CASE AssembleNothing \/ UNCHANGED asmVars
  <2>1. UNCHANGED <<source, cursor, text_addr, lines, symbols, phase, current, instrs>>
    BY <1>5 DEF AssembleNothing, asmVars, lexVars
  <2>2. outcome = "running" \/ outcome' = outcome
    BY <1>5 DEF AssembleNothing, asmVars
  <2>3. FirstInstr' = FirstInstr
    BY <2>1 DEF FirstInstr, Emitted
  <2>4. /\ Counted' = Counted
        /\ \A i : AddrOf(i)' = AddrOf(i)
        /\ \A k : AddrAt(k)' = AddrAt(k)
    BY <2>1 DEF Counted, AddrOf, AddrAt
  <2> QED
    BY <2>1, <2>2, <2>3, <2>4 DEF Emission
<1> QED
  BY <1>1, <1>2, <1>3, <1>4, <1>5 DEF AsmNext

\* In a chain every instruction is at its offset.
LEMMA ChainedOffset ==
  ASSUME instrs \in Seq(Instr), lines # <<>>, Chained(instrs, lines[1].addr, AddrOf(current)),
         NEW k \in 1..(Len(instrs) + 1)
  PROVE  Offset[k] = AddrAt(k)
<1> DEFINE n == Len(instrs)
           U == {j \in Nat : j + 1 \in 1..(n + 1) => Offset[j + 1] = AddrAt(j + 1)}
<1>1. n \in Nat /\ DOMAIN instrs = 1..n
  OBVIOUS
<1>2. /\ Offset[1] = lines[1].addr
      /\ \A j \in 1..n : Offset[j + 1] = Offset[j] + Len(instrs[j].bytes)
  BY <1>1, OffsetIs
<1>3. CASE n = 0
  <2>1. instrs = <<>> /\ k = 1 /\ k \notin DOMAIN instrs
    BY <1>1, <1>3
  <2> QED
    BY <1>2, <2>1 DEF Chained, AddrAt
<1>4. CASE n # 0
  <2>1. instrs # <<>> /\ 1 \in 1..n /\ n \in 1..n /\ n + 1 \notin 1..n
    BY <1>1, <1>4
  <2>2. /\ instrs[1].addr = lines[1].addr
        /\ \A j \in 2..n : instrs[j].addr = instrs[j - 1].addr + Len(instrs[j - 1].bytes)
        /\ AddrOf(current) = instrs[n].addr + Len(instrs[n].bytes)
    BY <2>1 DEF Chained
  <2> HIDE DEF n
  <2>3. 0 \in U
    BY <1>1, <1>2, <2>1, <2>2 DEF AddrAt
  <2>4. ASSUME NEW j \in U \cap Nat PROVE j + 1 \in U
    <3> SUFFICES ASSUME (j + 1) + 1 \in 1..(n + 1)
                 PROVE  Offset[(j + 1) + 1] = AddrAt((j + 1) + 1)
      OBVIOUS
    <3>1. j + 1 \in 1..n /\ j + 1 \in 1..(n + 1)
      BY <1>1
    <3>2. Offset[j + 1] = instrs[j + 1].addr
      BY <1>1, <2>4, <3>1 DEF AddrAt
    <3>3. Offset[(j + 1) + 1] = instrs[j + 1].addr + Len(instrs[j + 1].bytes)
      BY <1>2, <3>1, <3>2
    <3>4. CASE (j + 1) + 1 \in 1..n
      <4>1. (j + 1) + 1 \in 2..n /\ ((j + 1) + 1) - 1 = j + 1
        BY <1>1, <3>4
      <4>2. instrs[(j + 1) + 1].addr = instrs[j + 1].addr + Len(instrs[j + 1].bytes)
        BY <2>2, <4>1
      <4> QED
        BY <1>1, <3>3, <3>4, <4>2 DEF AddrAt
    <3>5. CASE (j + 1) + 1 \notin 1..n
      <4>1. j + 1 = n
        BY <1>1, <3>1, <3>5
      <4> QED
        BY <1>1, <2>2, <3>3, <3>5, <4>1 DEF AddrAt
    <3> QED
      BY <3>4, <3>5
  <2>5. Nat \subseteq U
    <3> HIDE DEF U
    <3> QED
      BY <2>3, <2>4, SetInduction
  <2>6. k \in 1..(n + 1)
    BY DEF n
  <2> HIDE DEF U
  <2>7. k - 1 \in Nat /\ (k - 1) + 1 = k
    BY <1>1, <2>6
  <2>8. k - 1 \in U
    BY <2>5, <2>7
  <2> QED
    BY <2>6, <2>7, <2>8 DEF U
<1> QED
  BY <1>3, <1>4

\* The bytes of a call are the address it was resolved to.
LEMMA CallBytes ==
  ASSUME NEW l \in Line, l.instr \in Ops(CallCodes), NEW b \in Encodings(l)
  PROVE  b[2] + 256 * b[3] = l.imm % 65536
<1>1. b = <<Code(CallCodes, l.instr), Lo(l.imm), Hi(l.imm)>>
  BY OpsAre DEF Encodings, AsmCall
<1>2. l.imm \in Nat
  BY DEF Line
<1>3. ASSUME NEW n \in Nat
      PROVE  (n % 256) + 256 * ((n \div 256) % 256) = n % 65536
  OBVIOUS
<1> QED
  BY <1>1, <1>2, <1>3 DEF Lo, Hi
\* The address in a call is where the bytes of its target come to lie.
LEMMA CallHolds ==
  ASSUME AsmInv, Emission, ResolvedToLabel
  PROVE  CallReachesLabel
<1> SUFFICES ASSUME outcome = "assembled", Counted,
                    NEW i \in DOMAIN lines, lines[i].instr \in Ops(CallCodes),
                    lines[i].symbol # NoName, Begun(lines[i].symbol) # {}
             PROVE  \E j \in Targets(lines[i].symbol) :
                       instrs[FirstInstr[i]].bytes[2] + 256 * instrs[FirstInstr[i]].bytes[3]
                         = Offset[FirstInstr[j]] % 65536
  BY DEF CallReachesLabel
<1> DEFINE b == instrs[FirstInstr[i]].bytes
<1>1. /\ phase = "resolved" /\ Len(lines) \in Nat /\ DOMAIN lines = 1..Len(lines)
      /\ \A j \in DOMAIN lines : lines[j] \in Line
      /\ current = Len(lines) + 1 /\ instrs \in Seq(Instr)
  BY DEF AsmInv, LexInv, Room
<1>2. lines # <<>>
  BY <1>1
<1>3. PICK t \in Targets(lines[i].symbol) : lines[i].imm = lines[t].addr
  BY <1>1 DEF ResolvedToLabel
<1>4. t \in DOMAIN lines
  BY DEF Targets
<1>6. i \in 1..(current - 1) /\ t \in 1..current
  BY <1>1, <1>4
<1>7. lines[i].instr \in Assembled
  BY AssembledAre
<1>8. b \in Encodings(lines[i])
  BY <1>1, <1>6, <1>7 DEF Emission
<1>9. lines[i] \in Line
  BY <1>1
<1>10. b[2] + 256 * b[3] = lines[i].imm % 65536
  <2> HIDE DEF b
  <2> QED
    BY <1>8, <1>9, CallBytes
<1>11. FirstInstr[t] \in 1..(Len(instrs) + 1) /\ AddrAt(FirstInstr[t]) = lines[t].addr
  BY <1>1, <1>4, <1>6 DEF Emission, AddrOf
<1>12. Chained(instrs, lines[1].addr, AddrOf(current))
  <2>1. 1 \in DOMAIN lines
    BY <1>1, <1>2
  <2> QED
    BY <1>2, <2>1 DEF AsmInv, AddrOf
<1>13. Offset[FirstInstr[t]] = lines[t].addr
  BY <1>1, <1>2, <1>11, <1>12, ChainedOffset
<1> QED
  BY <1>3, <1>10, <1>13

\* A step of the assembler is a step of the lexer or leaves the lexer alone.
LEMMA AsmStepLexes ==
  ASSUME [AsmNext]_asmVars
  PROVE  [LexNext]_lexVars
<1>1. CASE AssembleInstr \/ AssembleData \/ RejectLine \/ AssembleNothing \/ LexFailed
  BY <1>1 DEF AssembleInstr, AssembleData, RejectLine, AssembleNothing, LexFailed
<1>2. CASE UNCHANGED asmVars
  BY <1>2 DEF asmVars, lexVars
<1> QED
  BY <1>1, <1>2 DEF AsmNext

\* Through both passes: the address in the bytes of a call is, modulo 2^16,
\* where the first instruction of the line with the label has come to lie in
\* the assembled bytes.  The first pass (lex_line, lex_resolve_labels) and the
\* second (asm_call, asm_data) meet nowhere but in the lines.  Which line that
\* is, LabelsResolve says.
THEOREM CallsReachLabels == AsmSpec => []CallReachesLabel
<1> DEFINE Inv == AsmInv /\ Emission /\ ResolvedToLabel
<1>1. AsmInit => Inv
  <2>1. AsmInit => ResolvedToLabel
    BY DEF AsmInit, LexInit, ResolvedToLabel
  <2> QED
    BY <2>1, AsmInvInit, EmissionInit
<1>2. Inv /\ [AsmNext]_asmVars => Inv'
  <2> SUFFICES ASSUME Inv, [AsmNext]_asmVars PROVE Inv'
    OBVIOUS
  <2>1. AsmInv'
    BY AsmInvStep
  <2>2. Emission'
    BY EmissionStep
  <2>3. ResolvedToLabel'
    <3>1. LexInv
      BY DEF AsmInv
    <3> QED
      BY <3>1, AsmStepLexes, ResolvedToLabelStep
  <2> QED
    BY <2>1, <2>2, <2>3
<1>3. Inv => CallReachesLabel
  BY CallHolds
<1> HIDE DEF Inv
<1> QED
  BY <1>1, <1>2, <1>3, PTL DEF AsmSpec

---------------------------------------------------------------------------
\* The listing: the lines it shows and the instructions they have become.

Shapely == \A i \in DOMAIN lines : Shaped(lines[i])

LEMMA ShapelyStep ==
  ASSUME LexInv, Shapely, [LexNext]_lexVars
  PROVE  Shapely'
<1>1. lines \in Seq(Line) /\ symbols \in Seq(Symbol) /\ \A i \in DOMAIN lines : lines[i] \in Line
  BY DEF LexInv, Room
<1>2. CASE lines' = lines
  BY <1>2 DEF Shapely, Shaped
<1>3. CASE LexLine
  <2>1. PICK out : LineStep(out)
    BY <1>3, SourceTyped, LexLineIs DEF LexInv
  <2>2. Given(out) /\ (lines' = lines \/ lines' = Append(lines, Added(out)))
    BY <2>1, EndLineIs DEF LineStep
  <2>3. Shaped(Added(out))
    BY <2>2, AddedIs DEF LexInv, Given, Shaped
  <2>4. CASE lines' = Append(lines, Added(out))
    <3>1. \A i \in DOMAIN lines' : lines'[i] = Added(out) \/ (i \in DOMAIN lines /\ lines'[i] = lines[i])
      BY <1>1, <2>4
    <3> QED
      BY <2>3, <3>1 DEF Shapely, Shaped
  <2> QED
    BY <1>2, <2>2, <2>4
<1>4. CASE ResolveLabels
  <2>1. PICK stray : /\ DOMAIN lines' = DOMAIN lines
                     /\ \A i \in DOMAIN lines : lines'[i] = Resolved(lines[i], stray)
    BY <1>4, ResolveLabelsIs DEF LexInv
  <2>2. \A i \in DOMAIN lines : /\ Resolved(lines[i], stray).instr = lines[i].instr
                                /\ Resolved(lines[i], stray).reg = lines[i].reg
    BY <1>1, ResolvedIs
  <2> QED
    BY <2>1, <2>2 DEF Shapely, Shaped
<1> QED
  BY <1>2, <1>3, <1>4 DEF LexNext, SkipLayout, lexVars

DataFree(i) == lines[i].instr \notin DataOps \union {"DS"}

\* Without data in between, line i has become instruction i.
OneEach ==
    phase = "resolved" /\ outcome # "failed" /\ (\A i \in 1..(current - 1) : DataFree(i)) =>
      /\ Len(instrs) = current - 1
      /\ \A i \in 1..(current - 1) :
           lines[i].instr \in Assembled /\ instrs[i].bytes \in Encodings(lines[i])

LEMMA LineOneEach ==
  ASSUME AsmInv, OneEach, NEW is, Assembles(is)
  PROVE  OneEach'
<1>1. /\ phase = "resolved" /\ outcome = "running" /\ instrs \in Seq(Instr)
      /\ Len(lines) \in Nat /\ current \in 1..Len(lines) /\ current - 1 \in Nat
      /\ is \in Seq(Instr) /\ instrs' = instrs \o is /\ Len(is) = Emitted(lines[current])
      /\ lines[current].instr \in Assembled \union DataOps \union {"DS"}
      /\ lines[current].instr \in Assembled => is[1].bytes \in Encodings(lines[current])
  BY DEF Assembles, Assembling, AsmInv, LexInv, Room
<1>2. lines' = lines /\ current' = current + 1
  BY DEF Assembles, NextLine, lexVars
<1> SUFFICES ASSUME \A i \in 1..current : DataFree(i)
             PROVE  /\ Len(instrs') = current
                    /\ \A i \in 1..current : /\ lines[i].instr \in Assembled
                                             /\ instrs'[i].bytes \in Encodings(lines[i])
  <2>1. current' - 1 = current /\ \A i : DataFree(i)' = DataFree(i)
    BY <1>1, <1>2 DEF DataFree
  <2> QED
    BY <1>2, <2>1 DEF OneEach
<1>3. \A i \in 1..current : i = current \/ i \in 1..(current - 1)
  <2>1. current \in Nat
    BY <1>1
  <2> QED
    BY <2>1
<1>4. /\ Len(instrs) = current - 1
      /\ \A i \in 1..(current - 1) :
           lines[i].instr \in Assembled /\ instrs[i].bytes \in Encodings(lines[i])
  BY <1>1 DEF OneEach
<1>5. current \in 1..current /\ DataFree(current)
  BY <1>1
<1>6. lines[current].instr \in Assembled /\ Len(is) = 1
  BY <1>1, <1>5 DEF DataFree, DataOps, Emitted
<1>7. /\ Len(instrs') = current /\ instrs'[current] = is[1]
      /\ \A i \in 1..(current - 1) : instrs'[i] = instrs[i]
  <2> DEFINE u == instrs \o is
  <2>1. /\ Len(u) = Len(instrs) + Len(is)
        /\ \A i \in 1..(Len(instrs) + Len(is)) :
             u[i] = IF i <= Len(instrs) THEN instrs[i] ELSE is[i - Len(instrs)]
    BY <1>1, ConcatProperties
  <2> HIDE DEF u
  <2>2. Len(instrs) + Len(is) = current
    BY <1>1, <1>4, <1>6
  <2>3. u[current] = is[1]
    BY <1>1, <1>4, <2>1, <2>2
  <2>4. \A i \in 1..(current - 1) : u[i] = instrs[i]
    BY <1>1, <1>4, <2>1, <2>2
  <2> QED
    BY <1>1, <2>1, <2>2, <2>3, <2>4 DEF u
<1> QED
  BY <1>1, <1>3, <1>4, <1>6, <1>7

LEMMA OneEachStep ==
  ASSUME AsmInv, OneEach, [AsmNext]_asmVars
  PROVE  OneEach'
<1>1. CASE LexNext /\ UNCHANGED <<current, instrs, outcome>>
  <2>1. phase = "lexing"
    BY <1>1 DEF LexNext, SkipLayout, LexLine, ResolveLabels, Lexing
  <2>2. current' = 1 /\ instrs' = <<>>
    BY <1>1, <2>1 DEF AsmInv
  <2> QED
    BY <2>2 DEF OneEach
<1>2. CASE AssembleInstr
  BY <1>2, AssembleInstrIs, LineOneEach
<1>3. CASE AssembleData
  BY <1>3, AssembleDataIs, LineOneEach
<1>4. CASE RejectLine \/ LexFailed
  BY <1>4 DEF RejectLine, LexFailed, OneEach
<1>5. CASE AssembleNothing \/ UNCHANGED asmVars
  <2>1. UNCHANGED <<source, cursor, text_addr, lines, symbols, phase, current, instrs>>
    BY <1>5 DEF AssembleNothing, asmVars, lexVars
  <2>2. outcome = "running" \/ outcome' = outcome
    BY <1>5 DEF AssembleNothing, asmVars
  <2> QED
    BY <2>1, <2>2 DEF OneEach, DataFree
<1> QED
  BY <1>1, <1>2, <1>3, <1>4, <1>5 DEF AsmNext

---------------------------------------------------------------------------
\* What a line becomes is listed as it was written.

\* The disassembler shows the instruction b as w, and steps over it.
Lists(b, w) ==
    /\ T!Text(b[1]) = w.text /\ T!OpBytes(b[1]) = Len(b) /\ T!OperandBytes(b[1]) = Len(b) - 1
    /\ Len(w.operand) = Len(b) - 1 /\ \A j \in 1..(Len(b) - 1) : w.operand[j] = b[j + 1]

LEMMA OneByteListed ==
  ASSUME NEW c, c \notin T!ThreeBytes \union T!TwoBytes \union {\h11},
         NEW w, w.text = T!Text(c), w.operand = <<>>
  PROVE  Lists(<<c>>, w)
<1>1. T!OpBytes(c) = 1 /\ T!OperandBytes(c) = 0
  BY DEF T!OpBytes, T!OperandBytes, T!ThreeBytes
<1>2. <<c>>[1] = c /\ Len(<<c>>) = 1 /\ Len(<<>>) = 0 /\ 1 - 1 = 0 /\ 1..0 = {}
  OBVIOUS
<1> QED
  BY <1>1, <1>2 DEF Lists

LEMMA TwoBytesListed ==
  ASSUME NEW c \in T!TwoBytes, NEW x, NEW w, w.text = T!Text(c), w.operand = <<x>>
  PROVE  Lists(<<c, x>>, w)
<1>1. T!OpBytes(c) = 2 /\ T!OperandBytes(c) = 1
  BY DEF T!OpBytes, T!OperandBytes, T!TwoBytes, T!ThreeBytes
<1>2. /\ <<c, x>>[1] = c /\ Len(<<c, x>>) = 2 /\ Len(<<x>>) = 1 /\ 2 - 1 = 1
      /\ \A j \in 1..1 : <<x>>[j] = <<c, x>>[j + 1]
  OBVIOUS
<1> QED
  BY <1>1, <1>2 DEF Lists

LEMMA ThreeBytesListed ==
  ASSUME NEW c \in T!ThreeBytes \ {\h1A}, NEW x, NEW y,
         NEW w, w.text = T!Text(c), w.operand = <<x, y>>
  PROVE  Lists(<<c, x, y>>, w)
<1>1. T!OpBytes(c) = 3 /\ T!OperandBytes(c) = 2
  BY DEF T!OpBytes, T!OperandBytes
<1>2. /\ <<c, x, y>>[1] = c /\ Len(<<c, x, y>>) = 3 /\ Len(<<x, y>>) = 2 /\ 3 - 1 = 2
      /\ \A j \in 1..2 : <<x, y>>[j] = <<c, x, y>>[j + 1]
  OBVIOUS
<1> QED
  BY <1>1, <1>2 DEF Lists

\* A table gives each name the code beside it.
LEMMA CodeIs ==
  ASSUME NEW table, \A d, e \in table : d[1] = e[1] => d = e, NEW e \in table
  PROVE  Code(table, e[1]) = e[2]
  BY DEF Code

LEMMA CodesOfTables ==
  /\ \A e \in ArithCodes : Code(ArithCodes, e[1]) = e[2]
  /\ \A e \in ImmCodes : Code(ImmCodes, e[1]) = e[2]
  /\ \A e \in PairCodes : Code(PairCodes, e[1]) = e[2]
  /\ \A e \in CountCodes : Code(CountCodes, e[1]) = e[2]
  /\ \A e \in MovCodes : Code(MovCodes, e[1]) = e[2]
  /\ \A e \in CallCodes : Code(CallCodes, e[1]) = e[2]
  /\ \A e \in PlainCodes : Code(PlainCodes, e[1]) = e[2]
<1>1. \A d, e \in ArithCodes : d[1] = e[1] => d = e
  BY SMTT(30) DEF ArithCodes
<1>2. \A d, e \in ImmCodes : d[1] = e[1] => d = e
  BY SMTT(30) DEF ImmCodes
<1>3. \A d, e \in PairCodes : d[1] = e[1] => d = e
  BY SMTT(30) DEF PairCodes
<1>4. \A d, e \in CountCodes : d[1] = e[1] => d = e
  BY SMTT(30) DEF CountCodes
<1>5. \A d, e \in MovCodes : d[1] = e[1] => d = e
  BY SMTT(30) DEF MovCodes
<1>6. \A d, e \in CallCodes : d[1] = e[1] => d = e
  BY SMTT(30) DEF CallCodes
<1>7. \A d, e \in PlainCodes : d[1] = e[1] => d = e
  BY SMTT(30) DEF PlainCodes
<1> QED
  BY <1>1, <1>2, <1>3, <1>4, <1>5, <1>6, <1>7, CodeIs

\* What has no bits in common is added up.
LEMMA OrApart ==
  ASSUME NEW n \in 0..31, NEW x \in 0..7
  PROVE  A!Or(8 * n, x) = 8 * n + x /\ A!Or(x, 8 * n) = 8 * n + x
  BY SMTT(60) DEF A!Or, A!OnBits, A!OrBit, A!Bit

LEMMA OrNothing ==
  ASSUME NEW n \in A!Byte
  PROVE  A!Or(n, 0) = n
  BY SMTT(60) DEF A!Or, A!OnBits, A!OrBit, A!Bit, A!Byte

EightRegs == {"B", "C", "D", "E", "H", "L", "M", "A"}

LEMMA RegsAre ==
  ASSUME NEW r \in EightRegs
  PROVE  /\ \E x \in 0..7 : /\ RegCodes(r) = {x} /\ T!Registers[x + 1] = r
                            /\ r # "M" => x # 6
         /\ r # "NONE"
  BY DEF EightRegs, RegCodes, T!Registers

LEMMA UnlistedAre ==
  /\ \A o \in JumpOps \union {"LDAX", "RNC"} : <<o>> \in Unlisted
  /\ <<"PUSH", "PSW">> \in Unlisted /\ <<"POP", "PSW">> \in Unlisted
  /\ <<"LXI", "D">> \in Unlisted /\ <<"DAD", "D">> \in Unlisted /\ <<"DCX", "D">> \in Unlisted
  /\ <<"INX", "S">> \in Unlisted
  /\ <<"INR", "M">> \in Unlisted /\ <<"DCR", "M">> \in Unlisted /\ <<"MVI", "M">> \in Unlisted
  BY DEF Unlisted

\* A line that is to be listed, and an instruction it may become.
Becomes(l, b) == l \in Line /\ Shaped(l) /\ Listable(l) /\ b \in Encodings(l)

\* How the lines of each kind are to be listed.
LEMMA WrittenIs ==
  ASSUME NEW l
  PROVE  /\ l.reg[1] = "NONE" => Written(l).text = <<l.instr>>
         /\ l.reg[1] # "NONE" /\ l.reg[2] = "NONE" => Written(l).text = <<l.instr, l.reg[1]>>
         /\ l.reg[1] # "NONE" /\ l.reg[2] # "NONE" =>
              Written(l).text = <<l.instr, l.reg[1], l.reg[2]>>
         /\ l.instr \in ImmOps \union {"MVI"} => Written(l).operand = <<l.imm>>
         /\ l.instr \in CallOps \union {"LXI"} => Written(l).operand = <<Lo(l.imm), Hi(l.imm)>>
         /\ l.instr \notin ImmOps \union CallOps \union {"MVI", "LXI"} => Written(l).operand = <<>>
<1> DEFINE text == CASE l.reg[1] = "NONE" -> <<l.instr>>
                     [] l.reg[1] # "NONE" /\ l.reg[2] = "NONE" -> <<l.instr, l.reg[1]>>
                     [] OTHER -> <<l.instr, l.reg[1], l.reg[2]>>
           operand == CASE l.instr \in ImmOps \cup {"MVI"} -> <<l.imm>>
                        [] l.instr \in CallOps \cup {"LXI"} -> <<Lo(l.imm), Hi(l.imm)>>
                        [] OTHER -> <<>>
<1>1. Written(l).text = text /\ Written(l).operand = operand
  BY DEF Written
<1>2. l.instr \in CallOps \union {"LXI"} => l.instr \notin ImmOps \union {"MVI"}
  BY DEF CallOps, ImmOps
<1>3. /\ l.reg[1] = "NONE" => text = <<l.instr>>
      /\ l.reg[1] # "NONE" /\ l.reg[2] = "NONE" => text = <<l.instr, l.reg[1]>>
      /\ l.reg[1] # "NONE" /\ l.reg[2] # "NONE" => text = <<l.instr, l.reg[1], l.reg[2]>>
  OBVIOUS
<1>4. /\ l.instr \in ImmOps \union {"MVI"} => operand = <<l.imm>>
      /\ l.instr \in CallOps \union {"LXI"} => operand = <<Lo(l.imm), Hi(l.imm)>>
      /\ l.instr \notin ImmOps \union CallOps \union {"MVI", "LXI"} => operand = <<>>
  BY <1>2
<1> HIDE DEF text, operand
<1> QED
  BY <1>1, <1>3, <1>4

\* ADD to CMP with a register.
LEMMA ArithListed ==
  ASSUME NEW l, NEW b, Becomes(l, b), l.instr \in Ops(ArithCodes)
  PROVE  Lists(b, Written(l))
<1> DEFINE op == l.instr
           r == l.reg[1]
<1>1. op \in {"ADD", "ADC", "SUB", "SBB", "ANA", "XRA", "ORA", "CMP"}
  BY OpsAre DEF Becomes, Line, Codes, LexedOps, OneRegOps, ImmOps, JumpOps, CallOps, NoOperandOps,
                DataOps
<1>2. r \in EightRegs /\ l.reg[2] = "NONE"
  BY <1>1 DEF Becomes, Listable, Operable, Shaped, EightRegs, OneRegOps
<1>3. PICK x \in 0..7 : RegCodes(r) = {x} /\ T!Registers[x + 1] = r
  BY <1>2, RegsAre
<1>4. Written(l).text = <<op, r>> /\ Written(l).operand = <<>>
  BY <1>1, <1>2, RegsAre, WrittenIs DEF ImmOps, CallOps
<1>5. \E k \in 0..7 : /\ Code(ArithCodes, op) = 8 * (16 + k)
                      /\ T!ThirdQuarter(8 * (16 + k) + x) = <<op, r>>
  <2>1. ASSUME NEW k \in 0..7
        PROVE  T!Row(8 * (16 + k) + x) = k + 1 /\ T!Column(8 * (16 + k) + x) = x
    BY DEF T!Row, T!Column
  <2> DEFINE names == <<"ADD", "ADC", "SUB", "SBB", "ANA", "XRA", "ORA", "CMP">>
  <2>2. \E k \in 0..7 : <<op, 8 * (16 + k)>> \in ArithCodes /\ names[k + 1] = op
    BY <1>1 DEF ArithCodes
  <2>3. \A k \in 0..7 : T!ThirdQuarter(8 * (16 + k) + x) = <<names[k + 1], T!Registers[1 + x]>>
    BY <2>1 DEF T!ThirdQuarter
  <2>4. \A c : <<op, c>> \in ArithCodes => Code(ArithCodes, op) = c
    BY CodesOfTables
  <2> HIDE DEF names
  <2> QED
    BY <1>3, <2>2, <2>3, <2>4
<1>6. PICK k \in 0..7 : /\ Code(ArithCodes, op) = 8 * (16 + k)
                        /\ T!ThirdQuarter(8 * (16 + k) + x) = <<op, r>>
  BY <1>5
<1> DEFINE c == 8 * (16 + k) + x
<1>7. b = <<c>>
  <2>1. Encodings(l) = {<<A!Or(Code(ArithCodes, op), y)>> : y \in RegCodes(r)}
    BY <1>1, OpsAre DEF Encodings
  <2>2. A!Or(8 * (16 + k), x) = c
    BY OrApart
  <2> QED
    BY <1>3, <1>6, <2>1, <2>2 DEF Becomes
<1>8. c \in \h80..\hBF
  OBVIOUS
<1>9. T!Text(c) = <<op, r>>
  BY <1>6, <1>8 DEF T!Text
<1>10. c \notin T!ThreeBytes \union T!TwoBytes \union {\h11}
  <2> HIDE DEF c
  <2> QED
    BY <1>8 DEF T!ThreeBytes, T!TwoBytes
<1> HIDE DEF c
<1> QED
  BY <1>4, <1>7, <1>9, <1>10, OneByteListed

\* ADI to CPI.
LEMMA ImmListed ==
  ASSUME NEW l, NEW b, Becomes(l, b), l.instr \in Ops(ImmCodes)
  PROVE  Lists(b, Written(l))
<1> DEFINE op == l.instr
           c == Code(ImmCodes, op)
<1>1. op \in {"ADI", "ACI", "SUI", "ANI", "ORI", "CPI"}
  BY OpsAre DEF Becomes, Shaped, Line, Codes, LexedOps, OneRegOps, ImmOps, JumpOps, CallOps,
                NoOperandOps, DataOps
<1>2. /\ op \in ImmOps /\ l.reg[1] = "NONE" /\ l.imm < 256 /\ l.imm \in Nat
  BY <1>1 DEF Becomes, Listable, Operable, ImmOps, OneRegOps, Line
<1>3. Lo(l.imm) = l.imm /\ Hi(l.imm) = 0
  BY <1>2 DEF Lo, Hi
<1>4. Written(l).text = <<op>> /\ Written(l).operand = <<l.imm>>
  BY <1>2, WrittenIs
<1>5. <<op, c>> \in {<<"ADI", \hC6>>, <<"ACI", \hCE>>, <<"SUI", \hD6>>,
                     <<"ANI", \hE6>>, <<"ORI", \hF6>>, <<"CPI", \hFE>>}
  <2>1. \A n : <<op, n>> \in ImmCodes => c = n
    BY CodesOfTables
  <2> HIDE DEF c
  <2> QED
    BY <1>1, <2>1 DEF ImmCodes
<1>6. c \in T!TwoBytes /\ c \in A!Byte
  BY <1>5 DEF T!TwoBytes, A!Byte
<1>7. T!Text(c) = <<op>>
  <2>1. /\ T!LastQuarter(\hC6) = <<"ADI">> /\ T!LastQuarter(\hCE) = <<"ACI">>
        /\ T!LastQuarter(\hD6) = <<"SUI">> /\ T!LastQuarter(\hE6) = <<"ANI">>
        /\ T!LastQuarter(\hF6) = <<"ORI">> /\ T!LastQuarter(\hFE) = <<"CPI">>
    BY DEF T!LastQuarter, T!Immediates, T!Row, T!Column
  <2>2. c \in \hC0..\hFF
    BY <1>5
  <2> HIDE DEF c
  <2>3. T!Text(c) = T!LastQuarter(c)
    BY <2>2 DEF T!Text
  <2> QED
    BY <1>5, <2>1, <2>3
<1>8. b = <<c, l.imm>>
  BY <1>1, <1>3, <1>6, OpsAre, OrNothing DEF Encodings, Becomes
<1> HIDE DEF c
<1> QED
  BY <1>4, <1>6, <1>7, <1>8, TwoBytesListed

\* The columns of INR, DCR and MVI but for the rows of M.
LEMMA RegisterColumns ==
  ASSUME NEW x \in 0..7, x # 6
  PROVE  /\ T!Text(8 * x + 4) = <<"INR", T!Registers[x + 1]>>
         /\ T!Text(8 * x + 5) = <<"DCR", T!Registers[x + 1]>>
         /\ T!Text(8 * x + 6) = <<"MVI", T!Registers[x + 1]>>
         /\ 8 * x + 4 \notin T!ThreeBytes \union T!TwoBytes \union {\h11}
         /\ 8 * x + 5 \notin T!ThreeBytes \union T!TwoBytes \union {\h11}
         /\ 8 * x + 6 \in T!TwoBytes
<1>1. ASSUME NEW k \in 4..6
      PROVE  /\ T!Row(8 * x + k) = x + 1 /\ T!Column(8 * x + k) = k
             /\ 8 * x + k < \h40 /\ 8 * x + k \notin T!OddRegisters
  BY DEF T!Row, T!Column, T!OddRegisters
<1>2. ASSUME NEW k \in 4..6
      PROVE  T!Text(8 * x + k) = T!FirstQuarter(8 * x + k)
  BY <1>1 DEF T!Text
<1>3. ASSUME NEW k \in 4..6
      PROVE  T!Named(8 * x + k, T!Registers[T!Row(8 * x + k)]) = T!Registers[x + 1]
  BY <1>1 DEF T!Named
<1>4. /\ T!FirstQuarter(8 * x + 4) = <<"INR", T!Registers[x + 1]>>
      /\ T!FirstQuarter(8 * x + 5) = <<"DCR", T!Registers[x + 1]>>
      /\ T!FirstQuarter(8 * x + 6) = <<"MVI", T!Registers[x + 1]>>
  BY <1>1, <1>3 DEF T!FirstQuarter
<1>5. /\ 8 * x + 4 \notin T!ThreeBytes \union T!TwoBytes \union {\h11}
      /\ 8 * x + 5 \notin T!ThreeBytes \union T!TwoBytes \union {\h11}
      /\ 8 * x + 6 \in T!TwoBytes
  BY DEF T!ThreeBytes, T!TwoBytes
<1> QED
  BY <1>2, <1>4, <1>5

LEMMA MviListed ==
  ASSUME NEW l, NEW b, Becomes(l, b), l.instr = "MVI"
  PROVE  Lists(b, Written(l))
<1> DEFINE r == l.reg[1]
<1>1. /\ r \in EightRegs \ {"M"} /\ l.reg[2] = "NONE" /\ l.imm < 256 /\ l.imm \in Nat
  BY UnlistedAre DEF Becomes, Listable, Operable, Shaped, EightRegs, OneRegOps, Line
<1>2. PICK x \in 0..7 : RegCodes(r) = {x} /\ T!Registers[x + 1] = r /\ x # 6
  BY <1>1, RegsAre
<1>3. Lo(l.imm) = l.imm /\ Hi(l.imm) = 0
  BY <1>1 DEF Lo, Hi
<1>4. Written(l).text = <<"MVI", r>> /\ Written(l).operand = <<l.imm>>
  BY <1>1, RegsAre, WrittenIs
<1>5. b = <<8 * x + 6, l.imm>>
  <2>1. Encodings(l) = {<<A!Or(A!Or(\h06, (8 * y) % 256), Hi(l.imm)), Lo(l.imm)>> : y \in RegCodes(r)}
    BY OpsAre DEF Encodings
  <2>2. (8 * x) % 256 = 8 * x /\ A!Or(6, 8 * x) = 8 * x + 6 /\ 8 * x + 6 \in A!Byte
    BY OrApart DEF A!Byte
  <2>3. A!Or(A!Or(\h06, (8 * x) % 256), 0) = 8 * x + 6
    BY <2>2, OrNothing
  <2> QED
    BY <1>2, <1>3, <2>1, <2>3 DEF Becomes
<1> QED
  BY <1>2, <1>4, <1>5, RegisterColumns, TwoBytesListed

LEMMA CountListed ==
  ASSUME NEW l, NEW b, Becomes(l, b), l.instr \in Ops(CountCodes)
  PROVE  Lists(b, Written(l))
<1> DEFINE op == l.instr
           r == l.reg[1]
<1>1. op \in {"INR", "DCR"}
  BY OpsAre
<1>2. r \in EightRegs \ {"M"} /\ l.reg[2] = "NONE"
  BY <1>1, UnlistedAre DEF Becomes, Listable, Operable, Shaped, EightRegs, OneRegOps
<1>3. PICK x \in 0..7 : RegCodes(r) = {x} /\ T!Registers[x + 1] = r /\ x # 6
  BY <1>2, RegsAre
<1>4. Written(l).text = <<op, r>> /\ Written(l).operand = <<>>
  BY <1>1, <1>2, RegsAre, WrittenIs DEF ImmOps, CallOps
<1>5. Code(CountCodes, "INR") = 4 /\ Code(CountCodes, "DCR") = 5
  <2>1. \A n : <<"INR", n>> \in CountCodes => Code(CountCodes, "INR") = n
    BY CodesOfTables
  <2>2. \A n : <<"DCR", n>> \in CountCodes => Code(CountCodes, "DCR") = n
    BY CodesOfTables
  <2> QED
    BY <2>1, <2>2 DEF CountCodes
<1>6. b = <<IF op = "INR" THEN 8 * x + 4 ELSE 8 * x + 5>>
  <2>1. Encodings(l) = {<<A!Or(Code(CountCodes, op), (8 * y) % 256)>> : y \in RegCodes(r)}
    BY <1>1, OpsAre DEF Encodings
  <2>2. (8 * x) % 256 = 8 * x /\ A!Or(4, 8 * x) = 8 * x + 4 /\ A!Or(5, 8 * x) = 8 * x + 5
    BY OrApart
  <2> QED
    BY <1>1, <1>3, <1>5, <2>1, <2>2 DEF Becomes
<1> HIDE DEF op, r
<1>7. CASE op = "INR"
  <2>1. b = <<8 * x + 4>>
    BY <1>6, <1>7
  <2> QED
    BY <1>3, <1>4, <1>7, <2>1, RegisterColumns, OneByteListed
<1>8. CASE op = "DCR"
  <2>1. b = <<8 * x + 5>>
    BY <1>6, <1>8
  <2> QED
    BY <1>3, <1>4, <1>8, <2>1, RegisterColumns, OneByteListed
<1> QED
  BY <1>1, <1>7, <1>8

LEMMA PairsOperable ==
  /\ Operable("STAX") = {"B", "D"}
  /\ \A o \in {"DAD", "DCX", "INX", "LXI"} : Operable(o) = {"B", "D", "H", "S"}
  /\ \A o \in {"PUSH", "POP"} : Operable(o) = {"B", "D", "H", "PSW"}
  BY DEF Operable

LEMMA LxiListed ==
  ASSUME NEW l, NEW b, Becomes(l, b), l.instr = "LXI"
  PROVE  Lists(b, Written(l))
<1> DEFINE r == l.reg[1]
           c == 1 + 16 * PairCode(r)
<1>1. r \in {"B", "H", "S"} /\ l.reg[2] = "NONE"
  BY UnlistedAre, PairsOperable DEF Becomes, Listable, Shaped
<1>2. Written(l).text = <<"LXI", r>> /\ Written(l).operand = <<Lo(l.imm), Hi(l.imm)>>
  BY <1>1, WrittenIs
<1>3. b = <<c, Lo(l.imm), Hi(l.imm)>>
  BY OpsAre DEF Encodings, Becomes
<1>4. <<r, c>> \in {<<"B", \h01>>, <<"H", \h21>>, <<"S", \h31>>}
  BY <1>1 DEF PairCode
<1>5. /\ T!Text(\h01) = <<"LXI", "B">> /\ T!Text(\h21) = <<"LXI", "H">>
      /\ T!Text(\h31) = <<"LXI", "S">>
  BY DEF T!Text, T!FirstQuarter, T!Row, T!Column, T!Upper, T!Named, T!OddRegisters, T!PairOf,
         T!Pairs
<1> HIDE DEF c
<1>6. T!Text(c) = <<"LXI", r>> /\ c \in T!ThreeBytes \ {\h1A}
  BY <1>4, <1>5 DEF T!ThreeBytes
<1> QED
  BY <1>2, <1>3, <1>6, ThreeBytesListed

LEMMA PairListed ==
  ASSUME NEW l, NEW b, Becomes(l, b), l.instr \in Ops(PairCodes)
  PROVE  Lists(b, Written(l))
<1> DEFINE op == l.instr
           r == l.reg[1]
           c == Code(PairCodes, op) + 16 * PairCode(r)
<1>1. op \in {"DAD", "DCX", "INX", "STAX"}
  BY OpsAre, UnlistedAre DEF Becomes, Listable
<1>2. /\ l.reg[2] = "NONE"
      /\ <<op, r>> \in {<<"STAX", "B">>, <<"STAX", "D">>, <<"DAD", "B">>, <<"DAD", "H">>,
                        <<"DAD", "S">>, <<"DCX", "B">>, <<"DCX", "H">>, <<"DCX", "S">>,
                        <<"INX", "B">>, <<"INX", "D">>, <<"INX", "H">>}
  <2>1. r \in Operable(op) /\ <<op, r>> \notin Unlisted /\ l.reg[2] = "NONE"
    BY <1>1 DEF Becomes, Listable, Shaped
  <2> QED
    BY <1>1, <2>1, UnlistedAre, PairsOperable
<1>3. Written(l).text = <<op, r>> /\ Written(l).operand = <<>>
  BY <1>1, <1>2, WrittenIs DEF ImmOps, CallOps
<1>4. b = <<c>>
  BY <1>1, OpsAre DEF Encodings, Becomes
<1>5. <<op, Code(PairCodes, op)>> \in {<<"DAD", \h09>>, <<"DCX", \h0B>>, <<"INX", \h03>>,
                                        <<"STAX", \h02>>}
  <2>1. \A n : <<op, n>> \in PairCodes => Code(PairCodes, op) = n
    BY CodesOfTables
  <2> QED
    BY <1>1, <2>1 DEF PairCodes
<1>6. PairCode("B") = 0 /\ PairCode("D") = 1 /\ PairCode("H") = 2 /\ PairCode("S") = 3
  BY DEF PairCode
<1>7. <<op, r, c>> \in {<<"STAX", "B", \h02>>, <<"STAX", "D", \h12>>, <<"DAD", "B", \h09>>,
                        <<"DAD", "H", \h29>>, <<"DAD", "S", \h39>>, <<"DCX", "B", \h0B>>,
                        <<"DCX", "H", \h2B>>, <<"DCX", "S", \h3B>>, <<"INX", "B", \h03>>,
                        <<"INX", "D", \h13>>, <<"INX", "H", \h23>>}
  BY <1>2, <1>5, <1>6
<1>8. /\ T!Text(\h02) = <<"STAX", "B">> /\ T!Text(\h12) = <<"STAX", "D">>
      /\ T!Text(\h09) = <<"DAD", "B">> /\ T!Text(\h29) = <<"DAD", "H">>
      /\ T!Text(\h39) = <<"DAD", "S">> /\ T!Text(\h0B) = <<"DCX", "B">>
  BY DEF T!Text, T!FirstQuarter, T!Row, T!Column, T!Upper, T!Named, T!OddRegisters, T!PairOf,
         T!Pairs
<1>9. /\ T!Text(\h2B) = <<"DCX", "H">> /\ T!Text(\h3B) = <<"DCX", "S">>
      /\ T!Text(\h03) = <<"INX", "B">> /\ T!Text(\h13) = <<"INX", "D">>
      /\ T!Text(\h23) = <<"INX", "H">>
  BY DEF T!Text, T!FirstQuarter, T!Row, T!Column, T!Upper, T!Named, T!OddRegisters, T!PairOf,
         T!Pairs
<1> HIDE DEF c
<1>10. T!Text(c) = <<op, r>>
  BY <1>7, <1>8, <1>9
<1>11. c \notin T!ThreeBytes \union T!TwoBytes \union {\h11}
  BY <1>7 DEF T!ThreeBytes, T!TwoBytes
<1> QED
  BY <1>3, <1>4, <1>10, <1>11, OneByteListed

LEMMA OrOctals ==
  ASSUME NEW x \in 0..7
  PROVE  A!Or(\h40, 8 * x) = 8 * (8 + x)
  BY SMTT(60) DEF A!Or, A!OnBits, A!OrBit, A!Bit

LEMMA OrPairs ==
  /\ A!Or(\hC1, 0) = \hC1 /\ A!Or(\hC1, 16) = \hD1 /\ A!Or(\hC1, 32) = \hE1
  /\ A!Or(\hC5, 0) = \hC5 /\ A!Or(\hC5, 16) = \hD5 /\ A!Or(\hC5, 32) = \hE5
  /\ A!Or(\hD1, 0) = \hD1 /\ A!Or(\hE1, 0) = \hE1
  /\ A!Or(\hD5, 0) = \hD5 /\ A!Or(\hE5, 0) = \hE5
<1>1. A!Or(\hC1, 16) = \hD1 /\ A!Or(\hC1, 32) = \hE1
  BY SMTT(60) DEF A!Or, A!OnBits, A!OrBit, A!Bit
<1>2. A!Or(\hC5, 16) = \hD5 /\ A!Or(\hC5, 32) = \hE5
  BY SMTT(60) DEF A!Or, A!OnBits, A!OrBit, A!Bit
<1>3. \A n \in {\hC1, \hC5, \hD1, \hE1, \hD5, \hE5} : n \in A!Byte
  BY DEF A!Byte
<1> QED
  BY <1>1, <1>2, <1>3, OrNothing

LEMMA MovListed ==
  ASSUME NEW l, NEW b, Becomes(l, b), l.instr = "MOV"
  PROVE  Lists(b, Written(l))
<1> DEFINE r == l.reg[1]
           q == l.reg[2]
<1>1. r \in EightRegs /\ q \in EightRegs /\ ~(r = "M" /\ q = "M")
  <2>1. l.reg \in [1..2 -> Regs]
    BY DEF Becomes, Line
  <2>2. l.reg # <<"M", "M">> => ~(r = "M" /\ q = "M")
    BY <2>1
  <2> QED
    BY <2>2 DEF Becomes, Listable, Operable, EightRegs, OneRegOps
<1>2. PICK x \in 0..7 : RegCodes(r) = {x} /\ T!Registers[x + 1] = r /\ (r # "M" => x # 6)
  BY <1>1, RegsAre
<1>3. PICK y \in 0..7 : RegCodes(q) = {y} /\ T!Registers[y + 1] = q /\ (q # "M" => y # 6)
  BY <1>1, RegsAre
<1>4. Written(l).text = <<"MOV", r, q>> /\ Written(l).operand = <<>>
  BY <1>1, RegsAre, WrittenIs DEF ImmOps, CallOps
<1> DEFINE c == 8 * (8 + x) + y
<1>5. b = <<c>>
  <2>1. Encodings(l) = {<<A!Or(A!Or(Code(MovCodes, "MOV"), (8 * u) % 256), v)>> :
                           u \in RegCodes(r), v \in RegCodes(q)}
    BY OpsAre DEF Encodings
  <2>2. Code(MovCodes, "MOV") = \h40
    <3>1. \A n : <<"MOV", n>> \in MovCodes => Code(MovCodes, "MOV") = n
      BY CodesOfTables
    <3> QED
      BY <3>1 DEF MovCodes
  <2>3. (8 * x) % 256 = 8 * x /\ A!Or(\h40, 8 * x) = 8 * (8 + x) /\ A!Or(8 * (8 + x), y) = c
    BY OrOctals, OrApart
  <2> QED
    BY <1>2, <1>3, <2>1, <2>2, <2>3 DEF Becomes
<1>6. /\ c \in \h40..\h7F /\ c # \h76 /\ T!Row(c) = x + 1 /\ T!Column(c) = y
  BY <1>1, <1>2, <1>3 DEF T!Row, T!Column
<1> HIDE DEF c
<1>7. T!Text(c) = <<"MOV", r, q>>
  BY <1>2, <1>3, <1>6 DEF T!Text, T!SecondQuarter
<1>8. c \notin T!ThreeBytes \union T!TwoBytes \union {\h11}
  BY <1>6 DEF T!ThreeBytes, T!TwoBytes
<1> QED
  BY <1>4, <1>5, <1>7, <1>8, OneByteListed

\* PUSH and POP are put together as MOV is.
LEMMA StackListed ==
  ASSUME NEW l, NEW b, Becomes(l, b), l.instr \in {"PUSH", "POP"}
  PROVE  Lists(b, Written(l))
<1> DEFINE op == l.instr
           r == l.reg[1]
           k == Code(MovCodes, op)
<1>1. r \in {"B", "D", "H"} /\ l.reg[2] = "NONE"
  BY UnlistedAre, PairsOperable DEF Becomes, Listable, Shaped
<1>2. Written(l).text = <<op, r>> /\ Written(l).operand = <<>>
  BY <1>1, WrittenIs DEF ImmOps, CallOps
<1>3. <<op, k>> \in {<<"PUSH", \hC5>>, <<"POP", \hC1>>}
  <2>1. \A n : <<op, n>> \in MovCodes => k = n
    BY CodesOfTables
  <2> HIDE DEF k
  <2> QED
    BY <2>1 DEF MovCodes
<1>4. <<r, RegCodes(r)>> \in {<<"B", {0}>>, <<"D", {2}>>, <<"H", {4}>>} /\ RegCodes("NONE") = {0}
  BY <1>1 DEF RegCodes
<1>5. Encodings(l) = {<<A!Or(A!Or(k, (8 * u) % 256), v)>> : u \in RegCodes(r), v \in RegCodes("NONE")}
  BY <1>1, OpsAre DEF Encodings
<1> HIDE DEF k
<1>6. PICK u \in {0, 2, 4} : RegCodes(r) = {u} /\ <<r, u>> \in {<<"B", 0>>, <<"D", 2>>, <<"H", 4>>}
  BY <1>4
<1> DEFINE c == A!Or(A!Or(k, (8 * u) % 256), 0)
<1>7. b = <<c>>
  BY <1>4, <1>5, <1>6 DEF Becomes
<1>8. <<op, r, c>> \in {<<"PUSH", "B", \hC5>>, <<"PUSH", "D", \hD5>>, <<"PUSH", "H", \hE5>>,
                        <<"POP", "B", \hC1>>, <<"POP", "D", \hD1>>, <<"POP", "H", \hE1>>}
  <2>1. (8 * 0) % 256 = 0 /\ (8 * 2) % 256 = 16 /\ (8 * 4) % 256 = 32
    OBVIOUS
  <2>2. <<op, r, k, (8 * u) % 256>> \in
           {<<"PUSH", "B", \hC5, 0>>, <<"PUSH", "D", \hC5, 16>>, <<"PUSH", "H", \hC5, 32>>,
            <<"POP", "B", \hC1, 0>>, <<"POP", "D", \hC1, 16>>, <<"POP", "H", \hC1, 32>>}
    BY <1>3, <1>6, <2>1
  <2> QED
    BY <2>2, OrPairs
<1> HIDE DEF c
<1>9. /\ T!Text(\hC5) = <<"PUSH", "B">> /\ T!Text(\hD5) = <<"PUSH", "D">>
      /\ T!Text(\hE5) = <<"PUSH", "H">> /\ T!Text(\hC1) = <<"POP", "B">>
      /\ T!Text(\hD1) = <<"POP", "D">> /\ T!Text(\hE1) = <<"POP", "H">>
  BY DEF T!Text, T!LastQuarter, T!Row, T!Column, T!Upper, T!PairOf, T!Pairs
<1>10. T!Text(c) = <<op, r>>
  BY <1>8, <1>9
<1>11. c \notin T!ThreeBytes \union T!TwoBytes \union {\h11}
  BY <1>8 DEF T!ThreeBytes, T!TwoBytes
<1> QED
  BY <1>2, <1>7, <1>10, <1>11, OneByteListed

LEMMA CallListed ==
  ASSUME NEW l, NEW b, Becomes(l, b), l.instr \in Ops(CallCodes)
  PROVE  Lists(b, Written(l))
<1> DEFINE op == l.instr
           c == Code(CallCodes, op)
<1>1. op \in CallOps
  BY OpsAre DEF CallOps
<1>2. l.reg[1] = "NONE"
  BY <1>1 DEF Becomes, Listable, Operable, CallOps, OneRegOps
<1>3. Written(l).text = <<op>> /\ Written(l).operand = <<Lo(l.imm), Hi(l.imm)>>
  BY <1>1, <1>2, WrittenIs
<1>4. b = <<c, Lo(l.imm), Hi(l.imm)>>
  BY OpsAre DEF Encodings, Becomes, AsmCall
<1>5. <<op, c>> \in {<<"CNZ", \hC4>>, <<"CZ", \hCC>>, <<"CALL", \hCD>>, <<"CC", \hDC>>,
                     <<"CPO", \hE4>>, <<"CPE", \hEC>>, <<"CP", \hF4>>, <<"CM", \hFC>>}
  <2>1. \A n : <<op, n>> \in CallCodes => c = n
    BY CodesOfTables
  <2> HIDE DEF c
  <2> QED
    BY <1>1, <2>1 DEF CallCodes, CallOps
<1> HIDE DEF c
<1>6. /\ T!Text(\hC4) = <<"CNZ">> /\ T!Text(\hCC) = <<"CZ">> /\ T!Text(\hCD) = <<"CALL">>
      /\ T!Text(\hDC) = <<"CC">> /\ T!Text(\hE4) = <<"CPO">> /\ T!Text(\hEC) = <<"CPE">>
      /\ T!Text(\hF4) = <<"CP">> /\ T!Text(\hFC) = <<"CM">>
  BY DEF T!Text, T!LastQuarter, T!Row, T!Column, T!Upper, T!Calls
<1>7. T!Text(c) = <<op>> /\ c \in T!ThreeBytes \ {\h1A}
  BY <1>5, <1>6 DEF T!ThreeBytes
<1> QED
  BY <1>3, <1>4, <1>7, ThreeBytesListed

LEMMA PlainListed ==
  ASSUME NEW l, NEW b, Becomes(l, b), l.instr \in Ops(PlainCodes)
  PROVE  Lists(b, Written(l))
<1> DEFINE op == l.instr
           c == Code(PlainCodes, op)
<1>1. op \in {"RNZ", "RZ", "RET", "RC", "RPO", "RPE", "RP", "RM", "PCHL"}
  BY OpsAre, UnlistedAre DEF Becomes, Listable, Shaped, Line, Codes, LexedOps, OneRegOps, ImmOps,
                             JumpOps, CallOps, NoOperandOps, DataOps
<1>2. l.reg[1] = "NONE"
  BY <1>1 DEF Becomes, Listable, Operable, OneRegOps
<1>3. Written(l).text = <<op>> /\ Written(l).operand = <<>>
  BY <1>1, <1>2, WrittenIs DEF ImmOps, CallOps
<1>4. b = <<c>>
  BY OpsAre DEF Encodings, Becomes
<1>5. <<op, c>> \in {<<"RNZ", \hC0>>, <<"RZ", \hC8>>, <<"RET", \hC9>>, <<"RC", \hD8>>,
                     <<"RPO", \hE0>>, <<"RPE", \hE8>>, <<"RP", \hF0>>, <<"RM", \hF8>>,
                     <<"PCHL", \hE9>>}
  <2>1. \A n : <<op, n>> \in PlainCodes => c = n
    BY CodesOfTables
  <2> HIDE DEF c
  <2> QED
    BY <1>1, <2>1 DEF PlainCodes
<1> HIDE DEF c
<1>6. /\ T!Text(\hC0) = <<"RNZ">> /\ T!Text(\hC8) = <<"RZ">> /\ T!Text(\hC9) = <<"RET">>
      /\ T!Text(\hD8) = <<"RC">> /\ T!Text(\hE0) = <<"RPO">> /\ T!Text(\hE8) = <<"RPE">>
      /\ T!Text(\hF0) = <<"RP">> /\ T!Text(\hF8) = <<"RM">> /\ T!Text(\hE9) = <<"PCHL">>
  BY DEF T!Text, T!LastQuarter, T!Row, T!Column, T!Upper, T!Returns
<1>7. T!Text(c) = <<op>>
  BY <1>5, <1>6
<1>8. c \notin T!ThreeBytes \union T!TwoBytes \union {\h11}
  BY <1>5 DEF T!ThreeBytes, T!TwoBytes
<1> QED
  BY <1>3, <1>4, <1>7, <1>8, OneByteListed

\* Whatever a line that is to be listed becomes is listed as the line.
LEMMA LineListed ==
  ASSUME NEW l, NEW b, Becomes(l, b), l.instr \in Assembled
  PROVE  Lists(b, Written(l))
<1>1. l.instr \notin Ops(JumpCodes)
  <2>1. l.instr \notin JumpOps
    BY UnlistedAre DEF Becomes, Listable
  <2>2. l.instr # "JNZ"
    BY DEF Becomes, Line, Codes, LexedOps, OneRegOps, ImmOps, JumpOps, CallOps, NoOperandOps,
           DataOps
  <2> QED
    BY <2>1, <2>2, OpsAre DEF JumpOps
<1>2. l.instr \in Ops(MovCodes) => l.instr \in {"MOV", "PUSH", "POP"}
  BY OpsAre DEF Becomes, Line, Codes, LexedOps, OneRegOps, ImmOps, JumpOps, CallOps, NoOperandOps,
                DataOps
<1> QED
  BY <1>1, <1>2, AssembledAre, ArithListed, ImmListed, PairListed, CountListed, MviListed,
     LxiListed, MovListed, StackListed, CallListed, PlainListed

---------------------------------------------------------------------------
\* The listing: where it has come to in the bytes.

\* What lies in front of each instruction, as many bytes as the file has then.
Parts(is) == [k \in DOMAIN is |-> is[k].bytes]
Place(is) == CHOOSE place : place = SumOf(place, Len(is), 0, [k \in 1..Len(is) |-> Len(is[k].bytes)])

\* The bytes of the instructions are where they are counted to be.
LEMMA BufferIs ==
  ASSUME instrs \in Seq(Instr)
  PROVE  /\ Place(instrs)[1] = 0 /\ Len(buffer) \in Nat
         /\ \A k \in 1..Len(instrs) :
              Place(instrs)[k + 1] = Place(instrs)[k] + Len(instrs[k].bytes)
         /\ Placed(buffer, Place(instrs), Len(instrs), Parts(instrs))
         /\ buffer \in Seq(A!Byte)
<1> DEFINE n == Len(instrs)
           place == Place(instrs)
           parts == Parts(instrs)
           step == [k \in 1..n |-> Len(instrs[k].bytes)]
<1>1. /\ n \in Nat /\ DOMAIN instrs = 1..n
      /\ \A k \in 1..n : instrs[k].bytes \in Seq(A!Byte) /\ Len(instrs[k].bytes) \in Nat
  BY InstrFields
<1>2. parts \in [1..n -> Seq(A!Byte)] /\ \A k \in 1..n : parts[k] = instrs[k].bytes
  BY <1>1 DEF Parts
<1>3. \A k \in 1..n : step[k] = Len(instrs[k].bytes)
  OBVIOUS
<1>4. place = SumOf(place, n, 0, step)
  <2>1. place = CHOOSE f : f = SumOf(f, n, 0, step)
    BY DEF Place
  <2>2. \E f : f = SumOf(f, n, 0, step)
    <3> HIDE DEF step
    <3> QED
      BY <1>1, SumExists
  <2> HIDE DEF place, step
  <2> QED
    BY <2>1, <2>2
<1> HIDE DEF step
<1>5. place[1] = 0 /\ \A k \in 1..n : place[k + 1] = place[k] + step[k]
  <2> HIDE DEF place
  <2> QED
    BY <1>1, <1>4, SumOfIs
<1>6. Fronts(place, n, parts)
  BY <1>2, <1>3, <1>5 DEF Fronts
<1>7. buffer = FlattenSeq(parts)
  BY DEF buffer, Parts
<1>8. Placed(buffer, place, n, parts) /\ buffer \in Seq(A!Byte)
  <2> HIDE DEF place, parts
  <2>1. CASE n = 0
    <3>1. Len(parts) = 0 /\ parts = <<>>
      BY <1>2, <2>1
    <3>2. FlattenSeq(parts) = <<>>
      BY <3>1 DEF FlattenSeq
    <3> QED
      BY <1>5, <1>7, <2>1, <3>2 DEF Placed
  <2>2. CASE n # 0
    BY <1>1, <1>2, <1>6, <1>7, <2>2, FlattenPlaces
  <2> QED
    BY <2>1, <2>2
<1>9. Len(buffer) \in Nat
  BY <1>8
<1> QED
  BY <1>3, <1>5, <1>8, <1>9

AllListable == \A i \in DOMAIN lines : Listable(lines[i])

\* Once assembled, each line has become the one instruction it is listed from.
LEMMA LinesBecome ==
  ASSUME AsmInv, Shapely, OneEach, outcome = "assembled", AllListable
  PROVE  /\ Len(instrs) = Len(lines)
         /\ \A i \in 1..Len(lines) : Lists(instrs[i].bytes, Written(lines[i]))
<1>1. /\ phase = "resolved" /\ current = Len(lines) + 1 /\ lines \in Seq(Line)
      /\ Len(lines) \in Nat /\ DOMAIN lines = 1..Len(lines)
      /\ \A i \in 1..Len(lines) : lines[i] \in Line
  BY DEF AsmInv, LexInv, Room
<1>2. current - 1 = Len(lines)
  BY <1>1
<1>3. \A i \in 1..Len(lines) : DataFree(i)
  BY <1>1 DEF AllListable, Listable, DataFree
<1>4. /\ Len(instrs) = Len(lines)
      /\ \A i \in 1..Len(lines) :
           lines[i].instr \in Assembled /\ instrs[i].bytes \in Encodings(lines[i])
  BY <1>1, <1>2, <1>3 DEF OneEach
<1>5. ASSUME NEW i \in 1..Len(lines)
      PROVE  Lists(instrs[i].bytes, Written(lines[i]))
  <2>1. Becomes(lines[i], instrs[i].bytes)
    BY <1>1, <1>4, <1>5 DEF Becomes, Shapely, AllListable
  <2> QED
    BY <1>4, <1>5, <2>1, LineListed
<1> QED
  BY <1>4, <1>5

\* What the disassembler shows where an instruction begins.
LEMMA ListedIs ==
  ASSUME AsmInv, NEW i \in 1..Len(instrs), NEW l \in Line,
         Lists(instrs[i].bytes, Written(l))
  PROVE  /\ Place(instrs)[i] \in Nat /\ Place(instrs)[i] < Len(buffer)
         /\ Listed(Place(instrs)[i]) = Written(l)
         /\ Place(instrs)[i] + T!OpBytes(buffer[Place(instrs)[i] + 1]) = Place(instrs)[i + 1]
<1> DEFINE p == Place(instrs)[i]
           b == instrs[i].bytes
           w == Written(l)
           op == buffer[p + 1]
           size == Len(buffer)
<1>1. b \in Seq(A!Byte) /\ Len(b) \in 1..3 /\ instrs \in Seq(Instr) /\ Len(instrs) \in Nat
  BY InstrFields DEF AsmInv
<1>2. /\ p \in Nat /\ size \in Nat /\ Place(instrs)[i + 1] = p + Len(b) /\ p + Len(b) <= size
      /\ buffer \in Seq(A!Byte) /\ \A j \in 1..Len(b) : buffer[p + j] = b[j]
  <2> DEFINE place == Place(instrs)
             parts == Parts(instrs)
             n == Len(instrs)
  <2>1. parts[i] = b
    BY <1>1 DEF Parts
  <2>2. /\ size \in Nat /\ place[i + 1] = place[i] + Len(b) /\ buffer \in Seq(A!Byte)
        /\ Placed(buffer, place, n, parts)
    BY <1>1, BufferIs
  <2> HIDE DEF place, parts, n
  <2>3. /\ place[i] \in Nat /\ place[i + 1] <= size
        /\ \A j \in 1..Len(parts[i]) : buffer[place[i] + j] = parts[i][j]
    BY <2>2 DEF Placed, n
  <2> QED
    BY <2>1, <2>2, <2>3 DEF place
<1>3. op = b[1]
  BY <1>1, <1>2
<1>4. /\ T!Text(op) = w.text /\ T!OpBytes(op) = Len(b) /\ T!OperandBytes(op) = Len(b) - 1
      /\ Len(w.operand) = Len(b) - 1 /\ \A j \in 1..(Len(b) - 1) : w.operand[j] = b[j + 1]
  BY <1>3 DEF Lists
<1>5. w.operand \in Seq(Nat)
  <2>1. l.imm \in Nat /\ Lo(l.imm) \in Nat /\ Hi(l.imm) \in Nat
    BY DEF Line, Lo, Hi
  <2>2. w.operand \in {<<>>, <<l.imm>>, <<Lo(l.imm), Hi(l.imm)>>}
    <3>1. /\ l.instr \in ImmOps \union {"MVI"} => w.operand = <<l.imm>>
          /\ l.instr \in CallOps \union {"LXI"} => w.operand = <<Lo(l.imm), Hi(l.imm)>>
          /\ l.instr \notin ImmOps \union CallOps \union {"MVI", "LXI"} => w.operand = <<>>
      BY WrittenIs
    <3> HIDE DEF w
    <3> QED
      BY <3>1
  <2>3. <<>> \in Seq(Nat) /\ <<l.imm>> \in Seq(Nat) /\ <<Lo(l.imm), Hi(l.imm)>> \in Seq(Nat)
    BY <2>1
  <2> HIDE DEF w
  <2> QED
    BY <2>2, <2>3
<1> HIDE DEF p, b, op, size
<1>6. Min({size, p + 1 + T!OperandBytes(op)}) = p + Len(b)
  <2>1. p + 1 + T!OperandBytes(op) = p + Len(b) /\ p + Len(b) \in Nat
    BY <1>1, <1>2, <1>4
  <2>2. {size, p + Len(b)} \in SUBSET Nat /\ {size, p + Len(b)} # {}
    BY <1>2, <2>1
  <2>3. /\ Min({size, p + Len(b)}) \in {size, p + Len(b)}
        /\ Min({size, p + Len(b)}) <= p + Len(b)
    BY <2>2, MinIs
  <2>4. Min({size, p + Len(b)}) = p + Len(b)
    BY <1>2, <2>1, <2>3
  <2> QED
    BY <2>1, <2>4
<1>7. SubSeq(buffer, p + 2, p + Len(b)) = w.operand
  <2> HIDE DEF w
  <2> DEFINE s == SubSeq(buffer, p + 2, p + Len(b))
  <2>1. s = [j \in 1..(Len(b) - 1) |-> buffer[p + 1 + j]]
    BY <1>1, <1>2 DEF size
  <2>2. ASSUME NEW j \in 1..(Len(b) - 1) PROVE buffer[p + 1 + j] = w.operand[j]
    <3>1. p \in Nat /\ Len(b) \in 1..3
      BY <1>1, <1>2
    <3>2. j + 1 \in 1..Len(b) /\ p + (j + 1) = p + 1 + j
      BY <3>1
    <3>3. buffer[p + (j + 1)] = b[j + 1]
      BY <1>2, <3>2
    <3> QED
      BY <1>4, <3>2, <3>3
  <2>3. w.operand = [j \in 1..(Len(b) - 1) |-> w.operand[j]]
    BY <1>4, <1>5
  <2> HIDE DEF s
  <2>4. s = [j \in 1..(Len(b) - 1) |-> w.operand[j]]
    BY <2>1, <2>2
  <2> QED
    BY <2>3, <2>4 DEF s
<1>8. Listed(p) = [text |-> w.text, operand |-> w.operand]
  BY <1>4, <1>6, <1>7 DEF Listed, op, size
<1>9. w = [text |-> w.text, operand |-> w.operand]
  BY DEF Written
<1>10. p < size
  <2>1. p \in Nat /\ size \in Nat /\ Len(b) \in 1..3 /\ p + Len(b) <= size
    BY <1>1, <1>2
  <2>2. \A x \in 1..3, y \in Nat, z \in Nat : y + x <= z => y < z
    OBVIOUS
  <2> QED
    BY <2>1, <2>2
<1> QED
  BY <1>2, <1>4, <1>8, <1>9, <1>10 DEF p, b, op, size

\* What has been listed is what has been stepped over.
ListedSoFar ==
    /\ outcome # "assembled" => at = 0 /\ listing = <<>>
    /\ outcome = "assembled" /\ AllListable =>
         \E c \in 0..Len(lines) : at = Place(instrs)[c + 1]
                                  /\ listing = [i \in 1..c |-> Written(lines[i])]

LEMMA PlacePrimed == (instrs \in Seq(Instr) => Place(instrs)[1] = 0)'
<1>1. instrs \in Seq(Instr) => Place(instrs)[1] = 0
  BY BufferIs
<1> QED
  BY <1>1, PTL

LEMMA ListedSoFarStep ==
  ASSUME AsmInv, AsmInv', Shapely, OneEach, ListedSoFar, [SweepNext]_sweepVars
  PROVE  ListedSoFar'
<1>1. CASE AsmNext /\ UNCHANGED <<at, listing>>
  <2>1. outcome = "running"
    <3>1. LexNext => phase = "lexing"
      BY DEF LexNext, SkipLayout, LexLine, ResolveLabels, Lexing
    <3> QED
      BY <1>1, <3>1 DEF AsmNext, AsmInv, AssembleInstr, AssembleData, RejectLine, AssembleNothing,
                        LexFailed, Assembling
  <2>2. at' = 0 /\ listing' = <<>>
    BY <1>1, <2>1 DEF ListedSoFar
  <2>3. instrs' \in Seq(Instr) /\ Len(lines') \in Nat
    BY DEF AsmInv, LexInv, Room
  <2>4. Place(instrs)[1]' = 0
    BY <2>3, PlacePrimed
  <2>5. 0 \in 0..Len(lines') /\ 0 + 1 = 1 /\ <<>> = [i \in 1..0 |-> Written(lines'[i])]
    BY <2>3
  <2> QED
    BY <2>2, <2>4, <2>5 DEF ListedSoFar
<1>2. CASE DisassembleOp
  <2>1. /\ outcome = "assembled" /\ at < Len(buffer)
        /\ listing' = Append(listing, Listed(at)) /\ at' = at + T!OpBytes(buffer[at + 1])
        /\ lines' = lines /\ instrs' = instrs /\ outcome' = outcome
    BY <1>2 DEF DisassembleOp, asmVars
  <2> SUFFICES ASSUME AllListable
               PROVE  \E c \in 0..Len(lines) :
                         at' = Place(instrs)[c + 1] /\ listing' = [i \in 1..c |-> Written(lines[i])]
    BY <2>1 DEF ListedSoFar, AllListable
  <2>2. PICK c \in 0..Len(lines) :
          at = Place(instrs)[c + 1] /\ listing = [i \in 1..c |-> Written(lines[i])]
    BY <2>1 DEF ListedSoFar
  <2>3. /\ Len(instrs) = Len(lines) /\ lines \in Seq(Line) /\ instrs \in Seq(Instr)
        /\ Len(lines) \in Nat
        /\ \A i \in 1..Len(lines) : Lists(instrs[i].bytes, Written(lines[i])) /\ lines[i] \in Line
    BY <2>1, LinesBecome DEF AsmInv, LexInv, Room
  <2>4. c \in 0..(Len(lines) - 1)
    <3>1. Len(buffer) = Place(instrs)[Len(lines) + 1]
      BY <2>3, BufferIs DEF Placed
    <3>2. Len(buffer) \in Nat
      BY <2>3, BufferIs
    <3> QED
      BY <2>1, <2>2, <2>3, <3>1, <3>2
  <2> DEFINE d == c + 1
  <2>5. d \in 1..Len(lines) /\ d \in 0..Len(lines) /\ c = d - 1 /\ d \in Nat
    BY <2>3, <2>4
  <2>6. at = Place(instrs)[d]
    BY <2>2
  <2> HIDE DEF d
  <2>7. Listed(at) = Written(lines[d]) /\ at' = Place(instrs)[d + 1]
    BY <2>1, <2>3, <2>5, <2>6, ListedIs
  <2>8. Append(listing, Written(lines[d])) = [i \in 1..d |-> Written(lines[i])]
    <3> DEFINE W(i) == Written(lines[i])
    <3> HIDE DEF W
    <3>1. listing = [i \in 1..c |-> W(i)]
      BY <2>2 DEF W
    <3>2. Append([i \in 1..c |-> W(i)], W(d)) = [i \in 1..d |-> W(i)]
      BY <2>4, <2>5
    <3> QED
      BY <3>1, <3>2 DEF W
  <2> QED
    BY <2>1, <2>5, <2>7, <2>8
<1>3. CASE UNCHANGED sweepVars
  BY <1>3 DEF sweepVars, asmVars, ListedSoFar, AllListable
<1> QED
  BY <1>1, <1>2, <1>3 DEF SweepNext

LEMMA ListingHolds ==
  ASSUME AsmInv, Shapely, OneEach, ListedSoFar
  PROVE  ListingShowsSource
<1> SUFFICES ASSUME outcome = "assembled", at >= Len(buffer), AllListable
             PROVE  listing = [i \in DOMAIN lines |-> Written(lines[i])] /\ at = Len(buffer)
  BY DEF ListingShowsSource, AllListable
<1>1. PICK c \in 0..Len(lines) :
        at = Place(instrs)[c + 1] /\ listing = [i \in 1..c |-> Written(lines[i])]
  BY DEF ListedSoFar
<1>2. /\ Len(instrs) = Len(lines) /\ instrs \in Seq(Instr)
      /\ Len(lines) \in Nat /\ DOMAIN lines = 1..Len(lines)
      /\ \A i \in 1..Len(lines) : Lists(instrs[i].bytes, Written(lines[i])) /\ lines[i] \in Line
  BY LinesBecome DEF AsmInv, LexInv, Room
<1>3. Len(buffer) = Place(instrs)[Len(lines) + 1] /\ Len(buffer) \in Nat
  BY <1>2, BufferIs DEF Placed
<1>4. c = Len(lines)
  <2> SUFFICES ASSUME c # Len(lines) PROVE FALSE
    OBVIOUS
  <2>1. c + 1 \in 1..Len(instrs) /\ c + 1 \in 1..Len(lines)
    BY <1>2
  <2>2. at \in Nat /\ at < Len(buffer)
    BY <1>1, <1>2, <2>1, ListedIs
  <2> QED
    BY <1>3, <2>2
<1> QED
  BY <1>1, <1>2, <1>3, <1>4

---------------------------------------------------------------------------
\* The specifications one inside the other.

\* asm8080 runs lex_all as it is: what is proved of the lexer holds there
\* (asm8080.c:46).
THEOREM AssemblerRunsLexer == AsmSpec => LexInit /\ [][LexNext]_lexVars
<1>1. AsmInit => LexInit
  BY DEF AsmInit
<1> QED
  BY <1>1, AsmStepLexes, PTL DEF AsmSpec

\* dis8080 comes behind asm8080 and takes no step in it: what is proved of the
\* assembler holds of it when its bytes are listed (dis8080.c:40).
THEOREM ListingRunsAssembler == SweepSpec => AsmInit /\ [][AsmNext]_asmVars
<1>1. SweepInit => AsmInit
  BY DEF SweepInit
<1>2. [SweepNext]_sweepVars => [AsmNext]_asmVars
  BY DEF SweepNext, DisassembleOp, sweepVars
<1> QED
  BY <1>1, <1>2, PTL DEF SweepSpec

\* Put through lexer, assembler and disassembler, a program is listed as it was
\* written, line by line to its last byte, unless it has a line that is known
\* not to be: the tables of the three agree (dis8080.c:40, disassem.c:14).
THEOREM ListingIsTheSource == SweepSpec => []ListingShowsSource
<1> DEFINE Inv == AsmInv /\ Shapely /\ OneEach /\ ListedSoFar
<1>1. SweepInit => Inv
  <2> SUFFICES ASSUME SweepInit PROVE Inv
    OBVIOUS
  <2>1. AsmInit /\ at = 0 /\ listing = <<>>
    BY DEF SweepInit
  <2>2. lines = <<>> /\ phase = "lexing" /\ outcome = "running"
    BY <2>1 DEF AsmInit, LexInit
  <2>3. AsmInv
    BY <2>1, AsmInvInit
  <2> QED
    BY <2>1, <2>2, <2>3 DEF Shapely, OneEach, ListedSoFar
<1>2. Inv /\ [SweepNext]_sweepVars => Inv'
  <2> SUFFICES ASSUME Inv, [SweepNext]_sweepVars PROVE Inv'
    OBVIOUS
  <2>1. [AsmNext]_asmVars
    BY DEF SweepNext, DisassembleOp, sweepVars
  <2>2. AsmInv' /\ OneEach'
    BY <2>1, AsmInvStep, OneEachStep
  <2>3. Shapely'
    BY <2>1, AsmStepLexes, ShapelyStep DEF AsmInv
  <2>4. ListedSoFar'
    BY <2>2, ListedSoFarStep
  <2> QED
    BY <2>2, <2>3, <2>4
<1>3. Inv => ListingShowsSource
  BY ListingHolds
<1> HIDE DEF Inv
<1> QED
  BY <1>1, <1>2, <1>3, PTL DEF SweepSpec
=============================================================================
