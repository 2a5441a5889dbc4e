--------------------------- MODULE ByteList_proof ---------------------------
(***************************************************************************)
(* Proofs about the byte lists, for every number of lists and nodes and    *)
(* all data.                                                               *)
(*                                                                         *)
(* The proofs keep, beside a memory h, the fields ls of the lists and the  *)
(* nodes hd the program holds, the sequence c[l] of the nodes of every     *)
(* list l: Sound says how they fit together.  An operation is sound when   *)
(* sequences can be named that fit what it leaves.                         *)
(***************************************************************************)
EXTENDS ByteList, SequenceTheorems, FiniteSetTheorems, WellFoundedInduction, TLAPS

---------------------------------------------------------------------------
\* Numbers and induction.

\* A set of naturals that is not empty has a least member.
LEMMA LeastNat ==
  ASSUME NEW S \in SUBSET Nat, S # {}
  PROVE  \E n \in S : \A m \in S : n <= m
<1>1. IsWellFoundedOn(OpToRel(<, Nat), Nat)
  BY NatLessThanWellFounded
<1>2. \E x \in S : \A y \in S : ~(<<y, x>> \in OpToRel(<, Nat))
  BY <1>1, WFMin
<1>3. ASSUME NEW x \in S, NEW y \in S, ~(<<y, x>> \in OpToRel(<, Nat))
      PROVE  x <= y
  BY <1>3 DEF OpToRel
<1> QED
  BY <1>2, <1>3

\* Induction: a set with 0 that has n + 1 with every n has all naturals.
LEMMA SetInduction ==
  ASSUME NEW S, 0 \in S, \A n \in S \cap Nat : n + 1 \in S
  PROVE  Nat \subseteq S
<1> SUFFICES ASSUME Nat \ S # {} PROVE FALSE
  OBVIOUS
<1>1. PICK n \in Nat \ S : \A m \in Nat \ S : n <= m
  BY LeastNat
<1>2. n # 0 /\ n - 1 \in Nat
  BY <1>1
<1>3. n - 1 \in S
  BY <1>1, <1>2
<1>4. (n - 1) + 1 \in S
  BY <1>2, <1>3
<1> QED
  BY <1>1, <1>4

---------------------------------------------------------------------------
\* What is kept.

Pointer == Nodes \union {NULL}
Node == [data : Contents, next : Pointer, prev : Pointer \union {Wild}]

HeapOK(h) == DOMAIN h \subseteq Nodes /\ h \in [DOMAIN h -> Node]

\* The sequence w of nodes is the list r.
IsList(h, r, w) ==
    /\ r.len = Len(w)
    /\ r.first = IF w = <<>> THEN NULL ELSE w[1]
    /\ \A i \in 1..Len(w) : h[w[i]].next = IF i = Len(w) THEN NULL ELSE w[i + 1]
    /\ \A i \in 2..Len(w) : h[w[i]].prev = w[i - 1]
    /\ ~r.made => w = <<>>

\* No node is met twice.
Distinct(c) ==
    \A l, k \in Lists : \A i \in 1..Len(c[l]), j \in 1..Len(c[k]) :
       c[l][i] = c[k][j] => l = k /\ i = j

OnList(c, n) == \E l \in Lists : \E i \in 1..Len(c[l]) : c[l][i] = n

ListRecord == [made : BOOLEAN, first : Pointer, len : Nat]

Sound(h, ls, hd, c) ==
    /\ c \in [Lists -> Seq(DOMAIN h)]
    /\ ls \in [Lists -> ListRecord]
    /\ \A l \in Lists : IsList(h, ls[l], c[l])
    /\ Distinct(c)
    /\ \A n \in hd : n \in DOMAIN h /\ h[n].next = NULL /\ ~OnList(c, n)
    /\ \A n \in DOMAIN h : n \in hd \/ OnList(c, n)

ListInv ==
    /\ fate \in {"running", "crashed", "undefined"}
    /\ HeapOK(heap)
    /\ \E c : Sound(heap, list, held, c)

\* A node of a list is allocated and points at a node or nowhere.
LEMMA OnListIs ==
  ASSUME NEW h, NEW ls, NEW hd, NEW c, Sound(h, ls, hd, c), NEW l \in Lists
  PROVE  /\ Len(c[l]) \in Nat /\ DOMAIN c[l] = 1..Len(c[l]) /\ c[l] \in Seq(DOMAIN h)
         /\ \A i \in 1..Len(c[l]) : c[l][i] \in DOMAIN h /\ c[l][i] \notin hd
         /\ \A i \in 1..Len(c[l]) : h[c[l][i]].next = IF i = Len(c[l]) THEN NULL ELSE c[l][i + 1]
         /\ \A i \in 2..Len(c[l]) : h[c[l][i]].prev = c[l][i - 1]
         /\ \A i, j \in 1..Len(c[l]) : c[l][i] = c[l][j] => i = j
         /\ ls[l].first = IF c[l] = <<>> THEN NULL ELSE c[l][1]
         /\ ls[l].len = Len(c[l])
         /\ ~ls[l].made => c[l] = <<>>
<1>1. c[l] \in Seq(DOMAIN h)
  BY DEF Sound
<1>2. Len(c[l]) \in Nat /\ DOMAIN c[l] = 1..Len(c[l])
      /\ \A i \in 1..Len(c[l]) : c[l][i] \in DOMAIN h
  BY <1>1
<1>3. IsList(h, ls[l], c[l])
  BY DEF Sound
<1>4. \A i \in 1..Len(c[l]) : c[l][i] \notin hd
  BY DEF Sound, OnList
<1>5. \A i, j \in 1..Len(c[l]) : c[l][i] = c[l][j] => i = j
  BY DEF Sound, Distinct
<1> QED
  BY <1>1, <1>2, <1>3, <1>4, <1>5 DEF IsList

---------------------------------------------------------------------------
\* Walk: the nodes met from the first on are those of the list.

\* What Walk calls from is the tails of the lists.
IsTails(f, h) ==
    f = [n \in Nodes \union {NULL, Wild} |-> IF n \in DOMAIN h THEN <<n>> \o f[h[n].next] ELSE <<>>]

LEMMA LastOf ==
  ASSUME NEW S, NEW w \in Seq(S), NEW n \in 1..Len(w), n = Len(w)
  PROVE  SubSeq(w, n, n) = <<w[n]>>
<1>1. n \in Int /\ n + 1 \in Int /\ n < n + 1 /\ n \in n..Len(w)
  OBVIOUS
<1>2. SubSeq(w, n, n) = <<w[n]>> \o SubSeq(w, n + 1, n)
  BY <1>1, SubSeqRecursiveFirst
<1>3. SubSeq(w, n + 1, n) = <<>>
  BY <1>1, SubSeqEmpty
<1>4. <<w[n]>> \o <<>> = <<w[n]>>
  OBVIOUS
<1> QED
  BY <1>2, <1>3, <1>4

LEMMA TailsExist ==
  ASSUME NEW h, HeapOK(h), NEW ls, NEW hd, NEW c, Sound(h, ls, hd, c)
  PROVE  \E f : IsTails(f, h)
<1> DEFINE S == Nodes \union {NULL, Wild}
           AtOf(n) == CHOOSE p \in Lists \X Nat : p[2] \in 1..Len(c[p[1]]) /\ c[p[1]][p[2]] = n
           TailOf(n) == SubSeq(c[AtOf(n)[1]], AtOf(n)[2], Len(c[AtOf(n)[1]]))
           f == [n \in S |-> IF OnList(c, n) THEN TailOf(n) ELSE IF n \in DOMAIN h THEN <<n>> ELSE <<>>]
<1>1. ASSUME NEW l \in Lists, NEW i \in 1..Len(c[l])
      PROVE  AtOf(c[l][i]) = <<l, i>>
  <2> DEFINE p == AtOf(c[l][i])
  <2>1. <<l, i>> \in Lists \X Nat /\ <<l, i>>[2] \in 1..Len(c[<<l, i>>[1]])
        /\ c[<<l, i>>[1]][<<l, i>>[2]] = c[l][i]
    OBVIOUS
  <2>2. p \in Lists \X Nat /\ p[2] \in 1..Len(c[p[1]]) /\ c[p[1]][p[2]] = c[l][i]
    BY <2>1
  <2> HIDE DEF p
  <2>3. p[1] = l /\ p[2] = i
    BY <2>2 DEF Sound, Distinct
  <2>4. p = <<p[1], p[2]>>
    BY <2>2
  <2>5. p = <<l, i>>
    BY <2>3, <2>4
  <2> QED
    BY <2>5 DEF p
<1> HIDE DEF AtOf
<1>2. NULL \in S /\ NULL \notin DOMAIN h
  BY PointerAssumption DEF HeapOK
<1>3. \A n : OnList(c, n) => n \in DOMAIN h /\ n \in S
  BY OnListIs DEF OnList, HeapOK
<1>4. f[NULL] = <<>>
  BY <1>2, <1>3
<1>5. ASSUME NEW l \in Lists, NEW i \in 1..Len(c[l])
      PROVE  f[c[l][i]] = SubSeq(c[l], i, Len(c[l]))
  <2>1. OnList(c, c[l][i])
    BY DEF OnList
  <2>2. f[c[l][i]] = TailOf(c[l][i])
    BY <1>3, <2>1
  <2>3. AtOf(c[l][i])[1] = l /\ AtOf(c[l][i])[2] = i
    BY <1>1
  <2>4. TailOf(c[l][i]) = SubSeq(c[l], i, Len(c[l]))
    BY <2>3
  <2> QED
    BY <2>2, <2>4
<1> HIDE DEF f
<1>6. ASSUME NEW l \in Lists, NEW i \in 1..Len(c[l])
      PROVE  f[c[l][i]] = <<c[l][i]>> \o f[h[c[l][i]].next]
  <2> DEFINE w == c[l]
             n == Len(c[l])
  <2>1. /\ w \in Seq(DOMAIN h) /\ n \in Nat /\ w[i] \in DOMAIN h
        /\ h[w[i]].next = IF i = n THEN NULL ELSE w[i + 1]
    BY OnListIs
  <2>2. f[w[i]] = SubSeq(w, i, n)
    BY <1>5
  <2>3. CASE i = n
    <3>1. SubSeq(w, n, n) = <<w[n]>>
      BY <2>1, <2>3, LastOf
    <3>2. f[h[w[i]].next] = <<>>
      BY <1>4, <2>1, <2>3
    <3>3. <<w[n]>> \o <<>> = <<w[n]>>
      OBVIOUS
    <3> HIDE DEF w, n
    <3> QED
      BY <2>2, <2>3, <3>1, <3>2, <3>3 DEF w, n
  <2>4. CASE i # n
    <3>1. i + 1 \in 1..n /\ i \in 1..n /\ n \in 1..n
      BY <2>1, <2>4
    <3>2. f[h[w[i]].next] = SubSeq(w, i + 1, n)
      BY <1>5, <2>1, <2>4, <3>1
    <3>3. SubSeq(w, i, n) = <<w[i]>> \o SubSeq(w, i + 1, n)
      BY <2>1, <3>1
    <3> HIDE DEF w, n
    <3> QED
      BY <2>2, <3>2, <3>3 DEF w, n
  <2> QED
    BY <2>3, <2>4
<1>7. ASSUME NEW n \in S
      PROVE  f[n] = IF n \in DOMAIN h THEN <<n>> \o f[h[n].next] ELSE <<>>
  <2>1. CASE OnList(c, n)
    BY <1>3, <1>6, <2>1 DEF OnList
  <2>2. CASE ~OnList(c, n) /\ n \in DOMAIN h
    <3>1. h[n].next = NULL
      BY <2>2 DEF Sound
    <3>2. f[n] = <<n>> /\ <<n>> \o <<>> = <<n>>
      BY <2>2 DEF f
    <3> QED
      BY <1>4, <2>2, <3>1, <3>2
  <2>3. CASE n \notin DOMAIN h
    BY <1>3, <2>3 DEF f
  <2> QED
    BY <2>1, <2>2, <2>3
<1>8. f = [n \in S |-> f[n]]
  BY DEF f
<1>9. f = [n \in S |-> IF n \in DOMAIN h THEN <<n>> \o f[h[n].next] ELSE <<>>]
  BY <1>7, <1>8
<1> QED
  BY <1>9 DEF IsTails

\* The pointers from the first node on lead through the nodes of the list.
LEMMA Walked ==
  ASSUME NEW h, HeapOK(h), NEW ls, NEW hd, NEW c, Sound(h, ls, hd, c), NEW l \in Lists
  PROVE  Walk(h, ls[l].first) = c[l]
<1> DEFINE w == c[l]
           n == Len(w)
           from == CHOOSE f : IsTails(f, h)
           U == {k \in Nat : k < n => from[w[n - k]] = SubSeq(w, n - k, n)}
<1>1. Walk(h, ls[l].first) = from[ls[l].first]
  BY DEF Walk, IsTails
<1>2. IsTails(from, h)
  BY TailsExist
<1> HIDE DEF from
<1>3. \A m \in Nodes \union {NULL, Wild} :
        from[m] = IF m \in DOMAIN h THEN <<m>> \o from[h[m].next] ELSE <<>>
  BY <1>2 DEF IsTails
<1>4. /\ w \in Seq(DOMAIN h) /\ n \in Nat
      /\ \A i \in 1..n : w[i] \in DOMAIN h /\ h[w[i]].next = IF i = n THEN NULL ELSE w[i + 1]
      /\ ls[l].first = IF w = <<>> THEN NULL ELSE w[1]
  BY OnListIs
<1> HIDE DEF w, n
<1>5. from[NULL] = <<>>
  BY <1>3, PointerAssumption DEF HeapOK
<1>6. \A i \in 1..n : from[w[i]] = <<w[i]>> \o from[h[w[i]].next]
  BY <1>3, <1>4 DEF HeapOK
<1>7. 0 \in U
  <2> SUFFICES ASSUME 0 < n PROVE from[w[n - 0]] = SubSeq(w, n - 0, n)
    OBVIOUS
  <2>1. n \in 1..n /\ n - 0 = n
    BY <1>4
  <2>2. from[w[n]] = <<w[n]>> \o <<>>
    BY <1>4, <1>5, <1>6, <2>1
  <2>3. SubSeq(w, n, n) = <<w[n]>>
    BY <1>4, <2>1, LastOf DEF n
  <2>4. <<w[n]>> \o <<>> = <<w[n]>>
    OBVIOUS
  <2> QED
    BY <2>1, <2>2, <2>3, <2>4
<1>8. ASSUME NEW k \in U \cap Nat PROVE k + 1 \in U
  <2> SUFFICES ASSUME k + 1 < n PROVE from[w[n - (k + 1)]] = SubSeq(w, n - (k + 1), n)
    OBVIOUS
  <2> DEFINE i == n - (k + 1)
  <2>1. i \in 1..n /\ i # n /\ i + 1 = n - k /\ k < n /\ n \in i..n
    BY <1>4
  <2> HIDE DEF i
  <2>2. from[w[i + 1]] = SubSeq(w, i + 1, n)
    BY <1>8, <2>1
  <2>3. from[w[i]] = <<w[i]>> \o SubSeq(w, i + 1, n)
    BY <1>4, <1>6, <2>1, <2>2
  <2>4. SubSeq(w, i, n) = <<w[i]>> \o SubSeq(w, i + 1, n)
    BY <1>4, <2>1, SubSeqRecursiveFirst DEF n
  <2> QED
    BY <2>3, <2>4 DEF i
<1> HIDE DEF U
<1>9. Nat \subseteq U
  BY <1>7, <1>8, SetInduction
<1>10. CASE w = <<>>
  BY <1>1, <1>4, <1>5, <1>10 DEF w
<1>11. CASE w # <<>>
  <2>1. n # 0 /\ n - 1 \in Nat /\ n - 1 < n /\ n - (n - 1) = 1
    BY <1>4, <1>11 DEF n
  <2>2. from[w[1]] = SubSeq(w, 1, n)
    BY <1>9, <2>1 DEF U
  <2>3. SubSeq(w, 1, n) = w
    BY <1>4, SubSeqFull DEF n
  <2> QED
    BY <1>1, <1>4, <1>11, <2>2, <2>3 DEF w
<1> QED
  BY <1>10, <1>11

---------------------------------------------------------------------------
\* What is sound has the properties.

LEMMA ChainIs ==
  ASSUME HeapOK(heap), NEW c, Sound(heap, list, held, c)
  PROVE  \A l \in Lists : Chain(l) = c[l]
  BY Walked DEF Chain

\* A list has no more nodes than there are.
LEMMA LengthBounded ==
  ASSUME NEW h, HeapOK(h), NEW ls, NEW hd, NEW c, Sound(h, ls, hd, c), NEW l \in Lists
  PROVE  Cardinality(Nodes) \in Nat /\ Len(c[l]) \in 0..Cardinality(Nodes)
<1> DEFINE n == Len(c[l])
<1>1. n \in Nat /\ \A i \in 1..n : c[l][i] \in Nodes
  BY OnListIs DEF HeapOK
<1>2. \A i, j \in 1..n : c[l][i] = c[l][j] => i = j
  BY OnListIs
<1>3. IsFiniteSet(Nodes) /\ Cardinality(Nodes) \in Nat
  BY NodesAssumption, FS_CardinalityType
<1> DEFINE f == [i \in 1..n |-> c[l][i]]
<1> HIDE DEF n
<1>4. f \in Injection(1..n, Nodes)
  <2>1. f \in [1..n -> Nodes]
    BY <1>1
  <2>2. \A i, j \in 1..n : f[i] = f[j] => i = j
    BY <1>2
  <2> HIDE DEF f
  <2> QED
    BY <2>1, <2>2 DEF Injection, IsInjective
<1>5. Cardinality(1..n) <= Cardinality(Nodes)
  BY <1>3, <1>4, FS_Injection
<1>6. Cardinality(1..n) = n
  BY <1>1, FS_Interval
<1>7. n <= Cardinality(Nodes)
  BY <1>5, <1>6
<1> QED
  BY <1>1, <1>3, <1>7 DEF n

LEMMA InvIsTyped == ASSUME ListInv PROVE ListTypeOK
<1>1. PICK c : Sound(heap, list, held, c)
  BY DEF ListInv
<1>2. HeapOK(heap)
  BY DEF ListInv
<1>3. \A n \in DOMAIN heap :
        heap[n] \in [data : Contents, next : Nodes \union {NULL}, prev : Nodes \union {NULL, Wild}]
  <2>1. Pointer \union {Wild} = Nodes \union {NULL, Wild}
    BY DEF Pointer
  <2> QED
    BY <1>2, <2>1 DEF HeapOK, Node, Pointer
<1>4. ASSUME NEW l \in Lists
      PROVE  list[l] \in [made : BOOLEAN, first : Nodes \union {NULL}, len : 0..Cardinality(Nodes)]
  <2>1. list[l] \in ListRecord
    BY <1>1 DEF Sound
  <2>2. list[l].len \in 0..Cardinality(Nodes)
    <3>1. list[l].len = Len(c[l])
      BY <1>1, OnListIs
    <3> QED
      BY <1>1, <1>2, <3>1, LengthBounded
  <2> QED
    BY <2>1, <2>2 DEF ListRecord, Pointer
<1>5. list \in [Lists -> [made : BOOLEAN, first : Nodes \union {NULL}, len : 0..Cardinality(Nodes)]]
  BY <1>1, <1>4 DEF Sound
<1>6. held \subseteq DOMAIN heap
  BY <1>1 DEF Sound
<1> QED
  BY <1>2, <1>3, <1>5, <1>6 DEF ListInv, ListTypeOK, HeapOK

LEMMA InvIsSound == ASSUME ListInv PROVE LinksSound
<1>1. PICK c : Sound(heap, list, held, c)
  BY DEF ListInv
<1>2. \A l \in Lists : Chain(l) = c[l]
  BY <1>1, ChainIs DEF ListInv
<1>3. ASSUME NEW l \in Lists
      PROVE  /\ IsChain(l, c[l])
             /\ Len(c[l]) = list[l].len
             /\ \A i \in 2..Len(c[l]) : heap[c[l][i]].prev = c[l][i - 1]
  <2>1. /\ Len(c[l]) \in Nat /\ DOMAIN c[l] = 1..Len(c[l])
        /\ \A i \in 1..Len(c[l]) : heap[c[l][i]].next = IF i = Len(c[l]) THEN NULL ELSE c[l][i + 1]
        /\ \A i \in 2..Len(c[l]) : heap[c[l][i]].prev = c[l][i - 1]
        /\ \A i, j \in 1..Len(c[l]) : c[l][i] = c[l][j] => i = j
        /\ list[l].first = IF c[l] = <<>> THEN NULL ELSE c[l][1]
        /\ list[l].len = Len(c[l])
    BY SMTT(30), <1>1, OnListIs
  <2>2. \A i \in 1..Len(c[l]) : \A j \in 1..(i - 1) : c[l][i] # c[l][j]
    <3>1. ASSUME NEW i \in 1..Len(c[l]), NEW j \in 1..(i - 1) PROVE j \in 1..Len(c[l]) /\ j # i
      BY <2>1
    <3> QED
      BY <2>1, <3>1
  <2> QED
    BY <2>1, <2>2 DEF IsChain
<1> QED
  BY <1>2, <1>3 DEF LinksSound

LEMMA InvLosesNothing == ASSUME ListInv PROVE NothingLeaked
<1>1. PICK c : Sound(heap, list, held, c)
  BY DEF ListInv
<1>2. \A l \in Lists : Chain(l) = c[l]
  BY <1>1, ChainIs DEF ListInv
<1>3. ASSUME NEW l \in Lists PROVE DOMAIN c[l] = 1..Len(c[l])
  BY <1>1, OnListIs
<1>4. InLists = {n \in DOMAIN heap : OnList(c, n)}
  <2>1. InLists = UNION {{c[l][i] : i \in 1..Len(c[l])} : l \in Lists}
    BY <1>2, <1>3 DEF InLists
  <2>2. \A l \in Lists : \A i \in 1..Len(c[l]) : c[l][i] \in DOMAIN heap
    BY <1>1, OnListIs
  <2> QED
    BY <2>1, <2>2 DEF OnList
<1>5. DOMAIN heap = held \union InLists
  BY <1>1, <1>4 DEF Sound
<1>6. ASSUME NEW l \in Lists, NEW i \in 1..Len(c[l])
      PROVE  /\ c[l][i] \notin held
             /\ \A k \in Lists \ {l} : \A j \in 1..Len(c[k]) : c[k][j] # c[l][i]
  <2>1. c[l][i] \notin held
    BY <1>1, OnListIs
  <2>2. Distinct(c)
    BY <1>1 DEF Sound
  <2> QED
    BY <2>1, <2>2 DEF Distinct
<1>7. \A l \in Lists : \A i \in DOMAIN c[l] :
          /\ c[l][i] \notin held
          /\ \A k \in Lists \ {l} : \A j \in DOMAIN c[k] : c[k][j] # c[l][i]
  BY <1>3, <1>6
<1> QED
  BY <1>2, <1>5, <1>7 DEF NothingLeaked

\* The node behind the one at idx.
LEMMA AfterIs ==
  ASSUME HeapOK(heap), NEW c, Sound(heap, list, held, c), NEW l \in Lists,
         NEW idx \in 0..(Len(c[l]) - 1)
  PROVE  /\ NodeAt(heap, list[l].first, idx) = c[l][idx + 1]
         /\ NodeAfter(l, idx) = IF idx = Len(c[l]) - 1 THEN NULL ELSE c[l][idx + 2]
<1> DEFINE n == Len(c[l])
<1>1. NodeAt(heap, list[l].first, idx) = c[l][idx + 1]
  BY Walked DEF NodeAt
<1>2. n \in Nat /\ \A i \in 1..n : heap[c[l][i]].next = IF i = n THEN NULL ELSE c[l][i + 1]
  BY OnListIs
<1>3. idx + 1 \in 1..n /\ (idx + 1 = n <=> idx = n - 1) /\ (idx + 1) + 1 = idx + 2
  BY <1>2
<1> HIDE DEF n
<1> QED
  BY <1>1, <1>2, <1>3 DEF NodeAfter, n

LEMMA InvCrashes == ASSUME ListInv PROVE RemovalsCrash
<1>1. PICK c : Sound(heap, list, held, c)
  BY DEF ListInv
<1> SUFFICES ASSUME NEW l \in Lists, NEW idx \in 0..(list[l].len - 1)
             PROVE  Unlinks(l, idx) /\ NodeAfter(l, idx) = NULL <=> idx = list[l].len - 1 /\ idx > 0
  BY DEF RemovalsCrash
<1> DEFINE n == Len(c[l])
<1>2. n = list[l].len /\ n \in Nat /\ \A i \in 1..n : c[l][i] \in DOMAIN heap
  BY <1>1, OnListIs
<1>3. NodeAfter(l, idx) = IF idx = n - 1 THEN NULL ELSE c[l][idx + 2]
  BY SMTT(30), <1>1, <1>2, AfterIs DEF ListInv
<1> HIDE DEF n
<1>4. idx # n - 1 => idx + 2 \in 1..n
  BY <1>2
<1>5. idx # n - 1 => c[l][idx + 2] # NULL
  BY <1>2, <1>4, PointerAssumption DEF ListInv, HeapOK
<1>6. NodeAfter(l, idx) = NULL <=> idx = n - 1
  BY <1>3, <1>5
<1>7. Unlinks(l, idx) <=> n # 1 /\ ~(idx = 0 /\ n > 1)
  BY <1>2 DEF Unlinks
<1>8. idx \in 0..(n - 1)
  BY <1>2
<1>9. n # 1 /\ ~(idx = 0 /\ n > 1) /\ idx = n - 1 <=> idx = n - 1 /\ idx > 0
  BY <1>2, <1>8
<1> QED
  BY <1>2, <1>6, <1>7, <1>9

---------------------------------------------------------------------------
\* Steps: what leaves the links alone, a node more, a node less.

LEMMA SoundInit == ASSUME Init PROVE ListInv
<1> DEFINE c == [l \in Lists |-> <<>>]
<1>1. DOMAIN heap = {} /\ heap = [n \in {} |-> heap[n]] /\ held = {} /\ fate = "running"
  BY DEF Init
<1>2. \A l \in Lists : list[l] = [made |-> FALSE, first |-> NULL, len |-> 0]
  BY DEF Init
<1>3. HeapOK(heap)
  BY <1>1 DEF HeapOK
<1>4. list \in [Lists -> ListRecord]
  BY DEF Init, ListRecord, Pointer
<1>5. \A l \in Lists : c[l] = <<>> /\ Len(c[l]) = 0 /\ c[l] \in Seq(DOMAIN heap)
  OBVIOUS
<1>6. c \in [Lists -> Seq(DOMAIN heap)]
  BY <1>5
<1> HIDE DEF c
<1>7. \A l \in Lists : IsList(heap, list[l], c[l])
  BY <1>2, <1>5 DEF IsList
<1>8. Distinct(c)
  BY <1>5 DEF Distinct
<1>9. Sound(heap, list, held, c)
  BY <1>1, <1>4, <1>6, <1>7, <1>8 DEF Sound
<1> QED
  BY <1>1, <1>3, <1>9 DEF ListInv

LEMMA SameLinks ==
  ASSUME NEW h, NEW h2, NEW ls, NEW hd, NEW c, Sound(h, ls, hd, c),
         DOMAIN h2 = DOMAIN h, \A n \in DOMAIN h : h2[n].next = h[n].next /\ h2[n].prev = h[n].prev
  PROVE  Sound(h2, ls, hd, c)
<1>1. ASSUME NEW l \in Lists PROVE IsList(h2, ls[l], c[l])
  <2>1. IsList(h, ls[l], c[l]) /\ \A i \in 1..Len(c[l]) : c[l][i] \in DOMAIN h
    BY OnListIs DEF Sound
  <2>2. \A i \in 2..Len(c[l]) : i \in 1..Len(c[l])
    BY OnListIs
  <2> QED
    BY <2>1, <2>2 DEF IsList
<1> QED
  BY <1>1 DEF Sound

LEMMA OfContents ==
  ASSUME NEW x \in Contents, NEW y \in [DOMAIN x -> Bytes]
  PROVE  y \in Contents
  BY DEF Contents

LEMMA AppendedIs == Appended \subseteq Contents
<1>1. ASSUME NEW d \in Appended PROVE d \in [1..Len(d) -> Bytes]
  BY DataAssumption
<1> QED
  BY <1>1 DEF Contents

\* What writing the bytes of a node leaves.
Overwritten(h, h2, n, x) ==
    /\ HeapOK(h2) /\ DOMAIN h2 = DOMAIN h
    /\ \A m \in DOMAIN h : h2[m].next = h[m].next /\ h2[m].prev = h[m].prev
    /\ \A m \in DOMAIN h : h2[m].data = IF m = n THEN x ELSE h[m].data

LEMMA DataChanged ==
  ASSUME NEW h, HeapOK(h), NEW n \in DOMAIN h, NEW x \in Contents
  PROVE  Overwritten(h, [h EXCEPT ![n].data = x], n, x)
<1> DEFINE h2 == [h EXCEPT ![n].data = x]
<1>1. \A m \in DOMAIN h : h[m] \in Node
  BY DEF HeapOK
<1>2. DOMAIN h2 = DOMAIN h /\ h2 = [m \in DOMAIN h |-> h2[m]]
      /\ \A m \in DOMAIN h : h2[m] = IF m = n THEN [h[m] EXCEPT !.data = x] ELSE h[m]
  BY DEF HeapOK
<1> HIDE DEF h2
<1>3. \A m \in DOMAIN h : /\ h2[m] \in Node
                          /\ h2[m].next = h[m].next /\ h2[m].prev = h[m].prev
                          /\ h2[m].data = IF m = n THEN x ELSE h[m].data
  BY <1>1, <1>2 DEF Node
<1>4. Overwritten(h, h2, n, x)
  BY <1>2, <1>3 DEF HeapOK, Overwritten
<1> QED
  BY <1>4 DEF h2

\* No node has other bytes.
SameData(h, h2) == DOMAIN h2 \subseteq DOMAIN h /\ \A m \in DOMAIN h2 : h2[m].data = h[m].data

\* What writing one pointer, or two of different nodes, leaves.
Rewired(h, h2, e, x, n, y) ==
    /\ HeapOK(h2) /\ DOMAIN h2 = DOMAIN h
    /\ \A k \in DOMAIN h : /\ h2[k].data = h[k].data
                           /\ h2[k].next = IF k = e THEN x ELSE h[k].next
                           /\ h2[k].prev = IF k = n THEN y ELSE h[k].prev

LEMMA NextWritten ==
  ASSUME NEW h, HeapOK(h), NEW e \in DOMAIN h, NEW x \in Pointer
  PROVE  LET h2 == [h EXCEPT ![e].next = x]
         IN  /\ HeapOK(h2) /\ DOMAIN h2 = DOMAIN h
             /\ \A k \in DOMAIN h : /\ h2[k].data = h[k].data /\ h2[k].prev = h[k].prev
                                    /\ h2[k].next = IF k = e THEN x ELSE h[k].next
<1> DEFINE h2 == [h EXCEPT ![e].next = x]
<1>1. \A k \in DOMAIN h : h[k] \in Node
  BY DEF HeapOK
<1>2. DOMAIN h2 = DOMAIN h /\ h2 = [k \in DOMAIN h |-> h2[k]]
      /\ \A k \in DOMAIN h : h2[k] = IF k = e THEN [h[k] EXCEPT !.next = x] ELSE h[k]
  BY DEF HeapOK
<1> HIDE DEF h2
<1>3. \A k \in DOMAIN h : /\ h2[k] \in Node
                          /\ h2[k].data = h[k].data /\ h2[k].prev = h[k].prev
                          /\ h2[k].next = IF k = e THEN x ELSE h[k].next
  BY <1>1, <1>2 DEF Node
<1> QED
  BY <1>2, <1>3 DEF HeapOK, h2

LEMMA PrevWritten ==
  ASSUME NEW h, HeapOK(h), NEW n \in DOMAIN h, NEW y \in Pointer \union {Wild}
  PROVE  LET h2 == [h EXCEPT ![n].prev = y]
         IN  /\ HeapOK(h2) /\ DOMAIN h2 = DOMAIN h
             /\ \A k \in DOMAIN h : /\ h2[k].data = h[k].data /\ h2[k].next = h[k].next
                                    /\ h2[k].prev = IF k = n THEN y ELSE h[k].prev
<1> DEFINE h2 == [h EXCEPT ![n].prev = y]
<1>1. \A k \in DOMAIN h : h[k] \in Node
  BY DEF HeapOK
<1>2. DOMAIN h2 = DOMAIN h /\ h2 = [k \in DOMAIN h |-> h2[k]]
      /\ \A k \in DOMAIN h : h2[k] = IF k = n THEN [h[k] EXCEPT !.prev = y] ELSE h[k]
  BY DEF HeapOK
<1> HIDE DEF h2
<1>3. \A k \in DOMAIN h : /\ h2[k] \in Node
                          /\ h2[k].data = h[k].data /\ h2[k].next = h[k].next
                          /\ h2[k].prev = IF k = n THEN y ELSE h[k].prev
  BY <1>1, <1>2 DEF Node
<1> QED
  BY <1>2, <1>3 DEF HeapOK, h2

LEMMA BothWritten ==
  ASSUME NEW h, HeapOK(h), NEW e \in DOMAIN h, NEW x \in Pointer,
         NEW n \in DOMAIN h, NEW y \in Pointer \union {Wild}
  PROVE  Rewired(h, [h EXCEPT ![e].next = x, ![n].prev = y], e, x, n, y)
<1> DEFINE h1 == [h EXCEPT ![e].next = x]
           h2 == [h1 EXCEPT ![n].prev = y]
<1>1. [h EXCEPT ![e].next = x, ![n].prev = y] = h2
  OBVIOUS
<1>2. /\ HeapOK(h1) /\ DOMAIN h1 = DOMAIN h
      /\ \A k \in DOMAIN h : /\ h1[k].data = h[k].data /\ h1[k].prev = h[k].prev
                             /\ h1[k].next = IF k = e THEN x ELSE h[k].next
  BY NextWritten
<1> HIDE DEF h1
<1>3. HeapOK(h1) /\ n \in DOMAIN h1
  BY <1>2
<1>4. /\ HeapOK(h2) /\ DOMAIN h2 = DOMAIN h1
      /\ \A k \in DOMAIN h1 : /\ h2[k].data = h1[k].data /\ h2[k].next = h1[k].next
                              /\ h2[k].prev = IF k = n THEN y ELSE h1[k].prev
  BY <1>3, PrevWritten
<1> HIDE DEF h2
<1>5. Rewired(h, h2, e, x, n, y)
  BY <1>2, <1>4 DEF Rewired
<1> QED
  BY <1>1, <1>5

\* A node n goes behind the last one of the list l.
Grown(h, ls, hd, c, l, n, h2, ls2, hd2) ==
    /\ l \in Lists /\ ls[l].made
    /\ ~OnList(c, n) /\ n \in Nodes
    /\ n \notin hd2 /\ hd2 \subseteq hd /\ hd \subseteq hd2 \union {n}
    /\ DOMAIN h2 = DOMAIN h \union {n}
    /\ h2[n].next = NULL
    /\ c[l] # <<>> => h2[n].prev = c[l][Len(c[l])]
    /\ \A m \in DOMAIN h \ {n} :
          /\ h2[m].prev = h[m].prev
          /\ h2[m].next = IF c[l] # <<>> /\ m = c[l][Len(c[l])] THEN n ELSE h[m].next
    /\ ls2 = [ls EXCEPT ![l].first = IF @ = NULL THEN n ELSE @, ![l].len = @ + 1]

LEMMA GrownSound ==
  ASSUME NEW h, NEW ls, NEW hd, NEW c, HeapOK(h), Sound(h, ls, hd, c),
         NEW l, NEW n, NEW h2, NEW ls2, NEW hd2, Grown(h, ls, hd, c, l, n, h2, ls2, hd2)
  PROVE  Sound(h2, ls2, hd2, [c EXCEPT ![l] = Append(@, n)])
<1> DEFINE w == c[l]
           w2 == Append(w, n)
           c2 == [c EXCEPT ![l] = w2]
           z == Len(w)
<1>1. /\ l \in Lists /\ ls[l].made /\ ~OnList(c, n) /\ n \in Nodes
      /\ DOMAIN h2 = DOMAIN h \union {n}
  BY DEF Grown
<1>2. /\ w \in Seq(DOMAIN h) /\ z \in Nat /\ (w # <<>> <=> z # 0)
      /\ \A i \in 1..z : w[i] \in DOMAIN h /\ w[i] # n
      /\ \A i \in 1..z : h[w[i]].next = IF i = z THEN NULL ELSE w[i + 1]
      /\ \A i \in 2..z : h[w[i]].prev = w[i - 1]
      /\ \A i, j \in 1..z : w[i] = w[j] => i = j
      /\ ls[l].first = IF w = <<>> THEN NULL ELSE w[1]
      /\ ls[l].len = z
  <2>1. \A i \in 1..z : w[i] # n
    BY <1>1 DEF OnList
  <2>2. w # <<>> <=> z # 0
    BY <1>1, OnListIs
  <2> QED
    BY <1>1, <2>1, <2>2, OnListIs
<1>3. c \in [Lists -> Seq(DOMAIN h)]
  BY DEF Sound
<1>4. /\ w2 \in Seq(DOMAIN h2) /\ Len(w2) = z + 1 /\ w2[z + 1] = n /\ w2 # <<>>
      /\ \A i \in 1..z : w2[i] = w[i]
  <2>1. w \in Seq(DOMAIN h2) /\ n \in DOMAIN h2
    BY <1>1, <1>2, SeqMonotonic
  <2> QED
    BY <1>2, <2>1, AppendProperties
<1>5. c2[l] = w2 /\ \A k \in Lists \ {l} : c2[k] = c[k]
  BY <1>1, <1>3
<1>6. c2 \in [Lists -> Seq(DOMAIN h2)]
  <2>1. Seq(DOMAIN h) \subseteq Seq(DOMAIN h2)
    BY <1>1, SeqMonotonic
  <2> HIDE DEF w2
  <2> QED
    BY <1>3, <1>4, <2>1
<1>7. /\ ls2[l] = [ls[l] EXCEPT !.first = IF w = <<>> THEN n ELSE w[1], !.len = z + 1]
      /\ \A k \in Lists \ {l} : ls2[k] = ls[k]
      /\ ls2 \in [Lists -> ListRecord]
  <2>1. ls \in [Lists -> ListRecord]
    BY DEF Sound
  <2>2. w # <<>> => w[1] # NULL /\ w[1] \in Pointer
    BY <1>2, PointerAssumption DEF HeapOK, Pointer
  <2>3. ls2 = [ls EXCEPT ![l] = [ls[l] EXCEPT !.first = IF ls[l].first = NULL THEN n ELSE ls[l].first,
                                              !.len = ls[l].len + 1]]
    BY <1>1, <2>1 DEF Grown
  <2>4. ls2 = [ls EXCEPT ![l] = [ls[l] EXCEPT !.first = IF w = <<>> THEN n ELSE w[1], !.len = z + 1]]
    BY <1>2, <2>2, <2>3
  <2>5. [ls[l] EXCEPT !.first = IF w = <<>> THEN n ELSE w[1], !.len = z + 1] \in ListRecord
    <3>1. ls[l] \in ListRecord /\ z + 1 \in Nat
      BY <1>1, <1>2, <2>1
    <3>2. (IF w = <<>> THEN n ELSE w[1]) \in Pointer
      BY <1>1, <2>2 DEF Pointer
    <3> HIDE DEF w, z
    <3> QED
      BY <3>1, <3>2 DEF ListRecord
  <2> QED
    BY <1>1, <2>1, <2>4, <2>5
<1>8. /\ h2[n].next = NULL
      /\ w # <<>> => h2[n].prev = w[z]
      /\ \A m \in DOMAIN h \ {n} : /\ h2[m].prev = h[m].prev
                                   /\ h2[m].next = IF w # <<>> /\ m = w[z] THEN n ELSE h[m].next
  BY DEF Grown
<1>9. /\ n \notin hd2 /\ hd2 \subseteq hd /\ hd \subseteq hd2 \union {n}
  BY DEF Grown
<1> HIDE DEF w2, c2
<1>10. IsList(h2, ls2[l], w2)
  <2> HIDE DEF w, z
  <2>1. ls[l] \in ListRecord
    BY <1>1 DEF Sound
  <2>2. ls2[l].len = Len(w2) /\ ls2[l].made
        /\ ls2[l].first = IF w = <<>> THEN n ELSE w[1]
    BY <1>1, <1>4, <1>7, <2>1 DEF ListRecord
  <2>3. ls2[l].first = w2[1]
    BY <1>2, <1>4, <2>2
  <2>4. ASSUME NEW i \in 1..(z + 1)
        PROVE  h2[w2[i]].next = IF i = z + 1 THEN NULL ELSE w2[i + 1]
    <3>1. CASE i = z + 1
      BY <1>4, <1>8, <3>1
    <3>2. CASE i = z /\ i # z + 1
      <4>1. i \in 1..z /\ w # <<>> /\ w2[i] = w[z] /\ w2[i + 1] = n /\ w[z] \in DOMAIN h \ {n}
        BY <1>2, <1>4, <3>2
      <4> QED
        BY <1>8, <3>2, <4>1
    <3>3. CASE i # z /\ i # z + 1
      <4>1. i \in 1..z /\ i + 1 \in 1..z /\ z \in 1..z /\ w2[i] = w[i] /\ w2[i + 1] = w[i + 1]
        BY <1>2, <1>4, <3>3
      <4>2. w[i] # w[z] /\ w[i] \in DOMAIN h \ {n}
        BY <1>2, <3>3, <4>1
      <4>3. h2[w[i]].next = h[w[i]].next
        BY <1>8, <4>2
      <4>4. h[w[i]].next = w[i + 1]
        BY <1>2, <3>3, <4>1
      <4> QED
        BY <3>3, <4>1, <4>3, <4>4
    <3> QED
      BY <3>1, <3>2, <3>3
  <2>5. ASSUME NEW i \in 2..(z + 1) PROVE h2[w2[i]].prev = w2[i - 1]
    <3>1. CASE i = z + 1
      <4>1. w # <<>> /\ w2[i] = n /\ i - 1 = z /\ z \in 1..z
        BY <1>2, <1>4, <3>1
      <4> QED
        BY <1>4, <1>8, <4>1
    <3>2. CASE i # z + 1
      <4>1. i \in 1..z /\ i \in 2..z /\ i - 1 \in 1..z /\ w2[i] = w[i] /\ w2[i - 1] = w[i - 1]
        BY <1>2, <1>4, <3>2
      <4>2. w[i] \in DOMAIN h \ {n}
        BY <1>2, <4>1
      <4>3. h2[w[i]].prev = h[w[i]].prev
        BY <1>8, <4>2
      <4>4. h[w[i]].prev = w[i - 1]
        BY <1>2, <4>1
      <4> QED
        BY <4>1, <4>3, <4>4
    <3> QED
      BY <3>1, <3>2
  <2> QED
    BY <1>4, <2>2, <2>3, <2>4, <2>5 DEF IsList
<1>11. ASSUME NEW k \in Lists \ {l} PROVE IsList(h2, ls2[k], c2[k])
  <2>1. IsList(h, ls[k], c[k])
    BY DEF Sound
  <2>2. Len(c[k]) \in Nat /\ \A i \in 1..Len(c[k]) : c[k][i] \in DOMAIN h
    BY OnListIs
  <2>3. \A i \in 1..Len(c[k]) : c[k][i] # n
    BY <1>1 DEF OnList
  <2>4. ASSUME NEW i \in 1..Len(c[k]), w # <<>> PROVE c[k][i] # w[z]
    <3>1. z \in 1..Len(c[l])
      BY <1>2, <2>4
    <3>2. Distinct(c)
      BY DEF Sound
    <3> QED
      BY <1>1, <3>1, <3>2 DEF Distinct
  <2>5. \A i \in 1..Len(c[k]) : /\ h2[c[k][i]].next = h[c[k][i]].next
                                /\ h2[c[k][i]].prev = h[c[k][i]].prev
    BY <1>8, <2>2, <2>3, <2>4
  <2>6. \A i \in 2..Len(c[k]) : i \in 1..Len(c[k])
    BY <2>2
  <2>7. c2[k] = c[k] /\ ls2[k] = ls[k]
    BY <1>5, <1>7
  <2> QED
    BY <2>1, <2>5, <2>6, <2>7 DEF IsList
<1>12. \A m : OnList(c2, m) <=> OnList(c, m) \/ m = n
  <2>1. ASSUME NEW m, OnList(c2, m) PROVE OnList(c, m) \/ m = n
    <3>1. PICK k \in Lists : \E i \in 1..Len(c2[k]) : c2[k][i] = m
      BY <2>1 DEF OnList
    <3>2. PICK i \in 1..Len(c2[k]) : c2[k][i] = m
      BY <3>1
    <3>3. CASE k # l
      BY <1>5, <3>2, <3>3 DEF OnList
    <3>4. CASE k = l
      <4>1. i \in 1..(z + 1) /\ w2[i] = m
        BY <1>4, <1>5, <3>2, <3>4
      <4>2. i = z + 1 \/ i \in 1..z
        BY <1>2, <4>1
      <4>3. m = n \/ (i \in 1..Len(c[l]) /\ c[l][i] = m)
        BY <1>4, <4>1, <4>2
      <4> QED
        BY <1>1, <4>3 DEF OnList
    <3> QED
      BY <3>3, <3>4
  <2>2. ASSUME NEW m, OnList(c, m) PROVE OnList(c2, m)
    <3>1. PICK k \in Lists : \E i \in 1..Len(c[k]) : c[k][i] = m
      BY <2>2 DEF OnList
    <3>2. PICK i \in 1..Len(c[k]) : c[k][i] = m
      BY <3>1
    <3>3. CASE k # l
      BY <1>5, <3>2, <3>3 DEF OnList
    <3>4. CASE k = l
      <4>1. i \in 1..Len(w2) /\ w2[i] = m
        BY <1>2, <1>4, <3>2, <3>4
      <4> QED
        BY <1>1, <1>5, <4>1 DEF OnList
    <3> QED
      BY <3>3, <3>4
  <2>3. OnList(c2, n)
    <3>1. z + 1 \in 1..Len(w2) /\ w2[z + 1] = n
      BY <1>2, <1>4
    <3> QED
      BY <1>1, <1>5, <3>1 DEF OnList
  <2> QED
    BY <2>1, <2>2, <2>3
<1>13. Distinct(c2)
  <2> SUFFICES ASSUME NEW j \in Lists, NEW k \in Lists, NEW a \in 1..Len(c2[j]), NEW b \in 1..Len(c2[k]),
                      c2[j][a] = c2[k][b]
               PROVE  j = k /\ a = b
    BY DEF Distinct
  <2>1. Distinct(c)
    BY DEF Sound
  <2>2. ASSUME NEW k1 \in Lists, NEW i \in 1..Len(c2[k1])
        PROVE  \/ i \in 1..Len(c[k1]) /\ c2[k1][i] = c[k1][i] /\ c2[k1][i] # n
               \/ k1 = l /\ i = z + 1 /\ c2[k1][i] = n
    <3>1. CASE k1 = l
      <4>1. i \in 1..(z + 1)
        BY <1>4, <1>5, <3>1
      <4>2. i = z + 1 \/ i \in 1..z
        BY <1>2, <4>1
      <4> QED
        BY <1>2, <1>4, <1>5, <3>1, <4>2
    <3>2. CASE k1 # l
      <4>1. c2[k1] = c[k1]
        BY <1>5, <3>2
      <4> QED
        BY <1>1, <4>1 DEF OnList
    <3> QED
      BY <3>1, <3>2
  <2>3. \/ a \in 1..Len(c[j]) /\ c2[j][a] = c[j][a] /\ c2[j][a] # n
        \/ j = l /\ a = z + 1 /\ c2[j][a] = n
    BY <2>2
  <2>4. \/ b \in 1..Len(c[k]) /\ c2[k][b] = c[k][b] /\ c2[k][b] # n
        \/ k = l /\ b = z + 1 /\ c2[k][b] = n
    BY <2>2
  <2> QED
    BY <2>1, <2>3, <2>4 DEF Distinct
<1>14. \A m \in hd2 : m \in DOMAIN h2 /\ h2[m].next = NULL /\ ~OnList(c2, m)
  <2> SUFFICES ASSUME NEW m \in hd2 PROVE m \in DOMAIN h2 /\ h2[m].next = NULL /\ ~OnList(c2, m)
    OBVIOUS
  <2>1. m \in hd /\ m # n
    BY <1>9
  <2>2. m \in DOMAIN h /\ h[m].next = NULL /\ ~OnList(c, m)
    BY <2>1 DEF Sound
  <2>3. w # <<>> => m # w[z]
    <3>1. w # <<>> => z \in 1..Len(c[l])
      BY <1>2
    <3> QED
      BY <1>1, <2>2, <3>1 DEF OnList
  <2> QED
    BY <1>1, <1>8, <1>12, <2>1, <2>2, <2>3
<1>15. \A m \in DOMAIN h2 : m \in hd2 \/ OnList(c2, m)
  BY <1>1, <1>9, <1>12 DEF Sound
<1>16. \A k \in Lists : IsList(h2, ls2[k], c2[k])
  BY <1>5, <1>10, <1>11
<1>17. Sound(h2, ls2, hd2, c2)
  BY <1>6, <1>7, <1>13, <1>14, <1>15, <1>16 DEF Sound
<1> QED
  BY <1>17 DEF c2, w2

\* The node i of the list l goes.
Without(w, i) == [j \in 1..(Len(w) - 1) |-> IF j < i THEN w[j] ELSE w[j + 1]]

Shrunk(h, ls, c, l, i, h2, ls2) ==
    LET w == c[l]
        z == Len(c[l])
    IN  /\ l \in Lists /\ i \in 1..z
        /\ DOMAIN h2 = DOMAIN h \ {w[i]}
        /\ \A m \in DOMAIN h2 :
              /\ h2[m].next = IF i > 1 /\ m = w[i - 1] THEN h[w[i]].next ELSE h[m].next
              /\ (i < z /\ m = w[i + 1]) \/ h2[m].prev = h[m].prev
        /\ 1 < i /\ i < z => h2[w[i + 1]].prev = w[i - 1]
        /\ ls2 = [ls EXCEPT ![l].first = IF i = 1 THEN h[w[1]].next ELSE @, ![l].len = @ - 1]

LEMMA ShrunkSound ==
  ASSUME NEW h, NEW ls, NEW hd, NEW c, HeapOK(h), Sound(h, ls, hd, c),
         NEW l, NEW i, NEW h2, NEW ls2, Shrunk(h, ls, c, l, i, h2, ls2)
  PROVE  Sound(h2, ls2, hd, [c EXCEPT ![l] = Without(@, i)])
<1> DEFINE w == c[l]
           z == Len(w)
           w2 == Without(w, i)
           c2 == [c EXCEPT ![l] = w2]
           old(j) == IF j < i THEN j ELSE j + 1
<1>1. /\ l \in Lists /\ i \in 1..z /\ DOMAIN h2 = DOMAIN h \ {w[i]}
  BY DEF Shrunk
<1>2. /\ w \in Seq(DOMAIN h) /\ z \in Nat
      /\ \A j \in 1..z : w[j] \in DOMAIN h
      /\ \A j \in 1..z : h[w[j]].next = IF j = z THEN NULL ELSE w[j + 1]
      /\ \A j \in 2..z : h[w[j]].prev = w[j - 1]
      /\ \A j, k \in 1..z : w[j] = w[k] => j = k
      /\ ls[l].first = IF w = <<>> THEN NULL ELSE w[1]
      /\ ls[l].len = z
  BY <1>1, OnListIs
<1>3. /\ c \in [Lists -> Seq(DOMAIN h)] /\ Distinct(c) /\ ls \in [Lists -> ListRecord]
  BY DEF Sound
<1>4. \A j \in 1..(z - 1) : old(j) \in 1..z /\ old(j) # i /\ old(j) \in Nat
  BY <1>1, <1>2
<1>5. /\ \A j \in 1..(z - 1) : w2[j] = w[old(j)] /\ w2[j] \in DOMAIN h2
      /\ w2 = [j \in 1..(z - 1) |-> w2[j]]
  <2>1. \A j \in 1..(z - 1) : w2[j] = w[old(j)]
    BY DEF Without
  <2>2. w2 = [j \in 1..(z - 1) |-> w2[j]]
    BY DEF Without
  <2>3. \A j \in 1..(z - 1) : w[old(j)] \in DOMAIN h /\ w[old(j)] # w[i]
    BY <1>1, <1>2, <1>4
  <2> QED
    BY <1>1, <2>1, <2>2, <2>3
<1> HIDE DEF w2
<1>6. w2 \in Seq(DOMAIN h2) /\ Len(w2) = z - 1
  <2>1. z - 1 \in Nat
    BY <1>1, <1>2
  <2> QED
    BY <1>5, <2>1
<1>7. c2[l] = w2 /\ \A k \in Lists \ {l} : c2[k] = c[k]
  BY <1>1, <1>3
<1>8. ASSUME NEW k \in Lists \ {l}, NEW j \in 1..Len(c[k])
      PROVE  c[k][j] \in DOMAIN h2 /\ \A a \in 1..z : c[k][j] # w[a]
  <2>1. \A a \in 1..z : c[k][j] # w[a]
    BY <1>1, <1>3 DEF Distinct
  <2>2. c[k][j] \in DOMAIN h
    BY OnListIs
  <2> QED
    BY <1>1, <2>1, <2>2
<1>9. c2 \in [Lists -> Seq(DOMAIN h2)]
  <2>1. ASSUME NEW k \in Lists \ {l} PROVE c[k] \in Seq(DOMAIN h2)
    <3>1. c[k] \in Seq(DOMAIN h) /\ Len(c[k]) \in Nat
      BY OnListIs
    <3>2. \A j \in 1..Len(c[k]) : c[k][j] \in DOMAIN h2
      BY <1>8
    <3>3. c[k] = [j \in 1..Len(c[k]) |-> c[k][j]]
      BY <3>1
    <3> QED
      BY <3>1, <3>2, <3>3
  <2> QED
    BY <1>3, <1>6, <2>1
<1>10. /\ \A m \in DOMAIN h2 :
              /\ h2[m].next = IF i > 1 /\ m = w[i - 1] THEN h[w[i]].next ELSE h[m].next
              /\ (i < z /\ m = w[i + 1]) \/ h2[m].prev = h[m].prev
       /\ 1 < i /\ i < z => h2[w[i + 1]].prev = w[i - 1]
  BY DEF Shrunk
<1>11. /\ ls2[l] = [ls[l] EXCEPT !.first = IF i = 1 THEN h[w[1]].next ELSE w[1], !.len = z - 1]
       /\ \A k \in Lists \ {l} : ls2[k] = ls[k]
       /\ ls2 \in [Lists -> ListRecord]
  <2>1. ls2 = [ls EXCEPT ![l] = [ls[l] EXCEPT !.first = IF i = 1 THEN h[w[1]].next ELSE ls[l].first,
                                              !.len = ls[l].len - 1]]
    BY <1>1, <1>3 DEF Shrunk
  <2>2. ls[l].first = w[1]
    BY <1>1, <1>2
  <2>3. ls2 = [ls EXCEPT ![l] = [ls[l] EXCEPT !.first = IF i = 1 THEN h[w[1]].next ELSE w[1],
                                              !.len = z - 1]]
    BY <1>2, <2>1, <2>2
  <2>4. ls[l] \in ListRecord /\ z - 1 \in Nat
    BY <1>1, <1>2, <1>3
  <2>5. (IF i = 1 THEN h[w[1]].next ELSE w[1]) \in Pointer
    <3>1. 1 \in 1..z
      BY <1>1, <1>2
    <3> QED
      BY <1>2, <3>1 DEF HeapOK, Node, Pointer
  <2>6. [ls[l] EXCEPT !.first = IF i = 1 THEN h[w[1]].next ELSE w[1], !.len = z - 1] \in ListRecord
    <3> HIDE DEF w, z
    <3> QED
      BY <2>4, <2>5 DEF ListRecord
  <2> QED
    BY <1>1, <1>3, <2>3, <2>6
<1> HIDE DEF w, z, c2
<1>12. IsList(h2, ls2[l], w2)
  <2>1. ls[l] \in ListRecord
    BY <1>1, <1>3
  <2>2. /\ ls2[l].len = z - 1 /\ ls2[l].made = ls[l].made
        /\ ls2[l].first = IF i = 1 THEN h[w[1]].next ELSE w[1]
    BY <1>11, <2>1 DEF ListRecord
  <2>3. ls[l].made
    BY <1>1, <1>2 DEF Sound, IsList, w, z
  <2>4. ls2[l].first = IF w2 = <<>> THEN NULL ELSE w2[1]
    <3>1. CASE z = 1
      <4>1. i = 1 /\ w2 = <<>> /\ 1 \in 1..z
        BY <1>1, <1>6, <3>1
      <4> QED
        BY <1>2, <2>2, <3>1, <4>1
    <3>2. CASE z # 1
      <4>1. 1 \in 1..(z - 1) /\ 1 \in 1..z
        BY <1>1, <1>2, <3>2
      <4>2. w2 # <<>>
        BY <1>6, <4>1
      <4>3. w2[1] = IF i = 1 THEN w[2] ELSE w[1]
        <5>1. w2[1] = w[old(1)]
          BY <1>5, <4>1
        <5>2. old(1) = IF i = 1 THEN 2 ELSE 1
          BY <1>1, <1>2
        <5> QED
          BY <5>1, <5>2
      <4>4. h[w[1]].next = w[2]
        BY <1>2, <3>2, <4>1
      <4> QED
        BY <2>2, <4>2, <4>3, <4>4
    <3> QED
      BY <3>1, <3>2
  <2>5. ASSUME NEW j \in 1..(z - 1)
        PROVE  h2[w2[j]].next = IF j = z - 1 THEN NULL ELSE w2[j + 1]
    <3>1. w2[j] = w[old(j)] /\ w2[j] \in DOMAIN h2 /\ old(j) \in 1..z
      BY <1>4, <1>5
    <3>2. h2[w2[j]].next = IF i > 1 /\ w2[j] = w[i - 1] THEN h[w[i]].next ELSE h[w2[j]].next
      BY <1>10, <3>1
    <3>3. CASE j = i - 1
      <4>1. i > 1 /\ w2[j] = w[i - 1]
        BY <1>1, <1>2, <3>1, <3>3
      <4>2. h2[w2[j]].next = IF i = z THEN NULL ELSE w[i + 1]
        BY <1>1, <1>2, <3>2, <4>1
      <4>3. j # z - 1 => j + 1 \in 1..(z - 1) /\ old(j + 1) = i + 1
        BY <1>1, <1>2, <3>3
      <4>4. j # z - 1 => w2[j + 1] = w[i + 1]
        BY <1>5, <4>3
      <4>5. i = z <=> j = z - 1
        BY <1>1, <1>2, <3>3
      <4> QED
        BY <4>2, <4>4, <4>5
    <3>4. CASE j # i - 1
      <4>1. ~(i > 1 /\ w2[j] = w[i - 1])
        <5>1. i > 1 => i - 1 \in 1..z /\ old(j) # i - 1
          BY <1>1, <1>2, <3>4
        <5> QED
          BY <1>2, <3>1, <5>1
      <4>2. h2[w2[j]].next = IF old(j) = z THEN NULL ELSE w[old(j) + 1]
        <5> HIDE DEF old
        <5> QED
          BY <1>2, <3>1, <3>2, <4>1
      <4>3. old(j) = z <=> j = z - 1
        <5>1. CASE j < i
          BY <1>1, <1>2, <3>4, <5>1
        <5>2. CASE ~(j < i)
          BY <1>2, <5>2
        <5> QED
          BY <5>1, <5>2
      <4>4. j # z - 1 => j + 1 \in 1..(z - 1) /\ old(j + 1) = old(j) + 1
        BY <1>1, <1>2, <3>4
      <4>5. j # z - 1 => w2[j + 1] = w[old(j) + 1]
        BY <1>5, <4>4
      <4> QED
        BY <4>2, <4>3, <4>5
    <3> QED
      BY <3>3, <3>4
  <2>6. ASSUME NEW j \in 2..(z - 1) PROVE h2[w2[j]].prev = w2[j - 1]
    <3>1. j \in 1..(z - 1) /\ j - 1 \in 1..(z - 1) /\ old(j) \in 1..z
      BY <1>1, <1>2, <1>4
    <3>2. w2[j] = w[old(j)] /\ w2[j] \in DOMAIN h2 /\ w2[j - 1] = w[old(j - 1)]
      BY <1>5, <3>1
    <3>3. CASE j = i
      <4>1. 1 < i /\ i < z /\ old(j) = i + 1 /\ old(j - 1) = i - 1
        BY <1>1, <1>2, <3>3
      <4> QED
        BY <1>10, <3>2, <4>1
    <3>4. CASE j # i
      <4>1. /\ i < z => old(j) # i + 1 /\ i + 1 \in 1..z
            /\ old(j) \in 2..z /\ old(j - 1) = old(j) - 1
        BY <1>1, <1>2, <3>1, <3>4
      <4>2. ~(i < z /\ w2[j] = w[i + 1])
        <5> HIDE DEF old
        <5> QED
          BY <1>2, <3>1, <3>2, <4>1
      <4>3. h2[w2[j]].prev = h[w2[j]].prev
        BY <1>10, <3>2, <4>2
      <4>4. h[w[old(j)]].prev = w[old(j) - 1]
        BY <1>2, <4>1
      <4> QED
        BY <3>2, <4>1, <4>3, <4>4
    <3> QED
      BY <3>3, <3>4
  <2> QED
    BY <1>6, <2>2, <2>3, <2>4, <2>5, <2>6 DEF IsList
<1>13. ASSUME NEW k \in Lists \ {l} PROVE IsList(h2, ls2[k], c2[k])
  <2>1. IsList(h, ls[k], c[k])
    BY DEF Sound
  <2>2. Len(c[k]) \in Nat
    BY OnListIs
  <2>3. i > 1 => i - 1 \in 1..z
    BY <1>1, <1>2
  <2>4. i < z => i + 1 \in 1..z
    BY <1>1, <1>2
  <2>5. \A j \in 1..Len(c[k]) : /\ h2[c[k][j]].next = h[c[k][j]].next
                                /\ h2[c[k][j]].prev = h[c[k][j]].prev
    BY <1>8, <1>10, <2>3, <2>4
  <2>6. \A j \in 2..Len(c[k]) : j \in 1..Len(c[k])
    BY <2>2
  <2>7. c2[k] = c[k] /\ ls2[k] = ls[k]
    BY <1>7, <1>11
  <2> QED
    BY <2>1, <2>5, <2>6, <2>7 DEF IsList
<1>14. \A m : OnList(c2, m) <=> OnList(c, m) /\ m # w[i]
  <2>1. ASSUME NEW m, OnList(c2, m) PROVE OnList(c, m) /\ m # w[i]
    <3>1. PICK k \in Lists : \E j \in 1..Len(c2[k]) : c2[k][j] = m
      BY <2>1 DEF OnList
    <3>2. PICK j \in 1..Len(c2[k]) : c2[k][j] = m
      BY <3>1
    <3>3. CASE k # l
      BY <1>1, <1>7, <1>8, <3>2, <3>3 DEF OnList
    <3>4. CASE k = l
      <4>1. j \in 1..(z - 1) /\ w2[j] = m
        BY <1>6, <1>7, <3>2, <3>4
      <4>2. old(j) \in 1..z /\ w[old(j)] = m /\ m # w[i]
        BY <1>1, <1>4, <1>5, <4>1
      <4> QED
        BY <1>1, <4>2 DEF OnList, w, z
    <3> QED
      BY <3>3, <3>4
  <2>2. ASSUME NEW m, OnList(c, m), m # w[i] PROVE OnList(c2, m)
    <3>1. PICK k \in Lists : \E j \in 1..Len(c[k]) : c[k][j] = m
      BY <2>2 DEF OnList
    <3>2. PICK j \in 1..Len(c[k]) : c[k][j] = m
      BY <3>1
    <3>3. CASE k # l
      BY <1>7, <3>2, <3>3 DEF OnList
    <3>4. CASE k = l
      <4>1. j \in 1..z /\ w[j] = m /\ j # i
        BY <2>2, <3>2, <3>4 DEF w, z
      <4> DEFINE a == IF j < i THEN j ELSE j - 1
      <4>2. a \in 1..(z - 1) /\ old(a) = j
        BY <1>1, <1>2, <4>1
      <4>3. w2[a] = m
        BY <1>5, <4>1, <4>2
      <4> QED
        BY <1>1, <1>6, <1>7, <4>2, <4>3 DEF OnList
    <3> QED
      BY <3>3, <3>4
  <2>3. \A m : OnList(c2, m) => OnList(c, m) /\ m # w[i]
    BY <2>1
  <2> QED
    BY <2>2, <2>3
<1>15. Distinct(c2)
  <2> SUFFICES ASSUME NEW j \in Lists, NEW k \in Lists, NEW a \in 1..Len(c2[j]), NEW b \in 1..Len(c2[k]),
                      c2[j][a] = c2[k][b]
               PROVE  j = k /\ a = b
    BY DEF Distinct
  <2>1. ASSUME NEW k1 \in Lists, NEW x \in 1..Len(c2[k1])
        PROVE  \/ k1 # l /\ x \in 1..Len(c[k1]) /\ c2[k1][x] = c[k1][x]
               \/ /\ k1 = l /\ x \in 1..(z - 1) /\ old(x) \in 1..Len(c[k1])
                  /\ c2[k1][x] = c[k1][old(x)]
    <3>1. CASE k1 = l
      <4>1. x \in 1..(z - 1) /\ c2[k1][x] = w2[x]
        BY <1>6, <1>7, <3>1
      <4>2. old(x) \in 1..z /\ w2[x] = w[old(x)]
        BY <1>4, <1>5, <4>1
      <4> QED
        BY <3>1, <4>1, <4>2 DEF w, z
    <3>2. CASE k1 # l
      BY <1>7, <3>2
    <3> QED
      BY <3>1, <3>2
  <2>2. \A x, y \in 1..(z - 1) : old(x) = old(y) => x = y
    BY <1>1, <1>2
  <2>3. \/ j # l /\ a \in 1..Len(c[j]) /\ c2[j][a] = c[j][a]
        \/ j = l /\ a \in 1..(z - 1) /\ old(a) \in 1..Len(c[j]) /\ c2[j][a] = c[j][old(a)]
    BY <2>1
  <2>4. \/ k # l /\ b \in 1..Len(c[k]) /\ c2[k][b] = c[k][b]
        \/ k = l /\ b \in 1..(z - 1) /\ old(b) \in 1..Len(c[k]) /\ c2[k][b] = c[k][old(b)]
    BY <2>1
  <2> HIDE DEF old
  <2>5. j = k
    BY <1>3, <2>3, <2>4 DEF Distinct
  <2>6. CASE j = l
    <3>1. /\ a \in 1..(z - 1) /\ old(a) \in 1..Len(c[l]) /\ c2[l][a] = c[l][old(a)]
          /\ b \in 1..(z - 1) /\ old(b) \in 1..Len(c[l]) /\ c2[l][b] = c[l][old(b)]
      BY <2>3, <2>4, <2>5, <2>6
    <3>2. old(a) = old(b)
      BY <1>1, <1>3, <2>5, <2>6, <3>1 DEF Distinct
    <3> QED
      BY <2>2, <2>5, <3>1, <3>2
  <2>7. CASE j # l
    BY <1>3, <2>3, <2>4, <2>5, <2>7 DEF Distinct
  <2> QED
    BY <2>5, <2>6, <2>7
<1>16. w[i] \notin hd /\ OnList(c, w[i])
  BY <1>1, OnListIs DEF OnList, w, z
<1>17. \A m \in hd : m \in DOMAIN h2 /\ h2[m].next = NULL /\ ~OnList(c2, m)
  <2> SUFFICES ASSUME NEW m \in hd PROVE m \in DOMAIN h2 /\ h2[m].next = NULL /\ ~OnList(c2, m)
    OBVIOUS
  <2>1. m \in DOMAIN h /\ h[m].next = NULL /\ ~OnList(c, m)
    BY DEF Sound
  <2>2. i > 1 => m # w[i - 1]
    <3>1. i > 1 => i - 1 \in 1..z
      BY <1>1, <1>2
    <3> QED
      BY <1>1, <2>1, <3>1 DEF OnList, w, z
  <2>3. m \in DOMAIN h2
    BY <1>1, <1>16, <2>1
  <2>4. h2[m].next = h[m].next
    BY <1>10, <2>2, <2>3
  <2> QED
    BY <1>14, <2>1, <2>3, <2>4
<1>18. \A m \in DOMAIN h2 : m \in hd \/ OnList(c2, m)
  BY <1>1, <1>14 DEF Sound
<1>19. \A k \in Lists : IsList(h2, ls2[k], c2[k])
  BY <1>7, <1>12, <1>13
<1>20. Sound(h2, ls2, hd, c2)
  BY <1>9, <1>11, <1>15, <1>17, <1>18, <1>19 DEF Sound
<1> QED
  BY <1>20 DEF c2, w2, w

\* All nodes of the list l go.
NodesOf(w) == {w[i] : i \in 1..Len(w)}

LEMMA EmptiedSound ==
  ASSUME NEW h, NEW ls, NEW hd, NEW c, Sound(h, ls, hd, c), NEW l \in Lists,
         NEW h2, DOMAIN h2 = DOMAIN h \ NodesOf(c[l]), \A m \in DOMAIN h2 : h2[m] = h[m]
  PROVE  Sound(h2, [ls EXCEPT ![l] = [made |-> FALSE, first |-> NULL, len |-> 0]], hd,
               [c EXCEPT ![l] = <<>>])
<1> DEFINE c2 == [c EXCEPT ![l] = <<>>]
           ls2 == [ls EXCEPT ![l] = [made |-> FALSE, first |-> NULL, len |-> 0]]
<1>1. c \in [Lists -> Seq(DOMAIN h)] /\ ls \in [Lists -> ListRecord] /\ Distinct(c)
  BY DEF Sound
<1>2. c2[l] = <<>> /\ \A k \in Lists \ {l} : c2[k] = c[k]
  BY <1>1
<1>3. /\ ls2[l] = [made |-> FALSE, first |-> NULL, len |-> 0]
      /\ \A k \in Lists \ {l} : ls2[k] = ls[k]
  BY <1>1
<1>4. [made |-> FALSE, first |-> NULL, len |-> 0] \in ListRecord
  BY DEF ListRecord, Pointer
<1>5. ls2 \in [Lists -> ListRecord]
  BY <1>1, <1>4
<1>6. ASSUME NEW k \in Lists \ {l}
      PROVE  /\ Len(c[k]) \in Nat /\ c[k] = [i \in 1..Len(c[k]) |-> c[k][i]]
             /\ \A i \in 1..Len(c[k]) : c[k][i] \in DOMAIN h2
  <2>1. c[k] \in Seq(DOMAIN h) /\ \A i \in 1..Len(c[k]) : c[k][i] \in DOMAIN h
    BY OnListIs
  <2>2. \A i \in 1..Len(c[k]) : c[k][i] \notin NodesOf(c[l])
    BY <1>1 DEF NodesOf, Distinct
  <2> QED
    BY <2>1, <2>2
<1>7. c2 \in [Lists -> Seq(DOMAIN h2)]
  <2>1. ASSUME NEW k \in Lists \ {l} PROVE c[k] \in Seq(DOMAIN h2)
    <3> DEFINE w == c[k]
               n == Len(w)
               S == DOMAIN h2
    <3>1. n \in Nat /\ w = [i \in 1..n |-> w[i]] /\ \A i \in 1..n : w[i] \in S
      BY <1>6
    <3> HIDE DEF n, w, S
    <3>2. w \in [1..n -> S]
      BY <3>1
    <3>3. w \in Seq(S)
      BY <3>1, <3>2
    <3> QED
      BY <3>3 DEF w, S
  <2>2. <<>> \in Seq(DOMAIN h2)
    OBVIOUS
  <2> QED
    BY <1>1, <2>1, <2>2
<1> HIDE DEF c2, ls2
<1>8. IsList(h2, ls2[l], c2[l])
  BY <1>2, <1>3 DEF IsList
<1>9. ASSUME NEW k \in Lists \ {l} PROVE IsList(h2, ls2[k], c2[k])
  <2>1. IsList(h, ls[k], c[k])
    BY DEF Sound
  <2>2. \A i \in 1..Len(c[k]) : h2[c[k][i]] = h[c[k][i]]
    BY <1>6
  <2>3. \A i \in 2..Len(c[k]) : i \in 1..Len(c[k])
    BY <1>6
  <2>4. c2[k] = c[k] /\ ls2[k] = ls[k]
    BY <1>2, <1>3
  <2> QED
    BY <2>1, <2>2, <2>3, <2>4 DEF IsList
<1>10. Len(c2[l]) = 0
  BY <1>2
<1>11. Distinct(c2)
  <2>1. \A k \in Lists : \A i \in 1..Len(c2[k]) : k \in Lists \ {l}
    BY <1>10
  <2> QED
    BY <1>1, <1>2, <2>1 DEF Distinct
<1>12. \A m : OnList(c2, m) => OnList(c, m)
  BY <1>2, <1>10 DEF OnList
<1>13. \A m \in DOMAIN h2 : OnList(c, m) => OnList(c2, m)
  <2> SUFFICES ASSUME NEW m \in DOMAIN h2, OnList(c, m) PROVE OnList(c2, m)
    OBVIOUS
  <2>1. PICK k \in Lists : \E i \in 1..Len(c[k]) : c[k][i] = m
    BY DEF OnList
  <2>2. k # l
    BY <2>1 DEF NodesOf
  <2> QED
    BY <1>2, <2>1, <2>2 DEF OnList
<1>14. \A m \in hd : m \in DOMAIN h2 /\ h2[m].next = NULL /\ ~OnList(c2, m)
  <2> SUFFICES ASSUME NEW m \in hd PROVE m \in DOMAIN h2 /\ h2[m].next = NULL /\ ~OnList(c2, m)
    OBVIOUS
  <2>1. m \in DOMAIN h /\ h[m].next = NULL /\ ~OnList(c, m)
    BY DEF Sound
  <2>2. m \notin NodesOf(c[l])
    BY <2>1 DEF OnList, NodesOf
  <2> QED
    BY <1>12, <2>1, <2>2
<1>15. \A m \in DOMAIN h2 : m \in hd \/ OnList(c2, m)
  BY <1>13 DEF Sound
<1>16. \A k \in Lists : IsList(h2, ls2[k], c2[k])
  BY <1>8, <1>9
<1> QED
  BY <1>5, <1>7, <1>11, <1>14, <1>15, <1>16 DEF Sound, c2, ls2

\* The way back along the prev pointers.
IsBack(f, h, first, last) ==
    f = [k \in Nat |-> IF k = 0 THEN last ELSE IF f[k - 1] = first THEN first ELSE h[f[k - 1]].prev]

LEMMA BackIs ==
  ASSUME NEW h, NEW ls, NEW hd, NEW c, Sound(h, ls, hd, c), NEW l \in Lists, c[l] # <<>>,
         NEW back, back = CHOOSE f : IsBack(f, h, c[l][1], c[l][Len(c[l])])
  PROVE  \A k \in Nat : back[k] = IF k < Len(c[l]) THEN c[l][Len(c[l]) - k] ELSE c[l][1]
<1> DEFINE w == c[l]
           n == Len(w)
           g == [k \in Nat |-> IF k < n THEN w[n - k] ELSE w[1]]
           U == {k \in Nat : back[k] = g[k]}
<1>1. /\ n \in Nat /\ n # 0 /\ 1 \in 1..n
      /\ \A i \in 2..n : h[w[i]].prev = w[i - 1]
      /\ \A i, j \in 1..n : w[i] = w[j] => i = j
  <2>1. w \in Seq(DOMAIN h) /\ w # <<>>
    BY OnListIs
  <2> QED
    BY <2>1, OnListIs
<1> HIDE DEF w, n
<1>2. ASSUME NEW k \in Nat
      PROVE  g[k] = IF k = 0 THEN w[n] ELSE IF g[k - 1] = w[1] THEN w[1] ELSE h[g[k - 1]].prev
  <2>1. CASE k = 0
    <3>1. 0 < n /\ n - 0 = n
      BY <1>1
    <3> QED
      BY <2>1, <3>1
  <2>2. CASE k # 0 /\ k - 1 < n - 1
    <3>1. k < n /\ k - 1 \in Nat /\ k - 1 < n /\ n - (k - 1) \in 2..n /\ n - (k - 1) \in 1..n
          /\ (n - (k - 1)) - 1 = n - k /\ n - (k - 1) # 1
      BY <1>1, <2>2
    <3>2. g[k - 1] = w[n - (k - 1)] /\ g[k] = w[n - k]
      BY <3>1
    <3> HIDE DEF g
    <3>3. g[k - 1] # w[1]
      BY <1>1, <3>1, <3>2
    <3>4. h[g[k - 1]].prev = w[n - k]
      BY <1>1, <3>1, <3>2
    <3> QED
      BY <2>2, <3>2, <3>3, <3>4
  <2>3. CASE k # 0 /\ ~(k - 1 < n - 1)
    <3>1. ~(k < n) /\ k - 1 \in Nat /\ (k - 1 < n => n - (k - 1) = 1)
      BY <1>1, <2>3
    <3>2. g[k] = w[1] /\ g[k - 1] = w[1]
      BY <3>1
    <3> QED
      BY <2>3, <3>2
  <2> QED
    BY <2>1, <2>2, <2>3
<1>3. IsBack(g, h, w[1], w[n])
  <2>1. g = [k \in Nat |-> g[k]]
    OBVIOUS
  <2> HIDE DEF g
  <2> QED
    BY <1>2, <2>1 DEF IsBack
<1>4. IsBack(back, h, w[1], w[n])
  BY <1>3 DEF w, n
<1> HIDE DEF g
<1> DEFINE before(x) == IF x = w[1] THEN w[1] ELSE h[x].prev
<1>5. \A k \in Nat : back[k] = IF k = 0 THEN w[n] ELSE before(back[k - 1])
  BY <1>4 DEF IsBack
<1>6. 0 \in U
  BY <1>2, <1>5
<1>7. ASSUME NEW k \in U \cap Nat PROVE k + 1 \in U
  <2>1. k + 1 \in Nat /\ k + 1 # 0 /\ (k + 1) - 1 = k
    BY <1>7
  <2>2. back[k] = g[k]
    BY <1>7
  <2>3. g[k + 1] = before(g[k])
    BY <1>2, <2>1
  <2> HIDE DEF before
  <2>4. back[k + 1] = before(back[k])
    BY <1>5, <2>1
  <2>5. back[k + 1] = g[k + 1]
    BY <2>2, <2>3, <2>4
  <2> QED
    BY <2>1, <2>5
<1> HIDE DEF U
<1>8. Nat \subseteq U
  BY <1>6, <1>7, SetInduction
<1> QED
  BY <1>8 DEF U, g, w, n

LEMMA DestroyIs ==
  ASSUME HeapOK(heap), NEW c, Sound(heap, list, held, c), NEW l \in Lists, Destroy(l)
  PROVE  /\ list[l].made
         /\ DOMAIN heap' = DOMAIN heap \ NodesOf(c[l]) /\ HeapOK(heap')
         /\ \A m \in DOMAIN heap' : heap'[m] = heap[m]
         /\ list' = [list EXCEPT ![l] = [made |-> FALSE, first |-> NULL, len |-> 0]]
         /\ held' = held /\ fate' = fate
<1> DEFINE w == c[l]
           n == Len(w)
           first == list[l].first
           last == EndOf(heap, first)
           back == CHOOSE f : IsBack(f, heap, first, last)
           turns == CHOOSE k \in 0..Cardinality(Nodes) :
                      back[k] = first /\ \A j \in 0..(k - 1) : back[j] # first
           freed == {heap[back[k]].next : k \in 1..turns} \union {first}
<1>1. /\ heap' = Freed(heap, IF list[l].len > 0 THEN freed ELSE {})
      /\ list' = [list EXCEPT ![l] = [made |-> FALSE, first |-> NULL, len |-> 0]]
      /\ held' = held /\ fate' = fate /\ list[l].made
  BY DEF Destroy, IsBack, Returns, Made
<1>2. /\ w \in Seq(DOMAIN heap) /\ n \in Nat /\ list[l].len = n /\ (w # <<>> <=> n > 0)
      /\ \A i \in 1..n : heap[w[i]].next = IF i = n THEN NULL ELSE w[i + 1]
      /\ \A i, j \in 1..n : w[i] = w[j] => i = j
      /\ first = IF w = <<>> THEN NULL ELSE w[1]
  <2>1. w \in Seq(DOMAIN heap)
    BY OnListIs
  <2>2. w # <<>> <=> n > 0
    BY <2>1
  <2> QED
    BY <2>1, <2>2, OnListIs
<1>3. (IF n > 0 THEN freed ELSE {}) = NodesOf(w)
  <2>1. CASE n = 0
    BY <2>1 DEF NodesOf
  <2>2. CASE n # 0
    <3>1. w # <<>> /\ n > 0 /\ first = w[1] /\ 1 \in 1..n
      BY <1>2, <2>2
    <3>2. last = w[n]
      BY Walked DEF EndOf
    <3>3. \A k \in Nat : back[k] = IF k < n THEN w[n - k] ELSE w[1]
      BY <3>1, <3>2, BackIs
    <3>4. Cardinality(Nodes) \in Nat /\ n - 1 \in 0..Cardinality(Nodes)
      BY <1>2, <3>1, LengthBounded
    <3> HIDE DEF back, last, first, w, n
    <3>5. back[n - 1] = first
      <4>1. n - 1 \in Nat /\ n - 1 < n /\ n - (n - 1) = 1
        BY <1>2, <3>1
      <4> QED
        BY <3>1, <3>3, <4>1
    <3>6. ASSUME NEW j \in Nat, j < n - 1 PROVE back[j] # first
      <4>1. j < n /\ n - j \in 1..n /\ n - j # 1
        BY <1>2, <3>6
      <4>2. w[n - j] # w[1]
        BY <1>2, <3>1, <4>1
      <4> QED
        BY <3>1, <3>3, <4>1, <4>2
    <3>7. \A j \in 0..((n - 1) - 1) : back[j] # first
      BY SMTT(30), <1>2, <3>6
    <3>8. turns \in 0..Cardinality(Nodes) /\ back[turns] = first
          /\ \A j \in 0..(turns - 1) : back[j] # first
      BY <3>4, <3>5, <3>7
    <3> HIDE DEF turns
    <3>9. turns = n - 1
      <4>1. turns \in Nat /\ n - 1 \in Nat
        BY <3>4, <3>8
      <4>2. ~(turns < n - 1)
        BY <3>6, <3>8, <4>1
      <4>3. ~(n - 1 < turns)
        <5>1. n - 1 < turns => n - 1 \in 0..(turns - 1)
          BY <4>1
        <5> QED
          BY <3>5, <3>8, <5>1
      <4> QED
        BY <4>1, <4>2, <4>3
    <3>10. ASSUME NEW k \in 1..turns PROVE heap[back[k]].next = w[n - k + 1]
      <4>1. k \in Nat /\ k < n /\ n - k \in 1..n /\ n - k # n
        BY <1>2, <3>9
      <4>2. back[k] = w[n - k]
        BY <3>3, <4>1
      <4> QED
        BY <1>2, <4>1, <4>2
    <3>11. freed = {w[n - k + 1] : k \in 1..(n - 1)} \union {w[1]}
      BY <3>1, <3>9, <3>10
    <3>12. {w[n - k + 1] : k \in 1..(n - 1)} \union {w[1]} = {w[i] : i \in 1..n}
      <4>1. \A k \in 1..(n - 1) : n - k + 1 \in 1..n
        BY <1>2
      <4>2. ASSUME NEW i \in 1..n, i # 1 PROVE \E k \in 1..(n - 1) : n - k + 1 = i
        <5>1. n - i + 1 \in 1..(n - 1) /\ n - (n - i + 1) + 1 = i
          BY <1>2, <4>2
        <5> QED
          BY <5>1
      <4> QED
        BY <3>1, <4>1, <4>2
    <3> QED
      BY <3>1, <3>11, <3>12 DEF NodesOf, n
  <2> QED
    BY <1>2, <2>1, <2>2
<1> HIDE DEF freed, w
<1>4. heap' = Freed(heap, NodesOf(w))
  <2>1. list[l].len = n
    BY <1>2
  <2> QED
    BY <1>1, <1>3, <2>1
<1>5. /\ DOMAIN heap' = DOMAIN heap \ NodesOf(w)
      /\ \A m \in DOMAIN heap' : heap'[m] = heap[m]
      /\ heap' = [m \in DOMAIN heap' |-> heap'[m]]
  BY <1>4 DEF Freed
<1>6. HeapOK(heap')
  BY <1>5 DEF HeapOK
<1> QED
  BY <1>1, <1>5, <1>6 DEF w

---------------------------------------------------------------------------
\* What the operations do.

LEMMA FreshIs ==
  ASSUME NEW h, HeapOK(h), HasRoom(h)
  PROVE  Fresh(h) \in Nodes \ DOMAIN h
<1> DEFINE S == Nodes \ DOMAIN h
<1>1. S # {} /\ S \in SUBSET Nat
  BY NodesAssumption DEF HeapOK, HasRoom
<1> HIDE DEF S
<1>2. \E n \in S : \A m \in S : n <= m
  BY <1>1, LeastNat
<1>3. Fresh(h) = CHOOSE n \in S : \A m \in S : n <= m
  BY DEF Fresh, S
<1>4. Fresh(h) \in S
  BY <1>2, <1>3
<1> QED
  BY <1>4 DEF S

LEMMA AllocatedIs ==
  ASSUME NEW h, HeapOK(h), NEW n \in Nodes \ DOMAIN h, NEW d \in Contents
  PROVE  /\ HeapOK(Allocated(h, n, d))
         /\ DOMAIN Allocated(h, n, d) = DOMAIN h \union {n}
         /\ Allocated(h, n, d)[n] = [data |-> d, next |-> NULL, prev |-> NULL]
         /\ \A m \in DOMAIN h : Allocated(h, n, d)[m] = h[m]
<1> DEFINE a == Allocated(h, n, d)
<1>1. /\ DOMAIN a = DOMAIN h \union {n} /\ a = [m \in DOMAIN a |-> a[m]]
      /\ a[n] = [data |-> d, next |-> NULL, prev |-> NULL]
      /\ \A m \in DOMAIN h : a[m] = h[m]
  BY DEF Allocated
<1>2. [data |-> d, next |-> NULL, prev |-> NULL] \in Node
  BY DEF Node, Pointer
<1> HIDE DEF a
<1>3. HeapOK(a)
  BY <1>1, <1>2 DEF HeapOK
<1> QED
  BY <1>1, <1>3 DEF a

\* A node created is one more the program holds, one destroyed one less.
LEMMA HeldMore ==
  ASSUME NEW h, NEW ls, NEW hd, NEW c, HeapOK(h), Sound(h, ls, hd, c),
         NEW n \in Nodes \ DOMAIN h, NEW d \in Contents
  PROVE  Sound(Allocated(h, n, d), ls, hd \union {n}, c)
<1> DEFINE h2 == Allocated(h, n, d)
<1> HIDE DEF h2
<1>0. /\ DOMAIN h2 = DOMAIN h \union {n}
      /\ h2[n] = [data |-> d, next |-> NULL, prev |-> NULL]
      /\ \A m \in DOMAIN h : h2[m] = h[m]
  <2>1. /\ DOMAIN Allocated(h, n, d) = DOMAIN h \union {n}
        /\ Allocated(h, n, d)[n] = [data |-> d, next |-> NULL, prev |-> NULL]
        /\ \A m \in DOMAIN h : Allocated(h, n, d)[m] = h[m]
    BY ONLY HeapOK(h), AllocatedIs
  <2> QED
    BY <2>1 DEF h2
<1>1. /\ DOMAIN h2 = DOMAIN h \union {n} /\ h2[n].next = NULL
      /\ \A m \in DOMAIN h : h2[m] = h[m]
  BY <1>0
<1>2. ASSUME NEW l \in Lists PROVE c[l] \in Seq(DOMAIN h2) /\ IsList(h2, ls[l], c[l])
  <2>1. /\ c[l] \in Seq(DOMAIN h) /\ Len(c[l]) \in Nat
        /\ \A i \in 1..Len(c[l]) : c[l][i] \in DOMAIN h
    BY OnListIs
  <2>2. c[l] \in Seq(DOMAIN h2)
    BY <1>1, <2>1, SeqMonotonic
  <2>3. \A i \in 1..Len(c[l]) : h2[c[l][i]] = h[c[l][i]]
    BY <1>1, <2>1
  <2>4. \A i \in 2..Len(c[l]) : i \in 1..Len(c[l])
    BY <2>1
  <2>5. IsList(h, ls[l], c[l])
    BY DEF Sound
  <2>6. IsList(h2, ls[l], c[l])
    BY <2>3, <2>4, <2>5 DEF IsList
  <2> QED
    BY <2>2, <2>6
<1>3. ~OnList(c, n)
  BY OnListIs DEF OnList
<1>4. c \in [Lists -> Seq(DOMAIN h2)]
  BY <1>2 DEF Sound
<1>5. ASSUME NEW m \in hd \union {n} PROVE m \in DOMAIN h2 /\ h2[m].next = NULL /\ ~OnList(c, m)
  BY <1>1, <1>3 DEF Sound
<1>6. \A m \in DOMAIN h2 : m \in hd \union {n} \/ OnList(c, m)
  BY <1>1 DEF Sound
<1>7. Sound(h2, ls, hd \union {n}, c)
  BY <1>2, <1>4, <1>5, <1>6 DEF Sound
<1> QED
  BY <1>7 DEF h2

LEMMA HeldLess ==
  ASSUME NEW h, NEW ls, NEW hd, NEW c, HeapOK(h), Sound(h, ls, hd, c), NEW n \in hd
  PROVE  HeapOK(Freed(h, {n})) /\ Sound(Freed(h, {n}), ls, hd \ {n}, c)
<1> DEFINE h2 == Freed(h, {n})
<1>1. /\ DOMAIN h2 = DOMAIN h \ {n} /\ h2 = [m \in DOMAIN h2 |-> h2[m]]
      /\ \A m \in DOMAIN h2 : h2[m] = h[m]
  BY DEF Freed
<1> HIDE DEF h2
<1>2. HeapOK(h2)
  BY <1>1 DEF HeapOK
<1>3. ASSUME NEW l \in Lists PROVE c[l] \in Seq(DOMAIN h2) /\ IsList(h2, ls[l], c[l])
  <2>1. /\ c[l] \in Seq(DOMAIN h) /\ Len(c[l]) \in Nat /\ c[l] = [i \in 1..Len(c[l]) |-> c[l][i]]
        /\ \A i \in 1..Len(c[l]) : c[l][i] \in DOMAIN h2
    BY <1>1, OnListIs
  <2>2. c[l] \in Seq(DOMAIN h2)
    <3> DEFINE w == c[l]
               k == Len(w)
               S == DOMAIN h2
    <3>1. k \in Nat /\ w = [i \in 1..k |-> w[i]] /\ \A i \in 1..k : w[i] \in S
      BY <2>1
    <3> HIDE DEF k, w, S
    <3>2. w \in [1..k -> S]
      BY <3>1
    <3>3. w \in Seq(S)
      BY <3>1, <3>2
    <3> QED
      BY <3>3 DEF w, S
  <2>3. \A i \in 1..Len(c[l]) : h2[c[l][i]] = h[c[l][i]]
    BY <1>1, <2>1
  <2>4. \A i \in 2..Len(c[l]) : i \in 1..Len(c[l])
    BY <2>1
  <2>5. IsList(h, ls[l], c[l])
    BY DEF Sound
  <2>6. IsList(h2, ls[l], c[l])
    BY <2>3, <2>4, <2>5 DEF IsList
  <2> QED
    BY <2>2, <2>6
<1>4. c \in [Lists -> Seq(DOMAIN h2)]
  BY <1>3 DEF Sound
<1>5. ASSUME NEW m \in hd \ {n} PROVE m \in DOMAIN h2 /\ h2[m].next = NULL /\ ~OnList(c, m)
  BY <1>1 DEF Sound
<1>6. \A m \in DOMAIN h2 : m \in hd \ {n} \/ OnList(c, m)
  BY <1>1 DEF Sound
<1>7. Sound(h2, ls, hd \ {n}, c)
  BY <1>3, <1>4, <1>5, <1>6 DEF Sound
<1> QED
  BY <1>2, <1>7 DEF h2

\* A list given its first node by byte_list_append_node.
LEMMA NodeAppendedSound ==
  ASSUME NEW h, NEW ls, NEW hd, NEW c, HeapOK(h), Sound(h, ls, hd, c),
         NEW l \in Lists, ls[l].made, ls[l].first = NULL, NEW n \in hd
  PROVE  LET h2 == [h EXCEPT ![n].prev = Wild]
             ls2 == [ls EXCEPT ![l].first = n, ![l].len = @ + 1]
         IN  /\ c[l] = <<>> /\ HeapOK(h2) /\ SameData(h, h2) /\ DOMAIN h2 = DOMAIN h
             /\ Sound(h2, ls2, hd \ {n}, [c EXCEPT ![l] = Append(@, n)])
<1> DEFINE h2 == [h EXCEPT ![n].prev = Wild]
           ls2 == [ls EXCEPT ![l].first = n, ![l].len = @ + 1]
<1>1. n \in DOMAIN h /\ h[n].next = NULL /\ ~OnList(c, n) /\ n \in Nodes
  BY DEF Sound, HeapOK
<1>2. c[l] = <<>>
  <2>1. c[l] # <<>> => c[l][1] \in DOMAIN h
    <3>1. c[l] # <<>> => 1 \in 1..Len(c[l])
      BY OnListIs
    <3> QED
      BY <3>1, OnListIs
  <2> QED
    BY <2>1, OnListIs, PointerAssumption DEF HeapOK
<1>3. DOMAIN h2 = DOMAIN h /\ h2 = [m \in DOMAIN h |-> h2[m]]
      /\ \A m \in DOMAIN h : h2[m] = IF m = n THEN [h[m] EXCEPT !.prev = Wild] ELSE h[m]
  BY DEF HeapOK
<1>4. \A m \in DOMAIN h : h[m] \in Node
  BY DEF HeapOK
<1>5. ls \in [Lists -> ListRecord]
  BY DEF Sound
<1>6. ls2 = [ls EXCEPT ![l].first = IF @ = NULL THEN n ELSE @, ![l].len = @ + 1]
  BY <1>5
<1> HIDE DEF h2, ls2
<1>7. \A m \in DOMAIN h : h2[m] \in Node /\ h2[m].next = h[m].next /\ h2[m].data = h[m].data
                          /\ (m # n => h2[m].prev = h[m].prev)
  BY <1>3, <1>4 DEF Node
<1>8. HeapOK(h2)
  BY <1>3, <1>7 DEF HeapOK
<1>9. DOMAIN h2 = DOMAIN h \union {n} /\ h2[n].next = NULL
  BY <1>1, <1>3, <1>7
<1>10. Grown(h, ls, hd, c, l, n, h2, ls2, hd \ {n})
  BY <1>1, <1>2, <1>6, <1>7, <1>9 DEF Grown
<1>11. Sound(h2, ls2, hd \ {n}, [c EXCEPT ![l] = Append(@, n)])
  BY <1>10, GrownSound
<1>12. SameData(h, h2) /\ DOMAIN h2 = DOMAIN h
  BY <1>3, <1>7 DEF SameData
<1> QED
  BY <1>2, <1>8, <1>11, <1>12 DEF h2, ls2

\* What byte_list_append_data leaves of a memory m of heap and list.
Appends(m, hd, c, l, d, a) ==
    LET n == Fresh(m.heap)
    IN  /\ n \in Nodes \ DOMAIN m.heap
        /\ HeapOK(a.heap)
        /\ Sound(a.heap, a.list, hd, [c EXCEPT ![l] = Append(@, n)])
        /\ DOMAIN a.heap = DOMAIN m.heap \union {n}
        /\ a.heap[n].data = d
        /\ \A k \in DOMAIN m.heap : a.heap[k].data = m.heap[k].data
        /\ \A k \in Lists : a.list[k].made = m.list[k].made

LEMMA AppendDataIs ==
  ASSUME NEW m, NEW hd, NEW c, HeapOK(m.heap), Sound(m.heap, m.list, hd, c),
         NEW l \in Lists, m.list[l].made, HasRoom(m.heap), NEW d \in Contents
  PROVE  Appends(m, hd, c, l, d, AppendData(m, l, d))
<1> DEFINE h == m.heap
           ls == m.list
           w == c[l]
           z == Len(w)
           n == Fresh(h)
           e == EndOf(h, ls[l].first)
           h1 == Allocated(h, n, d)
           h2 == IF ls[l].first = NULL THEN h1 ELSE [h1 EXCEPT ![e].next = n, ![n].prev = e]
           ls2 == [ls EXCEPT ![l].first = IF @ = NULL THEN n ELSE @, ![l].len = @ + 1]
           a == AppendData(m, l, d)
<1>1. a.heap = h2 /\ a.list = ls2
  BY DEF AppendData, Linked
<1>2. n \in Nodes \ DOMAIN h
  BY FreshIs
<1>3. ls \in [Lists -> ListRecord]
  BY DEF Sound
<1>4. /\ z \in Nat /\ (w # <<>> <=> z # 0)
      /\ \A i \in 1..z : w[i] \in DOMAIN h /\ w[i] \in Nodes /\ w[i] # NULL
      /\ ls[l].first = IF w = <<>> THEN NULL ELSE w[1]
  <2>1. w \in Seq(DOMAIN h) /\ z \in Nat
    BY OnListIs
  <2>2. \A i \in 1..z : w[i] \in DOMAIN h
    BY OnListIs
  <2>3. \A i \in 1..z : w[i] \in Nodes /\ w[i] # NULL
    BY <2>2, PointerAssumption DEF HeapOK
  <2> QED
    BY <2>1, <2>2, <2>3, OnListIs
<1>5. ls[l].first = NULL <=> w = <<>>
  <2>1. w # <<>> => 1 \in 1..z
    BY <1>4
  <2> QED
    BY <1>4, <2>1
<1>6. w # <<>> => e = w[z] /\ e \in DOMAIN h /\ e \in Nodes
  <2>1. Walk(h, ls[l].first) = w
    BY Walked
  <2>2. e = w[z]
    BY <2>1 DEF EndOf
  <2>3. w # <<>> => z \in 1..z
    BY <1>4
  <2> HIDE DEF e, w, z
  <2> QED
    BY <1>4, <2>2, <2>3
<1>7. ~OnList(c, n) /\ n \notin hd
  <2>1. ~OnList(c, n)
    BY <1>2, OnListIs DEF OnList
  <2> QED
    BY <1>2, <2>1 DEF Sound
<1>8. /\ HeapOK(h1) /\ DOMAIN h1 = DOMAIN h \union {n}
      /\ h1[n] = [data |-> d, next |-> NULL, prev |-> NULL]
      /\ \A k \in DOMAIN h : h1[k] = h[k]
  BY <1>2, AllocatedIs
<1> HIDE DEF e, n, h1
<1>9. \A k \in DOMAIN h1 : h1[k] \in Node
  BY <1>8 DEF HeapOK
<1>10. CASE w = <<>>
  <2>1. h2 = h1
    BY <1>5, <1>10
  <2> HIDE DEF h2, ls2, a
  <2>2. Grown(h, ls, hd, c, l, n, h2, ls2, hd)
    <3>1. h2[n].next = NULL /\ DOMAIN h2 = DOMAIN h \union {n}
      BY <1>8, <2>1
    <3>2. \A k \in DOMAIN h \ {n} : h2[k].prev = h[k].prev /\ h2[k].next = h[k].next
      BY <1>8, <2>1
    <3> QED
      BY <1>2, <1>7, <1>10, <3>1, <3>2 DEF Grown, ls2
  <2>3. Sound(h2, ls2, hd, [c EXCEPT ![l] = Append(@, n)])
    BY <2>2, GrownSound
  <2>4. \A k \in Lists : ls2[k].made = ls[k].made
    BY <1>3 DEF ls2, ListRecord
  <2>5. h2[n].data = d /\ \A k \in DOMAIN h : h2[k].data = h[k].data
    BY <1>8, <2>1
  <2>6. Appends(m, hd, c, l, d, a)
    BY <1>1, <1>2, <1>8, <2>1, <2>3, <2>4, <2>5 DEF Appends, n
  <2> QED
    BY <2>6 DEF a
<1>11. CASE w # <<>>
  <2>1. h2 = [h1 EXCEPT ![e].next = n, ![n].prev = e]
    BY <1>5, <1>11
  <2>2. e = w[z] /\ e \in DOMAIN h /\ e # n /\ e \in Nodes
    BY <1>2, <1>6, <1>11
  <2> HIDE DEF h2, ls2, a
  <2>3. e \in DOMAIN h1 /\ n \in DOMAIN h1 /\ n \in Pointer /\ e \in Pointer \union {Wild}
    BY <1>2, <1>8, <2>2 DEF Pointer
  <2>4. Rewired(h1, [h1 EXCEPT ![e].next = n, ![n].prev = e], e, n, n, e)
    BY <1>8, <2>3, BothWritten
  <2>5. Rewired(h1, h2, e, n, n, e)
    BY <2>1, <2>4
  <2>6. HeapOK(h2) /\ DOMAIN h2 = DOMAIN h1
        /\ \A k \in DOMAIN h1 : /\ h2[k].data = h1[k].data
                                /\ h2[k].next = IF k = e THEN n ELSE h1[k].next
                                /\ h2[k].prev = IF k = n THEN e ELSE h1[k].prev
    BY <2>5 DEF Rewired
  <2>7. h2[n].prev = e
    BY <2>3, <2>6
  <2>8. /\ h2[n].next = NULL /\ h2[n].data = d /\ DOMAIN h2 = DOMAIN h \union {n}
    BY <1>8, <2>2, <2>3, <2>6
  <2>9. \A k \in DOMAIN h : /\ h2[k].prev = h[k].prev /\ h2[k].data = h[k].data
                            /\ h2[k].next = IF k = e THEN n ELSE h[k].next
    BY <1>2, <1>8, <2>6
  <2>10. Grown(h, ls, hd, c, l, n, h2, ls2, hd)
    <3>1. \A k \in DOMAIN h \ {n} :
            /\ h2[k].prev = h[k].prev
            /\ h2[k].next = IF c[l] # <<>> /\ k = c[l][Len(c[l])] THEN n ELSE h[k].next
      BY <1>11, <2>2, <2>9
    <3>2. c[l] # <<>> => h2[n].prev = c[l][Len(c[l])]
      BY <2>2, <2>7
    <3> QED
      BY <1>2, <1>7, <2>8, <3>1, <3>2 DEF Grown, ls2
  <2>11. Sound(h2, ls2, hd, [c EXCEPT ![l] = Append(@, n)])
    BY <2>10, GrownSound
  <2>12. \A k \in Lists : ls2[k].made = ls[k].made
    BY <1>3 DEF ls2, ListRecord
  <2>13. Appends(m, hd, c, l, d, a)
    BY <1>1, <1>2, <2>6, <2>8, <2>9, <2>11, <2>12 DEF Appends, n
  <2> QED
    BY <2>13 DEF a
<1> QED
  BY <1>10, <1>11

---------------------------------------------------------------------------
\* The removals.

LEMMA FreedIs ==
  ASSUME NEW h, HeapOK(h), NEW S
  PROVE  /\ HeapOK(Freed(h, S)) /\ DOMAIN Freed(h, S) = DOMAIN h \ S
         /\ \A m \in DOMAIN h \ S : Freed(h, S)[m] = h[m]
<1> DEFINE f == Freed(h, S)
<1>1. /\ DOMAIN f = DOMAIN h \ S /\ f = [m \in DOMAIN f |-> f[m]]
      /\ \A m \in DOMAIN h \ S : f[m] = h[m]
  BY DEF Freed
<1> HIDE DEF f
<1>2. HeapOK(f)
  BY <1>1 DEF HeapOK
<1> QED
  BY <1>1, <1>2 DEF f

\* A list, with its ends.
LEMMA EndsAre ==
  ASSUME NEW h, NEW ls, NEW hd, NEW c, HeapOK(h), Sound(h, ls, hd, c), NEW l \in Lists
  PROVE  /\ Len(c[l]) \in Nat /\ ls[l].len = Len(c[l])
         /\ ls[l].first = NULL <=> Len(c[l]) = 0
         /\ Len(c[l]) # 0 => ls[l].first = c[l][1] /\ EndOf(h, ls[l].first) = c[l][Len(c[l])]
         /\ \A i \in 1..Len(c[l]) : c[l][i] \in DOMAIN h /\ c[l][i] \in Nodes /\ c[l][i] # NULL
<1> DEFINE w == c[l]
           z == Len(w)
<1>1. w \in Seq(DOMAIN h) /\ z \in Nat /\ ls[l].len = z
      /\ \A i \in 1..z : w[i] \in DOMAIN h
      /\ ls[l].first = IF w = <<>> THEN NULL ELSE w[1]
  BY OnListIs
<1>2. w # <<>> <=> z # 0
  BY <1>1
<1>3. \A i \in 1..z : w[i] \in DOMAIN h /\ w[i] \in Nodes /\ w[i] # NULL
  BY <1>1, PointerAssumption DEF HeapOK
<1>4. ls[l].first = NULL <=> z = 0
  <2> HIDE DEF w, z
  <2>0. ls[l].first = IF w = <<>> THEN NULL ELSE w[1]
    BY OnListIs DEF w
  <2>1. CASE z = 0
    BY <1>2, <2>0, <2>1
  <2>2. CASE z # 0
    <3>1. 1 \in 1..z
      BY <1>1, <2>2
    <3>2. w[1] # NULL
      BY <1>3, <3>1
    <3> QED
      BY <1>2, <2>0, <2>2, <3>2
  <2> QED
    BY <2>1, <2>2
<1>5. EndOf(h, ls[l].first) = w[z]
  <2>1. Walk(h, ls[l].first) = w
    BY Walked
  <2> QED
    BY <2>1 DEF EndOf
<1> QED
  BY <1>1, <1>2, <1>3, <1>4, <1>5

\* The only node of a list goes.
LEMMA OnlyRemoved ==
  ASSUME NEW h, NEW ls, NEW hd, NEW c, HeapOK(h), Sound(h, ls, hd, c),
         NEW l \in Lists, ls[l].len = 1
  PROVE  LET h2 == Freed(h, {ls[l].first})
             ls2 == [ls EXCEPT ![l].first = NULL, ![l].len = @ - 1]
         IN  /\ HeapOK(h2) /\ SameData(h, h2) /\ DOMAIN h2 = DOMAIN h \ {c[l][1]}
             /\ Sound(h2, ls2, hd, [c EXCEPT ![l] = Without(@, 1)])
<1> DEFINE w == c[l]
           h2 == Freed(h, {ls[l].first})
           ls2 == [ls EXCEPT ![l].first = NULL, ![l].len = @ - 1]
<1>1. Len(w) = 1 /\ ls[l].first = w[1] /\ w[1] \in DOMAIN h
  <2>0. IsList(h, ls[l], w)
    BY DEF Sound
  <2>1. Len(w) = 1
    BY <2>0 DEF IsList
  <2>2. Len(w) # 0 /\ 1 \in 1..Len(w)
    <3> HIDE DEF w
    <3> QED
      BY <2>1
  <2>3. ls[l].first = w[1]
    BY <2>2, EndsAre
  <2>4. w[1] \in DOMAIN h
    BY <2>2, EndsAre
  <2> QED
    BY <2>1, <2>3, <2>4
<1>2. h[w[1]].next = NULL
  <2>1. 1 \in 1..Len(w)
    BY <1>1
  <2> QED
    BY <1>1, <2>1, OnListIs
<1>3. /\ HeapOK(h2) /\ DOMAIN h2 = DOMAIN h \ {w[1]}
      /\ \A m \in DOMAIN h \ {w[1]} : h2[m] = h[m]
  <2> DEFINE gone == {w[1]}
  <2>1. h2 = Freed(h, gone)
    BY <1>1
  <2> HIDE DEF h2, gone
  <2>2. /\ HeapOK(h2) /\ DOMAIN h2 = DOMAIN h \ gone
        /\ \A m \in DOMAIN h \ gone : h2[m] = h[m]
    BY <2>1, FreedIs
  <2> QED
    BY <2>2 DEF gone
<1> HIDE DEF h2
<1>4. Shrunk(h, ls, c, l, 1, h2, ls2)
  BY <1>1, <1>2, <1>3 DEF Shrunk
<1> HIDE DEF ls2
<1>5. Sound(h2, ls2, hd, [c EXCEPT ![l] = Without(@, 1)])
  BY <1>4, ShrunkSound
<1>6. SameData(h, h2)
  BY <1>3 DEF SameData
<1> QED
  BY <1>3, <1>5, <1>6 DEF h2, ls2

\* The last node of several goes.
LEMMA LastRemoved ==
  ASSUME NEW h, NEW ls, NEW hd, NEW c, HeapOK(h), Sound(h, ls, hd, c),
         NEW l \in Lists, ls[l].len # 0, ls[l].len # 1
  PROVE  LET node == h[EndOf(h, ls[l].first)].prev
             h2 == [Freed(h, {h[node].next}) EXCEPT ![node].next = NULL]
             ls2 == [ls EXCEPT ![l].len = @ - 1]
         IN  /\ HeapOK(h2) /\ SameData(h, h2) /\ DOMAIN h2 = DOMAIN h \ {c[l][Len(c[l])]}
             /\ Sound(h2, ls2, hd, [c EXCEPT ![l] = Without(@, Len(c[l]))])
<1> DEFINE w == c[l]
           z == Len(w)
           node == h[EndOf(h, ls[l].first)].prev
           h1 == Freed(h, {h[node].next})
           h2 == [h1 EXCEPT ![node].next = NULL]
           ls2 == [ls EXCEPT ![l].len = @ - 1]
<1>1. /\ z \in Nat /\ z # 0 /\ z # 1 /\ EndOf(h, ls[l].first) = w[z]
      /\ \A i \in 1..z : w[i] \in DOMAIN h
  <2>1. z # 0 /\ z \in Nat /\ z = ls[l].len
    BY EndsAre
  <2> QED
    BY <2>1, EndsAre
<1>2. z \in 1..z /\ z - 1 \in 1..z /\ z \in 2..z /\ z - 1 # z /\ (z - 1) + 1 = z
  <2> HIDE DEF w, z
  <2> QED
    BY <1>1
<1>3. /\ h[w[z]].next = NULL /\ h[w[z]].prev = w[z - 1]
      /\ h[w[z - 1]].next = w[z] /\ w[z - 1] # w[z]
  <2>1. /\ \A i \in 1..z : h[w[i]].next = IF i = z THEN NULL ELSE w[i + 1]
        /\ \A i \in 2..z : h[w[i]].prev = w[i - 1]
        /\ \A i, j \in 1..z : w[i] = w[j] => i = j
    BY OnListIs
  <2> HIDE DEF w, z
  <2> QED
    BY <1>2, <2>1
<1>4. node = w[z - 1] /\ h[node].next = w[z] /\ node \in DOMAIN h
  BY <1>1, <1>2, <1>3
<1> HIDE DEF node, w, z
<1>5. /\ HeapOK(h1) /\ DOMAIN h1 = DOMAIN h \ {w[z]}
      /\ \A m \in DOMAIN h \ {w[z]} : h1[m] = h[m]
  <2> DEFINE gone == {w[z]}
  <2>1. h1 = Freed(h, gone)
    BY <1>4
  <2> HIDE DEF h1, gone
  <2>2. /\ HeapOK(Freed(h, gone)) /\ DOMAIN Freed(h, gone) = DOMAIN h \ gone
        /\ \A m \in DOMAIN h \ gone : Freed(h, gone)[m] = h[m]
    BY ONLY HeapOK(h), FreedIs
  <2> QED
    BY <2>1, <2>2 DEF gone
<1>6. HeapOK(h1) /\ node \in DOMAIN h1 /\ NULL \in Pointer
  BY <1>3, <1>4, <1>5 DEF Pointer
<1> HIDE DEF h1
<1>7. /\ HeapOK(h2) /\ DOMAIN h2 = DOMAIN h1
      /\ \A k \in DOMAIN h1 : /\ h2[k].data = h1[k].data /\ h2[k].prev = h1[k].prev
                              /\ h2[k].next = IF k = node THEN NULL ELSE h1[k].next
  BY <1>6, NextWritten
<1> HIDE DEF h2
<1>8. ls2 = [ls EXCEPT ![l].first = IF z = 1 THEN h[w[1]].next ELSE @, ![l].len = @ - 1]
  <2>1. ls \in [Lists -> ListRecord] /\ ls[l] \in ListRecord
    BY DEF Sound
  <2>2. ls[l] = [ls[l] EXCEPT !.first = ls[l].first]
    BY <2>1 DEF ListRecord
  <2> QED
    BY <1>1, <2>1, <2>2
<1> HIDE DEF ls2
<1>9. Shrunk(h, ls, c, l, z, h2, ls2)
  <2>1. \A m \in DOMAIN h2 :
          /\ h2[m].next = IF z > 1 /\ m = w[z - 1] THEN h[w[z]].next ELSE h[m].next
          /\ h2[m].prev = h[m].prev
    BY <1>1, <1>3, <1>4, <1>5, <1>7
  <2>2. DOMAIN h2 = DOMAIN h \ {w[z]}
    BY <1>5, <1>7
  <2>3. ~(z < z)
    BY <1>1
  <2> QED
    BY <1>2, <1>8, <2>1, <2>2, <2>3 DEF Shrunk, w, z
<1>10. Sound(h2, ls2, hd, [c EXCEPT ![l] = Without(@, z)])
  BY <1>9, ShrunkSound
<1>11. HeapOK(h2) /\ DOMAIN h2 = DOMAIN h \ {w[z]}
       /\ Sound(h2, ls2, hd, [c EXCEPT ![l] = Without(@, z)])
  BY <1>5, <1>7, <1>10
<1>12. SameData(h, h2)
  BY <1>5, <1>7 DEF SameData
<1> QED
  BY <1>11, <1>12 DEF h2, ls2, h1, node, w, z

\* The first node of several goes.
LEMMA FirstRemoved ==
  ASSUME NEW h, NEW ls, NEW hd, NEW c, HeapOK(h), Sound(h, ls, hd, c),
         NEW l \in Lists, ls[l].len # 0, ls[l].len # 1
  PROVE  LET first == ls[l].first
             second == h[first].next
             h2 == [Freed(h, {first}) EXCEPT ![second].prev = NULL]
             ls2 == [[ls EXCEPT ![l].len = @ - 1] EXCEPT ![l].first = second]
         IN  /\ HeapOK(h2) /\ SameData(h, h2) /\ DOMAIN h2 = DOMAIN h \ {c[l][1]}
             /\ Sound(h2, ls2, hd, [c EXCEPT ![l] = Without(@, 1)])
<1> DEFINE w == c[l]
           z == Len(w)
           first == ls[l].first
           second == h[first].next
           h1 == Freed(h, {first})
           h2 == [h1 EXCEPT ![second].prev = NULL]
           ls2 == [[ls EXCEPT ![l].len = @ - 1] EXCEPT ![l].first = second]
<1>1. z \in Nat /\ z # 0 /\ z # 1
  <2>1. IsList(h, ls[l], w) /\ z \in Nat
    BY OnListIs DEF Sound
  <2> QED
    BY <2>1 DEF IsList
<1>2. first = w[1] /\ \A i \in 1..z : w[i] \in DOMAIN h
  BY <1>1, EndsAre
<1>3. /\ \A i \in 1..z : h[w[i]].next = IF i = z THEN NULL ELSE w[i + 1]
      /\ \A i, j \in 1..z : w[i] = w[j] => i = j
  BY OnListIs
<1> HIDE DEF w, z
<1>4. 1 \in 1..z /\ 2 \in 1..z /\ 1 # z /\ 1 + 1 = 2 /\ 1 < z
  BY <1>1
<1>5. second = w[2] /\ w[1] # w[2] /\ second \in DOMAIN h
  BY <1>2, <1>3, <1>4
<1> HIDE DEF second
<1>6. /\ HeapOK(h1) /\ DOMAIN h1 = DOMAIN h \ {w[1]}
      /\ \A m \in DOMAIN h \ {w[1]} : h1[m] = h[m]
  <2> DEFINE gone == {w[1]}
  <2>1. h1 = Freed(h, gone)
    BY <1>2
  <2> HIDE DEF h1, gone
  <2>2. /\ HeapOK(Freed(h, gone)) /\ DOMAIN Freed(h, gone) = DOMAIN h \ gone
        /\ \A m \in DOMAIN h \ gone : Freed(h, gone)[m] = h[m]
    BY FreedIs
  <2> QED
    BY <2>1, <2>2 DEF gone
<1> HIDE DEF h1
<1>7. HeapOK(h1) /\ second \in DOMAIN h1 /\ NULL \in Pointer \union {Wild}
  BY <1>5, <1>6 DEF Pointer
<1>8. /\ HeapOK(h2) /\ DOMAIN h2 = DOMAIN h1
      /\ \A k \in DOMAIN h1 : /\ h2[k].data = h1[k].data /\ h2[k].next = h1[k].next
                              /\ h2[k].prev = IF k = second THEN NULL ELSE h1[k].prev
  BY <1>7, PrevWritten
<1> HIDE DEF h2, first
<1>9. ls2 = [ls EXCEPT ![l].first = IF 1 = 1 THEN h[w[1]].next ELSE @, ![l].len = @ - 1]
  <2>1. ls \in [Lists -> ListRecord] /\ ls[l] \in ListRecord
    BY DEF Sound
  <2>2. h[w[1]].next = second
    BY <1>2 DEF second
  <2>3. ls2 = [ls EXCEPT ![l] = [[ls[l] EXCEPT !.len = ls[l].len - 1] EXCEPT !.first = second]]
    BY <2>1
  <2>4. [[ls[l] EXCEPT !.len = ls[l].len - 1] EXCEPT !.first = second]
          = [ls[l] EXCEPT !.first = second, !.len = ls[l].len - 1]
    BY <2>1 DEF ListRecord
  <2> QED
    BY <2>1, <2>2, <2>3, <2>4
<1> HIDE DEF ls2
<1>10. Shrunk(h, ls, c, l, 1, h2, ls2)
  <2>1. \A m \in DOMAIN h2 :
          /\ h2[m].next = h[m].next
          /\ m = w[2] \/ h2[m].prev = h[m].prev
    BY <1>5, <1>6, <1>8
  <2>2. DOMAIN h2 = DOMAIN h \ {w[1]}
    BY <1>6, <1>8
  <2>3. ~(1 < 1)
    OBVIOUS
  <2> QED
    BY <1>4, <1>9, <2>1, <2>2, <2>3 DEF Shrunk, w, z
<1>11. HeapOK(h2) /\ DOMAIN h2 = DOMAIN h \ {w[1]}
       /\ Sound(h2, ls2, hd, [c EXCEPT ![l] = Without(@, 1)])
  BY <1>6, <1>8, <1>10, ShrunkSound
<1>12. SameData(h, h2)
  BY <1>6, <1>8 DEF SameData
<1> QED
  BY <1>11, <1>12 DEF h2, ls2, h1, second, first, w

\* A node between two others goes.
LEMMA MiddleRemoved ==
  ASSUME NEW h, NEW ls, NEW hd, NEW c, HeapOK(h), Sound(h, ls, hd, c),
         NEW l \in Lists, NEW i \in 2..(Len(c[l]) - 1)
  PROVE  LET node == h[c[l][i]].prev
             after == h[c[l][i]].next
             h2 == [Freed(h, {h[node].next}) EXCEPT ![node].next = after, ![after].prev = node]
             ls2 == [ls EXCEPT ![l].len = @ - 1]
         IN  /\ HeapOK(h2) /\ SameData(h, h2) /\ DOMAIN h2 = DOMAIN h \ {c[l][i]}
             /\ Sound(h2, ls2, hd, [c EXCEPT ![l] = Without(@, i)])
<1> DEFINE w == c[l]
           z == Len(w)
           node == h[c[l][i]].prev
           after == h[c[l][i]].next
           h1 == Freed(h, {h[node].next})
           h2 == [h1 EXCEPT ![node].next = after, ![after].prev = node]
           ls2 == [ls EXCEPT ![l].len = @ - 1]
<1> SUFFICES /\ HeapOK(h2) /\ SameData(h, h2) /\ DOMAIN h2 = DOMAIN h \ {w[i]}
             /\ Sound(h2, ls2, hd, [c EXCEPT ![l] = Without(@, i)])
  OBVIOUS
<1>1. z \in Nat /\ \A j \in 1..z : w[j] \in DOMAIN h /\ w[j] \in Nodes
  BY EndsAre
<1>2. /\ \A j \in 1..z : h[w[j]].next = IF j = z THEN NULL ELSE w[j + 1]
      /\ \A j \in 2..z : h[w[j]].prev = w[j - 1]
      /\ \A j, k \in 1..z : w[j] = w[k] => j = k
  BY OnListIs
<1>3. i \in 2..(z - 1)
  OBVIOUS
<1>4. node = h[w[i]].prev /\ after = h[w[i]].next
  OBVIOUS
<1> HIDE DEF w, z, node, after
<1>5. /\ i \in 1..z /\ i \in 2..z /\ i - 1 \in 1..z /\ i + 1 \in 1..z
      /\ i # z /\ i - 1 # z /\ (i - 1) + 1 = i /\ i - 1 # i /\ i + 1 # i /\ i - 1 # i + 1
      /\ 1 < i /\ i < z /\ i # 1
  BY <1>1, <1>3
<1>6. node = w[i - 1] /\ after = w[i + 1]
  BY <1>2, <1>4, <1>5
<1>7. h[node].next = w[i] /\ node \in DOMAIN h /\ after \in DOMAIN h /\ node \in Nodes /\ after \in Nodes
  BY <1>1, <1>2, <1>5, <1>6
<1>8. node # w[i] /\ after # w[i] /\ node # after
  BY <1>2, <1>5, <1>6
<1>9. /\ HeapOK(h1) /\ DOMAIN h1 = DOMAIN h \ {w[i]}
      /\ \A m \in DOMAIN h \ {w[i]} : h1[m] = h[m]
  <2> DEFINE gone == {w[i]}
  <2>1. h1 = Freed(h, gone)
    BY <1>7
  <2> HIDE DEF h1, gone
  <2>2. /\ HeapOK(Freed(h, gone)) /\ DOMAIN Freed(h, gone) = DOMAIN h \ gone
        /\ \A m \in DOMAIN h \ gone : Freed(h, gone)[m] = h[m]
    BY FreedIs
  <2> QED
    BY <2>1, <2>2 DEF gone
<1> HIDE DEF h1
<1>10. /\ HeapOK(h1) /\ node \in DOMAIN h1 /\ after \in DOMAIN h1
       /\ after \in Pointer /\ node \in Pointer \union {Wild}
  BY <1>7, <1>8, <1>9 DEF Pointer
<1>11. Rewired(h1, h2, node, after, after, node)
  BY <1>10, BothWritten
<1> HIDE DEF h2
<1>12. /\ HeapOK(h2) /\ DOMAIN h2 = DOMAIN h1
       /\ \A k \in DOMAIN h1 : /\ h2[k].data = h1[k].data
                               /\ h2[k].next = IF k = node THEN after ELSE h1[k].next
                               /\ h2[k].prev = IF k = after THEN node ELSE h1[k].prev
  BY <1>11 DEF Rewired
<1>13. ls2 = [ls EXCEPT ![l].first = IF i = 1 THEN h[w[1]].next ELSE @, ![l].len = @ - 1]
  <2>1. ls \in [Lists -> ListRecord] /\ ls[l] \in ListRecord
    BY DEF Sound
  <2>2. ls[l] = [ls[l] EXCEPT !.first = ls[l].first]
    BY <2>1 DEF ListRecord
  <2> QED
    BY <1>5, <2>1, <2>2
<1> HIDE DEF ls2
<1>14. Shrunk(h, ls, c, l, i, h2, ls2)
  <2>1. \A m \in DOMAIN h2 :
          /\ h2[m].next = IF m = w[i - 1] THEN h[w[i]].next ELSE h[m].next
          /\ m = w[i + 1] \/ h2[m].prev = h[m].prev
    BY <1>4, <1>6, <1>9, <1>12
  <2>2. DOMAIN h2 = DOMAIN h \ {w[i]}
    BY <1>9, <1>12
  <2>3. h2[w[i + 1]].prev = w[i - 1]
    BY <1>6, <1>10, <1>12
  <2> QED
    BY <1>5, <1>13, <2>1, <2>2, <2>3 DEF Shrunk, w, z
<1>15. HeapOK(h2) /\ Sound(h2, ls2, hd, [c EXCEPT ![l] = Without(@, i)])
  BY <1>12, <1>14, ShrunkSound
<1>16. SameData(h, h2)
  BY <1>9, <1>12 DEF SameData
<1> QED
  BY <1>9, <1>12, <1>15, <1>16

---------------------------------------------------------------------------
\* The actions.

\* The node i of the list l goes in this step.
Removes(c, l, i) ==
    /\ i \in 1..Len(c[l])
    /\ HeapOK(heap') /\ SameData(heap, heap') /\ DOMAIN heap' = DOMAIN heap \ {c[l][i]}
    /\ Sound(heap', list', held', [c EXCEPT ![l] = Without(@, i)])
    /\ \A k \in Lists : list'[k].made = list[k].made
    /\ held' = held /\ fate' = fate

LEMMA RemoveEndIs ==
  ASSUME HeapOK(heap), NEW c, Sound(heap, list, held, c), NEW l \in Lists, RemoveEnd(l)
  PROVE  Removes(c, l, Len(c[l]))
<1> DEFINE w == c[l]
           z == Len(w)
           node == heap[EndOf(heap, list[l].first)].prev
           less == list[l].len - 1
           h1 == Freed(heap, {list[l].first})
           ls1 == [list EXCEPT ![l].first = NULL, ![l].len = less]
           h2 == [Freed(heap, {heap[node].next}) EXCEPT ![node].next = NULL]
           ls2 == [list EXCEPT ![l].len = less]
<1>1. /\ list[l].first # NULL /\ held' = held /\ fate' = fate
      /\ list[l].len = 1 => heap' = h1 /\ list' = ls1
      /\ list[l].len # 1 => heap' = h2 /\ list' = ls2
  BY Zenon DEF RemoveEnd, Returns
<1>2. /\ list[l].len = 1 => /\ HeapOK(h1) /\ SameData(heap, h1) /\ DOMAIN h1 = DOMAIN heap \ {w[1]}
                            /\ Sound(h1, ls1, held, [c EXCEPT ![l] = Without(@, 1)])
      /\ list[l].len # 0 /\ list[l].len # 1 =>
            /\ HeapOK(h2) /\ SameData(heap, h2) /\ DOMAIN h2 = DOMAIN heap \ {w[z]}
            /\ Sound(h2, ls2, held, [c EXCEPT ![l] = Without(@, z)])
  BY Zenon, OnlyRemoved, LastRemoved
<1>3. list \in [Lists -> ListRecord]
  BY DEF Sound
<1>4. \A k \in Lists : ls1[k].made = list[k].made /\ ls2[k].made = list[k].made
  <2> HIDE DEF less
  <2> QED
    BY <1>3 DEF ListRecord
<1> HIDE DEF h1, h2, ls1, ls2
<1>5. list[l].len = z /\ z \in Nat /\ z # 0
  <2>1. list[l].len = z /\ z \in Nat
    BY EndsAre
  <2>2. list[l].first = NULL <=> z = 0
    BY EndsAre
  <2> HIDE DEF z
  <2>3. list[l].first # NULL
    BY <1>1
  <2> QED
    BY <2>1, <2>2, <2>3
<1> HIDE DEF z
<1>6. z \in 1..z
  BY <1>5
<1>7. CASE z = 1
  BY <1>1, <1>2, <1>4, <1>5, <1>6, <1>7 DEF Removes, z
<1>8. CASE z # 1
  BY <1>1, <1>2, <1>4, <1>5, <1>6, <1>8 DEF Removes, z
<1> QED
  BY <1>7, <1>8 DEF z

LEMMA RemoveIdxIs ==
  ASSUME HeapOK(heap), NEW c, Sound(heap, list, held, c), NEW l \in Lists, NEW idx \in Nat,
         RemoveIdx(l, idx)
  PROVE  \/ \E i \in 1..Len(c[l]) : Removes(c, l, i)
         \/ fate' = "crashed" /\ UNCHANGED <<heap, list, held>>
<1> DEFINE w == c[l]
           z == Len(w)
           first == list[l].first
           second == heap[first].next
           after == NodeAfter(l, idx)
           node == heap[NodeAt(heap, first, idx)].prev
           less == list[l].len - 1
           h1 == [Freed(heap, {first}) EXCEPT ![second].prev = NULL]
           ls1 == [[list EXCEPT ![l].len = less] EXCEPT ![l].first = second]
           h2 == Freed(heap, {first})
           ls2 == [[list EXCEPT ![l].len = less] EXCEPT ![l].first = NULL]
           h3 == [Freed(heap, {heap[node].next}) EXCEPT ![node].next = after, ![after].prev = node]
           ls3 == [list EXCEPT ![l].len = less]
<1>1. /\ list[l].len # 0
      /\ \/ RemoveEnd(l)
         \/ /\ idx < list[l].len /\ held' = held /\ fate' = fate
            /\ \/ list[l].len > 1 /\ heap' = h1 /\ list' = ls1
               \/ list[l].len = 1 /\ heap' = h2 /\ list' = ls2
               \/ Unlinks(l, idx) /\ after # NULL /\ heap' = h3 /\ list' = ls3
         \/ fate' = "crashed" /\ UNCHANGED <<heap, list, held>>
  BY Zenon DEF RemoveIdx, Returns, DiesAs
<1>2. list \in [Lists -> ListRecord] /\ list[l] \in ListRecord
  BY DEF Sound
<1>3. ls2 = [list EXCEPT ![l].first = NULL, ![l].len = @ - 1]
  <2>1. [[list[l] EXCEPT !.len = less] EXCEPT !.first = NULL]
          = [list[l] EXCEPT !.first = NULL, !.len = less]
    BY <1>2 DEF ListRecord
  <2>2. ls2 = [list EXCEPT ![l] = [[list[l] EXCEPT !.len = less] EXCEPT !.first = NULL]]
    BY <1>2
  <2> QED
    BY <1>2, <2>1, <2>2
<1>4. /\ list[l].len # 0 /\ list[l].len # 1 =>
            /\ HeapOK(h1) /\ SameData(heap, h1) /\ DOMAIN h1 = DOMAIN heap \ {w[1]}
            /\ Sound(h1, ls1, held, [c EXCEPT ![l] = Without(@, 1)])
      /\ list[l].len = 1 => /\ HeapOK(h2) /\ SameData(heap, h2) /\ DOMAIN h2 = DOMAIN heap \ {w[1]}
                            /\ Sound(h2, ls2, held, [c EXCEPT ![l] = Without(@, 1)])
  <2>1. list[l].len # 0 /\ list[l].len # 1 =>
            /\ HeapOK(h1) /\ SameData(heap, h1) /\ DOMAIN h1 = DOMAIN heap \ {w[1]}
            /\ Sound(h1, ls1, held, [c EXCEPT ![l] = Without(@, 1)])
    BY Zenon, FirstRemoved
  <2>2. list[l].len = 1 =>
            /\ HeapOK(h2) /\ SameData(heap, h2) /\ DOMAIN h2 = DOMAIN heap \ {w[1]}
            /\ Sound(h2, [list EXCEPT ![l].first = NULL, ![l].len = @ - 1], held,
                     [c EXCEPT ![l] = Without(@, 1)])
    BY Zenon, OnlyRemoved
  <2> HIDE DEF ls2
  <2> QED
    BY <1>3, <2>1, <2>2, Zenon
<1>5. \A k \in Lists : /\ ls1[k].made = list[k].made /\ ls2[k].made = list[k].made
                       /\ ls3[k].made = list[k].made
  <2> HIDE DEF less, second
  <2>1. \A k \in Lists : ls1[k].made = list[k].made
    BY <1>2 DEF ListRecord
  <2>2. \A k \in Lists : ls2[k].made = list[k].made
    BY <1>2 DEF ListRecord
  <2>3. \A k \in Lists : ls3[k].made = list[k].made
    BY <1>2 DEF ListRecord
  <2> QED
    BY <2>1, <2>2, <2>3
<1>6. list[l].len = z /\ z \in Nat
  BY EndsAre
<1>7. ASSUME idx < z, Unlinks(l, idx), after # NULL
      PROVE  /\ idx + 1 \in 1..z
             /\ HeapOK(h3) /\ SameData(heap, h3) /\ DOMAIN h3 = DOMAIN heap \ {w[idx + 1]}
             /\ Sound(h3, ls3, held, [c EXCEPT ![l] = Without(@, idx + 1)])
  <2> DEFINE i == idx + 1
  <2>1. idx \in 0..(z - 1)
    BY <1>6, <1>7
  <2>2. NodeAt(heap, first, idx) = w[i] /\ (idx = z - 1 => after = NULL)
    BY <2>1, AfterIs
  <2>3. z # 1 /\ ~(idx = 0 /\ z > 1)
    BY <1>6, <1>7 DEF Unlinks
  <2>4. i \in 2..(z - 1) /\ i \in 1..z
    <3>1. idx # z - 1
      BY <1>7, <2>2
    <3> HIDE DEF z
    <3> QED
      BY <1>6, <1>7, <2>3, <3>1
  <2>5. node = heap[w[i]].prev /\ after = heap[w[i]].next
    BY <2>2 DEF NodeAfter
  <2> DEFINE g == [Freed(heap, {heap[heap[w[i]].prev].next}) EXCEPT
                      ![heap[w[i]].prev].next = heap[w[i]].next,
                      ![heap[w[i]].next].prev = heap[w[i]].prev]
  <2>6. h3 = g
    <3> HIDE DEF node, after
    <3> QED
      BY <2>5, Zenon
  <2> HIDE DEF i, h3
  <2>7. i \in 2..(Len(c[l]) - 1)
    BY <2>4
  <2>8. /\ HeapOK(g) /\ SameData(heap, g) /\ DOMAIN g = DOMAIN heap \ {w[i]}
        /\ Sound(g, [list EXCEPT ![l].len = @ - 1], held, [c EXCEPT ![l] = Without(@, i)])
    BY <2>7, Zenon, MiddleRemoved
  <2>9. ls3 = [list EXCEPT ![l].len = @ - 1]
    BY Zenon
  <2> HIDE DEF g, ls3
  <2>10. /\ HeapOK(h3) /\ SameData(heap, h3) /\ DOMAIN h3 = DOMAIN heap \ {w[i]}
         /\ Sound(h3, ls3, held, [c EXCEPT ![l] = Without(@, i)])
    BY <2>6, <2>8, <2>9, Zenon
  <2> QED
    BY <2>4, <2>10 DEF i
<1> HIDE DEF h1, h2, h3, ls1, ls2, ls3, after
<1>8. CASE RemoveEnd(l)
  <2>1. Removes(c, l, Len(c[l]))
    BY <1>8, RemoveEndIs
  <2> QED
    BY <2>1 DEF Removes
<1>9. CASE /\ list[l].len > 1 /\ heap' = h1 /\ list' = ls1 /\ held' = held /\ fate' = fate
  <2>1. 1 \in 1..z /\ list[l].len # 0 /\ list[l].len # 1
    <3> HIDE DEF z
    <3> QED
      BY <1>6, <1>9
  <2>2. Removes(c, l, 1)
    BY <1>4, <1>5, <1>9, <2>1 DEF Removes
  <2> QED
    BY <2>1, <2>2
<1>10. CASE /\ list[l].len = 1 /\ heap' = h2 /\ list' = ls2 /\ held' = held /\ fate' = fate
  <2>1. 1 \in 1..z
    BY <1>6, <1>10
  <2>2. Removes(c, l, 1)
    BY <1>4, <1>5, <1>10, <2>1 DEF Removes
  <2> QED
    BY <2>1, <2>2
<1>11. CASE /\ idx < list[l].len /\ Unlinks(l, idx) /\ after # NULL /\ heap' = h3 /\ list' = ls3
            /\ held' = held /\ fate' = fate
  <2> DEFINE i == idx + 1
  <2>1. /\ i \in 1..z
        /\ HeapOK(h3) /\ SameData(heap, h3) /\ DOMAIN h3 = DOMAIN heap \ {w[i]}
        /\ Sound(h3, ls3, held, [c EXCEPT ![l] = Without(@, i)])
    BY <1>6, <1>7, <1>11
  <2> HIDE DEF i
  <2>2. Removes(c, l, i)
    BY <1>5, <1>11, <2>1 DEF Removes
  <2> QED
    BY <2>1, <2>2
<1> QED
  BY <1>1, <1>8, <1>9, <1>10, <1>11

---------------------------------------------------------------------------
\* The turns of byte_list_copy.

\* A turn is given for every number of turns.
IsTurns(f, n, start, dst) ==
    f = [k \in 0..n |-> IF k = 0 THEN start ELSE CopyTurn(f[k - 1], dst)]

LEMMA TurnsExist ==
  ASSUME NEW n \in Nat, NEW start, NEW dst
  PROVE  \E f : IsTurns(f, n, start, dst)
<1> DEFINE U == {m \in Nat : \E f : IsTurns(f, m, start, dst)}
<1>1. 0 \in U
  <2> DEFINE f == [k \in 0..0 |-> start]
  <2>1. \A k \in 0..0 : k = 0
    OBVIOUS
  <2>2. IsTurns(f, 0, start, dst)
    BY <2>1 DEF IsTurns
  <2> QED
    BY <2>2
<1>2. ASSUME NEW m \in U \cap Nat PROVE m + 1 \in U
  <2>1. PICK f : IsTurns(f, m, start, dst)
    BY <1>2
  <2> DEFINE g == [k \in 0..(m + 1) |-> IF k = m + 1 THEN CopyTurn(f[m], dst) ELSE f[k]]
  <2>2. \A k \in 0..(m + 1) : k # m + 1 => k \in 0..m
    OBVIOUS
  <2>3. g[m] = f[m] /\ m + 1 # 0 /\ (m + 1) - 1 = m /\ m + 1 \in Nat
    OBVIOUS
  <2>4. \A k \in 0..m : f[k] = IF k = 0 THEN start ELSE CopyTurn(f[k - 1], dst)
    BY <2>1 DEF IsTurns
  <2>5. ASSUME NEW k \in 0..(m + 1) PROVE g[k] = IF k = 0 THEN start ELSE CopyTurn(g[k - 1], dst)
    <3>1. CASE k = m + 1
      BY <2>3, <3>1
    <3>2. CASE k # m + 1 /\ k # 0
      <4>1. k \in 0..m /\ k - 1 \in 0..(m + 1) /\ k - 1 # m + 1
        BY <2>2, <3>2
      <4>2. g[k] = f[k] /\ g[k - 1] = f[k - 1]
        BY <3>2, <4>1
      <4> QED
        BY <2>4, <3>2, <4>1, <4>2
    <3>3. CASE k # m + 1 /\ k = 0
      <4>1. k \in 0..m /\ g[k] = f[k]
        BY <2>2, <3>3
      <4> QED
        BY <2>4, <3>3, <4>1
    <3> QED
      BY <3>1, <3>2, <3>3
  <2>6. g = [k \in 0..(m + 1) |-> g[k]]
    OBVIOUS
  <2> HIDE DEF g
  <2>7. IsTurns(g, m + 1, start, dst)
    BY <2>5, <2>6 DEF IsTurns
  <2> QED
    BY <2>3, <2>7
<1> HIDE DEF U
<1>3. n \in U
  BY <1>1, <1>2, SetInduction
<1> QED
  BY <1>3 DEF U

\* A node of a list, one of the program's own: what is behind it is allocated.
LEMMA NextAllocated ==
  ASSUME NEW h, NEW ls, NEW hd, NEW c, Sound(h, ls, hd, c), NEW n \in DOMAIN h
  PROVE  h[n].next = NULL \/ h[n].next \in DOMAIN h
<1>1. CASE n \in hd
  BY <1>1 DEF Sound
<1>2. CASE n \notin hd
  <2>1. OnList(c, n)
    BY <1>2 DEF Sound
  <2>2. PICK l \in Lists : \E i \in 1..Len(c[l]) : c[l][i] = n
    BY <2>1 DEF OnList
  <2>3. PICK i \in 1..Len(c[l]) : c[l][i] = n
    BY <2>2
  <2>4. /\ Len(c[l]) \in Nat /\ \A j \in 1..Len(c[l]) : c[l][j] \in DOMAIN h
        /\ h[c[l][i]].next = IF i = Len(c[l]) THEN NULL ELSE c[l][i + 1]
    BY OnListIs
  <2>5. i # Len(c[l]) => i + 1 \in 1..Len(c[l])
    BY <2>4
  <2> QED
    BY <2>3, <2>4, <2>5
<1> QED
  BY <1>1, <1>2

\* A number and what it is after n rounds around n have the same remainder.
LEMMA Remainder ==
  ASSUME NEW n \in Nat, n # 0, NEW q1 \in Int, NEW q2 \in Int, NEW r1 \in 0..(n - 1), NEW r2 \in 0..(n - 1),
         n * q1 + r1 = n * q2 + r2
  PROVE  r1 = r2
<1>1. n * (q1 - q2) = r2 - r1
  OBVIOUS
<1>2. CASE q1 = q2
  BY <1>2
<1>3. CASE q1 > q2
  <2>1. n * (q1 - q2) >= n
    BY <1>3
  <2> QED
    BY <1>1, <2>1
<1>4. CASE q1 < q2
  <2>1. n * (q2 - q1) >= n
    BY <1>4
  <2>2. n * (q2 - q1) = r1 - r2
    BY <1>1
  <2> QED
    BY <2>1, <2>2
<1> QED
  BY <1>2, <1>3, <1>4

LEMMA AroundAgain ==
  ASSUME NEW n \in Nat, n # 0, NEW k \in Nat
  PROVE  /\ k % n \in 0..(n - 1)
         /\ k < n => k % n = k
         /\ ~(k < n) => k % n = (k - n) % n
<1>1. k % n \in 0..(n - 1) /\ k \div n \in Int /\ k = n * (k \div n) + (k % n)
  OBVIOUS
<1>2. ASSUME k < n PROVE k % n = k
  <2>1. k \in 0..(n - 1) /\ k = n * 0 + k
    BY <1>2
  <2> QED
    BY <1>1, <2>1, Remainder
<1>3. ASSUME ~(k < n) PROVE k % n = (k - n) % n
  <2> DEFINE j == k - n
  <2>1. j % n \in 0..(n - 1) /\ j \div n \in Int /\ j = n * (j \div n) + (j % n)
    BY <1>3
  <2>2. k = n * ((j \div n) + 1) + (j % n)
    <3>1. k = j + n
      OBVIOUS
    <3>2. n * ((j \div n) + 1) = n * (j \div n) + n
      BY <2>1
    <3> QED
      BY <2>1, <3>1, <3>2
  <2> DEFINE q1 == k \div n
             r1 == k % n
             q2 == (j \div n) + 1
             r2 == j % n
  <2>3. q1 \in Int /\ q2 \in Int /\ r1 \in 0..(n - 1) /\ r2 \in 0..(n - 1)
    BY <1>1, <2>1
  <2>4. n * q1 + r1 = n * q2 + r2
    BY <1>1, <2>2
  <2> HIDE DEF q1, q2, r1, r2
  <2>5. r1 = r2
    BY <2>3, <2>4, Remainder
  <2> QED
    BY <2>5 DEF r1, r2
<1> QED
  BY <1>1, <1>2, <1>3

\* After k turns: dst has the first k nodes of src once more, or goes round
\* in src where it is src.
Copying(m, dst, src, c, e, k) ==
    LET n == Len(c[src])
        z == Len(c[dst])
    IN  /\ HeapOK(m.heap) /\ Sound(m.heap, m.list, held, e)
        /\ \A l \in Lists : m.list[l].made = list[l].made
        /\ DOMAIN heap \subseteq DOMAIN m.heap
        /\ \A x \in DOMAIN heap : m.heap[x].data = heap[x].data
        /\ \A l \in Lists \ {dst} : e[l] = c[l]
        /\ Len(e[dst]) = z + k
        /\ \A i \in 1..z : e[dst][i] = c[dst][i]
        /\ \A i \in 1..k : m.heap[e[dst][z + i]].data = heap[c[src][((i - 1) % n) + 1]].data
        /\ Cardinality(DOMAIN m.heap) = Cardinality(DOMAIN heap) + k
        /\ m.at = IF k < Len(e[src]) THEN e[src][k + 1] ELSE NULL
        /\ (dst = src /\ n # 0) \/ k <= n

LEMMA TurnIs ==
  ASSUME HeapOK(heap), NEW c, Sound(heap, list, held, c), NEW dst \in Lists, NEW src \in Lists,
         list[dst].made, NEW m, NEW e, NEW k \in Nat, Copying(m, dst, src, c, e, k),
         m.at # NULL, HasRoom(m.heap)
  PROVE  \E e2 : Copying(CopyTurn(m, dst), dst, src, c, e2, k + 1)
<1> DEFINE n == Len(c[src])
           z == Len(c[dst])
           d == m.heap[m.at].data
           x == Fresh(m.heap)
           a == AppendData(m, dst, d)
           m2 == [heap |-> a.heap, list |-> a.list, at |-> a.heap[m.at].next]
           w2 == Append(e[dst], x)
           e2 == [e EXCEPT ![dst] = w2]
<1>1. /\ n \in Nat /\ z \in Nat
      /\ \A i \in 1..n : c[src][i] \in DOMAIN heap
      /\ \A i \in 1..z : c[dst][i] \in DOMAIN heap
  BY OnListIs
<1>2. /\ HeapOK(m.heap) /\ Sound(m.heap, m.list, held, e)
      /\ \A l \in Lists : m.list[l].made = list[l].made
      /\ DOMAIN heap \subseteq DOMAIN m.heap
      /\ \A y \in DOMAIN heap : m.heap[y].data = heap[y].data
      /\ \A l \in Lists \ {dst} : e[l] = c[l]
      /\ Len(e[dst]) = z + k
      /\ \A i \in 1..z : e[dst][i] = c[dst][i]
      /\ \A i \in 1..k : m.heap[e[dst][z + i]].data = heap[c[src][((i - 1) % n) + 1]].data
      /\ Cardinality(DOMAIN m.heap) = Cardinality(DOMAIN heap) + k
      /\ m.at = IF k < Len(e[src]) THEN e[src][k + 1] ELSE NULL
      /\ (dst = src /\ n # 0) \/ k <= n
  BY DEF Copying
<1>3. HeapOK(m.heap) /\ Sound(m.heap, m.list, held, e) /\ m.list[dst].made
  BY <1>2
<1>4. /\ Len(e[src]) \in Nat /\ Len(e[dst]) \in Nat /\ e[dst] \in Seq(DOMAIN m.heap)
      /\ e[src] \in Seq(DOMAIN m.heap)
      /\ \A i \in 1..Len(e[src]) : e[src][i] \in DOMAIN m.heap
      /\ \A i \in 1..Len(e[dst]) : e[dst][i] \in DOMAIN m.heap
  BY <1>3, OnListIs
<1>5. k < Len(e[src]) /\ m.at = e[src][k + 1]
  BY <1>2
<1>6. k + 1 \in 1..Len(e[src])
  BY <1>4, <1>5
<1>7. m.at \in DOMAIN m.heap
  BY <1>4, <1>5, <1>6
<1>8. d \in Contents
  BY <1>3, <1>7 DEF HeapOK, Node
<1>9. CopyTurn(m, dst) = m2
  BY DEF CopyTurn
<1> HIDE DEF d, n, z
<1>10. Appends(m, held, e, dst, d, a)
  BY <1>3, <1>8, AppendDataIs
<1> HIDE DEF a
<1>11. /\ x \in Nodes \ DOMAIN m.heap
       /\ HeapOK(a.heap)
       /\ Sound(a.heap, a.list, held, e2)
       /\ DOMAIN a.heap = DOMAIN m.heap \union {x}
       /\ a.heap[x].data = d
       /\ \A y \in DOMAIN m.heap : a.heap[y].data = m.heap[y].data
       /\ \A l \in Lists : a.list[l].made = m.list[l].made
  BY <1>10 DEF Appends
<1> HIDE DEF x
<1>12. /\ Len(w2) = Len(e[dst]) + 1 /\ w2[Len(e[dst]) + 1] = x
       /\ \A i \in 1..Len(e[dst]) : w2[i] = e[dst][i]
  <2>1. e[dst] \in Seq(Nodes)
    <3>1. DOMAIN m.heap \subseteq Nodes
      BY <1>3 DEF HeapOK
    <3> QED
      BY <1>4, <3>1, SeqMonotonic
  <2> QED
    BY <1>11, <2>1, AppendProperties
<1>13. e2[dst] = w2 /\ \A l \in Lists \ {dst} : e2[l] = e[l]
  <2>1. e \in [Lists -> Seq(DOMAIN m.heap)]
    BY <1>3 DEF Sound
  <2> QED
    BY <2>1
<1> HIDE DEF e2, w2
<1>14. /\ \A i \in 1..Len(e[src]) : e2[src][i] = e[src][i]
       /\ Len(e2[src]) = Len(e[src]) \/ Len(e2[src]) = Len(e[src]) + 1
  <2>1. CASE dst = src
    BY <1>12, <1>13, <2>1
  <2>2. CASE dst # src
    BY <1>13, <2>2
  <2> QED
    BY <2>1, <2>2
<1>15. a.heap[m.at].next = IF k + 1 < Len(e2[src]) THEN e2[src][(k + 1) + 1] ELSE NULL
  <2>1. Len(e2[src]) \in Nat /\ k + 1 \in 1..Len(e2[src])
    <3> DEFINE p == Len(e[src])
               q == Len(e2[src])
    <3>1. p \in Nat /\ (q = p \/ q = p + 1) /\ k + 1 \in 1..p
      BY <1>4, <1>6, <1>14
    <3> HIDE DEF p, q
    <3>2. q \in Nat /\ k + 1 \in 1..q
      BY <3>1
    <3> QED
      BY <3>2 DEF q
  <2>2. \A i \in 1..Len(e2[src]) :
          a.heap[e2[src][i]].next = IF i = Len(e2[src]) THEN NULL ELSE e2[src][i + 1]
    BY <1>11, OnListIs
  <2>3. e2[src][k + 1] = m.at
    BY <1>5, <1>6, <1>14
  <2>4. k + 1 < Len(e2[src]) <=> k + 1 # Len(e2[src])
    BY <2>1
  <2> QED
    BY <2>1, <2>2, <2>3, <2>4
<1>16. d = heap[c[src][(k % n) + 1]].data
  <2>1. CASE dst # src
    <3>1. e[src] = c[src]
      BY <1>2, <2>1
    <3>2. k < n /\ n # 0 /\ k + 1 \in 1..n
      BY <1>1, <1>5, <3>1 DEF n
    <3>3. k % n = k
      BY <1>1, <3>2, AroundAgain
    <3> QED
      BY <1>1, <1>2, <1>5, <3>1, <3>2, <3>3 DEF d
  <2>2. CASE dst = src /\ k < n
    <3>1. n = z /\ n # 0 /\ k + 1 \in 1..n
      BY <1>1, <2>2 DEF n, z
    <3>2. k % n = k
      BY <1>1, <2>2, <3>1, AroundAgain
    <3>3. e[src][k + 1] = c[src][k + 1]
      BY <1>2, <2>2, <3>1
    <3> QED
      BY <1>1, <1>2, <1>5, <3>1, <3>2, <3>3 DEF d
  <2>3. CASE dst = src /\ ~(k < n)
    <3>1. n = z
      BY <2>3 DEF n, z
    <3>2. n # 0
      <4>1. n = 0 => Len(e[dst]) = k
        BY <1>1, <1>2, <3>1
      <4>2. k < n + k
        BY <1>1, <1>2, <1>4, <1>5, <2>3, <3>1
      <4> QED
        BY <1>1, <4>2
    <3> DEFINE i == (k + 1) - n
    <3>3. i \in 1..k /\ n + i = k + 1 /\ i - 1 = k - n
      BY <1>1, <2>3, <3>2
    <3> HIDE DEF i
    <3>4. m.heap[e[dst][z + i]].data = heap[c[src][((i - 1) % n) + 1]].data
      BY <1>2, <3>3
    <3>5. k % n = (i - 1) % n
      BY <1>1, <2>3, <3>2, <3>3, AroundAgain
    <3>6. e[dst][z + i] = m.at
      BY <1>5, <2>3, <3>1, <3>3
    <3> QED
      BY <3>4, <3>5, <3>6 DEF d
  <2> QED
    BY <2>1, <2>2, <2>3
<1>17. \A i \in 1..(k + 1) : a.heap[e2[dst][z + i]].data = heap[c[src][((i - 1) % n) + 1]].data
  <2>1. ASSUME NEW i \in 1..(k + 1), i = k + 1
        PROVE  a.heap[e2[dst][z + i]].data = heap[c[src][((i - 1) % n) + 1]].data
    <3>1. z + i = Len(e[dst]) + 1 /\ i - 1 = k
      BY <1>1, <1>2, <2>1
    <3>2. e2[dst][z + i] = x
      BY <1>12, <1>13, <3>1
    <3> QED
      BY <1>11, <1>16, <3>1, <3>2
  <2>2. ASSUME NEW i \in 1..(k + 1), i # k + 1
        PROVE  a.heap[e2[dst][z + i]].data = heap[c[src][((i - 1) % n) + 1]].data
    <3>1. z + i \in 1..Len(e[dst]) /\ i \in 1..k
      BY <1>1, <1>2, <2>2
    <3>2. e2[dst][z + i] = e[dst][z + i] /\ e[dst][z + i] \in DOMAIN m.heap
      BY <1>4, <1>12, <1>13, <3>1
    <3>3. m.heap[e[dst][z + i]].data = heap[c[src][((i - 1) % n) + 1]].data
      BY <1>2, <3>1
    <3> QED
      BY <1>11, <3>2, <3>3
  <2> QED
    BY <2>1, <2>2
<1>18. Cardinality(DOMAIN a.heap) = Cardinality(DOMAIN heap) + (k + 1)
  <2>1. IsFiniteSet(DOMAIN m.heap) /\ IsFiniteSet(DOMAIN heap)
    BY <1>3, NodesAssumption, FS_Subset DEF HeapOK
  <2>2. Cardinality(DOMAIN m.heap \union {x}) = Cardinality(DOMAIN m.heap) + 1
    BY <1>11, <2>1, FS_AddElement
  <2>3. Cardinality(DOMAIN heap) \in Nat
    BY <2>1, FS_CardinalityType
  <2>4. Cardinality(DOMAIN m.heap) = Cardinality(DOMAIN heap) + k
    BY <1>2
  <2> QED
    BY <1>11, <2>2, <2>3, <2>4
<1>19. \A l \in Lists \ {dst} : e2[l] = c[l]
  BY <1>2, <1>13
<1>20. Len(e2[dst]) = z + (k + 1) /\ \A i \in 1..z : e2[dst][i] = c[dst][i]
  <2>1. Len(e[dst]) = z + k
    BY <1>2
  <2>2. \A i \in 1..z : i \in 1..Len(e[dst])
    BY <1>1, <2>1
  <2>3. \A i \in 1..z : e2[dst][i] = c[dst][i]
    BY <1>2, <1>12, <1>13, <2>2
  <2>4. Len(e2[dst]) = (z + k) + 1
    BY <1>12, <1>13, <2>1
  <2> QED
    BY <1>1, <2>3, <2>4
<1>21. (dst = src /\ n # 0) \/ k + 1 <= n
  <2>1. CASE dst # src
    BY <1>1, <1>2, <1>5, <2>1 DEF n
  <2>2. CASE dst = src
    <3>1. Len(e[src]) = n + k
      BY <1>2, <2>2 DEF n, z
    <3>2. k < n + k
      BY <1>5, <3>1
    <3> QED
      BY <1>1, <2>2, <3>2
  <2> QED
    BY <2>1, <2>2
<1>22. /\ \A l \in Lists : a.list[l].made = list[l].made
       /\ DOMAIN heap \subseteq DOMAIN a.heap
       /\ \A y \in DOMAIN heap : a.heap[y].data = heap[y].data
  BY <1>2, <1>11
<1>23. m2.heap = a.heap /\ m2.list = a.list /\ m2.at = a.heap[m.at].next
  OBVIOUS
<1> HIDE DEF m2
<1>24. Copying(m2, dst, src, c, e2, k + 1)
  <2>1. /\ HeapOK(m2.heap) /\ Sound(m2.heap, m2.list, held, e2)
        /\ Cardinality(DOMAIN m2.heap) = Cardinality(DOMAIN heap) + (k + 1)
    BY <1>11, <1>18, <1>23
  <2>2. /\ \A l \in Lists : m2.list[l].made = list[l].made
        /\ DOMAIN heap \subseteq DOMAIN m2.heap
        /\ \A y \in DOMAIN heap : m2.heap[y].data = heap[y].data
    BY <1>22, <1>23
  <2>3. \A i \in 1..(k + 1) : m2.heap[e2[dst][z + i]].data = heap[c[src][((i - 1) % n) + 1]].data
    BY <1>17, <1>23
  <2>4. m2.at = IF k + 1 < Len(e2[src]) THEN e2[src][(k + 1) + 1] ELSE NULL
    BY <1>15, <1>23
  <2> QED
    BY <1>19, <1>20, <1>21, <2>1, <2>2, <2>3, <2>4, Zenon DEF Copying, n, z
<1> QED
  BY <1>9, <1>24

\* What the loop leaves: it has come to its end or to the end of memory.
LEMMA CopiedIs ==
  ASSUME HeapOK(heap), NEW c, Sound(heap, list, held, c), NEW dst \in Lists, NEW src \in Lists,
         list[dst].made
  PROVE  \E e : \E k \in Nat :
            /\ Copying(Copied(dst, src), dst, src, c, e, k)
            /\ Copied(dst, src).at = NULL \/ ~HasRoom(Copied(dst, src).heap)
<1> DEFINE N == Cardinality(Nodes)
           start == [heap |-> heap, list |-> list, at |-> list[src].first]
           turn == CHOOSE f : IsTurns(f, N, start, dst)
           Ended(m) == m.at = NULL \/ ~HasRoom(m.heap)
           U == {t \in Nat : t <= N => \E e : \E k \in Nat : /\ Copying(turn[t], dst, src, c, e, k)
                                                             /\ k = t \/ Ended(turn[t])}
<1>1. Copied(dst, src) = turn[N]
  BY Zenon DEF Copied, IsTurns
<1>2. N \in Nat /\ IsFiniteSet(Nodes)
  BY NodesAssumption, FS_CardinalityType
<1> HIDE DEF N
<1>3. turn = [k \in 0..N |-> IF k = 0 THEN start ELSE CopyTurn(turn[k - 1], dst)]
  <2>1. IsTurns(turn, N, start, dst)
    BY <1>2, TurnsExist
  <2> HIDE DEF turn
  <2> QED
    BY <2>1 DEF IsTurns
<1> HIDE DEF turn
<1>4. turn[0] = start /\ \A t \in 0..N : t # 0 => turn[t] = CopyTurn(turn[t - 1], dst)
  <2> HIDE DEF start
  <2>1. \A t \in 0..N : turn[t] = IF t = 0 THEN start ELSE CopyTurn(turn[t - 1], dst)
    BY <1>3
  <2> QED
    BY <1>2, <2>1
<1>5. Copying(start, dst, src, c, c, 0)
  <2>1. start.heap = heap /\ start.list = list /\ start.at = list[src].first
    OBVIOUS
  <2>2. /\ Len(c[src]) \in Nat /\ Len(c[dst]) \in Nat
        /\ list[src].first = NULL <=> Len(c[src]) = 0
        /\ Len(c[src]) # 0 => list[src].first = c[src][1]
    BY EndsAre
  <2>3. Cardinality(DOMAIN heap) \in Nat
    BY <1>2, FS_Subset, FS_CardinalityType DEF HeapOK
  <2> HIDE DEF start
  <2>4. start.at = IF 0 < Len(c[src]) THEN c[src][0 + 1] ELSE NULL
    <3> DEFINE p == Len(c[src])
    <3>1. p \in Nat /\ (list[src].first = NULL <=> p = 0) /\ (p # 0 => list[src].first = c[src][1])
      BY <2>2
    <3> HIDE DEF p
    <3>2. start.at = IF 0 < p THEN c[src][1] ELSE NULL
      BY <2>1, <3>1
    <3> QED
      BY <3>2 DEF p
  <2>5. /\ Len(c[dst]) = Len(c[dst]) + 0 /\ 0 <= Len(c[src])
        /\ Cardinality(DOMAIN heap) = Cardinality(DOMAIN heap) + 0
    <3> DEFINE p == Len(c[src])
               q == Len(c[dst])
               r == Cardinality(DOMAIN heap)
    <3>1. p \in Nat /\ q \in Nat /\ r \in Nat
      BY <2>2, <2>3
    <3> HIDE DEF p, q, r
    <3>2. q = q + 0 /\ 0 <= p /\ r = r + 0
      BY <3>1
    <3> QED
      BY <3>2 DEF p, q, r
  <2>6. \A i \in 1..0 : FALSE
    OBVIOUS
  <2>7. \A i \in 1..0 : start.heap[c[dst][Len(c[dst]) + i]].data
                          = heap[c[src][((i - 1) % Len(c[src])) + 1]].data
    BY <2>6
  <2> QED
    BY <2>1, <2>4, <2>5, <2>7, Zenon DEF Copying
<1>6. 0 \in U
  BY <1>4, <1>5
<1>7. ASSUME NEW t \in U \cap Nat PROVE t + 1 \in U
  <2> SUFFICES ASSUME t + 1 <= N
               PROVE  \E e : \E k \in Nat : /\ Copying(turn[t + 1], dst, src, c, e, k)
                                            /\ k = t + 1 \/ Ended(turn[t + 1])
    OBVIOUS
  <2>1. t \in Nat /\ t <= N
    BY <1>2, <1>7
  <2>2. PICK e : \E k \in Nat : /\ Copying(turn[t], dst, src, c, e, k)
                                /\ k = t \/ Ended(turn[t])
    BY <1>7, <2>1
  <2> PICK k \in Nat : /\ Copying(turn[t], dst, src, c, e, k)
                       /\ k = t \/ Ended(turn[t])
    BY <2>2
  <2>3. turn[t + 1] = CopyTurn(turn[t], dst)
    <3>1. t + 1 \in 0..N /\ t + 1 # 0 /\ (t + 1) - 1 = t
      BY <1>2, <2>1
    <3> QED
      BY <1>4, <3>1
  <2>4. CASE Ended(turn[t])
    <3>1. turn[t + 1] = turn[t]
      BY <2>3, <2>4 DEF CopyTurn
    <3> QED
      BY <2>4, <3>1
  <2>5. CASE ~Ended(turn[t])
    <3>1. k = t /\ turn[t].at # NULL /\ HasRoom(turn[t].heap)
      BY <2>5
    <3>2. \E e2 : Copying(CopyTurn(turn[t], dst), dst, src, c, e2, k + 1)
      BY <3>1, TurnIs
    <3>3. t + 1 \in Nat
      BY <2>1
    <3> QED
      BY <2>3, <3>1, <3>2, <3>3
  <2> QED
    BY <2>4, <2>5
<1> HIDE DEF U
<1>8. N \in U
  BY <1>2, <1>6, <1>7, SetInduction
<1>8a. PICK e : \E k \in Nat : Copying(turn[N], dst, src, c, e, k) /\ (k = N \/ Ended(turn[N]))
  BY <1>2, <1>8 DEF U
<1>9. PICK k \in Nat : Copying(turn[N], dst, src, c, e, k) /\ (k = N \/ Ended(turn[N]))
  BY <1>8a
<1>10. ASSUME k = N PROVE ~HasRoom(turn[N].heap)
  <2> DEFINE D == DOMAIN turn[N].heap
  <2>1. D \subseteq Nodes /\ Cardinality(D) = Cardinality(DOMAIN heap) + k
    BY <1>9 DEF Copying, HeapOK
  <2> HIDE DEF D
  <2>2. Cardinality(DOMAIN heap) \in Nat
    BY <1>2, FS_Subset, FS_CardinalityType DEF HeapOK
  <2>3. Cardinality(D) \in Nat /\ Cardinality(D) <= N /\ (Cardinality(D) = N => D = Nodes)
    BY <1>2, <2>1, FS_Subset, FS_CardinalityType DEF N
  <2>4. D = Nodes
    BY <1>2, <1>10, <2>1, <2>2, <2>3
  <2> QED
    BY <2>4 DEF D, HasRoom
<1>11. Ended(turn[N])
  BY <1>9, <1>10
<1> HIDE DEF Ended
<1>12. Copying(turn[N], dst, src, c, e, k) /\ Ended(turn[N])
  BY <1>9, <1>11
<1> QED
  BY <1>1, <1>12 DEF Ended

---------------------------------------------------------------------------
\* The invariant is kept.

LEMMA StillSound ==
  ASSUME ListInv, fate' \in {"running", "crashed", "undefined"}, HeapOK(heap'),
         NEW c, Sound(heap', list', held', c)
  PROVE  ListInv'
  BY DEF ListInv

LEMMA KnownIs == ASSUME ListInv PROVE Known = DOMAIN heap
  BY InvLosesNothing DEF NothingLeaked, Known

\* New bytes for the node n.
LEMMA OverwriteKeeps ==
  ASSUME ListInv, NEW n \in DOMAIN heap, NEW x \in Contents,
         heap' = [heap EXCEPT ![n].data = x], list' = list, held' = held, fate' = fate
  PROVE  ListInv'
<1>1. PICK c : Sound(heap, list, held, c)
  BY DEF ListInv
<1> DEFINE h2 == [heap EXCEPT ![n].data = x]
<1>2. Overwritten(heap, h2, n, x)
  <2>1. HeapOK(heap)
    BY DEF ListInv
  <2> QED
    BY <2>1, DataChanged
<1>3. heap' = h2
  OBVIOUS
<1> HIDE DEF h2
<1>4. Sound(h2, list, held, c)
  BY <1>1, <1>2, SameLinks DEF Overwritten
<1> QED
  BY <1>2, <1>3, <1>4 DEF ListInv, Overwritten

LEMMA NodesKeep ==
  ASSUME ListInv, \/ \E d \in Appended : NodeCreate(d)
                  \/ \E n \in held : NodeDestroy(n)
                  \/ \E n \in Known : NodeZero(n) \/ \E m \in Known : NodeCopy(n, m)
  PROVE  ListInv'
<1>1. PICK c : Sound(heap, list, held, c)
  BY DEF ListInv
<1>2. HeapOK(heap) /\ fate \in {"running", "crashed", "undefined"}
  BY DEF ListInv
<1>3. ASSUME NEW d \in Appended, NodeCreate(d) PROVE ListInv'
  <2> DEFINE n == Fresh(heap)
  <2>1. /\ HasRoom(heap) /\ heap' = Allocated(heap, n, d) /\ held' = held \union {n}
        /\ list' = list /\ fate' = fate
    BY <1>3 DEF NodeCreate, Returns
  <2>2. n \in Nodes \ DOMAIN heap /\ d \in Contents
    BY <1>2, <2>1, FreshIs, AppendedIs
  <2> HIDE DEF n
  <2>3. HeapOK(Allocated(heap, n, d)) /\ Sound(Allocated(heap, n, d), list, held \union {n}, c)
    BY <1>1, <1>2, <2>2, AllocatedIs, HeldMore
  <2> QED
    BY <1>2, <2>1, <2>3, StillSound
<1>4. ASSUME NEW n \in held, NodeDestroy(n) PROVE ListInv'
  <2>1. heap' = Freed(heap, {n}) /\ held' = held \ {n} /\ list' = list /\ fate' = fate
    BY <1>4 DEF NodeDestroy, Returns
  <2>2. HeapOK(Freed(heap, {n})) /\ Sound(Freed(heap, {n}), list, held \ {n}, c)
    BY <1>1, <1>2, HeldLess
  <2> QED
    BY <1>2, <2>1, <2>2, StillSound
<1>5. \A n \in Known : n \in DOMAIN heap /\ heap[n].data \in Contents
  BY <1>2, KnownIs DEF HeapOK, Node
<1>6. ASSUME NEW n \in Known, NodeZero(n) PROVE ListInv'
  <2> DEFINE x == [i \in DOMAIN heap[n].data |-> 0]
  <2>1. heap' = [heap EXCEPT ![n].data = x] /\ list' = list /\ held' = held /\ fate' = fate
    BY <1>6 DEF NodeZero, Returns
  <2>2. x \in [DOMAIN heap[n].data -> Bytes]
    BY DataAssumption
  <2>3. x \in Contents
    BY <1>5, <2>2, OfContents
  <2> HIDE DEF x
  <2> QED
    BY <1>5, <2>1, <2>3, OverwriteKeeps
<1>7. ASSUME NEW n \in Known, NEW m \in Known, NodeCopy(n, m) PROVE ListInv'
  <2>1. /\ list' = list /\ held' = held /\ fate' = fate
        /\ \/ heap' = [heap EXCEPT ![n].data = heap[m].data]
           \/ \E left \in [DOMAIN heap[m].data -> Bytes] : heap' = [heap EXCEPT ![n].data = left]
    BY <1>7, Zenon DEF NodeCopy, Returns
  <2>2. \A left \in [DOMAIN heap[m].data -> Bytes] : left \in Contents
    BY <1>5, OfContents
  <2>3. PICK x \in Contents : heap' = [heap EXCEPT ![n].data = x]
    BY <1>5, <2>1, <2>2, Zenon
  <2> QED
    BY <1>5, <2>1, <2>3, OverwriteKeeps
<1> QED
  BY <1>3, <1>4, <1>6, <1>7

LEMMA ListsKeep ==
  ASSUME ListInv, NEW l \in Lists, Create(l) \/ Destroy(l) \/ RemoveEnd(l)
  PROVE  ListInv'
<1>1. PICK c : Sound(heap, list, held, c)
  BY DEF ListInv
<1>2. HeapOK(heap) /\ fate \in {"running", "crashed", "undefined"}
  BY DEF ListInv
<1>3. CASE Create(l)
  <2>1. heap' = heap /\ held' = held /\ fate' = fate /\ list' = [list EXCEPT ![l].made = TRUE]
    BY <1>3 DEF Create, Returns
  <2> DEFINE ls2 == [list EXCEPT ![l].made = TRUE]
  <2>2. /\ list \in [Lists -> ListRecord] /\ c \in [Lists -> Seq(DOMAIN heap)]
        /\ \A k \in Lists : IsList(heap, list[k], c[k])
    BY <1>1 DEF Sound
  <2>3. ls2 \in [Lists -> ListRecord]
    BY <2>2 DEF ListRecord
  <2>4. \A k \in Lists : /\ ls2[k].first = list[k].first /\ ls2[k].len = list[k].len
                         /\ ls2[k].made = list[k].made \/ ls2[k].made = TRUE
    BY <2>2 DEF ListRecord
  <2>5. list' = ls2
    BY <2>1
  <2> HIDE DEF ls2
  <2>6. \A k \in Lists : IsList(heap, ls2[k], c[k])
    BY SMTT(30), <2>2, <2>4 DEF IsList
  <2>7. Sound(heap, ls2, held, c)
    BY <1>1, <2>3, <2>6 DEF Sound
  <2> QED
    BY <1>2, <2>1, <2>5, <2>7, StillSound
<1>4. CASE Destroy(l)
  <2> DEFINE ls2 == [list EXCEPT ![l] = [made |-> FALSE, first |-> NULL, len |-> 0]]
  <2>1. /\ DOMAIN heap' = DOMAIN heap \ NodesOf(c[l]) /\ HeapOK(heap')
        /\ \A m \in DOMAIN heap' : heap'[m] = heap[m]
        /\ list' = ls2 /\ held' = held /\ fate' = fate
    BY <1>1, <1>2, <1>4, DestroyIs
  <2>2. Sound(heap', ls2, held, [c EXCEPT ![l] = <<>>])
    BY <1>1, <2>1, EmptiedSound
  <2> QED
    BY <1>2, <2>1, <2>2, StillSound
<1>5. CASE RemoveEnd(l)
  <2>1. Removes(c, l, Len(c[l]))
    BY <1>1, <1>2, <1>5, RemoveEndIs
  <2> QED
    BY <1>2, <2>1, StillSound DEF Removes
<1> QED
  BY <1>3, <1>4, <1>5

LEMMA AppendsKeep ==
  ASSUME ListInv, NEW l \in Lists, \/ \E n \in held : AppendNode(l, n)
                                   \/ \E d \in Appended : AppendBytes(l, d)
  PROVE  ListInv'
<1>1. PICK c : Sound(heap, list, held, c)
  BY DEF ListInv
<1>2. HeapOK(heap) /\ fate \in {"running", "crashed", "undefined"}
  BY DEF ListInv
<1>3. ASSUME NEW n \in held, AppendNode(l, n) PROVE ListInv'
  <2> DEFINE h2 == [heap EXCEPT ![n].prev = Wild]
             ls2 == [list EXCEPT ![l].first = n, ![l].len = @ + 1]
  <2>1. \/ /\ list[l].made /\ list[l].first = NULL
           /\ list' = ls2 /\ heap' = h2 /\ held' = held \ {n} /\ fate' = fate
        \/ fate' = "undefined" /\ UNCHANGED <<heap, list, held>>
    BY <1>3, Zenon DEF AppendNode, Returns, DiesAs, Made
  <2>2. ASSUME list[l].made, list[l].first = NULL
        PROVE  HeapOK(h2) /\ Sound(h2, ls2, held \ {n}, [c EXCEPT ![l] = Append(@, n)])
    BY ZenonT(40), <1>1, <1>2, <2>2, NodeAppendedSound
  <2> HIDE DEF h2, ls2
  <2> QED
    BY <1>1, <1>2, <2>1, <2>2, StillSound
<1>4. ASSUME NEW d \in Appended, AppendBytes(l, d) PROVE ListInv'
  <2> DEFINE m == [heap |-> heap, list |-> list]
             a == AppendData(m, l, d)
  <2>1. /\ list[l].made /\ HasRoom(heap)
        /\ heap' = a.heap /\ list' = a.list /\ held' = held /\ fate' = fate
    BY <1>4, Zenon DEF AppendBytes, Returns, Made
  <2>2. m.heap = heap /\ m.list = list
    OBVIOUS
  <2> HIDE DEF m
  <2>3. HeapOK(m.heap) /\ Sound(m.heap, m.list, held, c) /\ m.list[l].made /\ HasRoom(m.heap)
    BY <1>1, <1>2, <2>1, <2>2
  <2>4. d \in Contents
    BY AppendedIs
  <2>5. Appends(m, held, c, l, d, a)
    BY <2>3, <2>4, AppendDataIs
  <2> HIDE DEF a
  <2>6. HeapOK(a.heap) /\ \E c2 : Sound(a.heap, a.list, held, c2)
    BY <2>5 DEF Appends
  <2> QED
    BY <1>2, <2>1, <2>6, StillSound
<1> QED
  BY <1>3, <1>4

LEMMA RemoveAndCopyKeep ==
  ASSUME ListInv, NEW l \in Lists, \/ \E idx \in 0..Cardinality(Nodes) : RemoveIdx(l, idx)
                                   \/ \E src \in Lists : Copy(l, src)
  PROVE  ListInv'
<1>1. PICK c : Sound(heap, list, held, c)
  BY DEF ListInv
<1>2. HeapOK(heap) /\ fate \in {"running", "crashed", "undefined"}
  BY DEF ListInv
<1>3. ASSUME NEW idx \in 0..Cardinality(Nodes), RemoveIdx(l, idx) PROVE ListInv'
  <2>1. \/ \E i \in 1..Len(c[l]) : Removes(c, l, i)
        \/ fate' = "crashed" /\ UNCHANGED <<heap, list, held>>
    <3>1. idx \in Nat
      OBVIOUS
    <3> QED
      BY <1>1, <1>2, <1>3, <3>1, RemoveIdxIs
  <2>2. ASSUME NEW i \in 1..Len(c[l]), Removes(c, l, i) PROVE ListInv'
    BY <1>2, <2>2, StillSound DEF Removes
  <2>3. ASSUME fate' = "crashed", UNCHANGED <<heap, list, held>> PROVE ListInv'
    BY <1>1, <1>2, <2>3, StillSound
  <2> QED
    BY <2>1, <2>2, <2>3
<1>4. ASSUME NEW src \in Lists, Copy(l, src) PROVE ListInv'
  <2>1. /\ list[l].made /\ held' = held /\ fate' = fate
        /\ heap' = Copied(l, src).heap /\ list' = Copied(l, src).list
    BY <1>4 DEF Copy, Returns, Made
  <2>2. PICK e : \E k \in Nat : Copying(Copied(l, src), l, src, c, e, k)
    BY <1>1, <1>2, <2>1, CopiedIs
  <2>3. HeapOK(heap') /\ Sound(heap', list', held, e)
    BY <2>1, <2>2 DEF Copying
  <2> QED
    BY <1>2, <2>1, <2>3, StillSound
<1> QED
  BY <1>3, <1>4

LEMMA InvKept == ASSUME ListInv, [Next]_vars PROVE ListInv'
<1>1. CASE UNCHANGED vars
  BY <1>1 DEF ListInv, vars
<1>2. ASSUME NEW l \in Lists, \/ Create(l) \/ Destroy(l) \/ RemoveEnd(l)
                              \/ \E n \in held : AppendNode(l, n)
                              \/ \E d \in Appended : AppendBytes(l, d)
                              \/ \E idx \in 0..Cardinality(Nodes) : RemoveIdx(l, idx)
                              \/ \E src \in Lists : Copy(l, src)
      PROVE  ListInv'
  BY <1>2, ListsKeep, AppendsKeep, RemoveAndCopyKeep
<1> QED
  BY <1>1, <1>2, NodesKeep DEF Next

---------------------------------------------------------------------------
LEMMA AlwaysListInv == Spec => []ListInv
<1>1. Init => ListInv
  BY SoundInit
<1>2. ListInv /\ [Next]_vars => ListInv'
  BY InvKept
<1> QED
  BY <1>1, <1>2, PTL DEF Spec

\* The heap, the lists and the counts have their types, the count of a list
\* is never more than the nodes there are, and what the program holds is
\* allocated: nothing freed is followed (list.c:54, :149, :270, :298).
THEOREM ListTypeCorrect == Spec => []ListTypeOK
<1>1. ListInv => ListTypeOK
  BY InvIsTyped
<1> QED
  BY <1>1, AlwaysListInv, PTL

\* However the operations are mixed, the count of each list is the number of
\* nodes behind first, no node comes twice, the next pointers end in NULL and
\* the prev pointers lead back the same way (list.c:159-163, :260, :284).
THEOREM LinksStaySound == Spec => []LinksSound
<1>1. ListInv => LinksSound
  BY InvIsSound
<1> QED
  BY <1>1, AlwaysListInv, PTL

\* Every allocated node is held by the program or on exactly one list: no
\* call loses one, frees one that is on a list, or shares one between lists.
THEOREM NothingIsLost == Spec => []NothingLeaked
<1>1. ListInv => NothingLeaked
  BY InvLosesNothing
<1> QED
  BY <1>1, AlwaysListInv, PTL

\* byte_list_remove_idx writes through NULL exactly where the last of several
\* nodes is to go (list.c:342), whatever the lists have been through.
THEOREM OnlyLastCrashes == Spec => []RemovalsCrash
<1>1. ListInv => RemovalsCrash
  BY InvCrashes
<1> QED
  BY <1>1, AlwaysListInv, PTL

---------------------------------------------------------------------------
\* The lists are the sequences of chunks of ByteSeq.

ChunksAre(h, c) == [l \in Lists |-> ChunksOf(h, c[l])]

\* The state of ByteSeq, in terms of the nodes c of the lists.
LEMMA MappedIs ==
  ASSUME HeapOK(heap), NEW c, Sound(heap, list, held, c)
  PROVE  /\ Seqs = ChunksAre(heap, c)
         /\ MadeLists = {l \in Lists : list[l].made}
         /\ Room = Cardinality(Nodes) - Cardinality(DOMAIN heap)
  BY ChainIs, Zenon DEF Seqs, ChunksAre, MadeLists, Made, Room

LEMMA MappedAfter ==
  ASSUME HeapOK(heap'), NEW c, Sound(heap', list', held', c)
  PROVE  /\ Seqs' = ChunksAre(heap', c)
         /\ MadeLists' = {l \in Lists : list'[l].made}
         /\ Room' = Cardinality(Nodes) - Cardinality(DOMAIN heap')
<1>1. \A l \in Lists : Chain(l)' = c[l]
  BY Walked DEF Chain
<1> QED
  BY <1>1, Zenon DEF Seqs, ChunksAre, MadeLists, Made, Room

\* A chunk for every node.
LEMMA ChunkIs ==
  ASSUME NEW h, NEW ls, NEW hd, NEW c, HeapOK(h), Sound(h, ls, hd, c), NEW l \in Lists
  PROVE  LET s == ChunksAre(h, c)[l]
         IN  /\ s = ChunksOf(h, c[l]) /\ s \in Seq(Contents)
             /\ Len(s) = Len(c[l]) /\ Len(s) \in Nat /\ DOMAIN s = 1..Len(c[l])
             /\ \A i \in 1..Len(c[l]) : s[i] = h[c[l][i]].data
<1> DEFINE n == Len(c[l])
           s == ChunksOf(h, c[l])
<1>1. n \in Nat /\ \A i \in 1..n : h[c[l][i]].data \in Contents
  BY OnListIs DEF HeapOK, Node
<1>2. s = [i \in 1..n |-> h[c[l][i]].data]
  BY DEF ChunksOf
<1> HIDE DEF n, s
<1>3. s \in [1..n -> Contents]
  BY <1>1, <1>2
<1>4. s \in Seq(Contents) /\ Len(s) = n /\ DOMAIN s = 1..n
  BY <1>1, <1>3
<1>5. ChunksAre(h, c)[l] = s
  BY DEF ChunksAre, s
<1> QED
  BY <1>1, <1>2, <1>4, <1>5 DEF n, s

\* One list has other chunks.
LEMMA OthersSame ==
  ASSUME NEW h, NEW h2, NEW c, NEW c2, NEW l \in Lists, NEW x, ChunksOf(h2, c2[l]) = x,
         \A k \in Lists \ {l} : /\ c2[k] = c[k]
                                /\ \A j \in 1..Len(c[k]) : h2[c[k][j]].data = h[c[k][j]].data
  PROVE  ChunksAre(h2, c2) = [ChunksAre(h, c) EXCEPT ![l] = x]
<1>1. ASSUME NEW k \in Lists \ {l} PROVE ChunksOf(h2, c2[k]) = ChunksOf(h, c[k])
  BY Zenon DEF ChunksOf
<1> QED
  BY <1>1, Zenon DEF ChunksAre

\* None has.
LEMMA AllSame ==
  ASSUME NEW h, NEW h2, NEW c,
         \A k \in Lists : \A i \in 1..Len(c[k]) : h2[c[k][i]].data = h[c[k][i]].data
  PROVE  ChunksAre(h2, c) = ChunksAre(h, c)
<1>1. ASSUME NEW k \in Lists PROVE ChunksOf(h2, c[k]) = ChunksOf(h, c[k])
  BY Zenon DEF ChunksOf
<1> QED
  BY <1>1, Zenon DEF ChunksAre

\* What memory has room for.
LEMMA RoomIs ==
  ASSUME NEW h, HeapOK(h)
  PROVE  /\ IsFiniteSet(DOMAIN h) /\ Cardinality(DOMAIN h) \in Nat /\ Cardinality(Nodes) \in Nat
         /\ Cardinality(DOMAIN h) <= Cardinality(Nodes)
         /\ HasRoom(h) <=> Cardinality(DOMAIN h) < Cardinality(Nodes)
<1>1. IsFiniteSet(Nodes) /\ DOMAIN h \in SUBSET Nodes
  BY NodesAssumption DEF HeapOK
<1>2. /\ IsFiniteSet(DOMAIN h) /\ Cardinality(DOMAIN h) <= Cardinality(Nodes)
      /\ Cardinality(Nodes) = Cardinality(DOMAIN h) => Nodes = DOMAIN h
  BY <1>1, FS_Subset
<1>3. Cardinality(DOMAIN h) \in Nat /\ Cardinality(Nodes) \in Nat
  BY <1>1, <1>2, FS_CardinalityType
<1> QED
  BY <1>2, <1>3 DEF HasRoom

Longer(f, l, x) == [f EXCEPT ![l] = Append(@, x)]
Gains(h, h2, n, d) == h2[n].data = d /\ \A m \in DOMAIN h : h2[m].data = h[m].data

\* A node more behind a list is a chunk more.
LEMMA ChunkAppended ==
  ASSUME NEW h, NEW ls, NEW hd, NEW c, HeapOK(h), Sound(h, ls, hd, c), NEW l \in Lists,
         NEW h2, NEW n, NEW d \in Contents, Gains(h, h2, n, d)
  PROVE  ChunksAre(h2, Longer(c, l, n)) = Longer(ChunksAre(h, c), l, d)
<1> DEFINE w == c[l]
           z == Len(w)
           w2 == Append(w, n)
           c2 == [c EXCEPT ![l] = w2]
           s == ChunksOf(h, w)
           s2 == ChunksOf(h2, w2)
<1>0. h2[n].data = d /\ \A m \in DOMAIN h : h2[m].data = h[m].data
  BY DEF Gains
<1>1. z \in Nat /\ w \in Seq(DOMAIN h) /\ \A i \in 1..z : w[i] \in DOMAIN h
  BY OnListIs
<1>2. Len(w2) = z + 1 /\ w2[z + 1] = n /\ \A i \in 1..z : w2[i] = w[i]
  <2>1. w \in Seq(DOMAIN h \union {n})
    BY <1>1
  <2> HIDE DEF w
  <2> QED
    BY <1>1, <2>1
<1>3. s \in Seq(Contents) /\ Len(s) = z /\ \A i \in 1..z : s[i] = h[w[i]].data
  BY ChunkIs
<1>4. s2 = [i \in 1..(z + 1) |-> h2[w2[i]].data]
  BY <1>2 DEF ChunksOf
<1>5. c \in [Lists -> Seq(DOMAIN h)]
  BY DEF Sound
<1>6. c2[l] = w2 /\ \A k \in Lists \ {l} : c2[k] = c[k]
  BY <1>5
<1> HIDE DEF w, z, w2, s, s2, c2
<1>7. s2 = Append(s, d)
  <2>1. /\ Append(s, d) \in Seq(Contents) /\ Len(Append(s, d)) = z + 1
        /\ Append(s, d)[z + 1] = d /\ \A i \in 1..z : Append(s, d)[i] = s[i]
    BY <1>1, <1>3
  <2> DEFINE a == Append(s, d)
  <2> HIDE DEF a
  <2>2. a = [i \in 1..(z + 1) |-> a[i]]
    <3>1. a \in Seq(Contents) /\ Len(a) = z + 1
      BY <2>1 DEF a
    <3> QED
      BY <1>1, <3>1
  <2>4. a[z + 1] = d /\ \A i \in 1..z : a[i] = s[i]
    BY <2>1 DEF a
  <2>3. ASSUME NEW i \in 1..(z + 1) PROVE s2[i] = a[i]
    <3>1. CASE i = z + 1
      BY <1>0, <1>1, <1>2, <1>4, <2>4, <3>1
    <3>2. CASE i \in 1..z
      <4>1. w2[i] = w[i] /\ w[i] \in DOMAIN h /\ s2[i] = h2[w2[i]].data
        BY <1>1, <1>2, <1>4, <3>2
      <4>2. s2[i] = h[w[i]].data
        BY <1>0, <4>1
      <4> QED
        BY <1>3, <2>4, <3>2, <4>2
    <3> QED
      BY <1>1, <3>1, <3>2
  <2> QED
    BY <1>4, <2>2, <2>3 DEF a
<1>8. \A k \in Lists \ {l} : \A i \in 1..Len(c[k]) : h2[c[k][i]].data = h[c[k][i]].data
  BY <1>0, OnListIs
<1>9. ChunksAre(h2, c2) = [ChunksAre(h, c) EXCEPT ![l] = s2]
  <2>1. ChunksOf(h2, c2[l]) = s2
    BY <1>6 DEF s2
  <2>2. \A k \in Lists \ {l} : /\ c2[k] = c[k]
                                 /\ \A i \in 1..Len(c[k]) : h2[c[k][i]].data = h[c[k][i]].data
    BY <1>6, <1>8
  <2> QED
    BY <2>1, <2>2, OthersSame
<1>10. ChunksAre(h, c)[l] = s
  BY DEF ChunksAre, s, w
<1> QED
  BY <1>7, <1>9, <1>10, Zenon DEF c2, w2, w, Longer

\* Memory loses the nodes S.
Loses(h, h2, S) == DOMAIN h2 = DOMAIN h \ S /\ SameData(h, h2)

NodeTaken(c, l, i) == [c EXCEPT ![l] = Without(@, i)]
ChunkTaken(s, l, i) == [s EXCEPT ![l] = Contained!RemoveAt(@, i)]

\* A node less is a chunk less.
LEMMA ChunkRemoved ==
  ASSUME NEW h, NEW ls, NEW hd, NEW c, HeapOK(h), Sound(h, ls, hd, c), NEW l \in Lists,
         NEW i \in 1..Len(c[l]), NEW h2, Loses(h, h2, {c[l][i]})
  PROVE  ChunksAre(h2, NodeTaken(c, l, i)) = ChunkTaken(ChunksAre(h, c), l, i)
<1> DEFINE w == c[l]
           z == Len(w)
           w2 == Without(w, i)
           c2 == [c EXCEPT ![l] = w2]
           s == ChunksOf(h, w)
           s2 == ChunksOf(h2, w2)
           r == Contained!RemoveAt(s, i)
<1>1. /\ z \in Nat /\ \A j \in 1..z : w[j] \in DOMAIN h
      /\ \A j, k \in 1..z : w[j] = w[k] => j = k
  BY OnListIs
<1>2. s \in Seq(Contents) /\ Len(s) = z /\ \A j \in 1..z : s[j] = h[w[j]].data
  BY ChunkIs
<1>3. i \in 1..z
  OBVIOUS
<1>4. c \in [Lists -> Seq(DOMAIN h)]
  BY DEF Sound
<1>5. c2[l] = w2 /\ \A k \in Lists \ {l} : c2[k] = c[k]
  BY <1>4
<1>6. \A m \in DOMAIN h : m # w[i] => h2[m].data = h[m].data
  BY DEF Loses, SameData
<1>7. \A k \in Lists \ {l} : \A j \in 1..Len(c[k]) : h2[c[k][j]].data = h[c[k][j]].data
  <2> SUFFICES ASSUME NEW k \in Lists \ {l}, NEW j \in 1..Len(c[k])
               PROVE  h2[c[k][j]].data = h[c[k][j]].data
    OBVIOUS
  <2>1. c[k][j] # c[l][i]
    BY DEF Sound, Distinct
  <2>2. c[k][j] \in DOMAIN h
    BY OnListIs
  <2> QED
    BY <1>6, <2>1, <2>2
<1> HIDE DEF w, z, s
<1>8. r = SubSeq(s, 1, i - 1) \o SubSeq(s, i + 1, z)
  BY <1>2 DEF Contained!RemoveAt
<1>9. w2 = [j \in 1..(z - 1) |-> IF j < i THEN w[j] ELSE w[j + 1]]
  BY DEF Without, z
<1>10. z - 1 \in Nat
  BY <1>1, <1>3
<1>11. Len(w2) = z - 1
  BY <1>9, <1>10
<1>12. s2 = [j \in 1..(z - 1) |-> h2[w2[j]].data]
  BY <1>11 DEF ChunksOf
<1> HIDE DEF r, w2, s2, c2
<1>13. r \in Seq(Contents) /\ Len(r) = z - 1
       /\ \A j \in 1..(z - 1) : r[j] = IF j < i THEN s[j] ELSE s[j + 1]
  <2> DEFINE a == SubSeq(s, 1, i - 1)
             b == SubSeq(s, i + 1, z)
  <2>1. i - 1 \in 0..Len(s)
    BY <1>1, <1>2, <1>3
  <2>2. a \in Seq(Contents) /\ Len(a) = i - 1 /\ \A j \in 1..(i - 1) : a[j] = s[j]
    BY <1>1, <1>2, <1>3, <2>1, SubSeqProperties
  <2>3. b \in Seq(Contents) /\ Len(b) = z - i /\ \A j \in 1..(z - i) : b[j] = s[j + i]
    <3>1. i + 1 \in 1..(Len(s) + 1) /\ z \in i..Len(s)
      BY <1>1, <1>2, <1>3
    <3> QED
      BY <1>1, <1>2, <1>3, <3>1, SubSeqProperties
  <2> HIDE DEF a, b
  <2>4. r = a \o b
    BY <1>8 DEF a, b
  <2>5. /\ a \o b \in Seq(Contents) /\ Len(a \o b) = Len(a) + Len(b)
        /\ \A j \in 1..(Len(a) + Len(b)) :
              (a \o b)[j] = IF j <= Len(a) THEN a[j] ELSE b[j - Len(a)]
    <3>1. a \in Seq(Contents) /\ b \in Seq(Contents)
      BY <2>2, <2>3
    <3> QED
      BY <3>1, ConcatProperties, Zenon
  <2>6. Len(a) + Len(b) = z - 1
    BY <1>1, <1>3, <2>2, <2>3
  <2>7. ASSUME NEW j \in 1..(z - 1) PROVE r[j] = IF j < i THEN s[j] ELSE s[j + 1]
    <3>1. CASE j < i
      <4>1. j \in 1..(i - 1) /\ j <= Len(a)
        BY <1>3, <2>2, <3>1
      <4> QED
        BY <2>2, <2>4, <2>5, <2>6, <3>1, <4>1
    <3>2. CASE ~(j < i)
      <4>1. ~(j <= Len(a)) /\ j - (i - 1) \in 1..(z - i) /\ (j - (i - 1)) + i = j + 1
        BY <1>1, <1>3, <2>2, <3>2
      <4>2. r[j] = b[j - (i - 1)]
        BY <2>2, <2>4, <2>5, <2>6, <4>1
      <4> QED
        BY <2>3, <3>2, <4>1, <4>2
    <3> QED
      BY <3>1, <3>2
  <2> QED
    BY <2>4, <2>5, <2>6, <2>7
<1>14. ASSUME NEW j \in 1..(z - 1) PROVE s2[j] = r[j]
  <2>1. CASE j < i
    <3>1. j \in 1..z /\ j # i
      BY <1>1, <1>3, <2>1
    <3> QED
      BY <1>1, <1>2, <1>3, <1>6, <1>9, <1>12, <1>13, <2>1, <3>1
  <2>2. CASE ~(j < i)
    <3>1. j + 1 \in 1..z /\ j + 1 # i
      BY <1>1, <1>3, <2>2
    <3> QED
      BY <1>1, <1>2, <1>3, <1>6, <1>9, <1>12, <1>13, <2>2, <3>1
  <2> QED
    BY <2>1, <2>2
<1>15. r = [j \in 1..(z - 1) |-> r[j]]
  BY <1>13
<1>16. s2 = r
  BY <1>12, <1>14, <1>15
<1>17. ChunksAre(h2, c2) = [ChunksAre(h, c) EXCEPT ![l] = s2]
  <2>1. ChunksOf(h2, c2[l]) = s2
    BY <1>5 DEF s2
  <2>2. ASSUME NEW k \in Lists \ {l} PROVE ChunksOf(h2, c2[k]) = ChunksOf(h, c[k])
    <3>1. c2[k] = c[k]
      BY <1>5
    <3>2. \A j \in 1..Len(c[k]) : h2[c[k][j]].data = h[c[k][j]].data
      BY <1>7
    <3> QED
      BY <3>1, <3>2, Zenon DEF ChunksOf
  <2> QED
    BY <2>1, <2>2, Zenon DEF ChunksAre
<1>18. ChunksAre(h, c)[l] = s
  BY DEF ChunksAre, s, w
<1> QED
  BY <1>16, <1>17, <1>18, Zenon DEF r, c2, w2, w, NodeTaken, ChunkTaken

NewChunk(s, l, i, x) == [s EXCEPT ![l][i] = x]

\* New bytes for a node are a new chunk.
LEMMA ChunkWritten ==
  ASSUME NEW h, NEW ls, NEW hd, NEW c, HeapOK(h), Sound(h, ls, hd, c), NEW l \in Lists,
         NEW i \in 1..Len(c[l]), NEW h2, NEW x, Overwritten(h, h2, c[l][i], x)
  PROVE  ChunksAre(h2, c) = NewChunk(ChunksAre(h, c), l, i, x)
<1> DEFINE w == c[l]
           z == Len(w)
           s == ChunksOf(h, w)
           s2 == ChunksOf(h2, w)
<1>1. /\ z \in Nat /\ \A j \in 1..z : w[j] \in DOMAIN h
      /\ \A j, k \in 1..z : w[j] = w[k] => j = k
  BY OnListIs
<1>2. \A m \in DOMAIN h : h2[m].data = IF m = w[i] THEN x ELSE h[m].data
  BY DEF Overwritten
<1>3. ASSUME NEW k \in Lists \ {l} PROVE ChunksOf(h2, c[k]) = ChunksOf(h, c[k])
  <2>1. ASSUME NEW j \in 1..Len(c[k]) PROVE h2[c[k][j]].data = h[c[k][j]].data
    <3>1. c[k][j] # c[l][i]
      BY DEF Sound, Distinct
    <3>2. c[k][j] \in DOMAIN h
      BY OnListIs
    <3> QED
      BY <1>2, <3>1, <3>2
  <2> QED
    BY <2>1, Zenon DEF ChunksOf
<1>4. i \in 1..z
  OBVIOUS
<1>5. s = [j \in 1..z |-> h[w[j]].data] /\ s2 = [j \in 1..z |-> h2[w[j]].data]
  BY DEF ChunksOf
<1>6. ChunksAre(h, c)[l] = s
  BY DEF ChunksAre
<1>7. ChunksOf(h2, c[l]) = s2
  OBVIOUS
<1> HIDE DEF w, z, s, s2
<1>8. s2 = [s EXCEPT ![i] = x]
  BY <1>1, <1>2, <1>4, <1>5
<1>9. ChunksAre(h2, c) = [ChunksAre(h, c) EXCEPT ![l] = s2]
  BY <1>3, <1>7, Zenon DEF ChunksAre
<1> QED
  BY <1>6, <1>8, <1>9, Zenon DEF NewChunk

Emptied(f, l) == [f EXCEPT ![l] = <<>>]

\* A list that is destroyed has none.
LEMMA ChunksGone ==
  ASSUME NEW h, NEW ls, NEW hd, NEW c, HeapOK(h), Sound(h, ls, hd, c), NEW l \in Lists,
         NEW h2, Loses(h, h2, NodesOf(c[l]))
  PROVE  /\ ChunksAre(h2, Emptied(c, l)) = Emptied(ChunksAre(h, c), l)
         /\ Cardinality(DOMAIN h2) = Cardinality(DOMAIN h) - Len(c[l])
<1> DEFINE c2 == [c EXCEPT ![l] = <<>>]
           w == c[l]
           n == Len(c[l])
<1>1. c \in [Lists -> Seq(DOMAIN h)]
  BY DEF Sound
<1>2. c2[l] = <<>> /\ \A k \in Lists \ {l} : c2[k] = c[k]
  BY <1>1
<1>3. n \in Nat /\ (\A i \in 1..n : w[i] \in DOMAIN h) /\ \A i, j \in 1..n : w[i] = w[j] => i = j
  BY OnListIs
<1> HIDE DEF c2
<1>4. ASSUME NEW k \in Lists \ {l} PROVE ChunksOf(h2, c2[k]) = ChunksOf(h, c[k])
  <2>1. ASSUME NEW j \in 1..Len(c[k]) PROVE h2[c[k][j]].data = h[c[k][j]].data
    <3>1. c[k][j] \notin NodesOf(c[l])
      BY DEF Sound, Distinct, NodesOf
    <3>2. c[k][j] \in DOMAIN h
      BY OnListIs
    <3> QED
      BY <3>1, <3>2 DEF Loses, SameData
  <2> QED
    BY <1>2, <2>1, Zenon DEF ChunksOf
<1>5. ChunksOf(h2, c2[l]) = <<>>
  BY <1>2 DEF ChunksOf
<1>6. ChunksAre(h2, c2) = [ChunksAre(h, c) EXCEPT ![l] = <<>>]
  BY <1>4, <1>5, Zenon DEF ChunksAre
<1> DEFINE S == NodesOf(w)
           f == [i \in 1..n |-> w[i]]
<1>7. S \subseteq DOMAIN h /\ S = {w[i] : i \in 1..n}
  BY <1>3 DEF NodesOf
<1> HIDE DEF n, w, S
<1>8. f \in Bijection(1..n, S)
  <2>1. f \in [1..n -> S] /\ \A i \in 1..n : f[i] = w[i]
    BY <1>7
  <2> HIDE DEF f
  <2>2. f \in Injection(1..n, S)
    BY <1>3, <2>1 DEF Injection, IsInjective
  <2>3. f \in Surjection(1..n, S)
    BY <1>7, <2>1 DEF Surjection
  <2> QED
    BY <2>2, <2>3 DEF Bijection
<1>9. Cardinality(S) = n
  <2>1. ExistsBijection(1..n, S)
    BY <1>8, Zenon DEF ExistsBijection
  <2>2. IsFiniteSet(1..n) /\ Cardinality(1..n) = n
    BY <1>3, FS_Interval
  <2> QED
    BY <2>1, <2>2, FS_Bijection
<1>10. IsFiniteSet(DOMAIN h)
  BY RoomIs
<1>11. Cardinality(DOMAIN h \ S) = Cardinality(DOMAIN h) - Cardinality(DOMAIN h \cap S)
  BY <1>10, FS_Difference
<1>12. DOMAIN h \cap S = S
  BY <1>7
<1>13. Cardinality(DOMAIN h2) = Cardinality(DOMAIN h) - n
  <2>1. DOMAIN h2 = DOMAIN h \ S
    BY DEF S, w, Loses
  <2> QED
    BY <1>9, <1>11, <1>12, <2>1
<1> QED
  BY <1>6, <1>13, Zenon DEF c2, n, Emptied

Copies(s, dst, src, n, k) == [s EXCEPT ![dst] = @ \o [i \in 1..k |-> s[src][((i - 1) % n) + 1]]]

\* A copy puts the chunks of src behind those of dst.
LEMMA ChunksCopied ==
  ASSUME HeapOK(heap), NEW c, Sound(heap, list, held, c), NEW dst \in Lists, NEW src \in Lists,
         NEW m, NEW e, NEW k \in Nat, Copying(m, dst, src, c, e, k), Len(c[src]) # 0
  PROVE  ChunksAre(m.heap, e) = Copies(ChunksAre(heap, c), dst, src, Len(c[src]), k)
<1> DEFINE s == ChunksAre(heap, c)
           n == Len(c[src])
           z == Len(c[dst])
           t == ChunksOf(heap, c[dst])
           b == [i \in 1..k |-> s[src][((i - 1) % n) + 1]]
           h2 == m.heap
           t2 == ChunksOf(h2, e[dst])
<1>1. /\ \A x \in DOMAIN heap : h2[x].data = heap[x].data
      /\ \A l \in Lists \ {dst} : e[l] = c[l]
      /\ Len(e[dst]) = z + k
      /\ \A i \in 1..z : e[dst][i] = c[dst][i]
      /\ \A i \in 1..k : h2[e[dst][z + i]].data = heap[c[src][((i - 1) % n) + 1]].data
  BY DEF Copying
<1>2. /\ n \in Nat /\ n # 0 /\ z \in Nat /\ s[dst] = t /\ t \in Seq(Contents) /\ Len(t) = z
      /\ s[src] \in Seq(Contents) /\ Len(s[src]) = n
      /\ \A i \in 1..z : t[i] = heap[c[dst][i]].data
      /\ \A i \in 1..n : s[src][i] = heap[c[src][i]].data
  BY ChunkIs
<1>3. \A i \in 1..z : c[dst][i] \in DOMAIN heap
  BY OnListIs
<1>4. ASSUME NEW l \in Lists \ {dst} PROVE ChunksOf(h2, e[l]) = ChunksOf(heap, c[l])
  <2>1. \A i \in 1..Len(c[l]) : c[l][i] \in DOMAIN heap
    BY OnListIs
  <2>2. \A i \in 1..Len(c[l]) : h2[c[l][i]].data = heap[c[l][i]].data
    BY <1>1, <2>1
  <2> QED
    BY <1>1, <2>2, Zenon DEF ChunksOf
<1>5. t2 = [i \in 1..(z + k) |-> h2[e[dst][i]].data]
  BY <1>1 DEF ChunksOf
<1>6. ChunksOf(h2, e[dst]) = t2
  OBVIOUS
<1> HIDE DEF n, z, t, t2, h2, s
<1>7. ASSUME NEW i \in 1..k
      PROVE  ((i - 1) % n) + 1 \in 1..n /\ b[i] = h2[e[dst][z + i]].data /\ b[i] \in Contents
  <2>1. i - 1 \in Nat
    OBVIOUS
  <2>2. ((i - 1) % n) \in 0..(n - 1)
    BY <1>2, <2>1, AroundAgain
  <2> DEFINE j == ((i - 1) % n) + 1
  <2>3. j \in 1..n
    BY <1>2, <2>2
  <2>4. b[i] = s[src][j] /\ h2[e[dst][z + i]].data = heap[c[src][j]].data
    BY <1>1
  <2> HIDE DEF j
  <2>5. s[src][j] \in Contents /\ s[src][j] = heap[c[src][j]].data
    BY <1>2, <2>3
  <2>6. b[i] = h2[e[dst][z + i]].data /\ b[i] \in Contents
    BY <2>4, <2>5
  <2> QED
    BY <2>3, <2>6 DEF j
<1>8. b \in Seq(Contents) /\ Len(b) = k
  <2>1. b = [i \in 1..k |-> b[i]]
    OBVIOUS
  <2>2. DOMAIN b = 1..k
    OBVIOUS
  <2> HIDE DEF b
  <2>3. b \in [1..k -> Contents]
    BY <1>7, <2>1
  <2> QED
    BY <2>3
<1> HIDE DEF b
<1>9. /\ t \o b \in Seq(Contents) /\ Len(t \o b) = z + k
      /\ \A i \in 1..(z + k) : (t \o b)[i] = IF i <= z THEN t[i] ELSE b[i - z]
  <2>1. /\ t \o b \in Seq(Contents) /\ Len(t \o b) = Len(t) + Len(b)
        /\ \A i \in 1..(Len(t) + Len(b)) : (t \o b)[i] = IF i <= Len(t) THEN t[i] ELSE b[i - Len(t)]
    <3>1. t \in Seq(Contents) /\ b \in Seq(Contents)
      BY <1>2, <1>8
    <3> QED
      BY <3>1, ConcatProperties, Zenon
  <2> QED
    BY <1>2, <1>8, <2>1
<1>10. t \o b = [i \in 1..(z + k) |-> (t \o b)[i]]
  <2> DEFINE r == t \o b
  <2>1. r \in Seq(Contents) /\ Len(r) = z + k
    BY <1>9
  <2> HIDE DEF r
  <2>2. r = [i \in 1..(z + k) |-> r[i]]
    BY <1>2, <2>1
  <2> QED
    BY <2>2 DEF r
<1>11. ASSUME NEW i \in 1..(z + k) PROVE h2[e[dst][i]].data = (t \o b)[i]
  <2>1. CASE i <= z
    <3>1. i \in 1..z
      BY <1>2, <2>1
    <3> QED
      <4>1. (t \o b)[i] = t[i]
        BY <1>9, <2>1
      <4>2. t[i] = heap[c[dst][i]].data /\ c[dst][i] \in DOMAIN heap
        BY <1>2, <1>3, <3>1
      <4>3. e[dst][i] = c[dst][i]
        BY <1>1, <3>1
      <4>4. h2[c[dst][i]].data = heap[c[dst][i]].data
        BY <1>1, <4>2
      <4> QED
        BY <4>1, <4>2, <4>3, <4>4
  <2>2. CASE ~(i <= z)
    <3>1. i - z \in 1..k /\ z + (i - z) = i
      BY <1>2, <2>2
    <3>2. b[i - z] = h2[e[dst][i]].data
      BY <1>7, <3>1
    <3> QED
      BY <1>9, <2>2, <3>2
  <2> QED
    BY <2>1, <2>2
<1>12. t2 = t \o b
  BY <1>5, <1>10, <1>11, Zenon
<1>13. ChunksAre(h2, e) = [s EXCEPT ![dst] = t2]
  BY <1>4, <1>6, Zenon DEF ChunksAre, s
<1>14. ChunksAre(h2, e) = [s EXCEPT ![dst] = @ \o b]
  BY <1>2, <1>12, <1>13, Zenon
<1> QED
  BY <1>14, Zenon DEF s, b, n, h2, Copies

\* The nodes the program makes and frees for itself take room and give it back.
LEMMA NodesMap ==
  ASSUME ListInv, \/ \E d \in Appended : NodeCreate(d)
                  \/ \E n \in held : NodeDestroy(n)
  PROVE  Contained!Hold \/ Contained!Drop
<1>1. PICK c : Sound(heap, list, held, c)
  BY DEF ListInv
<1>2. HeapOK(heap)
  BY DEF ListInv
<1>3. /\ Seqs = ChunksAre(heap, c) /\ MadeLists = {l \in Lists : list[l].made}
      /\ Room = Cardinality(Nodes) - Cardinality(DOMAIN heap)
  BY <1>1, <1>2, MappedIs
<1>4. /\ IsFiniteSet(DOMAIN heap) /\ Cardinality(DOMAIN heap) \in Nat /\ Cardinality(Nodes) \in Nat
      /\ Cardinality(DOMAIN heap) <= Cardinality(Nodes)
      /\ HasRoom(heap) <=> Cardinality(DOMAIN heap) < Cardinality(Nodes)
  BY <1>2, RoomIs
<1>5. ASSUME NEW d \in Appended, NodeCreate(d) PROVE Contained!Hold
  <2> DEFINE n == Fresh(heap)
  <2>1. /\ HasRoom(heap) /\ heap' = Allocated(heap, n, d) /\ held' = held \union {n}
        /\ list' = list
    BY <1>5 DEF NodeCreate, Returns
  <2>2. n \in Nodes \ DOMAIN heap /\ d \in Contents
    BY <1>2, <2>1, FreshIs, AppendedIs
  <2> HIDE DEF n
  <2>3. /\ HeapOK(heap') /\ Sound(heap', list', held', c)
        /\ DOMAIN heap' = DOMAIN heap \union {n}
        /\ \A m \in DOMAIN heap : heap'[m] = heap[m]
    <3> DEFINE h2 == Allocated(heap, n, d)
    <3>1. Sound(h2, list, held \union {n}, c)
      BY <1>1, <1>2, <2>2, HeldMore
    <3>2. HeapOK(h2) /\ DOMAIN h2 = DOMAIN heap \union {n} /\ \A m \in DOMAIN heap : h2[m] = heap[m]
      BY <1>2, <2>2, AllocatedIs
    <3>3. heap' = h2
      BY <2>1
    <3> HIDE DEF h2
    <3> QED
      BY <2>1, <3>1, <3>2, <3>3
  <2>4. Cardinality(DOMAIN heap') = Cardinality(DOMAIN heap) + 1
    BY <1>4, <2>2, <2>3, FS_AddElement
  <2>5. \A l \in Lists : \A i \in 1..Len(c[l]) : heap'[c[l][i]].data = heap[c[l][i]].data
    BY <1>1, <2>3, OnListIs
  <2>6. ChunksAre(heap', c) = ChunksAre(heap, c)
    BY <2>5, AllSame
  <2>7. /\ Seqs' = ChunksAre(heap', c) /\ MadeLists' = {l \in Lists : list'[l].made}
        /\ Room' = Cardinality(Nodes) - Cardinality(DOMAIN heap')
    BY <2>3, MappedAfter
  <2>8. Seqs' = Seqs /\ MadeLists' = MadeLists
    BY <1>3, <2>1, <2>6, <2>7
  <2>9. Room > 0 /\ Room' = Room - 1
    BY <1>3, <1>4, <2>1, <2>4, <2>7
  <2> QED
    BY <2>8, <2>9, Zenon DEF Contained!Hold
<1>6. ASSUME NEW n \in held, NodeDestroy(n) PROVE Contained!Drop
  <2>1. heap' = Freed(heap, {n}) /\ held' = held \ {n} /\ list' = list
    BY <1>6 DEF NodeDestroy, Returns
  <2>2. n \in DOMAIN heap
    BY <1>1 DEF Sound
  <2>3. HeapOK(heap') /\ Sound(heap', list', held', c)
    BY <1>1, <1>2, <2>1, HeldLess
  <2>4. DOMAIN heap' = DOMAIN heap \ {n} /\ \A m \in DOMAIN heap \ {n} : heap'[m] = heap[m]
    BY <1>2, <2>1, FreedIs
  <2>5. Cardinality(DOMAIN heap') = Cardinality(DOMAIN heap) - 1
    BY <1>4, <2>2, <2>4, FS_RemoveElement
  <2>6. \A l \in Lists : \A i \in 1..Len(c[l]) : heap'[c[l][i]].data = heap[c[l][i]].data
    BY <1>1, <2>4, OnListIs
  <2>7. ChunksAre(heap', c) = ChunksAre(heap, c)
    BY <2>6, AllSame
  <2>8. /\ Seqs' = ChunksAre(heap', c) /\ MadeLists' = {l \in Lists : list'[l].made}
        /\ Room' = Cardinality(Nodes) - Cardinality(DOMAIN heap')
    BY <2>3, MappedAfter
  <2>9. Seqs' = Seqs /\ MadeLists' = MadeLists
    BY <1>3, <2>1, <2>7, <2>8
  <2>10. Cardinality(DOMAIN heap') \in Nat
    BY <2>3, RoomIs
  <2>11. Room' = Room + 1 /\ Room' <= Cardinality(Nodes)
    BY <1>3, <1>4, <2>5, <2>8, <2>10
  <2> QED
    BY <2>9, <2>11, Zenon DEF Contained!Drop
<1> QED
  BY <1>5, <1>6

\* The node overwritten is one of a list, or the program's own.
LEMMA WriteMaps ==
  ASSUME ListInv, NEW n \in DOMAIN heap, NEW x \in Contents,
         heap' = [heap EXCEPT ![n].data = x], list' = list, held' = held
  PROVE  \/ \E l \in Lists : \E i \in DOMAIN Seqs[l] : Contained!Overwrite(l, i, x)
         \/ UNCHANGED <<Seqs, MadeLists, Room>>
<1>1. PICK c : Sound(heap, list, held, c)
  BY DEF ListInv
<1>2. HeapOK(heap)
  BY DEF ListInv
<1>3. /\ Seqs = ChunksAre(heap, c) /\ MadeLists = {l \in Lists : list[l].made}
      /\ Room = Cardinality(Nodes) - Cardinality(DOMAIN heap)
  BY <1>1, <1>2, MappedIs
<1> DEFINE h2 == [heap EXCEPT ![n].data = x]
<1>4. Overwritten(heap, h2, n, x)
  BY <1>2, DataChanged
<1>4a. heap' = h2
  OBVIOUS
<1> HIDE DEF h2
<1>5. HeapOK(h2) /\ DOMAIN h2 = DOMAIN heap
      /\ \A m \in DOMAIN heap : h2[m].data = IF m = n THEN x ELSE heap[m].data
  BY <1>4 DEF Overwritten
<1>6. Sound(h2, list, held, c)
  BY <1>1, <1>4, SameLinks DEF Overwritten
<1>7. /\ Seqs' = ChunksAre(h2, c) /\ MadeLists' = {l \in Lists : list[l].made}
      /\ Room' = Cardinality(Nodes) - Cardinality(DOMAIN h2)
  <2>1. HeapOK(heap') /\ Sound(heap', list', held', c)
    BY <1>4a, <1>5, <1>6
  <2> QED
    BY <1>4a, <2>1, MappedAfter
<1>8. MadeLists' = MadeLists /\ Room' = Room
  BY <1>3, <1>5, <1>7
<1>9. CASE OnList(c, n)
  <2>1. PICK l \in Lists : \E i \in 1..Len(c[l]) : c[l][i] = n
    BY <1>9 DEF OnList
  <2>2. PICK i \in 1..Len(c[l]) : c[l][i] = n
    BY <2>1
  <2>3. ChunksAre(h2, c) = NewChunk(ChunksAre(heap, c), l, i, x)
    <3>1. Overwritten(heap, h2, c[l][i], x)
      BY <1>4, <2>2
    <3> QED
      BY <1>1, <1>2, <3>1, ChunkWritten
  <2>4. i \in DOMAIN Seqs[l]
    BY <1>1, <1>2, <1>3, ChunkIs
  <2>5. Seqs' = [Seqs EXCEPT ![l][i] = x]
    BY <1>3, <1>7, <2>3, Zenon DEF NewChunk
  <2>6. Contained!Overwrite(l, i, x)
    BY <1>8, <2>4, <2>5, Zenon DEF Contained!Overwrite
  <2> QED
    BY <2>4, <2>6
<1>10. CASE ~OnList(c, n)
  <2>1. \A l \in Lists : \A i \in 1..Len(c[l]) : h2[c[l][i]].data = heap[c[l][i]].data
    <3> SUFFICES ASSUME NEW l \in Lists, NEW i \in 1..Len(c[l])
                 PROVE  h2[c[l][i]].data = heap[c[l][i]].data
      OBVIOUS
    <3>1. c[l][i] \in DOMAIN heap
      BY <1>1, OnListIs
    <3>2. c[l][i] # n
      BY <1>10 DEF OnList
    <3> QED
      BY <1>5, <3>1, <3>2
  <2>2. ChunksAre(h2, c) = ChunksAre(heap, c)
    BY <2>1, AllSame
  <2> QED
    BY <1>3, <1>7, <1>8, <2>2
<1> QED
  BY <1>9, <1>10

LEMMA WritesMap ==
  ASSUME ListInv, \E n \in Known : NodeZero(n) \/ \E m \in Known : NodeCopy(n, m)
  PROVE  \/ \E l \in Lists : \E d \in Contents : \E i \in DOMAIN Seqs[l] : Contained!Overwrite(l, i, d)
         \/ UNCHANGED <<Seqs, MadeLists, Room>>
<1>1. \A n \in Known : n \in DOMAIN heap /\ heap[n].data \in Contents
  <2>1. HeapOK(heap)
    BY DEF ListInv
  <2> QED
    BY <2>1, KnownIs DEF HeapOK, Node
<1>2. PICK n \in Known : NodeZero(n) \/ \E m \in Known : NodeCopy(n, m)
  OBVIOUS
<1>3. \E x \in Contents : heap' = [heap EXCEPT ![n].data = x] /\ list' = list /\ held' = held
  <2>1. CASE NodeZero(n)
    <3> DEFINE x == [i \in DOMAIN heap[n].data |-> 0]
    <3>1. heap' = [heap EXCEPT ![n].data = x] /\ list' = list /\ held' = held
      BY <2>1 DEF NodeZero
    <3>2. x \in [DOMAIN heap[n].data -> Bytes]
      BY DataAssumption
    <3>3. x \in Contents
      BY <1>1, <1>2, <3>2, OfContents
    <3> HIDE DEF x
    <3> QED
      BY <3>1, <3>3
  <2>2. ASSUME NEW m \in Known, NodeCopy(n, m)
        PROVE  \E x \in Contents : heap' = [heap EXCEPT ![n].data = x] /\ list' = list /\ held' = held
    <3>1. /\ list' = list /\ held' = held
          /\ \/ heap' = [heap EXCEPT ![n].data = heap[m].data]
             \/ \E left \in [DOMAIN heap[m].data -> Bytes] : heap' = [heap EXCEPT ![n].data = left]
      BY <2>2, Zenon DEF NodeCopy
    <3>2. \A left \in [DOMAIN heap[m].data -> Bytes] : left \in Contents
      BY <1>1, OfContents
    <3> QED
      BY <1>1, <3>1, <3>2, Zenon
  <2> QED
    BY <1>2, <2>1, <2>2
<1>4. PICK x \in Contents : heap' = [heap EXCEPT ![n].data = x] /\ list' = list /\ held' = held
  BY <1>3
<1> QED
  BY <1>1, <1>4, WriteMaps, Zenon

\* The state of ByteSeq after a step that leaves the nodes c2 on the lists.
Leaves(c2) ==
    /\ HeapOK(heap')
    /\ Seqs' = ChunksAre(heap', c2) /\ MadeLists' = {k \in Lists : list'[k].made}
    /\ Room' = Cardinality(Nodes) - Cardinality(DOMAIN heap')

LEMMA StepLeaves ==
  ASSUME HeapOK(heap'), NEW c2, Sound(heap', list', held', c2)
  PROVE  Leaves(c2)
  BY MappedAfter DEF Leaves

LEMMA CreateMaps ==
  ASSUME ListInv, ListInv', NEW l \in Lists, Create(l)
  PROVE  Contained!Create(l)
<1>1. PICK c : Sound(heap, list, held, c)
  BY DEF ListInv
<1>2. HeapOK(heap) /\ HeapOK(heap')
  BY DEF ListInv
<1>3. /\ heap' = heap /\ held' = held /\ ~list[l].made /\ list' = [list EXCEPT ![l].made = TRUE]
  BY DEF Create, Returns, Made
<1>4. list \in [Lists -> ListRecord]
  BY <1>1 DEF Sound
<1>5. PICK c2 : Sound(heap', list', held', c2)
  BY DEF ListInv
<1>6. /\ Seqs = ChunksAre(heap, c) /\ MadeLists = {k \in Lists : list[k].made}
      /\ Room = Cardinality(Nodes) - Cardinality(DOMAIN heap)
  BY <1>1, <1>2, MappedIs
<1>7. \A k \in Lists : /\ list'[k].first = list[k].first
                       /\ list'[k].made <=> (k = l \/ list[k].made)
  BY <1>3, <1>4 DEF ListRecord
<1>8. Seqs' = Seqs
  <2>1. \A k \in Lists : Chain(k)' = Chain(k)
    BY <1>3, <1>7 DEF Chain
  <2> QED
    BY <1>3, <2>1, Zenon DEF Seqs
<1>9. Room' = Room
  BY <1>3 DEF Room
<1>10. MadeLists' = MadeLists \union {l} /\ l \notin MadeLists
  BY <1>3, <1>7 DEF MadeLists, Made
<1> QED
  BY <1>8, <1>9, <1>10, Zenon DEF Contained!Create

LEMMA DestroyMaps ==
  ASSUME ListInv, NEW l \in Lists, Destroy(l)
  PROVE  Contained!Destroy(l)
<1>1. PICK c : Sound(heap, list, held, c)
  BY DEF ListInv
<1>2. HeapOK(heap)
  BY DEF ListInv
<1>3. /\ Seqs = ChunksAre(heap, c) /\ MadeLists = {k \in Lists : list[k].made}
      /\ Room = Cardinality(Nodes) - Cardinality(DOMAIN heap)
  BY <1>1, <1>2, MappedIs
<1> DEFINE ls2 == [list EXCEPT ![l] = [made |-> FALSE, first |-> NULL, len |-> 0]]
           c2 == Emptied(c, l)
<1>4. /\ list[l].made
      /\ DOMAIN heap' = DOMAIN heap \ NodesOf(c[l]) /\ HeapOK(heap')
      /\ \A m \in DOMAIN heap' : heap'[m] = heap[m]
      /\ list' = ls2 /\ held' = held
  BY <1>1, <1>2, DestroyIs
<1>5. Sound(heap', ls2, held, c2)
  BY <1>1, <1>4, EmptiedSound DEF Emptied
<1>6. list \in [Lists -> ListRecord]
  BY <1>1 DEF Sound
<1>7. \A k \in Lists : list'[k].made <=> (k # l /\ list[k].made)
  BY <1>4, <1>6 DEF ListRecord
<1>8. /\ ChunksAre(heap', c2) = Emptied(ChunksAre(heap, c), l)
      /\ Cardinality(DOMAIN heap') = Cardinality(DOMAIN heap) - Len(c[l])
  <2>1. Loses(heap, heap', NodesOf(c[l]))
    BY <1>4 DEF Loses, SameData
  <2> QED
    BY <1>1, <1>2, <2>1, ChunksGone
<1> HIDE DEF ls2, c2
<1>9. Leaves(c2)
  BY <1>4, <1>5, StepLeaves
<1>10. Seqs' = [Seqs EXCEPT ![l] = <<>>]
  BY <1>3, <1>8, <1>9, Zenon DEF Leaves, Emptied
<1>11. l \in MadeLists /\ MadeLists' = MadeLists \ {l}
  BY <1>3, <1>4, <1>7, <1>9 DEF Leaves
<1>12. Room' = Room + Len(Seqs[l])
  <2>1. Len(Seqs[l]) = Len(c[l]) /\ Len(c[l]) \in Nat
    BY <1>1, <1>2, <1>3, ChunkIs
  <2>2. Cardinality(DOMAIN heap) \in Nat /\ Cardinality(Nodes) \in Nat
    BY <1>2, RoomIs
  <2>3. Room' = Cardinality(Nodes) - Cardinality(DOMAIN heap')
    BY <1>9 DEF Leaves
  <2> QED
    BY <1>3, <1>8, <2>1, <2>2, <2>3
<1> QED
  BY <1>10, <1>11, <1>12, Zenon DEF Contained!Destroy

LEMMA RemovesMaps ==
  ASSUME HeapOK(heap), NEW c, Sound(heap, list, held, c), NEW l \in Lists, list[l].made,
         NEW i \in Nat, Removes(c, l, i)
  PROVE  i \in DOMAIN Seqs[l] /\ Contained!RemoveChunk(l, i)
<1>1. /\ Seqs = ChunksAre(heap, c) /\ MadeLists = {k \in Lists : list[k].made}
      /\ Room = Cardinality(Nodes) - Cardinality(DOMAIN heap)
  BY MappedIs
<1> DEFINE c2 == NodeTaken(c, l, i)
<1>2. /\ i \in 1..Len(c[l])
      /\ HeapOK(heap') /\ SameData(heap, heap') /\ DOMAIN heap' = DOMAIN heap \ {c[l][i]}
      /\ Sound(heap', list', held', c2)
      /\ \A k \in Lists : list'[k].made = list[k].made
  BY DEF Removes, NodeTaken
<1>3. ChunksAre(heap', c2) = ChunkTaken(ChunksAre(heap, c), l, i)
  <2>1. i \in 1..Len(c[l]) /\ Loses(heap, heap', {c[l][i]})
    BY <1>2 DEF Loses
  <2> QED
    BY <2>1, ChunkRemoved
<1> HIDE DEF c2
<1>4. Leaves(c2)
  BY <1>2, StepLeaves
<1>5. Seqs' = [Seqs EXCEPT ![l] = Contained!RemoveAt(@, i)]
  BY <1>1, <1>3, <1>4, Zenon DEF Leaves, ChunkTaken
<1>6. MadeLists' = MadeLists /\ l \in MadeLists
  BY <1>1, <1>2, <1>4 DEF Leaves
<1>7. i \in DOMAIN Seqs[l]
  BY <1>1, <1>2, ChunkIs
<1>8. Room' = Room + 1
  <2>1. c[l][i] \in DOMAIN heap
    BY <1>2, OnListIs
  <2>2. /\ IsFiniteSet(DOMAIN heap) /\ Cardinality(DOMAIN heap) \in Nat /\ Cardinality(Nodes) \in Nat
    BY RoomIs
  <2>3. Cardinality(DOMAIN heap') = Cardinality(DOMAIN heap) - 1
    <3> DEFINE D == DOMAIN heap
    <3>1. IsFiniteSet(D) /\ c[l][i] \in D
      BY <2>1, <2>2
    <3>2. Cardinality(D \ {c[l][i]}) = Cardinality(D) - 1
      BY ZenonT(40), <3>1, FS_RemoveElement
    <3>3. DOMAIN heap' = D \ {c[l][i]}
      BY <1>2
    <3> QED
      BY <3>2, <3>3
  <2> QED
    BY <1>1, <1>4, <2>2, <2>3 DEF Leaves
<1> QED
  BY <1>5, <1>6, <1>7, <1>8, Zenon DEF Contained!RemoveChunk

\* A chunk comes behind the list l, in a new node or in one the program held.
LEMMA AppendsMap ==
  ASSUME ListInv, NEW l \in Lists, \/ \E n \in held : AppendNode(l, n)
                                   \/ \E d \in Appended : AppendBytes(l, d)
  PROVE  \/ \E d \in Contents : Contained!AppendChunk(l, d)
         \/ UNCHANGED <<Seqs, MadeLists, Room>>
<1>1. PICK c : Sound(heap, list, held, c)
  BY DEF ListInv
<1>2. HeapOK(heap)
  BY DEF ListInv
<1>3. /\ Seqs = ChunksAre(heap, c) /\ MadeLists = {k \in Lists : list[k].made}
      /\ Room = Cardinality(Nodes) - Cardinality(DOMAIN heap)
  BY <1>1, <1>2, MappedIs
<1>4. /\ IsFiniteSet(DOMAIN heap) /\ Cardinality(DOMAIN heap) \in Nat /\ Cardinality(Nodes) \in Nat
      /\ Cardinality(DOMAIN heap) <= Cardinality(Nodes)
      /\ HasRoom(heap) <=> Cardinality(DOMAIN heap) < Cardinality(Nodes)
  BY <1>2, RoomIs
<1>5. ASSUME NEW n \in held, AppendNode(l, n)
      PROVE  \/ \E d \in Contents : Contained!AppendChunk(l, d)
             \/ UNCHANGED <<Seqs, MadeLists, Room>>
  <2> DEFINE h2 == [heap EXCEPT ![n].prev = Wild]
             ls2 == [list EXCEPT ![l].first = n, ![l].len = @ + 1]
             d == heap[n].data
  <2>1. \/ /\ list[l].made /\ list[l].first = NULL
           /\ list' = ls2 /\ heap' = h2 /\ held' = held \ {n}
        \/ UNCHANGED <<heap, list, held>>
    BY <1>5, Zenon DEF AppendNode, Returns, DiesAs, Made
  <2>2. CASE UNCHANGED <<heap, list, held>>
    <3>1. UNCHANGED <<Seqs, MadeLists, Room>>
      BY <2>2 DEF Seqs, MadeLists, Room, Chain, Made
    <3> QED
      BY <3>1
  <2>3. CASE /\ list[l].made /\ list[l].first = NULL
             /\ list' = ls2 /\ heap' = h2 /\ held' = held \ {n}
    <3>1. /\ HeapOK(h2) /\ SameData(heap, h2) /\ DOMAIN h2 = DOMAIN heap
          /\ Sound(h2, ls2, held \ {n}, Longer(c, l, n))
      BY ZenonT(40), <1>1, <1>2, <2>3, NodeAppendedSound DEF Longer
    <3>2. n \in DOMAIN heap
      BY <1>1 DEF Sound
    <3>3. d \in Contents
      BY <1>2, <3>2 DEF HeapOK, Node
    <3>4. list \in [Lists -> ListRecord]
      BY <1>1 DEF Sound
    <3>5. \A k \in Lists : ls2[k].made = list[k].made
      BY <3>4 DEF ListRecord
    <3>6. heap' = h2 /\ list' = ls2 /\ held' = held \ {n}
      BY <2>3
    <3> HIDE DEF h2, ls2
    <3>7. Gains(heap, h2, n, d)
      BY <3>1, <3>2 DEF Gains, SameData
    <3> HIDE DEF d
    <3>8. ChunksAre(h2, Longer(c, l, n)) = Longer(ChunksAre(heap, c), l, d)
      BY <1>1, <1>2, <3>3, <3>7, ChunkAppended
    <3>9. Leaves(Longer(c, l, n))
      <4>1. HeapOK(heap') /\ Sound(heap', list', held', Longer(c, l, n))
        BY <3>1, <3>6
      <4> QED
        BY <4>1, StepLeaves
    <3>10. Seqs' = [Seqs EXCEPT ![l] = Append(@, d)]
      BY <1>3, <3>6, <3>8, <3>9, Zenon DEF Leaves, Longer
    <3>11. MadeLists' = MadeLists /\ l \in MadeLists
      BY <1>3, <2>3, <3>5, <3>6, <3>9 DEF Leaves
    <3>12. Room' = Room /\ Room \in Nat
      BY <1>3, <1>4, <3>1, <3>6, <3>9 DEF Leaves
    <3>13. Room' \in {Room, Room - 1} \cap Nat
      BY <3>12
    <3>14. Contained!AppendChunk(l, d)
      BY <3>10, <3>11, <3>13, Zenon DEF Contained!AppendChunk
    <3> QED
      BY <3>3, <3>14
  <2> QED
    BY <2>1, <2>2, <2>3
<1>6. ASSUME NEW d \in Appended, AppendBytes(l, d) PROVE Contained!AppendChunk(l, d)
  <2> DEFINE m == [heap |-> heap, list |-> list]
             a == AppendData(m, l, d)
             n == Fresh(heap)
  <2>1. /\ list[l].made /\ HasRoom(heap)
        /\ heap' = a.heap /\ list' = a.list /\ held' = held
    BY <1>6, Zenon DEF AppendBytes, Returns, Made
  <2>2. m.heap = heap /\ m.list = list
    OBVIOUS
  <2> HIDE DEF m
  <2>3. HeapOK(m.heap) /\ Sound(m.heap, m.list, held, c) /\ m.list[l].made /\ HasRoom(m.heap)
    BY <1>1, <1>2, <2>1, <2>2
  <2>4. d \in Contents
    BY AppendedIs
  <2>5. Appends(m, held, c, l, d, a)
    BY <2>3, <2>4, AppendDataIs
  <2> HIDE DEF a
  <2>6. /\ n \in Nodes \ DOMAIN heap /\ HeapOK(a.heap)
        /\ Sound(a.heap, a.list, held, Longer(c, l, n))
        /\ DOMAIN a.heap = DOMAIN heap \union {n}
        /\ \A k \in Lists : a.list[k].made = list[k].made
    BY <2>2, <2>5 DEF Appends, Longer
  <2>7. Gains(heap, a.heap, n, d)
    BY <2>2, <2>5 DEF Appends, Gains
  <2> HIDE DEF n
  <2>8. ChunksAre(a.heap, Longer(c, l, n)) = Longer(ChunksAre(heap, c), l, d)
    BY <1>1, <1>2, <2>4, <2>7, ChunkAppended
  <2>9. Leaves(Longer(c, l, n))
    <3>1. HeapOK(heap') /\ Sound(heap', list', held', Longer(c, l, n))
      BY <2>1, <2>6
    <3> QED
      BY <3>1, StepLeaves
  <2>10. Seqs' = [Seqs EXCEPT ![l] = Append(@, d)]
    BY <1>3, <2>1, <2>8, <2>9, Zenon DEF Leaves, Longer
  <2>11. MadeLists' = MadeLists /\ l \in MadeLists
    BY <1>3, <2>1, <2>6, <2>9 DEF Leaves
  <2>12. Cardinality(DOMAIN heap') = Cardinality(DOMAIN heap) + 1
    <3>1. DOMAIN heap' = DOMAIN heap \union {n} /\ n \notin DOMAIN heap
      BY <2>1, <2>6
    <3> QED
      BY <1>4, <3>1, FS_AddElement
  <2>13. Room' = Room - 1 /\ Room - 1 \in Nat
    BY <1>3, <1>4, <2>1, <2>9, <2>12 DEF Leaves
  <2>14. Room' \in {Room, Room - 1} \cap Nat
    BY <2>13
  <2> QED
    BY <2>10, <2>11, <2>14, Zenon DEF Contained!AppendChunk
<1> QED
  BY <1>5, <1>6, AppendedIs

\* As much of src comes behind dst as there is room for.
LEMMA CopyMaps ==
  ASSUME ListInv, NEW dst \in Lists, NEW src \in Lists, Copy(dst, src)
  PROVE  Contained!CopyChunks(dst, src) \/ UNCHANGED <<Seqs, MadeLists, Room>>
<1>1. PICK c : Sound(heap, list, held, c)
  BY DEF ListInv
<1>2. HeapOK(heap)
  BY DEF ListInv
<1>3. /\ Seqs = ChunksAre(heap, c) /\ MadeLists = {k \in Lists : list[k].made}
      /\ Room = Cardinality(Nodes) - Cardinality(DOMAIN heap)
  BY <1>1, <1>2, MappedIs
<1>4. /\ list[dst].made /\ list[src].made /\ held' = held
      /\ heap' = Copied(dst, src).heap /\ list' = Copied(dst, src).list
  BY DEF Copy, Returns, Made
<1> DEFINE m == Copied(dst, src)
<1>5. PICK e : \E k \in Nat : Copying(m, dst, src, c, e, k) /\ (m.at = NULL \/ ~HasRoom(m.heap))
  BY <1>1, <1>2, <1>4, CopiedIs
<1>6. PICK k \in Nat : Copying(m, dst, src, c, e, k) /\ (m.at = NULL \/ ~HasRoom(m.heap))
  BY <1>5
<1> DEFINE n == Len(c[src])
           z == Len(c[dst])
<1> HIDE DEF m
<1>7. /\ HeapOK(m.heap) /\ Sound(m.heap, m.list, held, e)
      /\ \A l \in Lists : m.list[l].made = list[l].made
      /\ \A x \in DOMAIN heap : m.heap[x].data = heap[x].data
      /\ \A l \in Lists \ {dst} : e[l] = c[l]
      /\ Len(e[dst]) = z + k
      /\ \A i \in 1..z : e[dst][i] = c[dst][i]
      /\ Cardinality(DOMAIN m.heap) = Cardinality(DOMAIN heap) + k
      /\ m.at = IF k < Len(e[src]) THEN e[src][k + 1] ELSE NULL
      /\ (dst = src /\ n # 0) \/ k <= n
  BY <1>6 DEF Copying
<1>8. n \in Nat /\ z \in Nat /\ \A i \in 1..z : c[dst][i] \in DOMAIN heap
  BY <1>1, OnListIs
<1>9. /\ Cardinality(DOMAIN heap) \in Nat /\ Cardinality(Nodes) \in Nat
      /\ Cardinality(DOMAIN heap) <= Cardinality(Nodes)
  BY <1>2, RoomIs
<1>10. /\ Cardinality(DOMAIN m.heap) <= Cardinality(Nodes)
       /\ HasRoom(m.heap) <=> Cardinality(DOMAIN m.heap) < Cardinality(Nodes)
  BY <1>7, RoomIs
<1>11. Room \in Nat /\ k <= Room /\ (~HasRoom(m.heap) => k = Room)
  BY <1>3, <1>7, <1>9, <1>10
<1>12. heap' = m.heap /\ list' = m.list /\ held' = held
  BY <1>4 DEF m
<1>13. Leaves(e)
  <2>1. HeapOK(heap') /\ Sound(heap', list', held', e)
    BY <1>7, <1>12
  <2> QED
    BY <2>1, StepLeaves
<1>14. MadeLists' = MadeLists /\ {dst, src} \subseteq MadeLists
  BY <1>3, <1>4, <1>7, <1>12, <1>13 DEF Leaves
<1>15. Room' = Room - k
  BY <1>3, <1>7, <1>9, <1>12, <1>13 DEF Leaves
<1>16. m.at = NULL => Len(e[src]) <= k
  <2>1. Len(e[src]) \in Nat /\ \A i \in 1..Len(e[src]) : e[src][i] # NULL
    <3>1. \A i \in 1..Len(e[src]) : e[src][i] \in DOMAIN m.heap
      BY <1>7, OnListIs
    <3>2. NULL \notin DOMAIN m.heap
      BY <1>7, PointerAssumption DEF HeapOK
    <3>3. Len(e[src]) \in Nat
      BY <1>7, OnListIs
    <3> QED
      BY <3>1, <3>2, <3>3
  <2>2. k < Len(e[src]) => k + 1 \in 1..Len(e[src])
    BY <2>1
  <2>3. k < Len(e[src]) => m.at # NULL
    BY <1>7, <2>1, <2>2
  <2> QED
    BY <2>1, <2>3
<1>17. CASE n = 0
  <2>1. k = 0
    BY <1>7, <1>8, <1>17
  <2>2. Len(e[dst]) = z
    BY <1>7, <1>8, <2>1
  <2>3. \A l \in Lists \ {dst} : \A i \in 1..Len(c[l]) : m.heap[c[l][i]].data = heap[c[l][i]].data
    BY <1>1, <1>7, OnListIs
  <2>4. \A l \in Lists : ChunksOf(m.heap, e[l]) = ChunksOf(heap, c[l])
    <3>1. ASSUME NEW l \in Lists \ {dst} PROVE ChunksOf(m.heap, e[l]) = ChunksOf(heap, c[l])
      BY <1>7, <2>3, Zenon DEF ChunksOf
    <3>2. \A i \in 1..z : m.heap[e[dst][i]].data = heap[c[dst][i]].data
      BY <1>7, <1>8
    <3>3. ChunksOf(m.heap, e[dst]) = ChunksOf(heap, c[dst])
      BY <2>2, <3>2, Zenon DEF ChunksOf, z
    <3> QED
      BY <3>1, <3>3
  <2>5. ChunksAre(m.heap, e) = ChunksAre(heap, c)
    BY <2>4, Zenon DEF ChunksAre
  <2>6. Seqs' = Seqs /\ Room' = Room
    BY <1>3, <1>11, <1>12, <1>13, <1>15, <2>1, <2>5 DEF Leaves
  <2> QED
    BY <1>14, <2>6
<1>18. CASE n # 0
  <2>1. k = IF dst = src \/ n > Room THEN Room ELSE n
    <3>1. CASE dst = src
      <4>1. Len(e[src]) = n + k
        BY <1>7, <3>1 DEF n, z
      <4>2. m.at # NULL
        BY <1>8, <1>16, <1>18, <4>1
      <4> QED
        BY <1>6, <1>11, <3>1, <4>2
    <3>2. CASE dst # src
      <4>1. Len(e[src]) = n /\ k <= n
        BY <1>7, <3>2 DEF n
      <4>2. k = n \/ k = Room
        BY <1>6, <1>8, <1>11, <1>16, <4>1
      <4> QED
        BY <1>8, <1>11, <3>2, <4>1, <4>2
    <3> QED
      BY <3>1, <3>2
  <2>2. ChunksAre(m.heap, e) = Copies(ChunksAre(heap, c), dst, src, n, k)
    BY <1>1, <1>2, <1>6, <1>18, ChunksCopied DEF n
  <2>3. Seqs' = [Seqs EXCEPT ![dst] = @ \o [i \in 1..k |-> Seqs[src][((i - 1) % n) + 1]]]
    BY <1>3, <1>12, <1>13, <2>2, Zenon DEF Leaves, Copies
  <2>4. Len(Seqs[src]) = n /\ n > 0
    BY <1>1, <1>2, <1>3, <1>8, <1>18, ChunkIs DEF n
  <2> HIDE DEF n
  <2>5. Contained!CopyChunks(dst, src)
    BY <1>14, <1>15, <2>1, <2>3, <2>4, Zenon DEF Contained!CopyChunks
  <2> QED
    BY <2>5
<1> QED
  BY <1>17, <1>18

LEMMA RemovalsMap ==
  ASSUME ListInv, NEW l \in Lists, \/ RemoveEnd(l)
                                   \/ \E idx \in 0..Cardinality(Nodes) : RemoveIdx(l, idx)
  PROVE  \/ \E i \in DOMAIN Seqs[l] : Contained!RemoveChunk(l, i)
         \/ UNCHANGED <<Seqs, MadeLists, Room>>
<1>1. PICK c : Sound(heap, list, held, c)
  BY DEF ListInv
<1>2. HeapOK(heap)
  BY DEF ListInv
<1>3. \/ \E i \in Nat : Removes(c, l, i)
      \/ UNCHANGED <<heap, list, held>>
  <2>1. CASE RemoveEnd(l)
    <3>1. Removes(c, l, Len(c[l]))
      BY <1>1, <1>2, <2>1, RemoveEndIs
    <3>2. Len(c[l]) \in Nat
      BY <1>1, OnListIs
    <3> QED
      BY <3>1, <3>2
  <2>2. ASSUME NEW idx \in 0..Cardinality(Nodes), RemoveIdx(l, idx)
        PROVE  \/ \E i \in 1..Len(c[l]) : Removes(c, l, i)
               \/ UNCHANGED <<heap, list, held>>
    <3>1. idx \in Nat
      OBVIOUS
    <3> QED
      BY <1>1, <1>2, <2>2, <3>1, RemoveIdxIs
  <2> QED
    BY <2>1, <2>2
<1>4. ASSUME NEW i \in Nat, Removes(c, l, i)
      PROVE  i \in DOMAIN Seqs[l] /\ Contained!RemoveChunk(l, i)
  <2>1. i \in 1..Len(c[l])
    BY <1>4 DEF Removes
  <2>2. list[l].made
    <3>1. Len(c[l]) # 0
      BY <1>1, <2>1, OnListIs
    <3>2. c[l] # <<>>
      BY <3>1
    <3> QED
      BY <1>1, <3>2, OnListIs
  <2> QED
    BY <1>1, <1>2, <1>4, <2>2, RemovesMaps
<1>5. CASE UNCHANGED <<heap, list, held>>
  BY <1>5 DEF Seqs, MadeLists, Room, Chain, Made
<1> QED
  BY <1>3, <1>4, <1>5

\* Every step of the lists is one of the sequences, or none.
LEMMA StepMaps ==
  ASSUME ListInv, ListInv', [Next]_vars
  PROVE  [Contained!Next]_(Contained!vars)
<1>1. UNCHANGED <<Seqs, MadeLists, Room>> => UNCHANGED Contained!vars
  BY DEF Contained!vars
<1>2. CASE UNCHANGED vars
  <2>1. UNCHANGED <<Seqs, MadeLists, Room>>
    BY <1>2 DEF vars, Seqs, MadeLists, Room, Chain, Made
  <2> QED
    BY <1>1, <2>1
<1>3. CASE \/ \E d \in Appended : NodeCreate(d)
           \/ \E n \in held : NodeDestroy(n)
  BY <1>3, NodesMap, Zenon DEF Contained!Next
<1>4. CASE \E n \in Known : NodeZero(n) \/ \E m \in Known : NodeCopy(n, m)
  BY <1>1, <1>4, WritesMap, Zenon DEF Contained!Next
<1>5. ASSUME NEW l \in Lists, Create(l) \/ Destroy(l) PROVE Contained!Next
  BY <1>5, CreateMaps, DestroyMaps, Zenon DEF Contained!Next
<1>6. ASSUME NEW l \in Lists, \/ \E n \in held : AppendNode(l, n)
                              \/ \E d \in Appended : AppendBytes(l, d)
      PROVE  [Contained!Next]_(Contained!vars)
  BY <1>1, <1>6, AppendsMap, Zenon DEF Contained!Next
<1>7. ASSUME NEW l \in Lists, \/ RemoveEnd(l)
                              \/ \E idx \in 0..Cardinality(Nodes) : RemoveIdx(l, idx)
      PROVE  [Contained!Next]_(Contained!vars)
  BY <1>1, <1>7, RemovalsMap, Zenon DEF Contained!Next
<1>8. ASSUME NEW l \in Lists, NEW src \in Lists, Copy(l, src)
      PROVE  [Contained!Next]_(Contained!vars)
  BY <1>1, <1>8, CopyMaps, Zenon DEF Contained!Next
<1> QED
  BY <1>2, <1>3, <1>4, <1>5, <1>6, <1>7, <1>8 DEF Next

LEMMA InitMaps == ASSUME Init PROVE Contained!Init
<1>1. ListInv
  BY SoundInit
<1>2. HeapOK(heap) /\ \E c : Sound(heap, list, held, c)
  BY <1>1 DEF ListInv
<1>3. PICK c : Sound(heap, list, held, c)
  BY <1>2
<1>4. heap = <<>> /\ list = [l \in Lists |-> [made |-> FALSE, first |-> NULL, len |-> 0]]
  BY DEF Init
<1>5. \A l \in Lists : c[l] = <<>>
  <2>1. \A l \in Lists : ~list[l].made
    BY <1>4
  <2> QED
    BY <1>3, <2>1, OnListIs
<1>6. Seqs = [l \in Lists |-> <<>>]
  <2>1. Seqs = ChunksAre(heap, c)
    BY <1>2, <1>3, MappedIs
  <2>2. \A l \in Lists : ChunksOf(heap, c[l]) = <<>>
    <3>1. ChunksOf(heap, <<>>) = <<>>
      BY DEF ChunksOf
    <3> QED
      BY <1>5, <3>1
  <2> QED
    BY <2>1, <2>2, Zenon DEF ChunksAre
<1>7. MadeLists = {}
  BY <1>4 DEF MadeLists, Made
<1>8. Room = Cardinality(Nodes)
  <2>1. DOMAIN heap = {}
    BY <1>4
  <2>2. Cardinality(DOMAIN heap) = 0
    BY <2>1, FS_EmptySet
  <2>3. Cardinality(Nodes) \in Nat
    BY <1>2, RoomIs
  <2> QED
    BY <2>2, <2>3 DEF Room
<1> QED
  BY <1>6, <1>7, <1>8, Zenon DEF Contained!Init

\* list.c, with its links, its counts and the order of its frees, does what
\* ByteSeq says of sequences of chunks: an append comes last, a removal takes
\* the node asked for and no other, a copy puts src behind dst, and memory is
\* used up and given back by as many nodes as come and go.
THEOREM SequencesKept == Spec => ListsAreSequences
<1>1. Init => Contained!Init
  BY InitMaps
<1>2. ListInv /\ ListInv' /\ [Next]_vars => [Contained!Next]_(Contained!vars)
  BY StepMaps
<1> QED
  BY <1>1, <1>2, AlwaysListInv, PTL DEF Spec, ListsAreSequences, Contained!Spec
=============================================================================
