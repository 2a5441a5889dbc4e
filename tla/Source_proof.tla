---------------------------- MODULE Source_proof ----------------------------
(***************************************************************************)
(* Proofs about the life of the source representation, for every set of    *)
(* lines, every number of SourceInfos, all sizes and all contents.         *)
(***************************************************************************)
EXTENDS Source, FiniteSetTheorems, SequenceTheorems, TLAPS

Slot(i, b) == info[i].buffer[b]

\* A SourceInfo that is not in use has no slots.
DeadHaveNone == \A i \in Infos : ~info[i].live => info[i] = NoInfo

\* Slots are NULL only where memory has run out.
NoNullSlot ==
    Without({"short"}) => \A i \in Infos : \A b \in 1..max_size(i) : Slot(i, b) # NULL

\* Without edits the size counts slots that exist.
SizeInRange == Without({"edit"}) => \A i \in Infos : info[i].size <= max_size(i)

\* As long as lines are only added, the slots behind the last one are as
\* line_info_init left them.
UnfilledBlank ==
    Without({"edit", "clone"}) =>
        \A i \in Infos : \A b \in 1..max_size(i) :
            IF b <= info[i].size THEN Slot(i, b) # NULL
            ELSE Slot(i, b) = NULL \/ heap[Slot(i, b)] = Blank

IInv ==
    /\ SourceTypeOK /\ DeadHaveNone
    /\ NoNullSlot /\ SizeInRange /\ UnfilledBlank
    /\ LinesAsGiven /\ InsideUntilEdited /\ FreedOnce /\ LinesReachable

---------------------------------------------------------------------------
\* Memory and the lines made in it.

LEMMA BlankTyped == Blank \in LineContents
  BY DEF Blank, LineContents

LEMMA FreeCounted ==
  ASSUME DOMAIN heap \subseteq Lines
  PROVE  IsFiniteSet(Free) /\ Cardinality(Free) \in Nat
<1>1. IsFiniteSet(Free)
  BY FS_Subset, LinesAssumption DEF Free
<1> QED
  BY <1>1, FS_CardinalityType

\* What a call that makes lines leaves behind: old lines as they were, new
\* ones blank and each in one slot, unless the info is given up.
CreatedFacts(n, h, o) ==
    /\ DOMAIN heap \subseteq DOMAIN h /\ DOMAIN h \subseteq Lines
    /\ h = [m \in DOMAIN h |-> IF m \in DOMAIN heap THEN heap[m] ELSE Blank]
    /\ \/ /\ o = [live |-> TRUE, buffer |-> o.buffer, size |-> 0]
          /\ o.buffer \in Seq(Lines \union {NULL}) /\ Len(o.buffer) = n
          /\ \A b \in 1..n : o.buffer[b] \in (DOMAIN h \ DOMAIN heap) \union {NULL}
          /\ \A b, c \in 1..n : o.buffer[b] = o.buffer[c] /\ o.buffer[b] # NULL => b = c
          /\ Shortage(n) = {} => \A b \in 1..n : o.buffer[b] # NULL
          /\ \A m \in DOMAIN h \ DOMAIN heap : \E b \in 1..n : o.buffer[b] = m
       \/ o = NoInfo /\ Shortage(n) = {"short"}

LEMMA CreatedIs ==
  ASSUME DOMAIN heap \subseteq Lines, NEW n \in Nat, NEW made \in Created(n)
  PROVE  CreatedFacts(n, made.heap, made.info)
<1> DEFINE k == Made(n)
           Slots(s) == [b \in 1..n |-> IF b <= k THEN s[b] ELSE NULL]
<1>1. Cardinality(Free) \in Nat
  BY FreeCounted
<1>2. k \in Nat /\ k <= n /\ (n <= Cardinality(Free) <=> k = n)
  BY <1>1 DEF Made
<1>3. Shortage(n) = IF k = n THEN {} ELSE {"short"}
  BY <1>1, <1>2 DEF Shortage
<1> HIDE DEF k
<1>4. ASSUME NEW s \in Fresh(k)
      PROVE  /\ DOMAIN s = 1..k /\ \A b \in 1..k : s[b] \in Lines \ DOMAIN heap
             /\ \A b, c \in 1..k : s[b] = s[c] => b = c
             /\ DOMAIN WithBlank(s) = DOMAIN heap \union {s[j] : j \in 1..k}
             /\ WithBlank(s) = [m \in DOMAIN WithBlank(s) |->
                                  IF m \in DOMAIN heap THEN heap[m] ELSE Blank]
  BY <1>4 DEF Fresh, Free, WithBlank
<1>5. CASE \E s \in Fresh(k) :
             made = [heap |-> WithBlank(s),
                     info |-> [live |-> TRUE, buffer |-> Slots(s), size |-> 0]]
  <2>1. PICK s \in Fresh(k) :
             made = [heap |-> WithBlank(s),
                     info |-> [live |-> TRUE, buffer |-> Slots(s), size |-> 0]]
    BY <1>5
  <2>0. /\ DOMAIN s = 1..k /\ \A b \in 1..k : s[b] \in Lines \ DOMAIN heap
        /\ \A b, c \in 1..k : s[b] = s[c] => b = c
        /\ DOMAIN WithBlank(s) = DOMAIN heap \union {s[j] : j \in 1..k}
        /\ WithBlank(s) = [m \in DOMAIN WithBlank(s) |->
                             IF m \in DOMAIN heap THEN heap[m] ELSE Blank]
    BY <1>4, <2>1
  <2>2. Slots(s) \in Seq(Lines \union {NULL}) /\ Len(Slots(s)) = n
    BY <1>2, <2>0
  <2>3. \A b \in 1..n : Slots(s)[b] = IF b <= k THEN s[b] ELSE NULL
    OBVIOUS
  <2> HIDE DEF Slots
  <2>4. \A b \in 1..n : Slots(s)[b] \in (DOMAIN WithBlank(s) \ DOMAIN heap) \union {NULL}
    BY <1>2, <2>0, <2>3
  <2>5. \A b, c \in 1..n :
          Slots(s)[b] = Slots(s)[c] /\ Slots(s)[b] # NULL => b = c
    BY <1>2, <2>0, <2>3
  <2>6. Shortage(n) = {} => \A b \in 1..n : Slots(s)[b] # NULL
    BY <1>2, <1>3, <2>0, <2>3, LinesAssumption
  <2>7. \A m \in DOMAIN WithBlank(s) \ DOMAIN heap : \E b \in 1..n : Slots(s)[b] = m
    BY <1>2, <2>0, <2>3
  <2>8. CreatedFacts(n, WithBlank(s), [live |-> TRUE, buffer |-> Slots(s), size |-> 0])
    BY <2>0, <2>2, <2>4, <2>5, <2>6, <2>7 DEF CreatedFacts
  <2> QED
    BY <2>1, <2>8
<1>6. CASE \E s \in IF k = n THEN {} ELSE Fresh(k) :
             made = [heap |-> WithBlank(s), info |-> NoInfo]
  <2>1. PICK s \in Fresh(k) : made = [heap |-> WithBlank(s), info |-> NoInfo] /\ k # n
    BY <1>6
  <2>0. /\ DOMAIN s = 1..k /\ \A b \in 1..k : s[b] \in Lines \ DOMAIN heap
        /\ \A b, c \in 1..k : s[b] = s[c] => b = c
        /\ DOMAIN WithBlank(s) = DOMAIN heap \union {s[j] : j \in 1..k}
        /\ WithBlank(s) = [m \in DOMAIN WithBlank(s) |->
                             IF m \in DOMAIN heap THEN heap[m] ELSE Blank]
    BY <1>4, <2>1
  <2>2. DOMAIN heap \subseteq DOMAIN WithBlank(s) /\ DOMAIN WithBlank(s) \subseteq Lines
    BY <2>0
  <2>3. CreatedFacts(n, WithBlank(s), NoInfo)
    BY <1>3, <2>0, <2>1, <2>2 DEF CreatedFacts
  <2> QED
    BY <2>1, <2>3
<1> QED
  BY <1>5, <1>6 DEF Created, k

---------------------------------------------------------------------------
\* Each kind of step keeps the inductive invariant.

\* Calls are only ever added to the history.
LEMMA WithoutBefore ==
  ASSUME calls \subseteq calls', NEW kinds, Without(kinds)'
  PROVE  Without(kinds)
  BY DEF Without

LEMMA InitHolds == ASSUME Init PROVE IInv
<1> USE DEF Init, NoInfo
<1>1. SourceTypeOK
  BY BlankTyped DEF SourceTypeOK
<1>2. \A i \in Infos : info[i].size = 0 /\ max_size(i) = 0 /\ ~info[i].live
  BY DEF max_size
<1>3. DeadHaveNone
  BY DEF DeadHaveNone
<1>4. NoNullSlot /\ SizeInRange /\ UnfilledBlank
  BY <1>2 DEF NoNullSlot, SizeInRange, UnfilledBlank
<1>5. LinesAsGiven /\ InsideUntilEdited /\ FreedOnce
  BY <1>2 DEF LinesAsGiven, InsideUntilEdited, FreedOnce
<1>6. DOMAIN heap = {}
  OBVIOUS
<1>7. LinesReachable
  BY <1>6 DEF LinesReachable
<1> QED
  BY <1>1, <1>3, <1>4, <1>5, <1>7 DEF IInv

LEMMA FillKeeps ==
  ASSUME IInv, NEW line \in LineContents, Fill(line)
  PROVE  IInv'
<1> USE DEF Fill, IInv
<1>1. SourceTypeOK'
  BY DEF SourceTypeOK
<1>2. DeadHaveNone' /\ NoNullSlot' /\ SizeInRange' /\ UnfilledBlank'
  BY DEF DeadHaveNone, NoNullSlot, SizeInRange, UnfilledBlank, Without, max_size, Slot
<1>3. LinesAsGiven'
  BY DEF LinesAsGiven, Without
<1>4. InsideUntilEdited' /\ FreedOnce'
  BY DEF InsideUntilEdited, FreedOnce, Without, max_size
<1>5. LinesReachable'
  BY DEF LinesReachable, Without, max_size
<1> QED
  BY <1>1, <1>2, <1>3, <1>4, <1>5

LEMMA WrongKeeps ==
  ASSUME IInv, calls \subseteq calls', NEW how \in {"outside", "freed", "null"},
         GoesWrong(how),
         how = "outside" => ~Without({"edit", "get"})',
         how = "freed" => ~Without({"clone"})',
         how = "null" => ~Without({"short"})'
  PROVE  IInv'
<1> USE DEF GoesWrong, IInv
<1>1. SourceTypeOK' /\ DeadHaveNone'
  BY DEF SourceTypeOK, DeadHaveNone
<1>2. NoNullSlot' /\ SizeInRange' /\ UnfilledBlank'
  BY WithoutBefore DEF NoNullSlot, SizeInRange, UnfilledBlank, max_size, Slot
<1>3. LinesAsGiven'
  BY WithoutBefore DEF LinesAsGiven
<1>5. LinesReachable'
  BY WithoutBefore DEF LinesReachable, max_size
<1>4. InsideUntilEdited' /\ FreedOnce'
  BY WithoutBefore DEF InsideUntilEdited, FreedOnce, max_size
<1> QED
  BY <1>1, <1>2, <1>3, <1>4, <1>5

\* The line of a slot takes over the scratch line.
Stored(i, line) ==
    /\ heap' = [heap EXCEPT ![line] = Copied(@, text_seg)]
    /\ info' = [info EXCEPT ![i].size = @ + 1]
    /\ given' = [given EXCEPT ![i] = Append(@, text_seg)]
    /\ UNCHANGED <<text_seg, fate>>

LEMMA StoredKeeps ==
  ASSUME IInv, calls \subseteq calls', NEW i \in Infos, info[i].live,
         NEW idx \in Nat, idx < max_size(i),
         idx = info[i].size \/ ~Without({"edit"})',
         NEW line, line = Slot(i, idx + 1), line # NULL, line \in DOMAIN heap,
         Stored(i, line)
  PROVE  IInv'
<1> USE DEF Stored, IInv
<1>1. /\ DOMAIN heap' = DOMAIN heap
      /\ \A m \in DOMAIN heap : m # line => heap'[m] = heap[m]
      /\ heap'[line] = Copied(heap[line], text_seg)
  BY DEF SourceTypeOK
<1>2. /\ \A k \in Infos : info'[k].buffer = info[k].buffer /\ info'[k].live = info[k].live
      /\ \A k \in Infos : k # i => info'[k] = info[k] /\ given'[k] = given[k]
      /\ info'[i].size = info[i].size + 1 /\ given'[i] = Append(given[i], text_seg)
      /\ \A k \in Infos : max_size(k)' = max_size(k)
      /\ \A k \in Infos : \A b \in 1..max_size(k) : Slot(k, b)' = Slot(k, b)
  BY DEF SourceTypeOK, max_size, Slot
<1>3. \A k \in Infos : info[k].size \in Nat /\ max_size(k) \in Nat
  BY DEF SourceTypeOK, max_size
<1>4. SourceTypeOK'
  <2>1. Copied(heap[line], text_seg) \in LineContents
    <3>1. heap[line] \in LineContents /\ text_seg \in LineContents
      BY DEF SourceTypeOK
    <3>2. heap[line].bytes \o text_seg.bytes \in Seq({"d"})
      BY <3>1, ConcatProperties DEF LineContents
    <3> QED
      BY <3>1, <3>2 DEF Copied, LineContents
  <2>2. heap' \in [DOMAIN heap -> LineContents]
    BY <2>1 DEF SourceTypeOK
  <2>3. info' \in [Infos -> [live : BOOLEAN, buffer : Seq(Lines \union {NULL}), size : Nat]]
    <3>1. info[i] \in [live : BOOLEAN, buffer : Seq(Lines \union {NULL}), size : Nat]
      BY DEF SourceTypeOK
    <3>2. [info[i] EXCEPT !.size = @ + 1]
            \in [live : BOOLEAN, buffer : Seq(Lines \union {NULL}), size : Nat]
      BY <3>1
    <3> QED
      BY <3>2 DEF SourceTypeOK
  <2>4. given' \in [Infos -> Seq(LineContents)]
    BY DEF SourceTypeOK
  <2> QED
    BY <1>1, <2>2, <2>3, <2>4 DEF SourceTypeOK
<1>5. DeadHaveNone'
  BY <1>2 DEF DeadHaveNone
<1>6. NoNullSlot'
  BY <1>2, WithoutBefore DEF NoNullSlot
<1>7. SizeInRange'
  BY <1>2, <1>3, WithoutBefore DEF SizeInRange
<1>8. ASSUME Without({"edit", "clone"})'
      PROVE  /\ Without({"edit", "clone"}) /\ Without({"clone"})
             /\ idx = info[i].size /\ heap[line] = Blank
             /\ \A k \in Infos : \A b \in 1..max_size(k) :
                  Slot(k, b) = line => k = i /\ b = idx + 1
  <2>1. Without({"edit", "clone"}) /\ Without({"clone"}) /\ Without({"edit"})'
    BY <1>8, WithoutBefore DEF Without
  <2>2. idx + 1 \in 1..max_size(i) /\ ~(idx + 1 <= idx)
    BY <1>3
  <2> QED
    BY <2>1, <2>2 DEF UnfilledBlank, FreedOnce, Slot
<1>9. UnfilledBlank'
  <2> SUFFICES ASSUME Without({"edit", "clone"})', NEW k \in Infos, NEW b \in 1..max_size(k)
               PROVE  IF b <= info'[k].size THEN Slot(k, b) # NULL
                      ELSE Slot(k, b) = NULL \/ heap'[Slot(k, b)] = Blank
    BY <1>2 DEF UnfilledBlank
  <2>1. /\ Slot(k, b) \in DOMAIN heap \union {NULL}
        /\ IF b <= info[k].size THEN Slot(k, b) # NULL
           ELSE Slot(k, b) = NULL \/ heap[Slot(k, b)] = Blank
    BY <1>8 DEF UnfilledBlank, FreedOnce, Slot
  <2>2. CASE k = i /\ b = idx + 1
    BY <1>2, <1>3, <1>8, <2>2
  <2>3. CASE ~(k = i /\ b = idx + 1)
    BY <1>1, <1>2, <1>3, <1>8, <2>1, <2>3
  <2> QED
    BY <2>2, <2>3
<1>10. LinesAsGiven'
  <2> SUFFICES ASSUME Without({"edit", "clone"})', NEW k \in Infos, info[k].live
               PROVE  /\ info'[k].size = Len(given'[k])
                      /\ \A e \in 1..info'[k].size : heap'[Slot(k, e)] = given'[k][e]
    BY <1>2 DEF LinesAsGiven, Slot
  <2>1. /\ info[k].size = Len(given[k])
        /\ \A e \in 1..info[k].size : heap[Slot(k, e)] = given[k][e]
    BY <1>8 DEF LinesAsGiven, Slot
  <2>2. \A e \in 1..info[k].size : Slot(k, e) \in DOMAIN heap /\ Slot(k, e) # line
    <3>1. info[k].size <= max_size(k)
      BY <1>8 DEF SizeInRange, Without
    <3>2. ASSUME NEW e \in 1..info[k].size
          PROVE  Slot(k, e) \in DOMAIN heap /\ Slot(k, e) # line
      <4>1. e \in 1..max_size(k) /\ ~(k = i /\ e = idx + 1)
        BY <1>3, <1>8, <3>1
      <4>2. Slot(k, e) # NULL
        BY <1>8, <4>1 DEF UnfilledBlank
      <4>3. Slot(k, e) \in DOMAIN heap
        BY <1>8, <4>1, <4>2 DEF FreedOnce, Slot
      <4> QED
        BY <1>8, <4>1, <4>3
    <3> QED
      BY <3>2
  <2>3. CASE k # i
    BY <1>1, <1>2, <2>1, <2>2, <2>3
  <2>4. CASE k = i
    <3>1. given[i] \in Seq(LineContents) /\ text_seg \in LineContents
      BY DEF SourceTypeOK
    <3>2. /\ Len(given'[i]) = Len(given[i]) + 1
          /\ \A e \in 1..Len(given[i]) : given'[i][e] = given[i][e]
          /\ given'[i][Len(given[i]) + 1] = text_seg
      BY <1>2, <3>1
    <3>3. Copied(Blank, text_seg) = text_seg
      <4>1. text_seg.bytes \in Seq({"d"}) /\ Blank.bytes = <<>>
        BY <3>1 DEF LineContents, Blank
      <4>2. Blank.bytes \o text_seg.bytes = text_seg.bytes
        BY <4>1, ConcatEmptySeq
      <4> QED
        BY <3>1, <4>2 DEF Copied, LineContents
    <3>4. heap'[Slot(i, idx + 1)] = text_seg
      BY <1>1, <1>8, <3>3
    <3>5. \A e \in 1..info'[i].size : e \in 1..info[i].size \/ e = idx + 1
      BY <1>2, <1>3, <1>8
    <3> QED
      BY <1>1, <1>2, <1>8, <2>1, <2>2, <2>4, <3>2, <3>4, <3>5
  <2> QED
    BY <2>3, <2>4
<1>11. InsideUntilEdited'
  BY WithoutBefore DEF InsideUntilEdited
<1>12. FreedOnce'
  BY <1>1, <1>2, WithoutBefore DEF FreedOnce
<1>13. LinesReachable'
  <2> SUFFICES ASSUME Without({"destroy empty", "clone", "short"})', NEW m \in DOMAIN heap
               PROVE  \E k \in Infos : \E b \in 1..max_size(k)' : info'[k].buffer[b] = m
    BY <1>1 DEF LinesReachable
  <2>1. PICK k \in Infos : \E b \in 1..max_size(k) : info[k].buffer[b] = m
    BY WithoutBefore DEF LinesReachable
  <2>2. info'[k].buffer = info[k].buffer /\ max_size(k)' = max_size(k)
    BY <1>2
  <2> QED
    BY <2>1, <2>2
<1> QED
  BY <1>4, <1>5, <1>6, <1>7, <1>9, <1>10, <1>11, <1>12, <1>13

LEMMA CreateKeeps ==
  ASSUME IInv, NEW i \in Infos, NEW n \in Nat, Create(i, n)
  PROVE  IInv'
<1> USE DEF IInv
<1>1. PICK made \in Created(n) : heap' = made.heap /\ info' = [info EXCEPT ![i] = made.info]
  BY DEF Create
<1>2. /\ given' = [given EXCEPT ![i] = <<>>] /\ calls' = calls \union Shortage(n)
      /\ UNCHANGED <<text_seg, fate>> /\ fate = "running" /\ info[i] = NoInfo
  BY DEF Create, Running, DeadHaveNone
<1>3. CreatedFacts(n, heap', info'[i])
  <2>1. CreatedFacts(n, made.heap, made.info)
    BY CreatedIs DEF SourceTypeOK
  <2> QED
    BY <1>1, <2>1 DEF SourceTypeOK
<1>4. /\ DOMAIN heap \subseteq DOMAIN heap' /\ DOMAIN heap' \subseteq Lines
      /\ \A m \in DOMAIN heap : heap'[m] = heap[m]
      /\ \A m \in DOMAIN heap' \ DOMAIN heap : heap'[m] = Blank
      /\ heap' \in [DOMAIN heap' -> LineContents]
  BY <1>3, BlankTyped DEF CreatedFacts, SourceTypeOK
<1>5. /\ \A k \in Infos : k # i => /\ info'[k] = info[k] /\ given'[k] = given[k]
                                   /\ max_size(k)' = max_size(k)
      /\ given'[i] = <<>> /\ Len(given'[i]) = 0
  BY <1>1, <1>2 DEF SourceTypeOK, max_size
<1>6. /\ info'[i].live \in BOOLEAN /\ (info'[i].live \/ info'[i] = NoInfo)
      /\ info'[i].size = 0 /\ info'[i].buffer \in Seq(Lines \union {NULL})
      /\ info'[i] \in [live : BOOLEAN, buffer : Seq(Lines \union {NULL}), size : Nat]
      /\ max_size(i)' \in Nat
  <2>1. CASE info'[i] = NoInfo
    BY <2>1 DEF NoInfo, max_size
  <2>2. CASE /\ info'[i] = [live |-> TRUE, buffer |-> info'[i].buffer, size |-> 0]
             /\ info'[i].buffer \in Seq(Lines \union {NULL})
    <3>1. Len(info'[i].buffer) \in Nat /\ info'[i].live = TRUE /\ info'[i].size = 0
      BY <2>2
    <3>2. PICK buf \in Seq(Lines \union {NULL}) :
                 info'[i] = [live |-> TRUE, buffer |-> buf, size |-> 0]
      BY <2>2
    <3> QED
      BY <3>1, <3>2 DEF max_size
  <2> QED
    BY <1>3, <2>1, <2>2 DEF CreatedFacts
<1>7. \A b \in 1..max_size(i)' :
        /\ Slot(i, b)' \in (DOMAIN heap' \ DOMAIN heap) \union {NULL}
        /\ \A c \in 1..max_size(i)' :
             Slot(i, b)' = Slot(i, c)' /\ Slot(i, b)' # NULL => b = c
        /\ Without({"short"})' => Slot(i, b)' # NULL
  <2>1. CASE info'[i] = NoInfo
    BY <2>1 DEF NoInfo, max_size
  <2>2. CASE info'[i].live
    <3>1. Without({"short"})' => Shortage(n) = {}
      BY <1>2 DEF Without, Shortage
    <3>2. info'[i] # NoInfo
      BY <2>2 DEF NoInfo
    <3> QED
      BY <1>3, <3>1, <3>2 DEF CreatedFacts, max_size, Slot
  <2> QED
    BY <1>6, <2>1, <2>2
<1>8. \A k \in Infos : k # i => \A b \in 1..max_size(k) : Slot(k, b)' = Slot(k, b)
  BY <1>5 DEF Slot
<1>9. calls \subseteq calls' /\ 1..max_size(i) = {}
  BY <1>2 DEF NoInfo, max_size
<1>10. SourceTypeOK'
  <2>1. info' \in [Infos -> [live : BOOLEAN, buffer : Seq(Lines \union {NULL}), size : Nat]]
    BY <1>1, <1>6 DEF SourceTypeOK
  <2>2. given' \in [Infos -> Seq(LineContents)]
    BY <1>2 DEF SourceTypeOK
  <2> QED
    BY <1>2, <1>4, <2>1, <2>2 DEF SourceTypeOK
<1>11. DeadHaveNone'
  BY <1>5, <1>6 DEF DeadHaveNone, NoInfo
<1>12. NoNullSlot'
  BY <1>5, <1>7, <1>8, <1>9, WithoutBefore DEF NoNullSlot
<1>13. SizeInRange'
  BY <1>5, <1>6, <1>9, WithoutBefore DEF SizeInRange
<1>14. \A k \in Infos : k # i /\ Without({"clone"})' => \A b \in 1..max_size(k) :
         Slot(k, b) \in DOMAIN heap \union {NULL}
  BY <1>9, WithoutBefore DEF FreedOnce, Slot
<1>15. Without({"edit", "clone"})' => Without({"clone"})' /\ Without({"edit"})'
  BY DEF Without
<1>16. UnfilledBlank'
  <2> SUFFICES ASSUME Without({"edit", "clone"})', NEW k \in Infos, NEW b \in 1..max_size(k)'
               PROVE  IF b <= info'[k].size THEN Slot(k, b)' # NULL
                      ELSE Slot(k, b)' = NULL \/ heap'[Slot(k, b)'] = Blank
    BY DEF UnfilledBlank
  <2>1. CASE k = i
    BY <1>4, <1>6, <1>7, <2>1
  <2>2. CASE k # i
    <3>1. IF b <= info[k].size THEN Slot(k, b) # NULL
          ELSE Slot(k, b) = NULL \/ heap[Slot(k, b)] = Blank
      BY <1>5, <1>9, <2>2, WithoutBefore DEF UnfilledBlank
    <3> QED
      BY <1>4, <1>5, <1>8, <1>14, <1>15, <2>2, <3>1
  <2> QED
    BY <2>1, <2>2
<1>17. LinesAsGiven'
  <2> SUFFICES ASSUME Without({"edit", "clone"})', NEW k \in Infos, info'[k].live
               PROVE  /\ info'[k].size = Len(given'[k])
                      /\ \A e \in 1..info'[k].size : heap'[Slot(k, e)'] = given'[k][e]
    BY DEF LinesAsGiven, Slot
  <2>1. CASE k = i
    BY <1>5, <1>6, <2>1
  <2>2. CASE k # i
    <3>1. /\ info[k].size = Len(given[k])
          /\ \A e \in 1..info[k].size : heap[Slot(k, e)] = given[k][e]
      BY <1>5, <1>9, <2>2, WithoutBefore DEF LinesAsGiven, Slot
    <3>2. info[k].size <= max_size(k) /\ info[k].size \in Nat /\ max_size(k) \in Nat
      BY <1>9, <1>15, WithoutBefore DEF SizeInRange, SourceTypeOK, max_size
    <3>3. \A e \in 1..info[k].size : Slot(k, e) \in DOMAIN heap
      BY <1>9, <1>14, <1>15, <2>2, <3>2, WithoutBefore DEF UnfilledBlank
    <3> QED
      BY <1>4, <1>5, <1>8, <2>2, <3>1, <3>2, <3>3
  <2> QED
    BY <2>1, <2>2
<1>18. InsideUntilEdited'
  BY <1>2 DEF InsideUntilEdited
<1>19. FreedOnce'
  <2> SUFFICES ASSUME Without({"clone"})', NEW k \in Infos, NEW b \in 1..max_size(k)',
                      NEW l \in Infos, NEW c \in 1..max_size(l)'
               PROVE  /\ Slot(k, b)' \in DOMAIN heap' \union {NULL}
                      /\ Slot(l, c)' = Slot(k, b)' /\ Slot(k, b)' # NULL => l = k /\ c = b
    BY <1>2 DEF FreedOnce, Slot
  <2>1. Slot(k, b)' \in DOMAIN heap' \union {NULL}
    BY <1>4, <1>5, <1>7, <1>8, <1>14
  <2>2. CASE k = i \/ l = i
    BY <1>5, <1>7, <1>8, <1>14, <2>1, <2>2
  <2>3. CASE k # i /\ l # i
    <3>1. Slot(l, c) = Slot(k, b) /\ Slot(k, b) # NULL => l = k /\ c = b
      BY <1>5, <1>9, <2>3, WithoutBefore DEF FreedOnce, Slot
    <3> QED
      BY <1>5, <1>8, <2>1, <2>3, <3>1
  <2> QED
    BY <2>2, <2>3
<1>20. LinesReachable'
  <2> SUFFICES ASSUME Without({"destroy empty", "clone", "short"})', NEW m \in DOMAIN heap'
               PROVE  \E k \in Infos : \E b \in 1..max_size(k)' : info'[k].buffer[b] = m
    BY DEF LinesReachable
  <2>1. CASE m \in DOMAIN heap
    <3>1. PICK k \in Infos : \E b \in 1..max_size(k) : info[k].buffer[b] = m
      BY <1>9, <2>1, WithoutBefore DEF LinesReachable
    <3>2. k # i
      BY <1>9, <3>1
    <3> QED
      BY <1>5, <3>1, <3>2
  <2>2. CASE m \notin DOMAIN heap
    <3>1. Shortage(n) # {"short"} /\ max_size(i)' = Len(info'[i].buffer)
      BY <1>2 DEF Without, max_size
    <3>2. PICK b \in 1..n : info'[i].buffer[b] = m /\ Len(info'[i].buffer) = n
      BY <1>3, <2>2, <3>1 DEF CreatedFacts
    <3> QED
      BY <3>1, <3>2
  <2> QED
    BY <2>1, <2>2
<1> QED
  BY <1>10, <1>11, <1>12, <1>13, <1>16, <1>17, <1>18, <1>19, <1>20

LEMMA AddLineKeeps ==
  ASSUME IInv, NEW i \in Infos, AddLine(i)
  PROVE  IInv'
<1> DEFINE idx == info[i].size
           line == Slot(i, idx + 1)
<1>1. /\ info[i].live /\ idx # max_size(i) /\ Store(i, idx) /\ calls' = calls
      /\ idx \in Nat /\ max_size(i) \in Nat
  BY DEF AddLine, full, IInv, SourceTypeOK, max_size
<1>2. CASE idx >= max_size(i)
  <2>1. ~Without({"edit"}) /\ GoesWrong("outside")
    BY <1>1, <1>2 DEF IInv, SizeInRange, Store
  <2> QED
    BY <1>1, <2>1, WrongKeeps DEF Without
<1>3. CASE idx < max_size(i)
  <2>1. /\ line # NULL
        /\ IF line \notin DOMAIN heap THEN GoesWrong("freed") ELSE Stored(i, line)
    BY <1>1, <1>3 DEF Store, Stored, Slot
  <2>2. idx + 1 \in 1..max_size(i)
    BY <1>1, <1>3
  <2>3. CASE line \notin DOMAIN heap
    <3>1. ~Without({"clone"})
      BY <2>1, <2>2, <2>3 DEF IInv, FreedOnce, Slot
    <3> QED
      BY <1>1, <2>1, <2>3, <3>1, WrongKeeps DEF Without
  <2>4. CASE line \in DOMAIN heap
    BY <1>1, <1>3, <2>1, <2>4, StoredKeeps
  <2> QED
    BY <2>3, <2>4
<1> QED
  BY <1>1, <1>2, <1>3

LEMMA EditLineKeeps ==
  ASSUME IInv, NEW i \in Infos, NEW idx \in Nat, EditLine(i, idx)
  PROVE  IInv'
<1> DEFINE line == Slot(i, idx + 1)
<1>1. /\ info[i].live /\ Store(i, idx) /\ calls' = calls \union {"edit"}
      /\ max_size(i) \in Nat
  BY DEF EditLine, IInv, SourceTypeOK, max_size
<1>2. ~Without({"edit"})' /\ ~Without({"edit", "get"})' /\ calls \subseteq calls'
  BY <1>1 DEF Without
<1>3. CASE idx >= max_size(i)
  BY <1>1, <1>2, <1>3, WrongKeeps DEF Store
<1>4. CASE idx < max_size(i)
  <2>1. /\ line # NULL
        /\ IF line \notin DOMAIN heap THEN GoesWrong("freed") ELSE Stored(i, line)
    BY <1>1, <1>4 DEF Store, Stored, Slot
  <2>2. idx + 1 \in 1..max_size(i)
    BY <1>1, <1>4
  <2>3. CASE line \notin DOMAIN heap
    <3>1. ~Without({"clone"})'
      BY <1>2, <2>1, <2>2, <2>3, WithoutBefore DEF IInv, FreedOnce, Slot
    <3> QED
      BY <1>2, <2>1, <2>3, <3>1, WrongKeeps
  <2>4. CASE line \in DOMAIN heap
    BY <1>1, <1>2, <1>4, <2>1, <2>4, StoredKeeps
  <2> QED
    BY <2>3, <2>4
<1> QED
  BY <1>1, <1>3, <1>4

LEMMA GetIdxKeeps ==
  ASSUME IInv, NEW i \in Infos, NEW idx \in Nat, GetIdx(i, idx)
  PROVE  IInv'
<1>1. /\ calls' = calls \union {"get"} /\ max_size(i) \in Nat
      /\ \/ GoesWrong("outside")
         \/ /\ GoesWrong("freed") /\ idx < max_size(i)
            /\ info[i].buffer[idx + 1] \notin DOMAIN heap \union {NULL}
  BY DEF GetIdx, IInv, SourceTypeOK, max_size
<1>2. ~Without({"edit", "get"})' /\ calls \subseteq calls'
  BY <1>1 DEF Without
<1>3. CASE GoesWrong("outside")
  BY <1>2, <1>3, WrongKeeps
<1>4. CASE /\ GoesWrong("freed") /\ idx < max_size(i)
           /\ info[i].buffer[idx + 1] \notin DOMAIN heap \union {NULL}
  <2>1. idx + 1 \in 1..max_size(i)
    BY <1>1, <1>4
  <2>2. ~Without({"clone"})'
    BY <1>2, <1>4, <2>1, WithoutBefore DEF IInv, FreedOnce
  <2> QED
    BY <1>2, <1>4, <2>2, WrongKeeps
<1> QED
  BY <1>1, <1>3, <1>4

LEMMA DestroyTwiceKeeps ==
  ASSUME IInv, NEW i \in Infos, DestroyTwice(i)
  PROVE  IInv'
<1>1. calls' = calls /\ ~(SlotLines(i) \subseteq DOMAIN heap)
  BY DEF DestroyTwice
<1>2. CASE SlotLines(i) \subseteq DOMAIN heap \union {NULL}
  <2>1. GoesWrong("null")
    BY <1>2 DEF DestroyTwice
  <2>2. PICK b \in 1..max_size(i) : Slot(i, b) = NULL
    BY <1>1, <1>2 DEF SlotLines, Slot
  <2>3. ~Without({"short"})'
    BY <1>1, <2>2 DEF IInv, NoNullSlot, Without
  <2> QED
    BY <1>1, <2>1, <2>3, WrongKeeps
<1>3. CASE ~(SlotLines(i) \subseteq DOMAIN heap \union {NULL})
  <2>1. GoesWrong("freed")
    BY <1>3 DEF DestroyTwice
  <2>2. PICK b \in 1..max_size(i) : Slot(i, b) \notin DOMAIN heap \union {NULL}
    BY <1>3 DEF SlotLines, Slot
  <2>3. ~Without({"clone"})'
    BY <1>1, <2>2 DEF IInv, FreedOnce, Slot, Without
  <2> QED
    BY <1>1, <2>1, <2>3, WrongKeeps
<1> QED
  BY <1>2, <1>3

LEMMA CloneInfoKeeps ==
  ASSUME IInv, NEW src \in Infos, NEW dst \in Infos, CloneInfo(src, dst)
  PROVE  IInv'
<1> USE DEF IInv
<1> DEFINE n == max_size(src)
<1>1. PICK made \in Created(n) :
        IF made.info.live /\ info[src].size > n
        THEN GoesWrong("outside")
        ELSE /\ heap' = made.heap
             /\ info' = [info EXCEPT ![dst] =
                  IF ~made.info.live THEN NoInfo
                  ELSE [live |-> TRUE, size |-> info[src].size,
                        buffer |-> [b \in 1..n |->
                            IF b <= info[src].size THEN info[src].buffer[b]
                            ELSE made.info.buffer[b]]]]
             /\ given' = [given EXCEPT ![dst] = given[src]]
             /\ UNCHANGED <<text_seg, fate>>
  BY DEF CloneInfo
<1>2. /\ calls' = calls \union {"clone"} \union Shortage(n)
      /\ n \in Nat /\ info[src].size \in Nat /\ fate = "running"
      /\ ~Without({"clone"})' /\ ~Without({"edit", "clone"})'
      /\ ~Without({"destroy empty", "clone", "short"})' /\ calls \subseteq calls'
  <2>1. calls' = calls \union {"clone"} \union Shortage(n) /\ fate = "running"
    BY DEF CloneInfo, Running
  <2>2. n \in Nat /\ info[src].size \in Nat
    BY DEF SourceTypeOK, max_size
  <2> QED
    BY <2>1, <2>2 DEF Without
<1>3. n \in Nat /\ info[src].size \in Nat
  BY <1>2
<1> HIDE DEF n
<1>4. CASE made.info.live /\ info[src].size > n
  <2>1. Without({"edit"}) => info[src].size <= n
    BY DEF SizeInRange, n
  <2>2. ~(info[src].size <= n)
    BY <1>4, <1>3
  <2>3. ~Without({"edit", "get"})'
    BY <1>2, <2>1, <2>2 DEF Without
  <2> QED
    BY <1>1, <1>2, <1>4, <2>3, WrongKeeps
<1>5. CASE ~(made.info.live /\ info[src].size > n)
  <2> DEFINE new == info'[dst]
  <2>1. CreatedFacts(n, made.heap, made.info)
    BY <1>2, CreatedIs DEF SourceTypeOK
  <2>2. /\ heap' = made.heap /\ given' = [given EXCEPT ![dst] = given[src]]
        /\ UNCHANGED <<text_seg, fate>>
        /\ \A k \in Infos : k # dst => info'[k] = info[k]
        /\ DOMAIN info' = Infos
        /\ new = IF ~made.info.live THEN NoInfo
                 ELSE [live |-> TRUE, size |-> info[src].size,
                       buffer |-> [b \in 1..n |->
                           IF b <= info[src].size THEN info[src].buffer[b]
                           ELSE made.info.buffer[b]]]
        /\ info' = [info EXCEPT ![dst] = new]
    BY <1>1, <1>5 DEF SourceTypeOK
  <2> HIDE DEF new
  <2>3. /\ new \in [live : BOOLEAN, buffer : Seq(Lines \union {NULL}), size : Nat]
        /\ new.live \/ new = NoInfo
        /\ Without({"short"})' => \A b \in 1..Len(new.buffer) : new.buffer[b] # NULL
        /\ Without({"edit"})' => new.size <= Len(new.buffer)
    <3>1. CASE ~made.info.live
      BY <2>2, <3>1 DEF NoInfo
    <3>2. CASE made.info.live
      <4>1. Without({"short"})' => Without({"short"}) /\ Shortage(n) = {}
        BY <1>2, WithoutBefore DEF Without, Shortage
      <4>2. /\ made.info.buffer \in Seq(Lines \union {NULL}) /\ Len(made.info.buffer) = n
            /\ Shortage(n) = {} => \A b \in 1..n : made.info.buffer[b] # NULL
        BY <2>1, <3>2 DEF CreatedFacts, NoInfo
      <4>3. /\ info[src].buffer \in Seq(Lines \union {NULL}) /\ Len(info[src].buffer) = n
            /\ Without({"short"}) => \A b \in 1..n : info[src].buffer[b] # NULL
        BY DEF SourceTypeOK, max_size, NoNullSlot, Slot, n
      <4>4. PICK buf : /\ new = [live |-> TRUE, size |-> info[src].size, buffer |-> buf]
                       /\ buf = [b \in 1..n |-> IF b <= info[src].size THEN info[src].buffer[b]
                                                ELSE made.info.buffer[b]]
        BY <2>2, <3>2
      <4>5. /\ \A b \in 1..n : buf[b] = IF b <= info[src].size THEN info[src].buffer[b]
                                        ELSE made.info.buffer[b]
            /\ DOMAIN buf = 1..n /\ buf = [b \in 1..n |-> buf[b]]
        BY <4>4
      <4>6. \A b \in 1..n : buf[b] \in Lines \union {NULL}
        BY ZenonT(40), <1>2, <4>2, <4>3, <4>5, ElementOfSeq
      <4>7. buf \in Seq(Lines \union {NULL}) /\ Len(buf) = n
        <5>1. buf \in [1..n -> Lines \union {NULL}]
          BY <4>5, <4>6
        <5> QED
          BY <1>3, <5>1
      <4>8. new \in [live : BOOLEAN, buffer : Seq(Lines \union {NULL}), size : Nat]
            /\ new.live /\ new.buffer = buf /\ new.size = info[src].size
        BY <1>2, <4>4, <4>7
      <4>9. Without({"short"})' => \A b \in 1..n : buf[b] # NULL
        BY <4>1, <4>2, <4>3, <4>5
      <4>10. Without({"edit"})' => info[src].size <= n
        BY <1>2, WithoutBefore DEF SizeInRange, n
      <4> QED
        BY <4>7, <4>8, <4>9, <4>10
    <3> QED
      BY <3>1, <3>2
  <2>4. SourceTypeOK'
    <3>1. info' \in [Infos -> [live : BOOLEAN, buffer : Seq(Lines \union {NULL}), size : Nat]]
      BY <2>2, <2>3 DEF SourceTypeOK
    <3>2. given' \in [Infos -> Seq(LineContents)]
      BY <2>2 DEF SourceTypeOK
    <3>3. DOMAIN heap' \subseteq Lines /\ heap' \in [DOMAIN heap' -> LineContents]
      <4>1. /\ DOMAIN heap' \subseteq Lines
            /\ heap' = [m \in DOMAIN heap' |-> IF m \in DOMAIN heap THEN heap[m] ELSE Blank]
        BY <2>1, <2>2 DEF CreatedFacts
      <4> QED
        BY <4>1, BlankTyped DEF SourceTypeOK
    <3> QED
      BY <2>2, <3>1, <3>2, <3>3 DEF SourceTypeOK
  <2>5. DeadHaveNone'
    BY <2>2, <2>3 DEF DeadHaveNone, NoInfo, new
  <2>6. \A k \in Infos : k # dst => /\ max_size(k)' = max_size(k)
                                    /\ info'[k] = info[k]
    BY <2>2 DEF max_size
  <2>7. max_size(dst)' = Len(new.buffer) /\ info'[dst] = new
    BY DEF max_size, new
  <2>8. NoNullSlot'
    BY ZenonT(40), <1>2, <2>3, <2>6, <2>7, WithoutBefore DEF NoNullSlot, Slot
  <2>9. SizeInRange'
    BY <1>2, <2>3, <2>6, <2>7, WithoutBefore DEF SizeInRange
  <2>10. UnfilledBlank' /\ LinesAsGiven' /\ LinesReachable'
    BY <1>2 DEF UnfilledBlank, LinesAsGiven, LinesReachable
  <2>11. InsideUntilEdited' /\ FreedOnce'
    BY <1>2, <2>2 DEF InsideUntilEdited, FreedOnce
  <2> QED
    BY <2>4, <2>5, <2>8, <2>9, <2>10, <2>11
<1> QED
  BY <1>4, <1>5

LEMMA DestroyKeeps ==
  ASSUME IInv, NEW i \in Infos, Destroy(i)
  PROVE  IInv'
<1> USE DEF IInv
<1> DEFINE lines == SlotLines(i)
<1>1. /\ info' = [info EXCEPT ![i] = NoInfo] /\ given' = [given EXCEPT ![i] = <<>>]
      /\ UNCHANGED <<text_seg, fate>> /\ fate = "running" /\ calls \subseteq calls'
  BY DEF Destroy, Running
<1>2. /\ DOMAIN heap' \subseteq DOMAIN heap
      /\ \A m \in DOMAIN heap' : heap'[m] = heap[m]
      /\ \A m \in DOMAIN heap \ lines : m \in DOMAIN heap'
      /\ heap' \in [DOMAIN heap' -> LineContents]
  BY DEF Destroy, SourceTypeOK
<1>3. Without({"destroy empty", "clone", "short"})' => DOMAIN heap' = DOMAIN heap \ lines
  BY DEF Destroy, Without
<1> HIDE DEF lines
<1>4. /\ \A k \in Infos : k # i => /\ info'[k] = info[k] /\ given'[k] = given[k]
                                   /\ max_size(k)' = max_size(k)
      /\ info'[i] = NoInfo /\ given'[i] = <<>> /\ Len(given'[i]) = 0
      /\ info'[i].size = 0 /\ ~info'[i].live /\ max_size(i)' = 0 /\ 1..max_size(i)' = {}
  BY <1>1 DEF SourceTypeOK, max_size, NoInfo
<1>5. \A k \in Infos : k # i => \A b \in 1..max_size(k) : Slot(k, b)' = Slot(k, b)
  BY <1>4 DEF Slot
\* The lines of the others are not among those of i.
<1>6. ASSUME Without({"clone"})', NEW k \in Infos, k # i, NEW b \in 1..max_size(k)
      PROVE  Slot(k, b) \in DOMAIN heap' \union {NULL}
  <2>1. Slot(k, b) \in DOMAIN heap \union {NULL}
    BY <1>1, <1>6, WithoutBefore DEF FreedOnce, Slot
  <2>2. Slot(k, b) # NULL => Slot(k, b) \notin lines
    BY <1>1, <1>6, WithoutBefore DEF FreedOnce, Slot, SlotLines, lines
  <2> QED
    BY <1>2, <2>1, <2>2
<1>7. SourceTypeOK'
  <2>1. info' \in [Infos -> [live : BOOLEAN, buffer : Seq(Lines \union {NULL}), size : Nat]]
    BY <1>1 DEF SourceTypeOK, NoInfo
  <2>2. given' \in [Infos -> Seq(LineContents)]
    BY <1>1 DEF SourceTypeOK
  <2> QED
    BY <1>1, <1>2, <2>1, <2>2 DEF SourceTypeOK
<1>8. DeadHaveNone'
  BY <1>4 DEF DeadHaveNone, NoInfo
<1>9. NoNullSlot'
  BY <1>1, <1>4, <1>5, WithoutBefore DEF NoNullSlot
<1>10. SizeInRange'
  BY <1>1, <1>4, WithoutBefore DEF SizeInRange
<1>11. Without({"edit", "clone"})' => Without({"clone"})' /\ Without({"edit"})'
  BY DEF Without
<1>12. UnfilledBlank'
  <2> SUFFICES ASSUME Without({"edit", "clone"})', NEW k \in Infos, NEW b \in 1..max_size(k)'
               PROVE  IF b <= info'[k].size THEN Slot(k, b)' # NULL
                      ELSE Slot(k, b)' = NULL \/ heap'[Slot(k, b)'] = Blank
    BY DEF UnfilledBlank
  <2>1. k # i
    BY <1>4
  <2>2. IF b <= info[k].size THEN Slot(k, b) # NULL
        ELSE Slot(k, b) = NULL \/ heap[Slot(k, b)] = Blank
    BY <1>1, <1>4, <2>1, WithoutBefore DEF UnfilledBlank
  <2> QED
    BY <1>2, <1>4, <1>5, <1>6, <1>11, <2>1, <2>2
<1>13. LinesAsGiven'
  <2> SUFFICES ASSUME Without({"edit", "clone"})', NEW k \in Infos, info'[k].live
               PROVE  /\ info'[k].size = Len(given'[k])
                      /\ \A e \in 1..info'[k].size : heap'[Slot(k, e)'] = given'[k][e]
    BY DEF LinesAsGiven, Slot
  <2>1. k # i
    BY <1>4
  <2>2. /\ info[k].size = Len(given[k])
        /\ \A e \in 1..info[k].size : heap[Slot(k, e)] = given[k][e]
    BY <1>1, <1>4, <2>1, WithoutBefore DEF LinesAsGiven, Slot
  <2>3. info[k].size <= max_size(k) /\ info[k].size \in Nat /\ max_size(k) \in Nat
    BY <1>1, <1>11, WithoutBefore DEF SizeInRange, SourceTypeOK, max_size
  <2>4. \A e \in 1..info[k].size : e \in 1..max_size(k) /\ Slot(k, e) # NULL
    BY <1>1, <2>3, WithoutBefore DEF UnfilledBlank
  <2> QED
    BY <1>2, <1>4, <1>5, <1>6, <1>11, <2>1, <2>2, <2>4
<1>14. InsideUntilEdited'
  BY <1>1 DEF InsideUntilEdited
<1>15. FreedOnce'
  <2> SUFFICES ASSUME Without({"clone"})', NEW k \in Infos, NEW b \in 1..max_size(k)',
                      NEW l \in Infos, NEW c \in 1..max_size(l)'
               PROVE  /\ Slot(k, b)' \in DOMAIN heap' \union {NULL}
                      /\ Slot(l, c)' = Slot(k, b)' /\ Slot(k, b)' # NULL => l = k /\ c = b
    BY <1>1 DEF FreedOnce, Slot
  <2>1. k # i /\ l # i
    BY <1>4
  <2>2. Slot(l, c) = Slot(k, b) /\ Slot(k, b) # NULL => l = k /\ c = b
    BY <1>1, <1>4, <2>1, WithoutBefore DEF FreedOnce, Slot
  <2> QED
    BY <1>4, <1>5, <1>6, <2>1, <2>2
<1>16. LinesReachable'
  <2> SUFFICES ASSUME Without({"destroy empty", "clone", "short"})', NEW m \in DOMAIN heap'
               PROVE  \E k \in Infos : \E b \in 1..max_size(k)' : info'[k].buffer[b] = m
    BY DEF LinesReachable
  <2>1. m \in DOMAIN heap /\ m \notin lines
    BY <1>3
  <2>2. PICK k \in Infos : \E b \in 1..max_size(k) : info[k].buffer[b] = m
    BY <1>1, <2>1, WithoutBefore DEF LinesReachable
  <2>3. k # i
    BY <2>1, <2>2 DEF lines, SlotLines
  <2> QED
    BY <1>4, <2>2, <2>3
<1> QED
  BY <1>7, <1>8, <1>9, <1>10, <1>12, <1>13, <1>14, <1>15, <1>16

LEMMA StutterKeeps ==
  ASSUME IInv, UNCHANGED vars
  PROVE  IInv'
<1> USE DEF vars, IInv
<1>1. SourceTypeOK' /\ DeadHaveNone'
  BY DEF SourceTypeOK, DeadHaveNone
<1>2. NoNullSlot' /\ SizeInRange' /\ UnfilledBlank'
  BY DEF NoNullSlot, SizeInRange, UnfilledBlank, Without, max_size, Slot
<1>3. LinesAsGiven' /\ InsideUntilEdited'
  BY DEF LinesAsGiven, InsideUntilEdited, Without
<1>4. FreedOnce'
  BY DEF FreedOnce, Without, max_size
<1>5. LinesReachable'
  BY DEF LinesReachable, Without, max_size
<1> QED
  BY <1>1, <1>2, <1>3, <1>4, <1>5

LEMMA NextKeeps ==
  ASSUME IInv, [Next]_vars
  PROVE  IInv'
<1>1. text_seg \in LineContents /\ "d" \in {"d"}
  BY DEF IInv, SourceTypeOK
<1>2. CASE LineInit
  BY <1>2, BlankTyped, FillKeeps DEF LineInit
<1>3. CASE ClearBytes
  <2>1. [text_seg EXCEPT !.bytes = <<>>] \in LineContents
    BY <1>1, EmptySeq DEF LineContents
  <2> QED
    BY <1>3, <2>1, FillKeeps DEF ClearBytes
<1>4. ASSUME NEW n \in Numbers, SetFields(n) PROVE IInv'
  <2>1. [text_seg EXCEPT !.number = n] \in LineContents
    BY <1>1 DEF LineContents
  <2> QED
    BY <1>4, <2>1, FillKeeps DEF SetFields
<1>5. ASSUME NEW t \in Texts, SetLabel(t) \/ SetSymbol(t) PROVE IInv'
  <2>1. /\ [text_seg EXCEPT !.label = t] \in LineContents
        /\ [text_seg EXCEPT !.symbol = t] \in LineContents
    BY <1>1 DEF LineContents
  <2> QED
    BY <1>5, <2>1, FillKeeps DEF SetLabel, SetSymbol
<1>6. CASE AppendArray("d")
  <2>1. text_seg.bytes \in Seq({"d"})
    BY <1>1 DEF LineContents
  <2>2. Append(text_seg.bytes, "d") \in Seq({"d"})
    BY <1>1, <2>1, AppendProperties
  <2>3. [text_seg EXCEPT !.bytes = Append(@, "d")] \in LineContents
    BY <1>1, <2>2 DEF LineContents
  <2> QED
    BY <1>6, <2>3, FillKeeps DEF AppendArray
<1>7. ASSUME NEW i \in Infos, NEW n \in Sizes, Create(i, n) PROVE IInv'
  BY <1>7, CreateKeeps, SizesAssumption
<1>8. ASSUME NEW i \in Infos, AddLine(i) \/ Destroy(i) \/ DestroyTwice(i) PROVE IInv'
  BY <1>8, AddLineKeeps, DestroyKeeps, DestroyTwiceKeeps
<1>9. ASSUME NEW i \in Infos, NEW idx \in 0..info[i].size, EditLine(i, idx) PROVE IInv'
  <2>1. idx \in Nat
    OBVIOUS
  <2> QED
    BY <1>9, <2>1, EditLineKeeps
<1>10. ASSUME NEW i \in Infos, NEW idx \in 0..max_size(i), GetIdx(i, idx) PROVE IInv'
  <2>1. idx \in Nat
    OBVIOUS
  <2> QED
    BY <1>10, <2>1, GetIdxKeeps
<1>11. ASSUME NEW i \in Infos, NEW dst \in Infos, CloneInfo(i, dst) PROVE IInv'
  BY <1>11, CloneInfoKeeps
<1> QED
  BY <1>2, <1>3, <1>4, <1>5, <1>6, <1>7, <1>8, <1>9, <1>10, <1>11, StutterKeeps DEF Next

\* The inductive invariant holds in every reachable state.
THEOREM InductiveHolds == Spec => []IInv
<1>1. Init => IInv
  BY InitHolds
<1>2. IInv /\ [Next]_vars => IInv'
  BY NextKeeps
<1> QED
  BY <1>1, <1>2, PTL DEF Spec

---------------------------------------------------------------------------
\* Every allocated line, the scratch line and the SourceInfos stay of their
\* types, in a memory of any size and with any number of SourceInfos
\* (src/source.c).
THEOREM TypeCorrect == Spec => []SourceTypeOK
<1>1. IInv => SourceTypeOK
  BY DEF IInv
<1> QED
  BY <1>1, InductiveHolds, PTL

\* What the lexer hands over is what the assembler finds: as long as lines are
\* only added, each filled slot holds its own line and nothing of an earlier
\* one (line_info_copy, source_info_add_line).
THEOREM KeepsLines == Spec => []LinesAsGiven
<1>1. IInv => LinesAsGiven
  BY DEF IInv
<1> QED
  BY <1>1, InductiveHolds, PTL

\* Only a program that edits lines or asks for the slot behind the last one
\* reaches outside a buffer; adding lines and cloning never does.
THEOREM StaysInside == Spec => []InsideUntilEdited
<1>1. IInv => InsideUntilEdited
  BY DEF IInv
<1> QED
  BY <1>1, InductiveHolds, PTL

\* Without a clone no line is freed twice, used after it was freed or held by
\* two slots; NULL is followed only after memory ran out.
THEOREM FreesOnce == Spec => []FreedOnce
<1>1. IInv => FreedOnce
  BY DEF IInv
<1> QED
  BY <1>1, InductiveHolds, PTL

\* A program that clones nothing, destroys no empty SourceInfo and has memory
\* enough forgets no line.
THEOREM ForgetsNothing == Spec => []LinesReachable
<1>1. IInv => LinesReachable
  BY DEF IInv
<1> QED
  BY <1>1, InductiveHolds, PTL
=============================================================================
