--------------------------- MODULE Vectors_proof ---------------------------
(***************************************************************************)
(* For every set of items, every capacity and arrays of any length: the    *)
(* containers of Vectors hold what was pushed, write outside their block   *)
(* only in the two named cases, and grow at least twofold.                 *)
(*                                                                         *)
(* The invariant is inductive as the conjunction of the type, the contents *)
(* and the two facts about capacities: a push relies on size <= capacity   *)
(* to have room after it has extended, an insert on the slot kept free and *)
(* on a slot whose size was never written.                                 *)
(***************************************************************************)
EXTENDS Vectors, SequenceTheorems, TLAPS

\* Nothing ever writes a size in bytes into a slot of an InstrBuffer.
Sizeless(b) == kind = "buffer" => \A i \in DOMAIN b : b[i].size = Undef

VInv == VectorTypeOK /\ HoldsWhatWasPushed /\ Sizeless(block) /\ NeverFull /\ WritesInside

\* An array a ByteVector is given, and the one instruction of a push, are
\* sequences of items.
LEMMA ArraysAreSequences == Arrays \subseteq Seq(Items)
  <1>1. SUFFICES ASSUME NEW s \in Arrays PROVE s \in Seq(Items)
    OBVIOUS
  <1>2. PICK n \in 0..MaxLen : s \in [1..n -> Bytes]
    BY DEF Arrays
  <1>3. n \in Nat
    BY <1>2, MaxLenAssumption
  <1> QED
    BY <1>2, <1>3 DEF Bytes

\* An item that is copied leaves a slot of which the item is kept, and what is
\* below size was kept in the same container.
LEMMA CopiedIsKept ==
  ASSUME NEW slot \in Slots, NEW item \in Items,
         kind = "buffer" => slot.size = Undef
  PROVE  Copied(slot, item) \in Slots /\ Copied(slot, item) = Kept(item)
  BY DEF Copied, Kept, Slots, Items

\* A copy of a sequence into a block that has the old contents below size.
LEMMA CopyKeeps ==
  ASSUME VectorTypeOK, HoldsWhatWasPushed,
         NEW s \in Seq(Items), NEW n \in Nat, size + Len(s) <= n,
         NEW b \in [1..n -> Slots],
         \A i \in 1..size : b[i] = block[i],
         Sizeless(b), kind' = kind,
         CopyTo(n, b, s)
  PROVE  /\ block' \in [1..n -> Slots]
         /\ capacity' = n /\ size' = size + Len(s) /\ size' \in Nat
         /\ given' \in Seq(Items) /\ HoldsWhatWasPushed' /\ fate' = fate
         /\ Sizeless(block)'
  <1>1. /\ size \in Nat /\ given \in Seq(Items) /\ Len(given) = size
        /\ Len(s) \in Nat /\ \A i \in 1..Len(s) : s[i] \in Items
        /\ \A i \in 1..size : b[i] = Kept(given[i])
    BY LenProperties, ElementOfSeq DEF VectorTypeOK, HoldsWhatWasPushed
  <1>2. /\ block' = [i \in 1..n |->
              IF i \in (size + 1)..(size + Len(s)) THEN Copied(b[i], s[i - size]) ELSE b[i]]
        /\ capacity' = n /\ size' = size + Len(s)
        /\ given' = given \o s /\ fate' = fate
    BY <1>1 DEF CopyTo
  <1>3. ASSUME NEW i \in 1..n, i \in (size + 1)..(size + Len(s))
        PROVE  block'[i] \in Slots /\ block'[i] = Kept(s[i - size])
    <2>1. block'[i] = Copied(b[i], s[i - size])
      BY <1>2, <1>3
    <2>2. s[i - size] \in Items /\ b[i] \in Slots /\ (kind = "buffer" => b[i].size = Undef)
      BY <1>1, <1>3 DEF Sizeless
    <2> QED
      BY <2>1, <2>2, CopiedIsKept
  <1>4. /\ block' \in [1..n -> Slots]
        /\ \A i \in 1..n : i <= size => block'[i] = b[i]
        /\ \A i \in 1..n : size + Len(s) < i => block'[i] = b[i]
    BY <1>1, <1>2, <1>3
  <1>5. /\ given' \in Seq(Items) /\ Len(given') = size + Len(s)
        /\ \A i \in 1..(size + Len(s)) :
              given'[i] = IF i <= size THEN given[i] ELSE s[i - size]
    <2>1. given \o s \in Seq(Items) /\ Len(given \o s) = Len(given) + Len(s)
      BY <1>1, ConcatProperties
    <2>2. \A i \in 1..(Len(given) + Len(s)) : (given \o s)[i]
             = IF i <= Len(given) THEN given[i] ELSE s[i - Len(given)]
      BY <1>1, ConcatProperties
    <2> QED
      BY <1>1, <1>2, <2>1, <2>2
  <1>6. ASSUME NEW i \in 1..size' PROVE block'[i] = Kept(given'[i])
    <2>1. CASE i <= size
      BY <1>1, <1>2, <1>4, <1>5, <2>1
    <2>2. CASE size < i
      BY <1>1, <1>2, <1>3, <1>5, <2>2
    <2> QED
      BY <1>1, <1>2, <2>1, <2>2
  <1>7. ASSUME kind' = "buffer", NEW i \in DOMAIN block' PROVE block'[i].size = Undef
    <2>1. i \in 1..n
      BY <1>4, <1>7
    <2>2. CASE i \in (size + 1)..(size + Len(s))
      <3>1. block'[i] = Kept(s[i - size]) /\ s[i - size] \in Items
        BY <1>1, <1>3, <2>1, <2>2
      <3> QED
        BY <1>7, <3>1 DEF Kept, Items
    <2>3. CASE i \notin (size + 1)..(size + Len(s))
      BY <1>1, <1>4, <1>7, <2>1, <2>3 DEF Sizeless
    <2> QED
      BY <2>2, <2>3
  <1> QED
    <2>1. HoldsWhatWasPushed'
      <3>1. size' <= capacity' /\ Len(given') = size'
        BY <1>1, <1>2, <1>5
      <3> QED
        BY <1>6, <3>1 DEF HoldsWhatWasPushed, Kept
    <2>2. Sizeless(block)'
      BY <1>7 DEF Sizeless
    <2>3. size' \in Nat
      BY <1>1, <1>2
    <2> QED
      BY <1>2, <1>4, <1>5, <2>1, <2>2, <2>3

\* A copy that would end behind the block changes nothing but fate.
LEMMA CopyOverruns ==
  ASSUME NEW s \in Seq(Items), NEW n \in Nat, ~(size + Len(s) <= n),
         size \in Nat, NEW b, CopyTo(n, b, s)
  PROVE  fate' = "overrun" /\ UNCHANGED <<block, capacity, size, given>>
  <1>1. Len(s) \in Nat
    BY LenProperties
  <1> QED
    BY <1>1 DEF CopyTo

\* The larger block has the old contents.
LEMMA ExtendedKeeps ==
  ASSUME VectorTypeOK, HoldsWhatWasPushed, NEW ext \in Nat
  PROVE  /\ Extended(ext) \in [1..(capacity + ext) -> Slots]
         /\ \A i \in 1..size : Extended(ext)[i] = block[i]
  <1>1. NeverWritten \in Slots
    BY DEF NeverWritten, Slots
  <1>2. \A i \in 1..size : block[i] \in Slots
    BY DEF VectorTypeOK, HoldsWhatWasPushed
  <1> QED
    BY <1>1, <1>2 DEF VectorTypeOK, HoldsWhatWasPushed, Extended

\* A push or insert that stays inside the block, or is past its end.
LEMMA CopyOK ==
  ASSUME VInv, fate = "live", NEW s \in Seq(Items), NEW n \in Nat, n >= capacity,
         NEW b \in [1..n -> Slots],
         \A i \in 1..size : b[i] = block[i], Sizeless(b),
         CopyTo(n, b, s),
         kind' = kind, starved' \in BOOLEAN,
         kind = "buffer" => n = capacity,
         kind = "buffer" /\ capacity > 0 => size + Len(s) < n,
         size + Len(s) <= n \/ starved' \/ (capacity = 0 /\ kind # "bytes")
  PROVE  VInv'
  <1>1. size \in Nat /\ capacity \in Nat /\ Len(s) \in Nat
    BY LenProperties DEF VInv, VectorTypeOK
  <1>2. CASE size + Len(s) <= n
    <2>1. /\ block' \in [1..n -> Slots]
          /\ capacity' = n /\ size' = size + Len(s) /\ size' \in Nat
          /\ given' \in Seq(Items) /\ HoldsWhatWasPushed' /\ fate' = fate
          /\ Sizeless(block)'
      BY <1>2, CopyKeeps DEF VInv
    <2>2. VectorTypeOK'
      BY <2>1 DEF VInv, VectorTypeOK
    <2>3. NeverFull'
      <3>1. SUFFICES ASSUME kind' = "buffer", capacity' > 0 PROVE size' < capacity'
        BY DEF NeverFull
      <3>2. n = capacity /\ capacity > 0
        BY <2>1, <3>1
      <3> QED
        BY <2>1, <3>1, <3>2
    <2>4. WritesInside'
      BY <2>1 DEF WritesInside
    <2> QED
      BY <2>1, <2>2, <2>3, <2>4 DEF VInv
  <1>3. CASE ~(size + Len(s) <= n)
    <2>1. fate' = "overrun" /\ UNCHANGED <<block, capacity, size, given>>
      BY <1>1, <1>3, CopyOverruns
    <2>2. starved' \/ (capacity' = 0 /\ kind' # "bytes")
      BY <1>3, <2>1
    <2>3. VectorTypeOK' /\ HoldsWhatWasPushed' /\ NeverFull' /\ Sizeless(block)'
      BY <2>1 DEF VInv, VectorTypeOK, HoldsWhatWasPushed, NeverFull, Kept, Sizeless
    <2>4. WritesInside'
      BY <2>2 DEF WritesInside
    <2> QED
      BY <2>3, <2>4 DEF VInv
  <1> QED
    BY <1>2, <1>3

LEMMA InitOK == Init => VInv
  <1>1. SUFFICES ASSUME Init PROVE VInv
    OBVIOUS
  <1>2. capacity \in Nat
    BY <1>1, CapacityAssumption DEF Init
  <1>3. <<>> \in Seq(Items) /\ Len(<<>>) = 0
    BY EmptySeq, Zenon
  <1>4. /\ NeverWritten \in Slots /\ Created \in Slots /\ Created.size = Undef
        /\ block \in [1..capacity -> {NeverWritten, Created}]
        /\ kind = "buffer" => block = [i \in 1..capacity |-> Created]
    BY <1>1, <1>2 DEF Init, Unwritten, NeverWritten, Created, Slots
  <1>5. VectorTypeOK
    BY <1>1, <1>2, <1>3, <1>4 DEF Init, VectorTypeOK
  <1>6. HoldsWhatWasPushed /\ Sizeless(block) /\ NeverFull /\ WritesInside
    BY <1>1, <1>2, <1>3, <1>4 DEF Init, HoldsWhatWasPushed, Sizeless, NeverFull, WritesInside
  <1> QED
    BY <1>5, <1>6 DEF VInv

\* A push into the block as it is, where memory has run out or there is room.
LEMMA InPlaceOK ==
  ASSUME VInv, fate = "live", NEW s \in Seq(Items), PushInPlace(s),
         kind' = kind, starved' \in BOOLEAN,
         kind = "buffer" /\ capacity > 0 => size + Len(s) < capacity,
         size + Len(s) <= capacity \/ starved' \/ (capacity = 0 /\ kind # "bytes")
  PROVE  VInv'
  <1>1. /\ capacity \in Nat /\ block \in [1..capacity -> Slots]
        /\ CopyTo(capacity, block, s) /\ capacity >= capacity /\ Sizeless(block)
    BY DEF VInv, VectorTypeOK, PushInPlace
  <1> QED
    BY <1>1, CopyOK

\* A push that extends by at least the capacity, and by enough.
LEMMA ExtendingOK ==
  ASSUME VInv, fate = "live", kind # "buffer", kind' = kind,
         NEW s \in Seq(Items), NEW ext \in Nat, PushExtending(ext, s),
         size + Len(s) <= capacity + ext \/ (capacity = 0 /\ kind # "bytes")
  PROVE  VInv'
  <1>1. capacity \in Nat /\ capacity + ext \in Nat /\ capacity + ext >= capacity
    BY DEF VInv, VectorTypeOK
  <1>2. CASE CopyTo(capacity + ext, Extended(ext), s) /\ UNCHANGED starved
    <2>1. /\ Extended(ext) \in [1..(capacity + ext) -> Slots]
          /\ \A i \in 1..size : Extended(ext)[i] = block[i]
          /\ Sizeless(Extended(ext))
      BY ExtendedKeeps DEF VInv, Sizeless
    <2>2. starved' \in BOOLEAN
      BY <1>2 DEF VInv, VectorTypeOK
    <2> HIDE DEF Extended
    <2>3. CopyTo(capacity + ext, Extended(ext), s)
      BY <1>2
    <2> QED
      BY <1>1, <2>1, <2>2, <2>3, CopyOK
  <1>3. CASE PushInPlace(s) /\ starved' = TRUE
    BY <1>3, InPlaceOK
  <1> QED
    BY <1>2, <1>3 DEF PushExtending

\* Twice the capacity, or the capacity and the array more, is enough for what
\* a byte vector holds and the array.
LEMMA WantedIsEnough ==
  ASSUME VInv, NEW len \in Nat
  PROVE  /\ BytesWanted(len) \in Nat /\ BytesWanted(len) >= capacity
         /\ size + len <= capacity + BytesWanted(len)
  BY DEF VInv, VectorTypeOK, HoldsWhatWasPushed, BytesWanted

LEMMA OneIsSequence ==
  ASSUME NEW x \in Items
  PROVE  <<x>> \in Seq(Items) /\ Len(<<x>>) = 1
  OBVIOUS

LEMMA NextOK == VInv /\ [Next]_vars => VInv'
  <1> SUFFICES ASSUME VInv, [Next]_vars PROVE VInv'
    OBVIOUS
  <1>0. capacity \in Nat /\ size \in Nat /\ size <= capacity /\ starved \in BOOLEAN
    BY DEF VInv, VectorTypeOK, HoldsWhatWasPushed
  <1>1. ASSUME NEW s \in Arrays, PushBytes(s) PROVE VInv'
    <2>1. s \in Seq(Items) /\ Len(s) \in Nat
      BY ArraysAreSequences, LenProperties
    <2>2. fate = "live" /\ kind = "bytes" /\ kind' = kind
      BY <1>1 DEF PushBytes
    <2>3. CASE PushExtending(BytesWanted(Len(s)), s)
      <3>1. /\ BytesWanted(Len(s)) \in Nat
            /\ size + Len(s) <= capacity + BytesWanted(Len(s))
        BY <2>1, WantedIsEnough
      <3> QED
        BY <2>1, <2>2, <2>3, <3>1, ExtendingOK
    <2>4. CASE size + Len(s) < capacity /\ PushInPlace(s) /\ UNCHANGED starved
      BY <1>0, <2>1, <2>2, <2>4, InPlaceOK
    <2> QED
      BY <1>1, <2>3, <2>4 DEF PushBytes
  <1>2. ASSUME NEW x \in Items, PushInstr(x) PROVE VInv'
    <2>1. <<x>> \in Seq(Items) /\ Len(<<x>>) = 1
      BY OneIsSequence
    <2>2. fate = "live" /\ kind = "instrs" /\ kind' = kind
      BY <1>2 DEF PushInstr
    <2>3. CASE size >= capacity /\ PushExtending(capacity, <<x>>)
      <3>1. size + Len(<<x>>) <= capacity + capacity \/ capacity = 0
        BY <1>0, <2>1
      <3> QED
        BY <1>0, <2>1, <2>2, <2>3, <3>1, ExtendingOK
    <2>4. CASE size < capacity /\ PushInPlace(<<x>>) /\ UNCHANGED starved
      <3>1. size + Len(<<x>>) <= capacity
        BY <1>0, <2>1, <2>4
      <3> QED
        BY <1>0, <2>1, <2>2, <2>4, <3>1, InPlaceOK
    <2> QED
      BY <1>2, <2>3, <2>4 DEF PushInstr
  <1>3. ASSUME NEW x \in Items, InsertInstr(x) PROVE VInv'
    <2>1. <<x>> \in Seq(Items) /\ Len(<<x>>) = 1
      BY OneIsSequence
    <2>2. /\ fate = "live" /\ kind = "buffer" /\ kind' = kind /\ starved' = starved
          /\ PushInPlace(<<x>>) /\ size # capacity - 1
      BY <1>3 DEF InsertInstr
    <2>3. capacity > 0 => size + Len(<<x>>) < capacity
      BY <1>0, <2>1, <2>2 DEF VInv, NeverFull
    <2>4. size + Len(<<x>>) <= capacity \/ capacity = 0
      BY <1>0, <2>1, <2>3
    <2> QED
      BY <1>0, <2>1, <2>2, <2>3, <2>4, InPlaceOK
  <1>4. CASE InitBytes
    <2>1. <<>> \in Seq(Items) /\ Len(<<>>) = 0
      BY EmptySeq, Zenon
    <2>2. [code |-> Zero, size |-> 1] \in Slots
      BY LengthsAssumption DEF Slots
    <2>3. VectorTypeOK'
      BY <1>0, <1>4, <2>1, <2>2 DEF InitBytes, VInv, VectorTypeOK
    <2>4. HoldsWhatWasPushed' /\ Sizeless(block)' /\ NeverFull' /\ WritesInside'
      BY <1>0, <1>4, <2>1
         DEF InitBytes, VInv, HoldsWhatWasPushed, Sizeless, NeverFull, WritesInside
    <2> QED
      BY <2>3, <2>4 DEF VInv
  <1>5. CASE GetBehind \/ Destroy
    BY <1>5 DEF GetBehind, Destroy, VInv, VectorTypeOK, HoldsWhatWasPushed, Kept, Sizeless,
              NeverFull, WritesInside
  <1>6. CASE UNCHANGED vars
    BY <1>6 DEF vars, VInv, VectorTypeOK, HoldsWhatWasPushed, Kept, Sizeless, NeverFull,
              WritesInside
  <1> QED
    BY <1>1, <1>2, <1>3, <1>4, <1>5, <1>6 DEF Next

\* The invariant, which the theorems below take their parts from.
THEOREM VectorsInv == Spec => []VInv
  <1>1. Init => VInv
    BY InitOK
  <1>2. VInv /\ [Next]_vars => VInv'
    BY NextOK
  <1> QED
    BY <1>1, <1>2, PTL DEF Spec

\* The block of a container in vector.c or instr.c is as long as its capacity
\* says, and only ever holds what was pushed, zeros or memory never written.
THEOREM VectorsTypeCorrect == Spec => []VectorTypeOK
  <1>1. VInv => VectorTypeOK
    BY DEF VInv
  <1> QED
    BY <1>1, VectorsInv, PTL

\* Whatever is pushed, vector.c and instr.c write outside their blocks only
\* where memory has run out or a container for instructions was created for
\* none.
THEOREM VectorsWriteInside == Spec => []WritesInside
  <1>1. VInv => WritesInside
    BY DEF VInv
  <1> QED
    BY <1>1, VectorsInv, PTL

\* Below size a container of vector.c has what was pushed, in order, and an
\* InstrBuffer of instr.c the instructions and addresses that were inserted,
\* each beside a size in bytes that nobody has written.
THEOREM VectorsHold == Spec => []HoldsWhatWasPushed
  <1>1. VInv => HoldsWhatWasPushed
    BY DEF VInv
  <1> QED
    BY <1>1, VectorsInv, PTL

\* instr_buffer_insert never lets instr_buffer_full be true.
THEOREM BufferNeverFull == Spec => []NeverFull
  <1>1. VInv => NeverFull
    BY DEF VInv
  <1> QED
    BY <1>1, VectorsInv, PTL

\* A block that is replaced is replaced by one at least twice as large.
LEMMA CopyGrows ==
  ASSUME capacity \in Nat, NEW ext \in Nat, ext >= capacity, NEW s, PushExtending(ext, s)
  PROVE  capacity' # capacity => capacity' >= 2 * capacity
  BY DEF PushExtending, PushInPlace, CopyTo

LEMMA StepGrows ==
  ASSUME VInv, [Next]_vars
  PROVE  capacity' # capacity => capacity' >= 2 * capacity
  <1>0. capacity \in Nat
    BY DEF VInv, VectorTypeOK
  <1>1. ASSUME NEW s \in Arrays, PushBytes(s)
        PROVE  capacity' # capacity => capacity' >= 2 * capacity
    <2>1. Len(s) \in Nat
      BY ArraysAreSequences, LenProperties
    <2>2. BytesWanted(Len(s)) \in Nat /\ BytesWanted(Len(s)) >= capacity
      BY <2>1, WantedIsEnough
    <2>3. CASE PushExtending(BytesWanted(Len(s)), s)
      BY <1>0, <2>2, <2>3, CopyGrows
    <2>4. CASE PushInPlace(s)
      BY <2>4 DEF PushInPlace, CopyTo
    <2> QED
      BY <1>1, <2>3, <2>4 DEF PushBytes
  <1>2. ASSUME NEW x \in Items, PushInstr(x)
        PROVE  capacity' # capacity => capacity' >= 2 * capacity
    <2>1. CASE PushExtending(capacity, <<x>>)
      BY <1>0, <2>1, CopyGrows
    <2>2. CASE PushInPlace(<<x>>)
      BY <2>2 DEF PushInPlace, CopyTo
    <2> QED
      BY <1>2, <2>1, <2>2 DEF PushInstr
  <1>3. ASSUME NEW x \in Items, InsertInstr(x) PROVE capacity' = capacity
    BY <1>3 DEF InsertInstr, PushInPlace, CopyTo
  <1>4. CASE InitBytes \/ GetBehind \/ Destroy \/ UNCHANGED vars
    BY <1>4 DEF InitBytes, GetBehind, Destroy, vars
  <1> QED
    BY <1>1, <1>2, <1>3, <1>4 DEF Next

\* byte_vector_push_back and instr_vector_push_back at least double.
THEOREM VectorsGrowTwofold == Spec => GrowsTwofold
  <1>1. VInv /\ [Next]_vars => [capacity' # capacity => capacity' >= 2 * capacity]_vars
    BY StepGrows
  <1> QED
    BY <1>1, VectorsInv, PTL DEF Spec, GrowsTwofold
=============================================================================
