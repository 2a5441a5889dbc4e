------------------------------ MODULE Vectors ------------------------------
(***************************************************************************)
(* The growing and the bounded containers of src/src/vector.c and          *)
(* src/src/instr.c: a ByteVector takes arrays of bytes, an InstrVector and *)
(* an InstrBuffer take instructions.  Each keeps its elements in a block   *)
(* of memory beside a size; the vectors move to a larger block where they  *)
(* have no room.  An allocation may fail: the vector then stays as it is,  *)
(* and the caller writes all the same.                                     *)
(*                                                                         *)
(* An item has the fields code, which stands for what an instruction does  *)
(* and its address, and size, its length in bytes: instr_copy takes them   *)
(* apart.  A byte of a ByteVector is an item one byte long.                *)
(***************************************************************************)
EXTENDS Integers, Sequences

CONSTANTS
    Codes,          \* bytes, or instr and addr of instructions
    Zero,           \* the code of memory set to zero
    Lengths,        \* sizes in bytes of instructions
    Capacities,     \* the capacities the containers are created with
    MaxLen,         \* bound on the arrays a ByteVector is given
    Undef           \* memory that was never written

ASSUME CapacityAssumption == Capacities \subseteq Nat
ASSUME MaxLenAssumption == MaxLen \in Nat
ASSUME UndefAssumption == Undef \notin Codes \union {Zero} \union Lengths
ASSUME LengthsAssumption == 1 \in Lengths

VARIABLES
    kind,       \* "bytes", "instrs" (the vectors) or "buffer"
    block,      \* the memory, from 1
    capacity,   \* capacity, or max_size of an InstrBuffer
    size,
    fate,       \* "live", "destroyed", or went wrong: "overrun", "overread"
    given,      \* history: what has been pushed since the last init
    starved     \* history: an allocation has failed

vars == <<kind, block, capacity, size, fate, given, starved>>

Items == [code : Codes, size : Lengths]
Bytes == {item \in Items : item.size = 1}

\* What a place in memory may hold.
Slots == [code : Codes \union {Zero, Undef}, size : Lengths \union {Undef}]

NeverWritten == [code |-> Undef, size |-> Undef]
Unwritten(n) == [i \in 1..n |-> NeverWritten]

\* instr_create sets the instruction and its address, and not its size.
Created == [code |-> Zero, size |-> Undef]

\* instr_buffer_create fills every slot; the vectors leave their memory as it
\* comes.
Init ==
    /\ kind \in {"bytes", "instrs", "buffer"}
    /\ capacity \in Capacities
    /\ block = IF kind = "buffer" THEN [i \in 1..capacity |-> Created] ELSE Unwritten(capacity)
    /\ size = 0 /\ fate = "live"
    /\ given = <<>> /\ starved = FALSE

Arrays == UNION {[1..n -> Bytes] : n \in 0..MaxLen}

---------------------------------------------------------------------------
\* Seeded bug: the new block is not filled from the old one.
Extended_Empty(ext) == Unwritten(capacity + ext)

\* The block after byte_vector_extend or instr_vector_extend.
Extended(ext) ==
    [i \in 1..(capacity + ext) |-> IF i <= size THEN block[i] ELSE NeverWritten]

\* A slot behind the copy of an item into it: the vectors copy all of an item,
\* instr_copy, which an InstrBuffer uses, all but its size.
Copied(slot, item) == IF kind = "buffer" THEN [slot EXCEPT !.code = item.code] ELSE item

\* The elements of s are copied behind the first size ones of block b of n
\* elements, which becomes the container's block.
CopyTo(n, b, s) ==
    IF size + Len(s) > n
      THEN fate' = "overrun" /\ UNCHANGED <<block, capacity, size, given>>
      ELSE /\ block' = [i \in 1..n |->
                IF i \in (size + 1)..(size + Len(s)) THEN Copied(b[i], s[i - size]) ELSE b[i]]
           /\ capacity' = n
           /\ size' = size + Len(s)
           /\ given' = given \o s
           /\ UNCHANGED fate

PushInPlace(s) == CopyTo(capacity, block, s)

\* A push that wants to extend by ext: memory may not be there.
PushExtending(ext, s) ==
    \/ CopyTo(capacity + ext, Extended(ext), s) /\ UNCHANGED starved
    \/ PushInPlace(s) /\ starved' = TRUE

\* Seeded bug: a byte vector grows by what is asked of it only.
BytesWanted_Exact(len) == len

\* By how much a byte vector is extended for len more bytes.
BytesWanted(len) ==
    IF size + len > 2 * capacity THEN capacity + len ELSE capacity

\* Seeded bug: the vector doubles once, however long the array is.
PushBytes_DoublesOnce(s) ==
    /\ fate = "live" /\ kind = "bytes"
    /\ \/ size + Len(s) >= capacity /\ PushExtending(capacity, s)
       \/ size + Len(s) < capacity /\ PushInPlace(s) /\ UNCHANGED starved
    /\ UNCHANGED kind

PushBytes(s) ==
    /\ fate = "live" /\ kind = "bytes"
    /\ \/ size + Len(s) >= capacity /\ PushExtending(BytesWanted(Len(s)), s)
       \/ size + Len(s) < capacity /\ PushInPlace(s) /\ UNCHANGED starved
    /\ UNCHANGED kind

PushInstr(x) ==
    /\ fate = "live" /\ kind = "instrs"
    /\ \/ size >= capacity /\ PushExtending(capacity, <<x>>)
       \/ size < capacity /\ PushInPlace(<<x>>) /\ UNCHANGED starved
    /\ UNCHANGED kind

\* Seeded bug: the buffer counts the slots from one.
InsertInstr_ToFull(x) ==
    /\ fate = "live" /\ kind = "buffer"
    /\ size # capacity
    /\ PushInPlace(<<x>>)
    /\ UNCHANGED <<kind, starved>>

\* instr_buffer_insert copies into the next slot; one slot is kept free.
InsertInstr(x) ==
    /\ fate = "live" /\ kind = "buffer"
    /\ size # capacity - 1
    /\ PushInPlace(<<x>>)
    /\ UNCHANGED <<kind, starved>>

\* Seeded bug: the capacity is forgotten with the size.
InitBytes_NoCapacity ==
    /\ fate = "live" /\ kind = "bytes"
    /\ block' = Unwritten(capacity)
    /\ capacity' = 0 /\ size' = 0 /\ given' = <<>>
    /\ UNCHANGED <<kind, fate, starved>>

\* byte_vector_init: the memory is set to zero.
InitBytes ==
    /\ fate = "live" /\ kind = "bytes"
    /\ block' = [i \in 1..capacity |-> [code |-> Zero, size |-> 1]]
    /\ size' = 0 /\ given' = <<>>
    /\ UNCHANGED <<kind, capacity, fate, starved>>

\* Reading: the vectors hand out what is below size, an InstrBuffer every slot
\* and the one behind the last.
GetBehind ==
    /\ fate = "live" /\ kind = "buffer"
    /\ fate' = "overread"
    /\ UNCHANGED <<kind, block, capacity, size, given, starved>>

Destroy ==
    /\ fate = "live"
    /\ fate' = "destroyed"
    /\ UNCHANGED <<kind, block, capacity, size, given, starved>>

Next ==
    \/ \E s \in Arrays : PushBytes(s)
    \/ \E x \in Items : PushInstr(x) \/ InsertInstr(x)
    \/ InitBytes \/ GetBehind \/ Destroy

Spec == Init /\ [][Next]_vars

---------------------------------------------------------------------------
VectorTypeOK ==
    /\ kind \in {"bytes", "instrs", "buffer"}
    /\ capacity \in Nat /\ size \in Nat
    /\ block \in [1..capacity -> Slots]
    /\ fate \in {"live", "destroyed", "overrun", "overread"}
    /\ given \in Seq(Items)
    /\ starved \in BOOLEAN

\* No push writes behind the block, with two exceptions: where memory ran out,
\* and where an InstrVector or InstrBuffer was created for no instruction at
\* all, which doubling does not help (vector.c:199) and which is never one
\* short of full (instr.c:134).
WritesInside == fate = "overrun" => starved \/ (capacity = 0 /\ kind # "bytes")

\* What is left of an item in a container: of an instruction in an InstrBuffer
\* its size is what malloc left in the slot (instr.c:55, and :23 never sets it).
Kept(item) == IF kind = "buffer" THEN [item EXCEPT !.size = Undef] ELSE item

\* What has been pushed is there, in order, after any number of moves to
\* larger blocks and refused allocations.  The vectors hand out neither stale
\* nor unwritten memory below size; an InstrBuffer hands out each instruction
\* and its address beside a size in bytes that nobody has ever written.
HoldsWhatWasPushed ==
    /\ Len(given) = size /\ size <= capacity
    /\ \A i \in 1..size : block[i] = Kept(given[i])

\* insert refuses with a slot left while full() waits for none
\* (instr.c:134, :157): an InstrBuffer of any slots refuses instructions but
\* is never full.
NeverFull == kind = "buffer" /\ capacity > 0 => size < capacity

\* A vector that moves has room for twice what it had, so that the moves for
\* n pushes cost in the order of n.
GrowsTwofold == [][capacity' # capacity => capacity' >= 2 * capacity]_vars
=============================================================================
