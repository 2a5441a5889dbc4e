----------------------------- MODULE Cpu_proof -----------------------------
(***************************************************************************)
(* Proofs about cpu_exec for every program image and every content of      *)
(* uninitialised memory: the machine never leaves the widths of its        *)
(* registers, flags and memory.  First the arithmetic of Alu, every helper *)
(* of which stays within the C type the code stores its answer in, then    *)
(* memory and control, then one lemma per group of instructions, then the  *)
(* theorem.                                                                *)
(***************************************************************************)
EXTENDS Cpu, TLAPS

---------------------------------------------------------------------------
(* Bytes and words.                                                         *)

\* The bounds of bytes and words, in the form linear arithmetic wants them.
LEMMA ByteBounds == ASSUME NEW x \in Byte PROVE x \in Int /\ 0 <= x /\ x <= 255
  BY DEF Byte

LEMMA RangeBounds ==
  ASSUME NEW n \in Int, NEW x \in 0..n PROVE x \in Int /\ 0 <= x /\ x <= n
  OBVIOUS

LEMMA WordBounds == ASSUME NEW w \in Word PROVE w \in Int /\ 0 <= w /\ w <= 65535
<1>1. WordMax = 65535 /\ WordMax \in Int
  BY DEF WordMax
<1>2. w \in 0..WordMax
  BY DEF Word
<1>3. w \in Int /\ 0 <= w /\ w <= WordMax
  <2>1. WordMax \in Int
    BY <1>1
  <2> QED BY <1>2, <2>1, RangeBounds
<1> QED BY <1>1, <1>3

\* The register fields of opcodes; 6 is M.
LEMMA CodesOfRegs ==
  /\ RegCode["b"] = 0 /\ RegCode["c"] = 1 /\ RegCode["d"] = 2 /\ RegCode["e"] = 3
  /\ RegCode["h"] = 4 /\ RegCode["l"] = 5 /\ RegCode["a"] = 7
  /\ \A r \in RegName : RegCode[r] \in 0..7 /\ RegCode[r] # 6
  BY DEF RegName, RegCode

LEMMA InRange ==
  ASSUME NEW x \in Int, NEW n \in Int, 0 <= x, x <= n PROVE x \in 0..n
  OBVIOUS

LEMMA IsByte == ASSUME NEW x \in Int, 0 <= x, x <= 255 PROVE x \in Byte
  BY InRange DEF Byte

LEMMA IsWord == ASSUME NEW w \in Int, 0 <= w, w <= 65535 PROVE w \in Word
<1>1. WordMax \in Int /\ w <= WordMax
  BY DEF WordMax
<1> QED BY <1>1, InRange DEF Word

\* An answer reduced to 8 or 16 bits is a byte or a word.
LEMMA Truncated ==
  ASSUME NEW x \in Int PROVE x % 256 \in Byte /\ x % 65536 \in Word
<1>1. x % 256 \in Int /\ 0 <= x % 256 /\ x % 256 <= 255
  OBVIOUS
<1>2. x % 65536 \in Int /\ 0 <= x % 65536 /\ x % 65536 <= 65535
  OBVIOUS
<1> QED BY <1>1, <1>2, IsByte, IsWord

\* The halves of a word are bytes.
LEMMA HalvesByte ==
  ASSUME NEW w \in Word PROVE Hi(w) \in Byte /\ Lo(w) \in Byte
<1>1. w \in Int /\ 0 <= w /\ w <= 65535
  BY WordBounds
<1>2. w \div 256 \in Int /\ 0 <= w \div 256 /\ w \div 256 <= 255
  BY <1>1
<1> QED BY <1>1, <1>2, IsByte, Truncated DEF Hi, Lo

\* Two bytes make a word.
LEMMA MkWordWord ==
  ASSUME NEW hi \in Byte, NEW lo \in Byte PROVE MkWord(hi, lo) \in Word
<1>1. hi \in Int /\ lo \in Int /\ 0 <= hi /\ hi <= 255 /\ 0 <= lo /\ lo <= 255
  BY ByteBounds
<1>2. hi * 256 + lo \in Int /\ 0 <= hi * 256 + lo /\ hi * 256 + lo <= 65535
  BY <1>1
<1> QED BY <1>2, IsWord DEF MkWord

\* Bitwise operations give bytes.
LEMMA BitwiseByte ==
  ASSUME NEW x \in Int, NEW y \in Int
  PROVE  And(x, y) \in Byte /\ Or(x, y) \in Byte /\ Xor(x, y) \in Byte
<1>1. And(x, y) \in Byte
  BY DEF And, OnBits, AndBit, Byte
<1>2. Or(x, y) \in Byte
  BY DEF Or, OnBits, OrBit, Byte
<1>3. Xor(x, y) \in Byte
  BY DEF Xor, OnBits, XorBit, Byte
<1> QED BY <1>1, <1>2, <1>3

\* The complement of a byte is a byte.
LEMMA NotByte == ASSUME NEW x \in Byte PROVE Not(x) \in Byte
  BY DEF Not, Byte

---------------------------------------------------------------------------
(* Flags.                                                                   *)

\* Bits, comparisons and parities are flags.
LEMMA BitFlag ==
  ASSUME NEW x \in Int
  PROVE  /\ Bit(x, 1) \in Flag /\ Bit(x, 2) \in Flag /\ Bit(x, 4) \in Flag
         /\ Bit(x, 16) \in Flag /\ Bit(x, 128) \in Flag
  BY DEF Bit, Flag

LEMMA ParityFlag == ASSUME NEW x \in Int PROVE Parity(x) \in Flag
  BY DEF Parity, Bit, Flag

LEMMA ConstFlag == 0 \in Flag /\ 1 \in Flag
  BY DEF Flag

\* arith_set_flags and logic_set_flags keep the flags flags.
LEMMA ArithFlagsFlags ==
  ASSUME NEW f \in Flags, NEW ans \in Int PROVE ArithFlags(f, ans) \in Flags
<1> DEFINE z == AsFlag(ans % 256 = 0)
           s == Bit(ans, 128)
           cy == AsFlag(ans > 255)
           p == Parity2(ans % 256)
<1>1. z \in Flag /\ cy \in Flag /\ p \in Flag
  BY DEF AsFlag, Parity2, Flag
<1>2. s \in Flag
  BY BitFlag
<1>3. ArithFlags(f, ans) = [f EXCEPT !.z = z, !.s = s, !.cy = cy, !.p = p]
  BY DEF ArithFlags
<1> HIDE DEF z, s, cy, p
<1> QED BY <1>1, <1>2, <1>3 DEF Flags

LEMMA LogicFlagsFlags ==
  ASSUME NEW f \in Flags, NEW a \in Int PROVE LogicFlags(f, a) \in Flags
<1>1. Bit(a, 128) \in Flag /\ Parity(a) \in Flag /\ 0 \in Flag
  BY BitFlag, ParityFlag, ConstFlag
<1> QED BY <1>1 DEF LogicFlags, Flags

\* So do the flags of the memory forms and those POP PSW unpacks.
LEMMA WideFlagsFlags ==
  ASSUME NEW f \in Flags, NEW a \in Int, NEW ans \in Int
  PROVE  WideFlags(f, a, ans) \in Flags
<1> DEFINE z == AsFlag(ans = 0)
           cy == AsFlag(ans > 65535)
<1>1. z \in Flag /\ cy \in Flag
  BY DEF AsFlag, Flag
<1>2. Parity(a) \in Flag /\ 0 \in Flag
  BY ParityFlag, ConstFlag
<1>3. WideFlags(f, a, ans) = [f EXCEPT !.z = z, !.p = Parity(a), !.s = 0, !.cy = cy]
  BY DEF WideFlags
<1> HIDE DEF z, cy
<1> QED BY <1>1, <1>2, <1>3 DEF Flags

LEMMA UnpackFlags == ASSUME NEW psw \in Int PROVE UnpackPsw(psw) \in Flags
<1> DEFINE cy == AsFlag(Bit(psw, 1) = 1 /\ Bit(psw, 4) = 1)
<1>1. cy \in Flag
  BY DEF AsFlag, Flag
<1>2. UnpackPsw(psw) = [z |-> Bit(psw, 1), s |-> Bit(psw, 2), p |-> Bit(psw, 4),
                        cy |-> cy, ac |-> Bit(psw, 16)]
  BY DEF UnpackPsw
<1> HIDE DEF cy
<1> QED BY <1>1, <1>2, BitFlag DEF Flags

LEMMA PackByte == ASSUME NEW f \in Flags PROVE PackPsw(f) \in Byte
<1>1. ASSUME NEW z \in Flag, NEW s \in Flag, NEW p \in Flag, NEW cy \in Flag, NEW ac \in Flag
      PROVE  z + 2 * s + 4 * p + 8 * cy + 16 * ac \in Byte
  BY DEF Flag, Byte
<1>2. f.z \in Flag /\ f.s \in Flag /\ f.p \in Flag /\ f.cy \in Flag /\ f.ac \in Flag
  BY DEF Flags
<1> QED BY <1>1, <1>2 DEF PackPsw

---------------------------------------------------------------------------
(* Accumulator instructions.                                                *)

AccOK(res) == res.a \in Byte /\ res.cc \in Flags

\* What an accumulator and flags of the right width need to be a result.
LEMMA ResultOK ==
  ASSUME NEW a \in Byte, NEW f \in Flags PROVE AccOK(Result(a, f))
  BY DEF Result, AccOK

\* ADD, ADC, SUB, SBB and the immediates that use them.
LEMMA SumsOK ==
  ASSUME NEW a \in Byte, NEW r \in Byte, NEW f \in Flags
  PROVE  /\ AccOK(AddOp(a, r, f)) /\ AccOK(AdcOp(a, r, f)) /\ AccOK(AciOp(a, r, f))
         /\ AccOK(SubOp(a, r, f)) /\ AccOK(SbbOp(a, r, f)) /\ AccOK(AdiOp(a, r, f))
<1>1. /\ a \in Int /\ 0 <= a /\ a <= 255 /\ r \in Int /\ 0 <= r /\ r <= 255
      /\ a + r \in Int /\ Minus16(a, r) \in Int
  BY DEF Byte, Minus16
<1>2. /\ ArithFlags(f, a + r) \in Flags
      /\ ArithFlags(f, Minus16(a, r)) \in Flags
  BY <1>1, ArithFlagsFlags
<1>3. ArithFlags(f, a + r).cy \in Int /\ ArithFlags(f, Minus16(a, r)).cy \in Int
  BY <1>2 DEF Flags, Flag
<1>4. /\ (a + r + ArithFlags(f, a + r).cy) % 256 \in Byte
      /\ (Minus16(a, r) + ArithFlags(f, Minus16(a, r)).cy) % 256 \in Byte
      /\ (a + r) % 256 \in Byte /\ Minus16(a, r) % 256 \in Byte
  <2>1. a + r + ArithFlags(f, a + r).cy \in Int
    BY <1>1, <1>3
  <2>2. Minus16(a, r) + ArithFlags(f, Minus16(a, r)).cy \in Int
    BY <1>1, <1>3
  <2> QED BY <1>1, <2>1, <2>2, Truncated
<1>5. AccOK(AddOp(a, r, f)) /\ AccOK(SubOp(a, r, f))
  BY <1>2, <1>4, ResultOK DEF AddOp, SubOp
<1>6. AccOK(AdcOp(a, r, f)) /\ AccOK(AciOp(a, r, f)) /\ AccOK(SbbOp(a, r, f))
  BY <1>2, <1>4, ResultOK DEF AdcOp, AciOp, SbbOp
<1>7. AccOK(AdiOp(a, r, f))
  <2>1. ASSUME NEW x \in Int, NEW y \in Int, 0 <= x, x <= 255, 0 <= y, y <= 255
        PROVE  (x + y) \div 256 \in Byte
    BY <2>1 DEF Byte
  <2> QED BY <1>1, <1>2, <2>1, ResultOK DEF AdiOp
<1> QED BY <1>5, <1>6, <1>7

\* ANA, XRA, ORA, CMP, ANI, ORI, CMA, RLC and RRC.
LEMMA LogicOK ==
  ASSUME NEW a \in Byte, NEW r \in Byte, NEW f \in Flags
  PROVE  /\ AccOK(AnaOp(a, r, f)) /\ AccOK(XraOp(a, r, f)) /\ AccOK(OraOp(a, r, f))
         /\ AccOK(CmpOp(a, r, f)) /\ AccOK(AniOp(a, r, f)) /\ AccOK(OriOp(a, r, f))
         /\ AccOK(RlcOp(a, f)) /\ AccOK(RrcOp(a, f)) /\ AccOK(Result(Not(a), f))
<1>1. a \in Int /\ r \in Int
  BY DEF Byte
<1>2. /\ And(a, r) \in Byte /\ Xor(a, r) \in Byte /\ Or(a, r) \in Byte
      /\ Not(r) \in Byte /\ Not(a) \in Byte
  BY <1>1, BitwiseByte, NotByte
<1>3. \A x \in Byte : LogicFlags(f, x) \in Flags
  BY LogicFlagsFlags, ByteBounds
<1>4. AccOK(AnaOp(a, r, f)) /\ AccOK(XraOp(a, r, f)) /\ AccOK(OraOp(a, r, f))
  BY <1>2, <1>3, ResultOK DEF AnaOp, XraOp, OraOp
<1>5. AccOK(CmpOp(a, r, f)) /\ AccOK(AniOp(a, r, f)) /\ AccOK(OriOp(a, r, f))
  BY <1>2, <1>3, ResultOK DEF CmpOp, AniOp, OriOp
<1>6. [f EXCEPT !.cy = Bit(a, 128)] \in Flags /\ [f EXCEPT !.cy = Bit(a, 1)] \in Flags
  BY <1>1, BitFlag DEF Flags
<1>7. Or((2 * a) % 256, 128 * Bit(a, 128)) \in Byte /\ Or(a \div 2, Bit(a, 1)) \in Byte
  <2>1. (2 * a) % 256 \in Int /\ 128 * Bit(a, 128) \in Int /\ a \div 2 \in Int /\ Bit(a, 1) \in Int
    BY <1>1 DEF Bit
  <2> QED BY <2>1, BitwiseByte
<1>8. AccOK(RlcOp(a, f)) /\ AccOK(RrcOp(a, f)) /\ AccOK(Result(Not(a), f))
  BY <1>2, <1>6, <1>7, ResultOK DEF RlcOp, RrcOp
<1> QED BY <1>4, <1>5, <1>8

\* The forms that work on the address hl.
LEMMA MemoryFormsOK ==
  ASSUME NEW a \in Byte, NEW hl \in Word, NEW f \in Flags
  PROVE  /\ AccOK(AdcMOp(a, hl, f)) /\ AccOK(SubMOp(a, hl, f)) /\ AccOK(SbbMOp(a, hl, f))
         /\ AccOK(AnaMOp(a, hl, f)) /\ AccOK(XraMOp(a, hl, f)) /\ AccOK(CmpMOp(a, hl, f))
<1>1. a \in Int /\ hl \in Int /\ a + hl \in Int
  BY DEF Byte, Word
<1>2. 0 \in Byte /\ 255 \in Byte /\ 0 \in Int
  BY DEF Byte
<1>3. WideFlags(f, a, a + hl) \in Flags
  BY <1>1, WideFlagsFlags
<1>4. AccOK(AdcMOp(a, hl, f)) /\ AccOK(SubMOp(a, hl, f))
  BY <1>2, <1>3, ResultOK DEF AdcMOp, SubMOp
<1>5. AccOK(SbbMOp(a, hl, f))
  <2> DEFINE borrow == AsFlag(a < hl)
             ans == IF hl > a + 1 THEN 255 ELSE 0
  <2>1. borrow \in Flag /\ ans \in Byte
    BY <1>2 DEF AsFlag, Flag
  <2>2. SbbMOp(a, hl, f) = Result(ans, [f EXCEPT !.s = borrow, !.p = Parity(a), !.cy = borrow])
    BY DEF SbbMOp
  <2> HIDE DEF borrow, ans
  <2>3. [f EXCEPT !.s = borrow, !.p = Parity(a), !.cy = borrow] \in Flags
    BY <1>1, <2>1, ParityFlag DEF Flags
  <2> QED BY <2>1, <2>2, <2>3, ResultOK
<1>6. LogicFlags(f, a) \in Flags /\ LogicFlags(f, 0) \in Flags
  BY <1>1, <1>2, LogicFlagsFlags
<1>7. Hi(hl) \in Byte /\ Not(Hi(hl)) \in Byte
  BY HalvesByte, NotByte
<1> QED BY <1>2, <1>4, <1>5, <1>6, <1>7, ResultOK DEF AnaMOp, XraMOp, CmpMOp

MemOK(m) == DOMAIN m \subseteq Word /\ m \in [DOMAIN m -> Byte]

---------------------------------------------------------------------------
(* Memory.                                                                  *)

\* Every byte read is a byte, in memory or out of it.
LEMMA ReadByte ==
  ASSUME NEW m, MemOK(m), NEW adr, NEW v \in ReadIn(m, adr) PROVE v \in Byte
  BY UninitAssumption DEF ReadIn, MemOK

\* A write of a byte leaves a memory of bytes, whatever the address.
LEMMA WriteOK ==
  ASSUME NEW m, MemOK(m), NEW adr, NEW v \in Byte PROVE MemOK(Write(m, adr, v))
<1>1. CASE adr \in Word
  BY <1>1 DEF MemOK, Write
<1>2. CASE adr \notin Word
  BY <1>2 DEF MemOK, Write
<1> QED BY <1>1, <1>2

\* The 16-bit operand of an instruction is a word.
LEMMA AddressWord ==
  ASSUME NEW m, MemOK(m), NEW adr \in AddressIn(m) PROVE adr \in Word
  BY ReadByte, MkWordWord DEF AddressIn

---------------------------------------------------------------------------
(* Registers and control.                                                   *)

\* The parts of TypeOK an action changes together.
RegsOK == reg \in [RegName -> Byte] /\ cc \in Flags
StackOK == sp \in Word /\ MemOK(mem)
ControlOK == pc \in Word /\ status \in -2..17

LEMMA Parts == TypeOK <=> RegsOK /\ StackOK /\ ControlOK /\ int_enable \in Flag
  BY DEF TypeOK, RegsOK, StackOK, ControlOK, MemOK

LEMMA PartsNext ==
  ASSUME RegsOK', StackOK', ControlOK', int_enable' \in Flag PROVE TypeOK'
  BY DEF TypeOK, RegsOK, StackOK, ControlOK, MemOK

\* Register pairs are words.
LEMMA PairWord ==
  ASSUME RegsOK, NEW hi \in RegName, NEW lo \in RegName PROVE Pair(hi, lo) \in Word
  BY MkWordWord DEF Pair, RegsOK

LEMMA HLWord == ASSUME RegsOK PROVE HL \in Word
  BY PairWord DEF HL, RegName

\* An instruction that retires or jumps with a time of the code leaves the
\* program counter a word.
LEMMA RetireOK ==
  ASSUME pc \in Word, NEW n \in 1..4, NEW time \in 0..17, Retire(n, time)
  PROVE  ControlOK'
<1>1. pc + n \in Int
  BY WordBounds
<1> QED BY <1>1, Truncated DEF Retire, ControlOK

LEMMA GotoOK ==
  ASSUME NEW adr \in Word, NEW time \in 0..17, Goto(adr, time) PROVE ControlOK'
<1>1. adr + 1 \in Int
  BY WordBounds
<1> QED BY <1>1, Truncated DEF Goto, ControlOK

LEMMA TrapOK == ASSUME pc \in Word, Trap PROVE ControlOK'
<1>1. pc - 1 \in Int
  BY WordBounds
<1> QED BY <1>1, Truncated DEF Trap, ControlOK

\* An accumulator instruction with a result of the right width.
LEMMA AccumulateOK ==
  ASSUME RegsOK, NEW res, AccOK(res), Accumulate(res) PROVE RegsOK'
  BY DEF RegsOK, AccOK, Accumulate, RegName

\* Loading a word into a pair.
LEMMA SetPairOK ==
  ASSUME RegsOK, NEW hi \in RegName, NEW lo \in RegName, NEW w \in Word,
         SetPair(hi, lo, w)
  PROVE  reg' \in [RegName -> Byte]
  BY HalvesByte DEF RegsOK, SetPair

\* Loading a byte of memory into a register.
LEMMA LoadOK ==
  ASSUME RegsOK, StackOK, NEW r \in RegName, NEW adr, Load(r, adr)
  PROVE  reg' \in [RegName -> Byte]
  BY ReadByte DEF RegsOK, StackOK, Load, Read

---------------------------------------------------------------------------
(* 0x00 - 0x3F: loads, counters and rotates.                                *)

\* Widths of the registers, and of a count taken from one of them.
LEMMA RegBounds ==
  ASSUME RegsOK, NEW r \in RegName
  PROVE  reg[r] \in Byte /\ reg[r] \in Int /\ 0 <= reg[r] /\ reg[r] <= 255
  BY ByteBounds DEF RegsOK

LEMMA NopOK == ASSUME TypeOK, NEW op, Nop(op) PROVE TypeOK'
<1>1. ControlOK'
  BY Parts, RetireOK DEF Nop, ControlOK
<1> QED BY <1>1, Parts, PartsNext DEF Nop, RegsOK, StackOK

LEMMA LxiOK == ASSUME TypeOK, NEW op, Lxi(op) PROVE TypeOK'
<1>1. ControlOK'
  BY Parts, RetireOK DEF Lxi, ControlOK
<1>2. reg' \in [RegName -> Byte]
  <2>1. \A hi \in Operand(3), lo \in Operand(2) : hi \in Byte /\ lo \in Byte
    BY Parts, ReadByte DEF Operand, Read, StackOK
  <2>2. \A w \in Address : w \in Word
    BY Parts, AddressWord DEF Address, StackOK
  <2>3. {"b", "c", "d", "e", "h", "l"} \subseteq RegName
    BY DEF RegName
  <2>4. CASE op = \h01
    BY <2>1, <2>3, <2>4, Parts DEF Lxi, RegsOK
  <2>5. CASE op # \h01
    BY <2>2, <2>3, <2>5, Parts, SetPairOK DEF Lxi
  <2> QED BY <2>4, <2>5
<1> QED BY <1>1, <1>2, Parts, PartsNext DEF Lxi, RegsOK, StackOK

LEMMA LxiSpOK == ASSUME TypeOK, NEW op, LxiSp(op) PROVE TypeOK'
<1>1. ControlOK'
  BY Parts, RetireOK DEF LxiSp, ControlOK
<1>2. sp' \in Word
  BY Parts, ReadByte, MkWordWord DEF LxiSp, Operand, Read, StackOK
<1> QED BY <1>1, <1>2, Parts, PartsNext DEF LxiSp, RegsOK, StackOK

LEMMA StoreAOK == ASSUME TypeOK, NEW op, StoreA(op) PROVE TypeOK'
<1>1. ControlOK'
  BY Parts, RetireOK DEF StoreA, ControlOK
<1>2. MemOK(mem)'
  <2>1. reg["a"] \in Byte
    BY Parts, RegBounds DEF RegName
  <2>2. \A d \in Operand(1) : d \in Byte
    BY Parts, ReadByte DEF Operand, Read, StackOK
  <2>3. \E adr : \E v \in Byte : mem' = Write(mem, adr, v)
    BY <2>1, <2>2 DEF StoreA
  <2> QED BY <2>3, Parts, WriteOK DEF StackOK
<1> QED BY <1>1, <1>2, Parts, PartsNext DEF StoreA, RegsOK, StackOK

LEMMA LoadAOK == ASSUME TypeOK, NEW op, LoadA(op) PROVE TypeOK'
<1>1. ControlOK'
  BY Parts, RetireOK DEF LoadA, ControlOK
<1>2. \E adr : Load("a", adr)
  BY DEF LoadA
<1>3. reg' \in [RegName -> Byte]
  BY <1>2, Parts, LoadOK DEF RegName
<1> QED BY <1>1, <1>3, Parts, PartsNext DEF LoadA, RegsOK, StackOK

LEMMA LhldOK == ASSUME TypeOK, NEW op, Lhld(op) PROVE TypeOK'
<1>1. ControlOK'
  BY Parts, RetireOK DEF Lhld, ControlOK
<1>2. reg' \in [RegName -> Byte]
  <2>1. \A adr : Read(adr) \subseteq Byte
    BY Parts, ReadByte DEF Read, StackOK
  <2>2. \E lo \in Byte, hi \in Byte : reg' = [reg EXCEPT !["l"] = lo, !["h"] = hi]
    BY <2>1 DEF Lhld
  <2> QED BY <2>2, Parts DEF RegsOK, RegName
<1> QED BY <1>1, <1>2, Parts, PartsNext DEF Lhld, RegsOK, StackOK

LEMMA MviOK == ASSUME TypeOK, NEW op, Mvi(op) PROVE TypeOK'
<1>1. ControlOK'
  BY Parts, RetireOK DEF Mvi, ControlOK
<1>2. reg' \in [RegName -> Byte]
  BY Parts, LoadOK DEF Mvi
<1> QED BY <1>1, <1>2, Parts, PartsNext DEF Mvi, RegsOK, StackOK

LEMMA InxOK == ASSUME TypeOK, NEW op, Inx(op) PROVE TypeOK'
<1>1. ControlOK'
  BY Parts, RetireOK DEF Inx, ControlOK
<1>2. {"b", "c", "d", "e", "h", "l"} \subseteq RegName
  BY DEF RegName
<1>3. /\ (Pair("b", "c") + 1) % 65536 \in Word
      /\ (Pair("d", "e") + 1) % 65536 \in Word
      /\ (HL + 1) % 65536 \in Word
  <2>1. Pair("b", "c") + 1 \in Int /\ Pair("d", "e") + 1 \in Int /\ HL + 1 \in Int
    BY <1>2, Parts, PairWord, HLWord, WordBounds
  <2> QED BY <2>1, Truncated
<1>4. reg' \in [RegName -> Byte]
  BY <1>2, <1>3, Parts, SetPairOK DEF Inx
<1> QED BY <1>1, <1>4, Parts, PartsNext DEF Inx, RegsOK, StackOK

LEMMA StepSpOK == ASSUME TypeOK, NEW op, StepSp(op) PROVE TypeOK'
<1>1. ControlOK'
  BY Parts, RetireOK DEF StepSp, ControlOK
<1>2. (sp + 1) % 65536 \in Word /\ (sp - 1) % 65536 \in Word
  <2>1. sp + 1 \in Int /\ sp - 1 \in Int
    BY Parts, WordBounds DEF StackOK
  <2> QED BY <2>1, Truncated
<1> QED BY <1>1, <1>2, Parts, PartsNext DEF StepSp, RegsOK, StackOK

LEMMA DcxDOK == ASSUME TypeOK, NEW op, DcxD(op) PROVE TypeOK'
<1>1. ControlOK'
  BY Parts, RetireOK DEF DcxD, ControlOK
<1>2. "d" \in RegName /\ "e" \in RegName
  BY DEF RegName
<1>3. (Pair("d", "e") - 1) % 65536 \in Word
  <2>1. Pair("d", "e") - 1 \in Int
    BY <1>2, Parts, PairWord, WordBounds
  <2> QED BY <2>1, Truncated
<1>4. reg' \in [RegName -> Byte]
  BY <1>2, <1>3, Parts, SetPairOK DEF DcxD
<1>5. cc' \in Flags
  <2>1. AsFlag(Pair("d", "e") = 0) \in Flag
    BY DEF AsFlag, Flag
  <2> QED BY <2>1, Parts DEF DcxD, RegsOK, Flags
<1> QED BY <1>1, <1>4, <1>5, Parts, PartsNext DEF DcxD, RegsOK, StackOK

LEMMA DadOK == ASSUME TypeOK, NEW op, Dad(op) PROVE TypeOK'
<1>1. ControlOK'
  BY Parts, RetireOK DEF Dad, ControlOK
<1>2. {"b", "c", "d", "e", "h", "l"} \subseteq RegName
  BY DEF RegName
<1>3. PICK w \in Word : AddToHL(w)
  BY <1>2, Parts, PairWord, HLWord DEF Dad
<1>4. (HL + w) % 65536 \in Word
  <2>1. HL + w \in Int
    BY Parts, HLWord, WordBounds
  <2> QED BY <2>1, Truncated
<1>5. reg' \in [RegName -> Byte]
  BY <1>2, <1>3, <1>4, Parts, SetPairOK DEF AddToHL
<1>6. cc' \in Flags
  <2>1. AsFlag(HL + w > 65535) \in Flag
    BY DEF AsFlag, Flag
  <2> QED BY <1>3, <2>1, Parts DEF AddToHL, RegsOK, Flags
<1> QED BY <1>1, <1>5, <1>6, Parts, PartsNext DEF Dad, RegsOK, StackOK

LEMMA InrDcrOK == ASSUME TypeOK, NEW op, InrDcr(op) PROVE TypeOK'
<1>1. ControlOK'
  BY Parts, RetireOK DEF InrDcr, ControlOK
<1>2. PICK r \in RegName, ans \in Int : Count(r, ans)
  <2>1. \A r \in RegName : /\ reg[r] + 1 \in Int
                           /\ Minus16(reg[r], 1) \in Int
                           /\ (reg[r] - 1) % 256 \in Int
    BY Parts, RegBounds DEF Minus16
  <2>2. {"a", "b", "c", "e", "h", "l"} \subseteq RegName
    BY DEF RegName
  <2> QED BY <2>1, <2>2 DEF InrDcr
<1>3. Lo(ans) \in Byte
  BY <1>2, Truncated DEF Lo
<1> QED BY <1>1, <1>2, <1>3, Parts, PartsNext, ArithFlagsFlags DEF InrDcr, Count, RegsOK, StackOK

LEMMA CountHLOK == ASSUME TypeOK, NEW op, CountHL(op) PROVE TypeOK'
<1>1. ControlOK'
  BY Parts, RetireOK DEF CountHL, ControlOK
<1>2. PICK ans \in {(HL + 1) % 65536, (HL - 1) % 65536} :
        /\ \/ SetPair("h", "l", ans)
           \/ reg' = [reg EXCEPT !["h"] = Hi(ans), !["l"] = 255]
        /\ cc' = ArithFlags(cc, ans)
  BY DEF CountHL
<1>3. ans \in Word
  <2>1. HL + 1 \in Int /\ HL - 1 \in Int
    BY Parts, HLWord, WordBounds
  <2> QED BY <2>1, Truncated
<1>4. reg' \in [RegName -> Byte]
  <2>1. Hi(ans) \in Byte /\ 255 \in Byte /\ "h" \in RegName /\ "l" \in RegName
    BY <1>3, HalvesByte DEF Byte, RegName
  <2> QED BY <1>2, <1>3, <2>1, Parts, SetPairOK DEF RegsOK
<1>5. cc' \in Flags
  BY <1>2, <1>3, Parts, WordBounds, ArithFlagsFlags DEF RegsOK
<1> QED BY <1>1, <1>4, <1>5, Parts, PartsNext DEF CountHL, RegsOK, StackOK

LEMMA RotateOK == ASSUME TypeOK, NEW op, Rotate(op) PROVE TypeOK'
<1>1. ControlOK'
  BY Parts, RetireOK DEF Rotate, ControlOK
<1>2. RegsOK'
  <2>1. reg["a"] \in Byte /\ cc \in Flags
    BY Parts, RegBounds DEF RegName, RegsOK
  <2> QED BY <2>1, Parts, LogicOK, AccumulateOK DEF Rotate
<1> QED BY <1>1, <1>2, Parts, PartsNext DEF Rotate, StackOK

---------------------------------------------------------------------------
(* 0x40 - 0x7F: MOV and HLT.                                                *)

LEMMA MovOK ==
  ASSUME RegsOK, NEW dst \in RegName, NEW src \in RegName, Mov(dst, src)
  PROVE  reg' \in [RegName -> Byte]
  BY DEF RegsOK, Mov

LEMMA MovBCOK == ASSUME TypeOK, NEW op, MovBC(op) PROVE TypeOK'
<1>1. ControlOK'
  BY Parts, RetireOK DEF MovBC, ControlOK
<1>2. reg' \in [RegName -> Byte]
  BY Parts, MovOK, LoadOK DEF MovBC, RegName
<1> QED BY <1>1, <1>2, Parts, PartsNext DEF MovBC, RegsOK, StackOK

LEMMA MovDEOK == ASSUME TypeOK, NEW op, MovDE(op) PROVE TypeOK'
<1>1. ControlOK'
  BY Parts, RetireOK DEF MovDE, ControlOK
<1>2. reg' \in [RegName -> Byte]
  BY Parts, MovOK, LoadOK DEF MovDE, RegName
<1> QED BY <1>1, <1>2, Parts, PartsNext DEF MovDE, RegsOK, StackOK

LEMMA MovHLOK == ASSUME TypeOK, NEW op, MovHL(op) PROVE TypeOK'
<1>1. ControlOK'
  BY Parts, RetireOK DEF MovHL, ControlOK
<1>2. reg' \in [RegName -> Byte]
  BY Parts, MovOK, LoadOK DEF MovHL, RegName
<1> QED BY <1>1, <1>2, Parts, PartsNext DEF MovHL, RegsOK, StackOK

LEMMA MovAOK == ASSUME TypeOK, NEW op, MovA(op) PROVE TypeOK'
<1>1. ControlOK'
  BY Parts, RetireOK DEF MovA, ControlOK
<1>2. reg' \in [RegName -> Byte]
  BY Parts, MovOK, LoadOK DEF MovA, RegName
<1> QED BY <1>1, <1>2, Parts, PartsNext DEF MovA, RegsOK, StackOK

LEMMA MovToMOK == ASSUME TypeOK, NEW op, MovToM(op) PROVE TypeOK'
<1>1. ControlOK'
  BY Parts, RetireOK DEF MovToM, ControlOK
<1>2. MemOK(mem)'
  BY Parts, RegBounds, WriteOK DEF MovToM, StackOK
<1> QED BY <1>1, <1>2, Parts, PartsNext DEF MovToM, RegsOK, StackOK

LEMMA HltOK == ASSUME TypeOK, NEW op, Hlt(op) PROVE TypeOK'
  BY Parts, PartsNext DEF Hlt, RegsOK, StackOK, ControlOK

---------------------------------------------------------------------------
(* 0x80 - 0xBF: the accumulator with a register or with M.                  *)

\* What the accumulator instructions work with.
LEMMA OperandBounds ==
  ASSUME TypeOK
  PROVE  /\ \A r \in RegName : reg[r] \in Byte
         /\ reg["a"] \in Byte /\ HL \in Word /\ cc \in Flags
         /\ \A adr : Read(adr) \subseteq Byte
<1>1. RegsOK /\ StackOK
  BY Parts
<1>2. "a" \in RegName
  BY DEF RegName
<1> QED BY <1>1, <1>2, RegBounds, HLWord, ReadByte DEF RegsOK, StackOK, Read

LEMMA AddOK == ASSUME TypeOK, NEW op, Add(op) PROVE TypeOK'
<1>1. ControlOK'
  BY Parts, RetireOK DEF Add, ControlOK
<1>2. PICK res : Accumulate(res) /\ AccOK(res)
  BY OperandBounds, SumsOK DEF Add
<1> QED BY <1>1, <1>2, Parts, PartsNext, AccumulateOK DEF Add, StackOK

LEMMA AdcOK == ASSUME TypeOK, NEW op, Adc(op) PROVE TypeOK'
<1>1. ControlOK'
  BY Parts, RetireOK DEF Adc, ControlOK
<1>2. PICK res : Accumulate(res) /\ AccOK(res)
  BY OperandBounds, SumsOK, MemoryFormsOK DEF Adc
<1> QED BY <1>1, <1>2, Parts, PartsNext, AccumulateOK DEF Adc, StackOK

LEMMA SubOK == ASSUME TypeOK, NEW op, Sub(op) PROVE TypeOK'
<1>1. ControlOK'
  BY Parts, RetireOK DEF Sub, ControlOK
<1>2. PICK res : Accumulate(res) /\ AccOK(res)
  BY OperandBounds, SumsOK, MemoryFormsOK DEF Sub
<1> QED BY <1>1, <1>2, Parts, PartsNext, AccumulateOK DEF Sub, StackOK

LEMMA SbbOK == ASSUME TypeOK, NEW op, Sbb(op) PROVE TypeOK'
<1>1. ControlOK'
  BY Parts, RetireOK DEF Sbb, ControlOK
<1>2. PICK res : Accumulate(res) /\ AccOK(res)
  <2>1. {"b", "c", "d", "e", "h", "l", "a"} \subseteq RegName
    BY DEF RegName
  <2> QED BY <2>1, OperandBounds, SumsOK, MemoryFormsOK DEF Sbb
<1> QED BY <1>1, <1>2, Parts, PartsNext, AccumulateOK DEF Sbb, StackOK

LEMMA AnaOK == ASSUME TypeOK, NEW op, Ana(op) PROVE TypeOK'
<1>1. ControlOK'
  BY Parts, RetireOK DEF Ana, ControlOK
<1>2. PICK res : Accumulate(res) /\ AccOK(res)
  BY OperandBounds, LogicOK, MemoryFormsOK DEF Ana
<1> QED BY <1>1, <1>2, Parts, PartsNext, AccumulateOK DEF Ana, StackOK

LEMMA XraOK == ASSUME TypeOK, NEW op, Xra(op) PROVE TypeOK'
<1>1. ControlOK'
  BY Parts, RetireOK DEF Xra, ControlOK
<1>2. PICK res : Accumulate(res) /\ AccOK(res)
  BY OperandBounds, LogicOK, MemoryFormsOK DEF Xra
<1> QED BY <1>1, <1>2, Parts, PartsNext, AccumulateOK DEF Xra, StackOK

LEMMA OraOK == ASSUME TypeOK, NEW op, Ora(op) PROVE TypeOK'
<1>1. ControlOK'
  BY Parts, RetireOK DEF Ora, ControlOK
<1>2. PICK res : Accumulate(res) /\ AccOK(res)
  BY OperandBounds, LogicOK, MemoryFormsOK DEF Ora
<1> QED BY <1>1, <1>2, Parts, PartsNext, AccumulateOK DEF Ora, StackOK

LEMMA CmpOK == ASSUME TypeOK, NEW op, Cmp(op) PROVE TypeOK'
<1>1. ControlOK'
  BY Parts, RetireOK DEF Cmp, ControlOK
<1>2. PICK res : Accumulate(res) /\ AccOK(res)
  BY OperandBounds, LogicOK, MemoryFormsOK DEF Cmp
<1> QED BY <1>1, <1>2, Parts, PartsNext, AccumulateOK DEF Cmp, StackOK

---------------------------------------------------------------------------
(* 0xC0 - 0xFF: immediates, jumps, calls and the stack.                     *)

LEMMA ImmediateOK == ASSUME TypeOK, NEW op, Immediate(op) PROVE TypeOK'
<1>1. ControlOK'
  BY Parts, RetireOK DEF Immediate, ControlOK
<1>2. PICK res : Accumulate(res) /\ AccOK(res)
  BY OperandBounds, SumsOK, LogicOK DEF Immediate, Operand
<1> QED BY <1>1, <1>2, Parts, PartsNext, AccumulateOK DEF Immediate, StackOK

LEMMA NoEffectOK == ASSUME TypeOK, NEW op, NoEffect(op) PROVE TypeOK'
<1>1. ControlOK'
  BY Parts, RetireOK DEF NoEffect, ControlOK
<1> QED BY <1>1, Parts, PartsNext DEF NoEffect, RegsOK, StackOK

LEMMA InterruptsOK == ASSUME TypeOK, NEW op, Interrupts(op) PROVE TypeOK'
<1>1. ControlOK'
  BY Parts, RetireOK DEF Interrupts, ControlOK
<1>2. int_enable' \in Flag
  BY ConstFlag DEF Interrupts
<1> QED BY <1>1, <1>2, Parts, PartsNext DEF Interrupts, RegsOK, StackOK

\* A conditional jump goes to an address in its operand or retires.
LEMMA JumpOK == ASSUME TypeOK, NEW op, Jump(op) PROVE TypeOK'
<1>1. \/ \E adr \in Address, time \in 0..17 : Goto(adr, time)
      \/ \E n \in 1..4, time \in 0..17 : Retire(n, time)
  BY DEF Jump, JumpIf
<1>2. ControlOK'
  BY <1>1, Parts, AddressWord, GotoOK, RetireOK DEF Address, StackOK, ControlOK
<1> QED BY <1>2, Parts, PartsNext DEF Jump, RegsOK, StackOK

LEMMA JumpPOK == ASSUME TypeOK, NEW op, JumpP(op) PROVE TypeOK'
<1> DEFINE time == IF op = \hF2 THEN 10 ELSE IF cc.p = 1 THEN 17 ELSE 11
<1>1. time \in 0..17
  OBVIOUS
<1>2. CASE cc.p = 1
  <2>1. \E hi \in Operand(1), lo \in Operand(2) : Goto(MkWord(hi, lo), time)
    BY <1>2 DEF JumpP
  <2>2. \E adr \in Word : Goto(adr, time)
    BY <2>1, OperandBounds, MkWordWord DEF Operand
  <2> HIDE DEF time
  <2>3. ControlOK'
    BY <1>1, <2>2, GotoOK
  <2> QED BY <2>3, Parts, PartsNext DEF JumpP, RegsOK, StackOK
<1>3. CASE cc.p # 1
  <2>1. Retire(1, time)
    BY <1>3 DEF JumpP
  <2> HIDE DEF time
  <2>2. ControlOK'
    BY <1>1, <2>1, Parts, RetireOK DEF ControlOK
  <2> QED BY <2>2, Parts, PartsNext DEF JumpP, RegsOK, StackOK
<1> QED BY <1>2, <1>3

\* Two bytes stored below sp, and sp moved by a word either way.
LEMMA PushedOK ==
  ASSUME StackOK, NEW hi \in Byte, NEW lo \in Byte PROVE MemOK(Pushed(hi, lo))
  BY WriteOK DEF StackOK, Pushed

LEMMA SpMoved ==
  ASSUME StackOK PROVE (sp - 2) % 65536 \in Word /\ (sp + 2) % 65536 \in Word
<1>1. sp - 2 \in Int /\ sp + 2 \in Int
  BY WordBounds DEF StackOK
<1> QED BY <1>1, Truncated

LEMMA PushOK ==
  ASSUME StackOK, NEW hi \in Byte, NEW lo \in Byte, Push(hi, lo) PROVE StackOK'
  BY PushedOK, SpMoved DEF Push, StackOK

\* The memory after a call has stored its return address.
CallMemory == Pushed(Hi(ReturnAddress), Lo(ReturnAddress))

LEMMA CallMemoryOK == ASSUME TypeOK PROVE MemOK(CallMemory)
<1>1. ReturnAddress \in Word
  <2>1. pc + 2 \in Int
    BY Parts, WordBounds DEF ControlOK
  <2> QED BY <2>1, Truncated DEF ReturnAddress
<1> QED BY <1>1, Parts, PushedOK, HalvesByte DEF CallMemory

LEMMA CallOK == ASSUME TypeOK, NEW op, Call(op) PROVE TypeOK'
<1>1. \/ /\ mem' = CallMemory
         /\ sp' = (sp - 2) % 65536
         /\ \E adr \in AddressIn(CallMemory), time \in 0..17 : Goto(adr, time)
      \/ (\E n \in 1..4, time \in 0..17 : Retire(n, time)) /\ sp' = sp /\ mem' = mem
  BY DEF Call, CallIf, CallMemory
<1>2. CASE /\ mem' = CallMemory
           /\ sp' = (sp - 2) % 65536
           /\ \E adr \in AddressIn(CallMemory), time \in 0..17 : Goto(adr, time)
  <2>1. StackOK'
    BY <1>2, Parts, CallMemoryOK, SpMoved DEF StackOK
  <2>2. ControlOK'
    BY <1>2, CallMemoryOK, AddressWord, GotoOK
  <2> QED BY <2>1, <2>2, Parts, PartsNext DEF Call, RegsOK
<1>3. CASE (\E n \in 1..4, time \in 0..17 : Retire(n, time)) /\ sp' = sp /\ mem' = mem
  <2>1. ControlOK'
    BY <1>3, Parts, RetireOK DEF ControlOK
  <2> QED BY <1>3, <2>1, Parts, PartsNext DEF Call, RegsOK, StackOK
<1> QED BY <1>1, <1>2, <1>3

LEMMA RetOK == ASSUME TypeOK, NEW op, Ret(op) PROVE TypeOK'
<1> DEFINE time == IF op = \hC9 THEN 10 ELSE IF cc.z = 1 THEN 11 ELSE 5
<1>1. time \in 0..17
  OBVIOUS
<1>2. \/ /\ \E lo \in Read(sp), hi \in Read(sp + 1) : Goto(MkWord(hi, lo), time)
         /\ sp' = (sp + 2) % 65536
      \/ Retire(1, time) /\ sp' = sp
  BY DEF Ret
<1>3. /\ \/ \E adr \in Word : Goto(adr, time)
         \/ Retire(1, time)
      /\ sp' \in Word
  BY <1>2, Parts, SpMoved, OperandBounds, MkWordWord DEF StackOK
<1> HIDE DEF time
<1>4. ControlOK'
  BY <1>1, <1>3, Parts, GotoOK, RetireOK DEF ControlOK
<1> QED BY <1>3, <1>4, Parts, PartsNext DEF Ret, RegsOK, StackOK

LEMMA RstOK == ASSUME TypeOK, NEW op, Rst(op) PROVE TypeOK'
<1>1. 0 \in Word /\ 8 \in Word
  BY IsWord
<1>2. ControlOK'
  BY <1>1, GotoOK DEF Rst
<1>3. sp' \in Word
  BY Parts DEF Rst, StackOK, ControlOK
<1> QED BY <1>2, <1>3, Parts, PartsNext DEF Rst, RegsOK, StackOK

LEMMA PushPairOK == ASSUME TypeOK, NEW op, PushPair(op) PROVE TypeOK'
<1>1. ControlOK'
  BY Parts, RetireOK DEF PushPair, ControlOK
<1>2. StackOK'
  <2>1. {"a", "d", "e", "h", "l"} \subseteq RegName
    BY DEF RegName
  <2>2. PICK hi \in Byte, lo \in Byte : Push(hi, lo)
    BY <2>1, OperandBounds, PackByte DEF PushPair
  <2> QED BY <2>2, Parts, PushOK
<1> QED BY <1>1, <1>2, Parts, PartsNext DEF PushPair, RegsOK

LEMMA PushBOK == ASSUME TypeOK, NEW op, PushB(op) PROVE TypeOK'
<1>1. ControlOK'
  BY Parts, RetireOK DEF PushB, ControlOK
<1>2. StackOK'
  <2>1. reg["b"] \in Byte /\ reg["c"] \in Byte
    BY OperandBounds DEF RegName
  <2> QED BY <2>1, Parts, WriteOK, SpMoved DEF PushB, StackOK
<1> QED BY <1>1, <1>2, Parts, PartsNext DEF PushB, RegsOK

LEMMA PopOK == ASSUME TypeOK, NEW op, Pop(op) PROVE TypeOK'
<1>1. ControlOK'
  BY Parts, RetireOK DEF Pop, ControlOK
<1>2. reg' \in [RegName -> Byte]
  <2>1. \E x \in RegName, y \in RegName, lo \in Byte, hi \in Byte :
          reg' = [reg EXCEPT ![x] = lo, ![y] = hi]
    <3>1. {"b", "c", "d", "e"} \subseteq RegName
      BY DEF RegName
    <3> QED BY <3>1, OperandBounds DEF Pop
  <2> QED BY <2>1, Parts DEF RegsOK
<1>3. sp' \in Word
  BY Parts, SpMoved DEF Pop
<1> QED BY <1>1, <1>2, <1>3, Parts, PartsNext DEF Pop, RegsOK, StackOK

LEMMA PopPswOK == ASSUME TypeOK, NEW op, PopPsw(op) PROVE TypeOK'
<1>1. ControlOK'
  BY Parts, RetireOK DEF PopPsw, ControlOK
<1>2. PICK a \in Byte, psw \in Byte : Accumulate(Result(a, UnpackPsw(psw)))
  BY OperandBounds DEF PopPsw
<1>3. AccOK(Result(a, UnpackPsw(psw)))
  BY ByteBounds, UnpackFlags, ResultOK
<1> QED BY <1>1, <1>2, <1>3, Parts, PartsNext, AccumulateOK DEF PopPsw, StackOK

LEMMA XthlOK == ASSUME TypeOK, NEW op, Xthl(op) PROVE TypeOK'
<1>1. ControlOK'
  BY Parts, RetireOK DEF Xthl, ControlOK
<1>2. PICK lo \in Byte, hi \in Byte :
        /\ reg' = [reg EXCEPT !["l"] = lo, !["h"] = hi]
        /\ mem' = Write(Write(mem, lo, reg["l"]), hi, reg["h"])
  BY OperandBounds DEF Xthl
<1>3. reg["l"] \in Byte /\ reg["h"] \in Byte
  BY OperandBounds DEF RegName
<1>4. MemOK(mem)'
  BY <1>2, <1>3, Parts, WriteOK DEF StackOK
<1>5. reg' \in [RegName -> Byte]
  BY <1>2, Parts DEF RegsOK
<1> QED BY <1>1, <1>4, <1>5, Parts, PartsNext DEF Xthl, RegsOK, StackOK

LEMMA SphlOK == ASSUME TypeOK, NEW op, Sphl(op) PROVE TypeOK'
<1>1. ControlOK'
  BY Parts, RetireOK DEF Sphl, ControlOK
<1> QED BY <1>1, OperandBounds, Parts, PartsNext DEF Sphl, RegsOK, StackOK

LEMMA CpiOK == ASSUME TypeOK, NEW op, Cpi(op) PROVE TypeOK'
  BY Parts, PartsNext DEF Cpi, RegsOK, StackOK, ControlOK

LEMMA UnimplementedOK == ASSUME TypeOK, NEW op, Unimplemented(op) PROVE TypeOK'
<1>1. ControlOK'
  BY Parts, TrapOK DEF Unimplemented, ControlOK
<1> QED BY <1>1, Parts, PartsNext DEF Unimplemented, RegsOK, StackOK

---------------------------------------------------------------------------
\* The machine starts within the widths of its parts: cpu_create zeroes all
\* of it but the memory, and a program file is bytes.
LEMMA InitOK == Init => TypeOK
<1> SUFFICES ASSUME Init PROVE TypeOK
  OBVIOUS
<1>1. 0 \in Byte /\ 0 \in Word /\ 0 \in Flag
  BY IsByte, IsWord DEF Flag
<1>2. Cleared \in Flags
  BY <1>1 DEF Cleared, Flags
<1> QED BY <1>1, <1>2, ImageAssumption DEF Init, TypeOK

\* Every instruction keeps the machine within them.
LEMMA ExecOK == ASSUME TypeOK, NEW op, Exec(op) PROVE TypeOK'
<1>1. ASSUME \/ Nop(op) \/ Lxi(op) \/ LxiSp(op) \/ StoreA(op) \/ LoadA(op) \/ Lhld(op)
             \/ Mvi(op) \/ Inx(op) \/ StepSp(op) \/ DcxD(op) \/ Dad(op) \/ InrDcr(op)
             \/ CountHL(op) \/ Rotate(op)
      PROVE TypeOK'
  BY <1>1, NopOK, LxiOK, LxiSpOK, StoreAOK, LoadAOK, LhldOK, MviOK, InxOK, StepSpOK,
     DcxDOK, DadOK, InrDcrOK, CountHLOK, RotateOK
<1>2. ASSUME \/ MovBC(op) \/ MovDE(op) \/ MovHL(op) \/ MovA(op) \/ MovToM(op) \/ Hlt(op)
             \/ Add(op) \/ Adc(op) \/ Sub(op) \/ Sbb(op) \/ Ana(op) \/ Xra(op)
             \/ Ora(op) \/ Cmp(op)
      PROVE TypeOK'
  BY <1>2, MovBCOK, MovDEOK, MovHLOK, MovAOK, MovToMOK, HltOK, AddOK, AdcOK, SubOK,
     SbbOK, AnaOK, XraOK, OraOK, CmpOK
<1>3. ASSUME \/ Immediate(op) \/ NoEffect(op) \/ Interrupts(op) \/ Jump(op) \/ JumpP(op)
             \/ Call(op) \/ Ret(op) \/ Rst(op) \/ PushPair(op) \/ PushB(op) \/ Pop(op)
             \/ PopPsw(op) \/ Xthl(op) \/ Sphl(op) \/ Cpi(op) \/ Unimplemented(op)
      PROVE TypeOK'
  BY <1>3, ImmediateOK, NoEffectOK, InterruptsOK, JumpOK, JumpPOK, CallOK, RetOK, RstOK,
     PushPairOK, PushBOK, PopOK, PopPswOK, XthlOK, SphlOK, CpiOK, UnimplementedOK
<1> QED BY <1>1, <1>2, <1>3 DEF Exec

\* Whatever the program does, registers, flags, sp, pc and memory keep the
\* widths of CPUState, and the returned status is -2, -1 or at most 17 clock
\* periods: no case of cpu_exec lets a wider intermediate answer escape.
THEOREM TypeCorrect == Spec => []TypeOK
<1>1. Init => TypeOK
  BY InitOK
<1>2. TypeOK /\ [Next]_vars => TypeOK'
  <2> SUFFICES ASSUME TypeOK, [Next]_vars PROVE TypeOK'
    OBVIOUS
  <2>1. CASE Next
    BY <2>1, ExecOK DEF Next
  <2>2. CASE UNCHANGED vars
    BY <2>2 DEF vars, TypeOK
  <2> QED BY <2>1, <2>2
<1> QED BY <1>1, <1>2, PTL DEF Spec
=============================================================================
