------------------------------- MODULE Cpu -------------------------------
(***************************************************************************)
(* cpu_exec of src/src/cpu.c: one step fetches the opcode at pc, performs  *)
(* its case of the switch and, unless the case returned early, advances pc *)
(* by one at the end.  Widths are those of the code: 8-bit registers,      *)
(* 16-bit sp and pc, 64K of memory.                                        *)
(*                                                                         *)
(* mem is a partial function: an address outside its domain holds whatever *)
(* malloc left there, and reading it gives any member of Uninit.  Address  *)
(* arithmetic is done in int by the code (sp-1, sp+1, opcode[2]...), so it *)
(* can leave the 64K buffer: such a read also gives any member of Uninit   *)
(* and such a write does not reach the memory of the machine.              *)
(***************************************************************************)
EXTENDS Alu

CONSTANTS
    Images,     \* the programs that may be loaded: bytes at some addresses
    Uninit      \* the bytes uninitialised memory may be read as

ASSUME ImageAssumption ==
    \A m \in Images : DOMAIN m \subseteq Word /\ m \in [DOMAIN m -> Byte]
ASSUME UninitAssumption == Uninit \subseteq Byte /\ Uninit # {}

RegName == {"a", "b", "c", "d", "e", "h", "l"}

VARIABLES
    reg,        \* a, b, c, d, e, h and l
    sp,
    pc,
    mem,        \* the bytes loaded or written so far
    cc,         \* condition codes
    int_enable,
    status      \* what the last cpu_exec returned

vars == <<reg, sp, pc, mem, cc, int_enable, status>>

Cleared == [z |-> 0, s |-> 0, p |-> 0, cy |-> 0, ac |-> 0]

\* cpu_create() zeroes all but the memory, into which the emulator then
\* reads its program file.
Init ==
    /\ reg = [r \in RegName |-> 0]
    /\ sp = 0 /\ pc = 0
    /\ mem \in Images
    /\ cc = Cleared
    /\ int_enable = 0
    /\ status = 0

TypeOK ==
    /\ reg \in [RegName -> Byte]
    /\ sp \in Word
    /\ pc \in Word
    /\ DOMAIN mem \subseteq Word
    /\ mem \in [DOMAIN mem -> Byte]
    /\ cc \in Flags
    /\ int_enable \in Flag
    /\ status \in -2..17

---------------------------------------------------------------------------
(* Access to memory and registers.                                          *)

ReadIn(m, adr) == IF adr \in DOMAIN m THEN {m[adr]} ELSE Uninit

Read(adr) == ReadIn(mem, adr)

Write(m, adr, v) ==
    IF adr \in Word
      THEN [x \in DOMAIN m \cup {adr} |-> IF x = adr THEN v ELSE m[x]]
      ELSE m

Operand(i) == Read(pc + i)

\* The 16-bit operand of the instruction at pc in memory m, low byte first.
AddressIn(m) == {MkWord(hi, lo) : hi \in ReadIn(m, pc + 2), lo \in ReadIn(m, pc + 1)}

Address == AddressIn(mem)

Pair(hi, lo) == MkWord(reg[hi], reg[lo])
HL == Pair("h", "l")

SetPair(hi, lo, w) == reg' = [reg EXCEPT ![hi] = Hi(w), ![lo] = Lo(w)]

\* The register field of an opcode; 6 stands for M, the byte at HL.
RegCode == [r \in RegName |->
              CASE r = "b" -> 0 [] r = "c" -> 1 [] r = "d" -> 2 [] r = "e" -> 3
                [] r = "h" -> 4 [] r = "l" -> 5 [] r = "a" -> 7]

\* How a case ends.  n counts the bytes pc moves by, the final pc += 1
\* included; an assignment to pc is followed by that pc += 1 as well.
Retire(n, time) == pc' = (pc + n) % 65536 /\ status' = time
Goto(adr, time) == pc' = (adr + 1) % 65536 /\ status' = time

\* UnimplementedInstruction(): pc--, although pc has not advanced yet.
Trap == pc' = (pc - 1) % 65536 /\ status' = -1

---------------------------------------------------------------------------
(* 0x00 - 0x3F: loads, counters and rotates.                                *)

Nop(op) ==
    /\ op \in {\h00, \h08, \h10, \h20, \h28, \h30, \h38}
    /\ Retire(1, IF op = \h08 THEN 0 ELSE 4)
    /\ UNCHANGED <<reg, sp, mem, cc, int_enable>>

\* LXI B and LXI SP read the bytes 2 and 3 after the opcode, and LXI B does
\* not step over any of them.
Lxi(op) ==
    /\ \/ /\ op = \h01
          /\ \E hi \in Operand(3), lo \in Operand(2) :
                reg' = [reg EXCEPT !["b"] = hi, !["c"] = lo]
          /\ Retire(1, 10)
       \/ /\ op = \h11
          /\ \E w \in Address : SetPair("d", "e", w)
          /\ Retire(3, 10)
       \/ /\ op = \h21
          /\ \E w \in Address : SetPair("h", "l", w)
          /\ Retire(3, 10)
    /\ UNCHANGED <<sp, mem, cc, int_enable>>

LxiSp(op) ==
    /\ op = \h31
    /\ \E hi \in Operand(3), lo \in Operand(2) : sp' = MkWord(hi, lo)
    /\ Retire(4, 10)
    /\ UNCHANGED <<reg, mem, cc, int_enable>>

\* STAX B, STA adr (which stores at an 8-bit address) and MVI M.
StoreA(op) ==
    /\ \/ /\ op = \h02
          /\ mem' = Write(mem, Pair("b", "c"), reg["a"])
          /\ Retire(1, 7)
       \/ /\ op = \h32
          /\ \E adr \in Operand(1) : mem' = Write(mem, adr, reg["a"])
          /\ Retire(2, 13)
       \/ /\ op = \h36
          /\ \E d \in Operand(1) : mem' = Write(mem, HL, d)
          /\ Retire(2, 10)
    /\ UNCHANGED <<reg, sp, cc, int_enable>>

Load(r, adr) == \E v \in Read(adr) : reg' = [reg EXCEPT ![r] = v]

\* LDAX B, LDAX D and LDA adr.
LoadA(op) ==
    /\ \/ op = \h0A /\ Load("a", Pair("b", "c")) /\ Retire(1, 7)
       \/ op = \h1A /\ Load("a", Pair("d", "e")) /\ Retire(1, 7)
       \/ op = \h3A /\ (\E adr \in Address : Load("a", adr)) /\ Retire(3, 13)
    /\ UNCHANGED <<sp, mem, cc, int_enable>>

\* LHLD reads from an 8-bit address.
Lhld(op) ==
    /\ op = \h2A
    /\ \E adr \in Operand(1) : \E lo \in Read(adr), hi \in Read(adr + 1) :
          reg' = [reg EXCEPT !["l"] = lo, !["h"] = hi]
    /\ Retire(2, 16)
    /\ UNCHANGED <<sp, mem, cc, int_enable>>

\* Seeded bug: the operand is not stepped over.
Mvi_KeepsOperand(op) ==
    /\ \E r \in RegName \ {"d", "e"} :
          /\ op = \h06 + 8 * RegCode[r]
          /\ Load(r, pc + 1)
    /\ Retire(1, 7)
    /\ UNCHANGED <<sp, mem, cc, int_enable>>

\* MVI r, d8 for B, C, H, L and A.
Mvi(op) ==
    /\ \E r \in RegName \ {"d", "e"} :
          /\ op = \h06 + 8 * RegCode[r]
          /\ Load(r, pc + 1)
    /\ Retire(2, 7)
    /\ UNCHANGED <<sp, mem, cc, int_enable>>

\* INX B, D and H, and DCX H, which adds one.
Inx(op) ==
    /\ \/ op = \h03 /\ SetPair("b", "c", (Pair("b", "c") + 1) % 65536)
       \/ op = \h13 /\ SetPair("d", "e", (Pair("d", "e") + 1) % 65536)
       \/ op \in {\h23, \h2B} /\ SetPair("h", "l", (HL + 1) % 65536)
    /\ Retire(1, 5)
    /\ UNCHANGED <<sp, mem, cc, int_enable>>

\* INX SP and DCX SP.
StepSp(op) ==
    /\ \/ op = \h33 /\ sp' = (sp + 1) % 65536
       \/ op = \h3B /\ sp' = (sp - 1) % 65536
    /\ Retire(1, 5)
    /\ UNCHANGED <<reg, mem, cc, int_enable>>

\* Seeded bug: counting down does not wrap.
DcxD_NoWrap(op) ==
    /\ op = \h1B
    /\ SetPair("d", "e", Pair("d", "e") - 1)
    /\ cc' = [cc EXCEPT !.cy = AsFlag(Pair("d", "e") = 0)]
    /\ Retire(1, 5)
    /\ UNCHANGED <<sp, mem, int_enable>>

\* DCX D also sets the carry, to the borrow out of 16 bits.
DcxD(op) ==
    /\ op = \h1B
    /\ SetPair("d", "e", (Pair("d", "e") - 1) % 65536)
    /\ cc' = [cc EXCEPT !.cy = AsFlag(Pair("d", "e") = 0)]
    /\ Retire(1, 5)
    /\ UNCHANGED <<sp, mem, int_enable>>

AddToHL(w) ==
    /\ SetPair("h", "l", (HL + w) % 65536)
    /\ cc' = [cc EXCEPT !.cy = AsFlag(HL + w > 65535)]

Dad(op) ==
    /\ \/ op = \h09 /\ AddToHL(Pair("b", "c"))
       \/ op = \h19 /\ AddToHL(Pair("d", "e"))
       \/ op = \h29 /\ AddToHL(HL)
    /\ Retire(1, 10)
    /\ UNCHANGED <<sp, mem, int_enable>>

Count(r, ans) ==
    /\ reg' = [reg EXCEPT ![r] = Lo(ans)]
    /\ cc' = ArithFlags(cc, ans)

\* INR C, L and A and DCR C, H, L and A keep a 16-bit answer, whose overflow
\* sets the carry; DCR B and E keep an 8-bit one.
InrDcr(op) ==
    /\ \/ \E r \in {"c", "l", "a"} :
             op = \h04 + 8 * RegCode[r] /\ Count(r, reg[r] + 1)
       \/ \E r \in {"c", "h", "l", "a"} :
             op = \h05 + 8 * RegCode[r] /\ Count(r, Minus16(reg[r], 1))
       \/ \E r \in {"b", "e"} :
             op = \h05 + 8 * RegCode[r] /\ Count(r, (reg[r] - 1) % 256)
    /\ Retire(1, 5)
    /\ UNCHANGED <<sp, mem, int_enable>>

\* INR H counts the pair HL.  INR M and DCR M count it too, flags included,
\* keep its high byte and leave 255 in L; none of them touches memory.
CountHL(op) ==
    /\ \E ans \in {(HL + 1) % 65536, (HL - 1) % 65536} :
          /\ \/ /\ op = \h24 /\ ans = (HL + 1) % 65536
                /\ SetPair("h", "l", ans)
                /\ Retire(1, 5)
             \/ /\ \/ op = \h34 /\ ans = (HL + 1) % 65536
                   \/ op = \h35 /\ ans = (HL - 1) % 65536
                /\ reg' = [reg EXCEPT !["h"] = Hi(ans), !["l"] = 255]
                /\ Retire(1, 10)
          /\ cc' = ArithFlags(cc, ans)
    /\ UNCHANGED <<sp, mem, int_enable>>

Accumulate(res) == reg' = [reg EXCEPT !["a"] = res.a] /\ cc' = res.cc

\* RLC, RRC and CMA.
Rotate(op) ==
    /\ \/ op = \h07 /\ Accumulate(RlcOp(reg["a"], cc))
       \/ op = \h0F /\ Accumulate(RrcOp(reg["a"], cc))
       \/ op = \h2F /\ Accumulate(Result(Not(reg["a"]), cc))
    /\ Retire(1, 4)
    /\ UNCHANGED <<sp, mem, int_enable>>

---------------------------------------------------------------------------
(* 0x40 - 0x7F: MOV.  One action per destination, as the cases differ.      *)

\* MOV dst, src between registers, opcode 01dddsss.
IsMov(op, dst, src) == op = \h40 + 8 * RegCode[dst] + RegCode[src]

\* MOV dst, M.
IsMovM(op, dst) == op = \h46 + 8 * RegCode[dst]

Mov(dst, src) == reg' = [reg EXCEPT ![dst] = reg[src]]

\* MOV B, D copies C.
MovBC(op) ==
    /\ \E dst \in {"b", "c"} :
          \/ /\ \E src \in RegName :
                   /\ IsMov(op, dst, src)
                   /\ Mov(dst, IF op = \h42 THEN "c" ELSE src)
             /\ Retire(1, 7)
          \/ IsMovM(op, dst) /\ Load(dst, HL) /\ Retire(1, 10)
    /\ UNCHANGED <<sp, mem, cc, int_enable>>

MovDE(op) ==
    /\ \E dst \in {"d", "e"} :
          \/ (\E src \in RegName : IsMov(op, dst, src) /\ Mov(dst, src)) /\ Retire(1, 7)
          \/ IsMovM(op, dst) /\ Load(dst, HL) /\ Retire(1, 10)
    /\ UNCHANGED <<sp, mem, cc, int_enable>>

MovHL(op) ==
    /\ \E dst \in {"h", "l"} :
          \/ \E src \in RegName :
                /\ IsMov(op, dst, src)
                /\ Mov(dst, src)
                /\ Retire(1, IF op \in \h67..\h6D THEN 10 ELSE 7)
          \/ /\ IsMovM(op, dst)
             /\ Load(dst, HL)
             /\ Retire(1, IF op = \h66 THEN 10 ELSE 7)
    /\ UNCHANGED <<sp, mem, cc, int_enable>>

MovA(op) ==
    /\ \/ \E src \in RegName : IsMov(op, "a", src) /\ Mov("a", src)
       \/ IsMovM(op, "a") /\ Load("a", HL)
    /\ Retire(1, 7)
    /\ UNCHANGED <<sp, mem, cc, int_enable>>

\* MOV M, src.
MovToM(op) ==
    /\ \E src \in RegName : /\ op = \h70 + RegCode[src]
                            /\ mem' = Write(mem, HL, reg[src])
    /\ Retire(1, 7)
    /\ UNCHANGED <<reg, sp, cc, int_enable>>

\* Seeded bug: HLT falls through to the pc += 1.
Hlt_Advances(op) ==
    /\ op = \h76
    /\ Retire(1, -2)
    /\ UNCHANGED <<reg, sp, mem, cc, int_enable>>

\* HLT returns at once: pc stays on it.
Hlt(op) ==
    /\ op = \h76
    /\ status' = -2
    /\ UNCHANGED <<reg, sp, pc, mem, cc, int_enable>>

---------------------------------------------------------------------------
(* 0x80 - 0xBF: the accumulator with a register or with M.                  *)

Add(op) ==
    /\ \/ /\ \E r \in RegName : /\ op = \h80 + RegCode[r]
                                /\ Accumulate(AddOp(reg["a"], reg[r], cc))
          /\ Retire(1, 4)
       \/ /\ op = \h86
          /\ \E v \in Read(HL) : Accumulate(AddOp(reg["a"], v, cc))
          /\ Retire(1, 7)
    /\ UNCHANGED <<sp, mem, int_enable>>

\* There is no case for ADC C.
Adc(op) ==
    /\ \/ /\ \E r \in RegName \ {"c"} :
                /\ op = \h88 + RegCode[r]
                /\ Accumulate(AdcOp(reg["a"], reg[r], cc))
          /\ Retire(1, 4)
       \/ op = \h8E /\ Accumulate(AdcMOp(reg["a"], HL, cc)) /\ Retire(1, 7)
    /\ UNCHANGED <<sp, mem, int_enable>>

Sub(op) ==
    /\ \/ /\ \E r \in RegName : /\ op = \h90 + RegCode[r]
                                /\ Accumulate(SubOp(reg["a"], reg[r], cc))
          /\ Retire(1, 4)
       \/ op = \h96 /\ Accumulate(SubMOp(reg["a"], HL, cc)) /\ Retire(1, 7)
    /\ UNCHANGED <<sp, mem, int_enable>>

\* SBB H, L and A subtract without the carry.
Sbb(op) ==
    /\ \/ \E r \in {"b", "c", "d", "e"} :
             op = \h98 + RegCode[r] /\ Accumulate(SbbOp(reg["a"], reg[r], cc))
       \/ \E r \in {"h", "l", "a"} :
             op = \h98 + RegCode[r] /\ Accumulate(SubOp(reg["a"], reg[r], cc))
       \/ op = \h9E /\ Accumulate(SbbMOp(reg["a"], HL, cc))
    /\ Retire(1, 4)
    /\ UNCHANGED <<sp, mem, int_enable>>

Ana(op) ==
    /\ \/ \E r \in RegName :
             op = \hA0 + RegCode[r] /\ Accumulate(AnaOp(reg["a"], reg[r], cc))
       \/ op = \hA6 /\ Accumulate(AnaMOp(reg["a"], HL, cc))
    /\ Retire(1, 4)
    /\ UNCHANGED <<sp, mem, int_enable>>

Xra(op) ==
    /\ \/ /\ \E r \in RegName : /\ op = \hA8 + RegCode[r]
                                /\ Accumulate(XraOp(reg["a"], reg[r], cc))
          /\ Retire(1, 4)
       \/ op = \hAE /\ Accumulate(XraMOp(reg["a"], HL, cc)) /\ Retire(1, 7)
    /\ UNCHANGED <<sp, mem, int_enable>>

\* ORA A is a ^ a, so it clears the accumulator.
Ora(op) ==
    /\ \/ /\ \E r \in RegName \ {"a"} :
                /\ op = \hB0 + RegCode[r]
                /\ Accumulate(OraOp(reg["a"], reg[r], cc))
          /\ Retire(1, 4)
       \/ op = \hB6 /\ Accumulate(XraMOp(reg["a"], HL, cc)) /\ Retire(1, 7)
       \/ op = \hB7 /\ Accumulate(XraOp(reg["a"], reg["a"], cc)) /\ Retire(1, 4)
    /\ UNCHANGED <<sp, mem, int_enable>>

\* CMP r leaves the complement of r in the accumulator.
Cmp(op) ==
    /\ \/ /\ \E r \in RegName : /\ op = \hB8 + RegCode[r]
                                /\ Accumulate(CmpOp(reg["a"], reg[r], cc))
          /\ Retire(1, 4)
       \/ op = \hBE /\ Accumulate(CmpMOp(reg["a"], HL, cc)) /\ Retire(1, 7)
    /\ UNCHANGED <<sp, mem, int_enable>>

---------------------------------------------------------------------------
(* 0xC0 - 0xFF: immediates, jumps, calls and the stack.                     *)

\* ADI, ACI, ANI and ORI.
Immediate(op) ==
    /\ \E d \in Operand(1) :
          \/ op = \hC6 /\ Accumulate(AdiOp(reg["a"], d, cc)) /\ Retire(2, 4)
          \/ op = \hCE /\ Accumulate(AciOp(reg["a"], d, cc)) /\ Retire(2, 7)
          \/ op = \hE6 /\ Accumulate(AniOp(reg["a"], d, cc)) /\ Retire(2, 7)
          \/ op = \hF6 /\ Accumulate(OriOp(reg["a"], d, cc)) /\ Retire(2, 7)
    /\ UNCHANGED <<sp, mem, int_enable>>

\* OUT, IN and SBI move pc over 2, 3 and 1 bytes and do nothing else.
NoEffect(op) ==
    /\ \/ op = \hD3 /\ Retire(2, 10)
       \/ op = \hDB /\ Retire(3, 10)
       \/ op = \hDE /\ Retire(1, 7)
    /\ UNCHANGED <<reg, sp, mem, cc, int_enable>>

\* DI and EI.
Interrupts(op) ==
    /\ \/ op = \hF3 /\ int_enable' = 0
       \/ op = \hFB /\ int_enable' = 1
    /\ Retire(1, 4)
    /\ UNCHANGED <<reg, sp, mem, cc>>

JumpIf(taken, skipped, time) ==
    IF taken THEN \E adr \in Address : Goto(adr, time) ELSE Retire(skipped, time)

\* JNZ steps over its operand when not taken, JNC does not.
Jump(op) ==
    /\ \/ op = \hC3 /\ JumpIf(TRUE, 1, 10)
       \/ op = \hC2 /\ JumpIf(cc.z = 0, 3, 10)
       \/ op = \hD2 /\ JumpIf(cc.cy = 0, 1, 10)
    /\ UNCHANGED <<reg, sp, mem, cc, int_enable>>

\* JP and CP are taken on p, read the high byte of their operand first and
\* push nothing.
JumpP(op) ==
    /\ op \in {\hF2, \hF4}
    /\ LET time == IF op = \hF2 THEN 10 ELSE IF cc.p = 1 THEN 17 ELSE 11
       IN  IF cc.p = 1
             THEN \E hi \in Operand(1), lo \in Operand(2) : Goto(MkWord(hi, lo), time)
             ELSE Retire(1, time)
    /\ UNCHANGED <<reg, sp, mem, cc, int_enable>>

\* Seeded bug: the low byte is stored above the high one.
Pushed_Swapped(hi, lo) == Write(Write(mem, sp - 1, lo), sp - 2, hi)

\* The memory with two bytes stored below sp, high byte first.
Pushed(hi, lo) == Write(Write(mem, sp - 1, hi), sp - 2, lo)

\* Seeded bug: sp does not wrap.
Push_NoWrap(hi, lo) == mem' = Pushed(hi, lo) /\ sp' = sp - 2

Push(hi, lo) == mem' = Pushed(hi, lo) /\ sp' = (sp - 2) % 65536

\* Seeded bug: the address behind the call is saved, though the return adds
\* one to it.
ReturnAddress_Behind == (pc + 3) % 65536

ReturnAddress == (pc + 2) % 65536

\* Seeded bug: the operand is read before the return address is stored.
CallIf_ReadsFirst(taken, skipped, time) ==
    IF taken
      THEN /\ mem' = Pushed(Hi(ReturnAddress), Lo(ReturnAddress))
           /\ sp' = (sp - 2) % 65536
           /\ \E adr \in Address : Goto(adr, time)
      ELSE Retire(skipped, time) /\ UNCHANGED <<sp, mem>>

\* The operand is read after the return address has been stored, so a push
\* that lands on the call itself changes where the call goes.
CallIf(taken, skipped, time) ==
    IF taken
      THEN LET m == Pushed(Hi(ReturnAddress), Lo(ReturnAddress))
           IN  /\ mem' = m
               /\ sp' = (sp - 2) % 65536
               /\ \E adr \in AddressIn(m) : Goto(adr, time)
      ELSE Retire(skipped, time) /\ UNCHANGED <<sp, mem>>

\* CNZ steps over its operand when not taken, CZ does not.  JZ pushes a
\* return address as a call does.
Call(op) ==
    /\ \/ op = \hCD /\ CallIf(TRUE, 1, 17)
       \/ op = \hC4 /\ CallIf(cc.z = 0, 3, IF cc.z = 0 THEN 17 ELSE 11)
       \/ op = \hCC /\ CallIf(cc.z = 1, 1, IF cc.z = 1 THEN 17 ELSE 11)
       \/ op = \hCA /\ CallIf(cc.z = 1, 1, 10)
    /\ UNCHANGED <<reg, cc, int_enable>>

\* RET and RZ.
Ret(op) ==
    /\ op \in {\hC9, \hC8}
    /\ LET time == IF op = \hC9 THEN 10 ELSE IF cc.z = 1 THEN 11 ELSE 5
       IN  IF op = \hC9 \/ cc.z = 1
             THEN /\ \E lo \in Read(sp), hi \in Read(sp + 1) : Goto(MkWord(hi, lo), time)
                  /\ sp' = (sp + 2) % 65536
             ELSE Retire(1, time) /\ UNCHANGED sp
    /\ UNCHANGED <<reg, mem, cc, int_enable>>

\* RST 0 and RST 1; RST 1 moves pc into sp and pushes nothing.
Rst(op) ==
    /\ \/ op = \hC7 /\ Goto(0, 0) /\ UNCHANGED sp
       \/ op = \hCF /\ Goto(8, 11) /\ sp' = pc
    /\ UNCHANGED <<reg, mem, cc, int_enable>>

\* PUSH D, H and PSW.
PushPair(op) ==
    /\ \/ op = \hD5 /\ Push(reg["d"], reg["e"])
       \/ op = \hE5 /\ Push(reg["h"], reg["l"])
       \/ op = \hF5 /\ Push(reg["a"], PackPsw(cc))
    /\ Retire(1, 11)
    /\ UNCHANGED <<reg, cc, int_enable>>

\* PUSH B stores B below sp and C at sp.
PushB(op) ==
    /\ op = \hC5
    /\ mem' = Write(Write(mem, sp - 1, reg["b"]), sp, reg["c"])
    /\ sp' = (sp - 2) % 65536
    /\ Retire(1, 11)
    /\ UNCHANGED <<reg, cc, int_enable>>

\* Seeded bug: POP B takes B from below sp, as POP D does with D.
Pop_Below(op) ==
    /\ \E lo \in Read(sp), hi \in Read(sp - 1) :
          \/ op = \hC1 /\ reg' = [reg EXCEPT !["c"] = lo, !["b"] = hi]
          \/ op = \hD1 /\ reg' = [reg EXCEPT !["e"] = lo, !["d"] = hi]
    /\ sp' = (sp + 2) % 65536
    /\ Retire(1, 10)
    /\ UNCHANGED <<mem, cc, int_enable>>

\* POP B, and POP D, which takes D from below sp.
Pop(op) ==
    /\ \/ /\ op = \hC1
          /\ \E lo \in Read(sp), hi \in Read(sp + 1) :
                reg' = [reg EXCEPT !["c"] = lo, !["b"] = hi]
       \/ /\ op = \hD1
          /\ \E lo \in Read(sp), hi \in Read(sp - 1) :
                reg' = [reg EXCEPT !["e"] = lo, !["d"] = hi]
    /\ sp' = (sp + 2) % 65536
    /\ Retire(1, 10)
    /\ UNCHANGED <<mem, cc, int_enable>>

\* POP PSW moves pc by two more bytes, not sp.
PopPsw(op) ==
    /\ op = \hF1
    /\ \E a \in Read(sp + 1), psw \in Read(sp) :
          Accumulate(Result(a, UnpackPsw(psw)))
    /\ Retire(3, 10)
    /\ UNCHANGED <<sp, mem, int_enable>>

\* XTHL stores L and H at the addresses given by the bytes it has read.
Xthl(op) ==
    /\ op = \hE3
    /\ \E sp1 \in Read(sp), sp2 \in Read(sp + 1) :
          /\ reg' = [reg EXCEPT !["l"] = sp1, !["h"] = sp2]
          /\ mem' = Write(Write(mem, sp1, reg["l"]), sp2, reg["h"])
    /\ Retire(1, 14)
    /\ UNCHANGED <<sp, cc, int_enable>>

Sphl(op) ==
    /\ op = \hF9
    /\ sp' = HL
    /\ Retire(1, 5)
    /\ UNCHANGED <<reg, mem, cc, int_enable>>

\* CPI traps but does not return: pc-- meets the final pc += 1.
Cpi(op) ==
    /\ op = \hFE
    /\ status' = 7
    /\ UNCHANGED <<reg, sp, pc, mem, cc, int_enable>>

\* The opcodes of no case, and CNC.
Missing ==
    {\h04, \h0B, \h12, \h14, \h15, \h16, \h17, \h18, \h1C, \h1E, \h1F, \h22,
     \h27, \h37, \h39, \h3F, \h89, \hC0, \hCB, \hD0, \hD4, \hD6, \hD7, \hD8,
     \hD9, \hDA, \hDC, \hDD, \hDF, \hE0, \hE1, \hE2, \hE4, \hE7, \hE8, \hE9,
     \hEA, \hEB, \hEC, \hED, \hEE, \hEF, \hF0, \hF7, \hF8, \hFA, \hFC, \hFD, \hFF}

Unimplemented(op) ==
    /\ op \in Missing
    /\ Trap
    /\ UNCHANGED <<reg, sp, mem, cc, int_enable>>

---------------------------------------------------------------------------
Exec(op) ==
    \/ Nop(op) \/ Lxi(op) \/ LxiSp(op) \/ StoreA(op) \/ LoadA(op) \/ Lhld(op)
    \/ Mvi(op) \/ Inx(op) \/ StepSp(op) \/ DcxD(op) \/ Dad(op) \/ InrDcr(op)
    \/ CountHL(op) \/ Rotate(op)
    \/ MovBC(op) \/ MovDE(op) \/ MovHL(op) \/ MovA(op) \/ MovToM(op) \/ Hlt(op)
    \/ Add(op) \/ Adc(op) \/ Sub(op) \/ Sbb(op) \/ Ana(op) \/ Xra(op)
    \/ Ora(op) \/ Cmp(op)
    \/ Immediate(op) \/ NoEffect(op) \/ Interrupts(op) \/ Jump(op) \/ JumpP(op)
    \/ Call(op) \/ Ret(op) \/ Rst(op) \/ PushPair(op) \/ PushB(op) \/ Pop(op)
    \/ PopPsw(op) \/ Xthl(op) \/ Sphl(op) \/ Cpi(op) \/ Unimplemented(op)

Next == \E op \in Read(pc) : Exec(op)

Spec == Init /\ [][Next]_vars
=============================================================================
