--------------------------- MODULE CpuStack_proof ---------------------------
(***************************************************************************)
(* The stack instructions fit one another on every program: whatever the   *)
(* nesting of pushes, pops, calls and returns, and wherever in memory the  *)
(* stack is, the saved words are intact, a return finds its call, and the  *)
(* words behave as the abstract stack.  It is a theorem for any choice of  *)
(* stack instructions among those that the code implements consistently.   *)
(***************************************************************************)
EXTENDS CpuStack, Cpu_proof, SequenceTheorems

\* The saving and the restoring instructions of which the theorems hold:
\* CALL, CNZ, CZ, JZ, PUSH D, H and PSW; RET, RZ and POP B.
GoodSaves == {205, 196, 204, 202, 213, 229, 245}
GoodRestores == {201, 200, 193}
StackOpcodes == GoodSaves \cup GoodRestores

GoodOps == SaveOps \subseteq GoodSaves /\ RestoreOps \subseteq GoodRestores

---------------------------------------------------------------------------
(* Which action executes the opcode of a stack instruction.                 *)

\* 0x00 - 0x3F: none has the opcode of a stack instruction.
LEMMA LoadsNotStack ==
  ASSUME NEW op, Nop(op) \/ Lxi(op) \/ LxiSp(op) \/ StoreA(op) \/ LoadA(op)
           \/ Lhld(op) \/ Mvi(op) \/ Inx(op) \/ StepSp(op) \/ DcxD(op)
           \/ Dad(op) \/ InrDcr(op) \/ CountHL(op) \/ Rotate(op)
  PROVE  op \notin StackOpcodes
<1>1. CASE Nop(op)
  BY <1>1 DEF Nop, StackOpcodes, GoodSaves, GoodRestores
<1>2. CASE Lxi(op)
  BY <1>2 DEF Lxi, StackOpcodes, GoodSaves, GoodRestores
<1>3. CASE LxiSp(op)
  BY <1>3 DEF LxiSp, StackOpcodes, GoodSaves, GoodRestores
<1>4. CASE StoreA(op)
  BY <1>4 DEF StoreA, StackOpcodes, GoodSaves, GoodRestores
<1>5. CASE LoadA(op)
  BY <1>5 DEF LoadA, StackOpcodes, GoodSaves, GoodRestores
<1>6. CASE Lhld(op)
  BY <1>6 DEF Lhld, StackOpcodes, GoodSaves, GoodRestores
<1>7. CASE Mvi(op)
  <2>1. \E r \in RegName : op = 6 + 8 * RegCode[r]
    BY <1>7 DEF Mvi
  <2> QED BY <2>1 DEF StackOpcodes, GoodSaves, GoodRestores, RegName, RegCode
<1>8. CASE Inx(op)
  BY <1>8 DEF Inx, StackOpcodes, GoodSaves, GoodRestores
<1>9. CASE StepSp(op)
  BY <1>9 DEF StepSp, StackOpcodes, GoodSaves, GoodRestores
<1>10. CASE DcxD(op)
  BY <1>10 DEF DcxD, StackOpcodes, GoodSaves, GoodRestores
<1>11. CASE Dad(op)
  BY <1>11 DEF Dad, StackOpcodes, GoodSaves, GoodRestores
<1>12. CASE InrDcr(op)
  BY <1>12, CodesOfRegs DEF InrDcr, RegName, StackOpcodes, GoodSaves, GoodRestores
<1>13. CASE CountHL(op)
  BY <1>13 DEF CountHL, StackOpcodes, GoodSaves, GoodRestores
<1>14. CASE Rotate(op)
  BY <1>14 DEF Rotate, StackOpcodes, GoodSaves, GoodRestores
<1> QED BY <1>1, <1>2, <1>3, <1>4, <1>5, <1>6, <1>7, <1>8, <1>9, <1>10, <1>11, <1>12, <1>13, <1>14

\* 0x40 - 0x7F.
LEMMA MovesNotStack ==
  ASSUME NEW op, MovBC(op) \/ MovDE(op) \/ MovHL(op) \/ MovA(op)
           \/ MovToM(op) \/ Hlt(op)
  PROVE  op \notin StackOpcodes
<1>1. CASE MovBC(op)
  BY <1>1, CodesOfRegs DEF MovBC, IsMov, IsMovM, RegName, StackOpcodes, GoodSaves, GoodRestores
<1>2. CASE MovDE(op)
  BY <1>2, CodesOfRegs DEF MovDE, IsMov, IsMovM, RegName, StackOpcodes, GoodSaves, GoodRestores
<1>3. CASE MovHL(op)
  BY <1>3, CodesOfRegs DEF MovHL, IsMov, IsMovM, RegName, StackOpcodes, GoodSaves, GoodRestores
<1>4. CASE MovA(op)
  BY <1>4, CodesOfRegs DEF MovA, IsMov, IsMovM, RegName, StackOpcodes, GoodSaves, GoodRestores
<1>5. CASE MovToM(op)
  BY <1>5, CodesOfRegs DEF MovToM, RegName, StackOpcodes, GoodSaves, GoodRestores
<1>6. CASE Hlt(op)
  BY <1>6 DEF Hlt, StackOpcodes, GoodSaves, GoodRestores
<1> QED BY <1>1, <1>2, <1>3, <1>4, <1>5, <1>6

\* 0x80 - 0xBF.
LEMMA AccumulatorNotStack ==
  ASSUME NEW op, Add(op) \/ Adc(op) \/ Sub(op) \/ Sbb(op) \/ Ana(op)
           \/ Xra(op) \/ Ora(op) \/ Cmp(op)
  PROVE  op \notin StackOpcodes
<1>1. CASE Add(op)
  BY <1>1, CodesOfRegs DEF Add, RegName, StackOpcodes, GoodSaves, GoodRestores
<1>2. CASE Adc(op)
  <2>1. op = 142 \/ \E r \in RegName : op = 136 + RegCode[r]
    BY <1>2 DEF Adc
  <2> QED BY <2>1 DEF StackOpcodes, GoodSaves, GoodRestores, RegName, RegCode
<1>3. CASE Sub(op)
  BY <1>3, CodesOfRegs DEF Sub, RegName, StackOpcodes, GoodSaves, GoodRestores
<1>4. CASE Sbb(op)
  BY <1>4, CodesOfRegs DEF Sbb, RegName, StackOpcodes, GoodSaves, GoodRestores
<1>5. CASE Ana(op)
  BY <1>5, CodesOfRegs DEF Ana, RegName, StackOpcodes, GoodSaves, GoodRestores
<1>6. CASE Xra(op)
  BY <1>6, CodesOfRegs DEF Xra, RegName, StackOpcodes, GoodSaves, GoodRestores
<1>7. CASE Ora(op)
  <2>1. op = 182 \/ op = 183 \/ \E r \in RegName : op = 176 + RegCode[r]
    BY <1>7 DEF Ora
  <2> QED BY <2>1 DEF StackOpcodes, GoodSaves, GoodRestores, RegName, RegCode
<1>8. CASE Cmp(op)
  BY <1>8, CodesOfRegs DEF Cmp, RegName, StackOpcodes, GoodSaves, GoodRestores
<1> QED BY <1>1, <1>2, <1>3, <1>4, <1>5, <1>6, <1>7, <1>8

\* What is left of 0xC0 - 0xFF.
LEMMA ControlNotStack ==
  ASSUME NEW op, Immediate(op) \/ NoEffect(op) \/ Interrupts(op) \/ Jump(op)
           \/ JumpP(op) \/ Rst(op) \/ PushB(op) \/ PopPsw(op) \/ Xthl(op)
           \/ Sphl(op) \/ Cpi(op) \/ Unimplemented(op)
  PROVE  op \notin StackOpcodes
<1>1. CASE Immediate(op)
  BY <1>1 DEF Immediate, StackOpcodes, GoodSaves, GoodRestores
<1>2. CASE NoEffect(op)
  BY <1>2 DEF NoEffect, StackOpcodes, GoodSaves, GoodRestores
<1>3. CASE Interrupts(op)
  BY <1>3 DEF Interrupts, StackOpcodes, GoodSaves, GoodRestores
<1>4. CASE Jump(op)
  <2>1. op \in {195, 194, 210}
    BY <1>4 DEF Jump
  <2> QED BY <2>1 DEF StackOpcodes, GoodSaves, GoodRestores, RegName, RegCode
<1>5. CASE JumpP(op)
  BY <1>5 DEF JumpP, StackOpcodes, GoodSaves, GoodRestores
<1>6. CASE Rst(op)
  BY <1>6 DEF Rst, StackOpcodes, GoodSaves, GoodRestores
<1>7. CASE PushB(op)
  BY <1>7 DEF PushB, StackOpcodes, GoodSaves, GoodRestores
<1>8. CASE PopPsw(op)
  BY <1>8 DEF PopPsw, StackOpcodes, GoodSaves, GoodRestores
<1>9. CASE Xthl(op)
  BY <1>9 DEF Xthl, StackOpcodes, GoodSaves, GoodRestores
<1>10. CASE Sphl(op)
  BY <1>10 DEF Sphl, StackOpcodes, GoodSaves, GoodRestores
<1>11. CASE Cpi(op)
  BY <1>11 DEF Cpi, StackOpcodes, GoodSaves, GoodRestores
<1>12. CASE Unimplemented(op)
  BY <1>12 DEF Unimplemented, Missing, StackOpcodes, GoodSaves, GoodRestores
<1> QED BY <1>1, <1>2, <1>3, <1>4, <1>5, <1>6, <1>7, <1>8, <1>9, <1>10, <1>11, <1>12
\* The opcode of a stack instruction is executed by one of four actions.
LEMMA StackAction ==
  ASSUME NEW op, Exec(op), op \in StackOpcodes
  PROVE  Call(op) \/ Ret(op) \/ PushPair(op) \/ Pop(op)
  BY LoadsNotStack, MovesNotStack, AccumulatorNotStack, ControlNotStack DEF Exec

\* The opcodes of the four.
LEMMA StackActionOpcodes ==
  ASSUME NEW op
  PROVE  /\ Call(op) => op \in CallOps
         /\ Ret(op) => op \in {201, 200}
         /\ PushPair(op) => op \in {213, 229, 245}
         /\ Pop(op) => op \in {193, 209}
<1>1. Call(op) => op \in CallOps
  BY DEF Call, CallOps
<1>2. Ret(op) => op \in {201, 200}
  BY DEF Ret
<1>3. PushPair(op) => op \in {213, 229, 245}
  BY DEF PushPair
<1>4. Pop(op) => op \in {193, 209}
  BY DEF Pop
<1> QED BY <1>1, <1>2, <1>3, <1>4

LEMMA SaveAction ==
  ASSUME NEW op, Exec(op), op \in GoodSaves
  PROVE  \/ op \in CallOps /\ Call(op)
         \/ op \in {213, 229, 245} /\ PushPair(op)
<1>1. Call(op) \/ Ret(op) \/ PushPair(op) \/ Pop(op)
  BY StackAction DEF StackOpcodes
<1>2. op \notin {201, 200} /\ op \notin {193, 209}
  BY DEF GoodSaves
<1> QED BY <1>1, <1>2, StackActionOpcodes

LEMMA RestoreAction ==
  ASSUME NEW op, Exec(op), op \in GoodRestores
  PROVE  \/ op \in {201, 200} /\ Ret(op)
         \/ op = 193 /\ Pop(op)
<1>1. Call(op) \/ Ret(op) \/ PushPair(op) \/ Pop(op)
  BY StackAction DEF StackOpcodes
<1>2. op \notin CallOps /\ op \notin {213, 229, 245} /\ op # 209
  BY DEF GoodRestores, CallOps
<1> QED BY <1>1, <1>2, StackActionOpcodes

---------------------------------------------------------------------------
(* Memory.                                                                  *)

\* A write keeps the bytes that are there.
LEMMA WriteGrows ==
  ASSUME NEW m, NEW adr, NEW v PROVE DOMAIN m \subseteq DOMAIN Write(m, adr, v)
  BY DEF Write

LEMMA PushedGrows ==
  ASSUME NEW hi, NEW lo PROVE DOMAIN mem \subseteq DOMAIN Pushed(hi, lo)
  BY WriteGrows DEF Pushed

\* m has two bytes below sp, and is otherwise the memory.
HoldsPushed(m, hi, lo) ==
    /\ DOMAIN m = DOMAIN mem \cup {sp - 1, sp - 2}
    /\ m[sp - 1] = hi
    /\ m[sp - 2] = lo
    /\ \A x \in DOMAIN mem : x \in Word /\ x >= sp => m[x] = mem[x]

\* Two bytes pushed, and what stays as it was.
LEMMA PushedWord ==
  ASSUME NEW hi, NEW lo, sp \in Word, sp >= 2
  PROVE  HoldsPushed(Pushed(hi, lo), hi, lo)
<1>1. sp \in Int /\ 0 <= sp /\ sp <= 65535
  BY WordBounds
<1> DEFINE p == sp - 1
           q == sp - 2
<1>2. p \in Word /\ q \in Word /\ p # q
  BY <1>1, IsWord
<1>3. \A x \in Word : x >= sp => x # p /\ x # q
  BY <1>1, WordBounds
<1> HIDE DEF p, q
<1>4. /\ DOMAIN Write(Write(mem, p, hi), q, lo) = DOMAIN mem \cup {p, q}
      /\ Write(Write(mem, p, hi), q, lo)[p] = hi
      /\ Write(Write(mem, p, hi), q, lo)[q] = lo
      /\ \A x \in DOMAIN mem :
            x # p /\ x # q => Write(Write(mem, p, hi), q, lo)[x] = mem[x]
  BY <1>2 DEF Write
<1>5. Pushed(hi, lo) = Write(Write(mem, p, hi), q, lo)
  BY DEF Pushed, p, q
<1>6. /\ DOMAIN Pushed(hi, lo) = DOMAIN mem \cup {p, q}
      /\ Pushed(hi, lo)[p] = hi
      /\ Pushed(hi, lo)[q] = lo
      /\ \A x \in DOMAIN mem : x \in Word /\ x >= sp => Pushed(hi, lo)[x] = mem[x]
  BY <1>3, <1>4, <1>5
<1> QED BY <1>6 DEF p, q, HoldsPushed

\* 0x00 - 0x3F.
LEMMA LoadsGrow ==
  ASSUME NEW op, Nop(op) \/ Lxi(op) \/ LxiSp(op) \/ StoreA(op) \/ LoadA(op)
           \/ Lhld(op) \/ Mvi(op) \/ Inx(op) \/ StepSp(op) \/ DcxD(op)
           \/ Dad(op) \/ InrDcr(op) \/ CountHL(op) \/ Rotate(op)
  PROVE  DOMAIN mem \subseteq DOMAIN mem'
<1>1. CASE Nop(op)
  BY <1>1 DEF Nop
<1>2. CASE Lxi(op)
  BY <1>2 DEF Lxi
<1>3. CASE LxiSp(op)
  BY <1>3 DEF LxiSp
<1>4. CASE StoreA(op)
  BY <1>4, WriteGrows DEF StoreA
<1>5. CASE LoadA(op)
  BY <1>5 DEF LoadA
<1>6. CASE Lhld(op)
  BY <1>6 DEF Lhld
<1>7. CASE Mvi(op)
  BY <1>7 DEF Mvi
<1>8. CASE Inx(op)
  BY <1>8 DEF Inx
<1>9. CASE StepSp(op)
  BY <1>9 DEF StepSp
<1>10. CASE DcxD(op)
  BY <1>10 DEF DcxD
<1>11. CASE Dad(op)
  BY <1>11 DEF Dad
<1>12. CASE InrDcr(op)
  BY <1>12 DEF InrDcr
<1>13. CASE CountHL(op)
  BY <1>13 DEF CountHL
<1>14. CASE Rotate(op)
  BY <1>14 DEF Rotate
<1> QED BY <1>1, <1>2, <1>3, <1>4, <1>5, <1>6, <1>7, <1>8, <1>9, <1>10, <1>11, <1>12, <1>13, <1>14

\* 0x40 - 0x7F.
LEMMA MovesGrow ==
  ASSUME NEW op, MovBC(op) \/ MovDE(op) \/ MovHL(op) \/ MovA(op)
           \/ MovToM(op) \/ Hlt(op)
  PROVE  DOMAIN mem \subseteq DOMAIN mem'
<1>1. CASE MovBC(op)
  BY <1>1 DEF MovBC
<1>2. CASE MovDE(op)
  BY <1>2 DEF MovDE
<1>3. CASE MovHL(op)
  BY <1>3 DEF MovHL
<1>4. CASE MovA(op)
  BY <1>4 DEF MovA
<1>5. CASE MovToM(op)
  BY <1>5, WriteGrows DEF MovToM
<1>6. CASE Hlt(op)
  BY <1>6 DEF Hlt
<1> QED BY <1>1, <1>2, <1>3, <1>4, <1>5, <1>6

\* 0x80 - 0xBF.
LEMMA AccumulatorGrow ==
  ASSUME NEW op, Add(op) \/ Adc(op) \/ Sub(op) \/ Sbb(op) \/ Ana(op)
           \/ Xra(op) \/ Ora(op) \/ Cmp(op)
  PROVE  DOMAIN mem \subseteq DOMAIN mem'
<1>1. CASE Add(op)
  BY <1>1 DEF Add
<1>2. CASE Adc(op)
  BY <1>2 DEF Adc
<1>3. CASE Sub(op)
  BY <1>3 DEF Sub
<1>4. CASE Sbb(op)
  BY <1>4 DEF Sbb
<1>5. CASE Ana(op)
  BY <1>5 DEF Ana
<1>6. CASE Xra(op)
  BY <1>6 DEF Xra
<1>7. CASE Ora(op)
  BY <1>7 DEF Ora
<1>8. CASE Cmp(op)
  BY <1>8 DEF Cmp
<1> QED BY <1>1, <1>2, <1>3, <1>4, <1>5, <1>6, <1>7, <1>8

\* 0xC0 - 0xFF.
LEMMA ControlGrow ==
  ASSUME NEW op, Immediate(op) \/ NoEffect(op) \/ Interrupts(op) \/ Jump(op)
           \/ JumpP(op) \/ Rst(op) \/ PushB(op) \/ PopPsw(op) \/ Xthl(op)
           \/ Sphl(op) \/ Cpi(op) \/ Unimplemented(op) \/ Call(op)
           \/ Ret(op) \/ PushPair(op) \/ Pop(op)
  PROVE  DOMAIN mem \subseteq DOMAIN mem'
<1>1. CASE Immediate(op)
  BY <1>1 DEF Immediate
<1>2. CASE NoEffect(op)
  BY <1>2 DEF NoEffect
<1>3. CASE Interrupts(op)
  BY <1>3 DEF Interrupts
<1>4. CASE Jump(op)
  BY <1>4 DEF Jump
<1>5. CASE JumpP(op)
  BY <1>5 DEF JumpP
<1>6. CASE Rst(op)
  BY <1>6 DEF Rst
<1>7. CASE PushB(op)
  BY <1>7, WriteGrows DEF PushB
<1>8. CASE PopPsw(op)
  BY <1>8 DEF PopPsw
<1>9. CASE Xthl(op)
  BY <1>9, WriteGrows DEF Xthl
<1>10. CASE Sphl(op)
  BY <1>10 DEF Sphl
<1>11. CASE Cpi(op)
  BY <1>11 DEF Cpi
<1>12. CASE Unimplemented(op)
  BY <1>12 DEF Unimplemented
<1>13. CASE Call(op)
  <2>1. (\E hi, lo : mem' = Pushed(hi, lo)) \/ mem' = mem
    BY <1>13 DEF Call, CallIf
  <2> QED BY <2>1, PushedGrows
<1>14. CASE Ret(op)
  BY <1>14 DEF Ret
<1>15. CASE PushPair(op)
  BY <1>15, PushedGrows DEF PushPair, Push
<1>16. CASE Pop(op)
  BY <1>16 DEF Pop
<1> QED BY <1>1, <1>2, <1>3, <1>4, <1>5, <1>6, <1>7, <1>8, <1>9, <1>10, <1>11, <1>12, <1>13, <1>14, <1>15, <1>16

\* No instruction takes a byte away from the memory.
LEMMA MemoryGrows == ASSUME NEW op, Exec(op) PROVE DOMAIN mem \subseteq DOMAIN mem'
  BY LoadsGrow, MovesGrow, AccumulatorGrow, ControlGrow DEF Exec

---------------------------------------------------------------------------
(* What the stack instructions do to memory and sp, seen from outside.      *)

\* A word is made of its halves.
LEMMA WordOfHalves == ASSUME NEW w \in Word PROVE MkWord(Hi(w), Lo(w)) = w
<1>1. w \in Int
  BY WordBounds
<1> QED BY <1>1 DEF MkWord, Hi, Lo

LEMMA ReturnAddressWord == ASSUME TypeOK PROVE ReturnAddress \in Word
<1>1. pc + 2 \in Int
  BY WordBounds DEF TypeOK
<1> QED BY <1>1, Truncated DEF ReturnAddress

\* A saving instruction stores the word it is meant to save below sp.
LEMMA SavingStep ==
  ASSUME TypeOK, NEW op, Exec(op), op \in GoodSaves, sp >= 2,
         op = 196 => cc.z = 0, op \in {202, 204} => cc.z = 1
  PROVE  \E hi, lo \in Byte : /\ mem' = Pushed(hi, lo) /\ sp' = sp - 2
                              /\ MkWord(hi, lo) = SavedWord(op)
<1>1. sp \in Int /\ sp <= 65535
  BY WordBounds DEF TypeOK
<1>2. (sp - 2) % 65536 = sp - 2
  BY <1>1
<1>3. CASE op \in CallOps /\ Call(op)
  <2>1. mem' = Pushed(Hi(ReturnAddress), Lo(ReturnAddress)) /\ sp' = (sp - 2) % 65536
    BY <1>3 DEF Call, CallIf, CallOps
  <2>2. SavedWord(op) = ReturnAddress
    BY <1>3 DEF SavedWord, CallOps
  <2> QED BY <1>2, <2>1, <2>2, ReturnAddressWord, HalvesByte, WordOfHalves
<1>4. CASE op \in {213, 229, 245} /\ PushPair(op)
  <2>1. reg["a"] \in Byte /\ reg["d"] \in Byte /\ reg["e"] \in Byte
        /\ reg["h"] \in Byte /\ reg["l"] \in Byte /\ PackPsw(cc) \in Byte
    BY OperandBounds, PackByte DEF RegName
  <2>2. \E hi, lo \in Byte : Push(hi, lo) /\ MkWord(hi, lo) = SavedWord(op)
    BY <1>4, <2>1 DEF PushPair, SavedWord, Pair, HL
  <2> QED BY <1>2, <2>2 DEF Push
<1> QED BY <1>3, <1>4, SaveAction

\* A restoring instruction takes the word that sp points at, and a return
\* goes on one byte behind it.
LEMMA RestoringStep ==
  ASSUME TypeOK, NEW op, Exec(op), op \in GoodRestores, op = 200 => cc.z = 1,
         {sp, sp + 1} \subseteq DOMAIN mem
  PROVE  /\ mem' = mem /\ sp' = (sp + 2) % 65536
         /\ TakenWord(op) = MkWord(mem[sp + 1], mem[sp])
         /\ op \in {200, 201} => pc' = (MkWord(mem[sp + 1], mem[sp]) + 1) % 65536
<1> DEFINE word == MkWord(mem[sp + 1], mem[sp])
<1>1. Read(sp) = {mem[sp]} /\ Read(sp + 1) = {mem[sp + 1]}
  BY DEF Read, ReadIn
<1>2. word \in Word
  <2>1. mem[sp] \in Byte /\ mem[sp + 1] \in Byte
    BY DEF TypeOK
  <2> QED BY <2>1, MkWordWord
<1>3. word \in Int /\ 0 <= word /\ word <= 65535
  BY <1>2, WordBounds
<1>4. CASE op \in {201, 200} /\ Ret(op)
  <2>1. /\ mem' = mem /\ sp' = (sp + 2) % 65536
        /\ pc' = (word + 1) % 65536
    BY <1>1, <1>4 DEF Ret, Goto
  <2>2. TakenWord(op) = (pc' - 1) % 65536
    BY <1>4 DEF TakenWord
  <2>3. (((word + 1) % 65536) - 1) % 65536 = word
    <3> HIDE DEF word
    <3> QED BY <1>3
  <2> QED BY <2>1, <2>2, <2>3
<1>5. CASE op = 193 /\ Pop(op)
  <2>1. /\ mem' = mem /\ sp' = (sp + 2) % 65536
        /\ reg' = [reg EXCEPT !["c"] = mem[sp], !["b"] = mem[sp + 1]]
    BY <1>1, <1>5 DEF Pop
  <2>2. reg'["b"] = mem[sp + 1] /\ reg'["c"] = mem[sp]
    BY <2>1 DEF TypeOK, RegName
  <2>3. TakenWord(op) = MkWord(reg'["b"], reg'["c"])
    BY <1>5 DEF TakenWord
  <2> QED BY <1>5, <2>1, <2>2, <2>3
<1> QED BY <1>4, <1>5, RestoreAction

---------------------------------------------------------------------------
(* The inductive invariant.                                                 *)

SavedType == [word : Word, from : Int]

\* A word saved by a call is the address that a return adds one to.
CallsKnown ==
    \A i \in 1..Len(saved) :
        saved[i].from # NotACall => saved[i].word = (saved[i].from + 2) % 65536

StackInv == TypeOK /\ saved \in Seq(SavedType) /\ CallsKnown /\ StackIntact

\* The word w in memory m at an address and the next.
WordAt(m, at, w) ==
    /\ at + 1 \in Word
    /\ {at, at + 1} \subseteq DOMAIN m
    /\ MkWord(m[at + 1], m[at]) = w

\* Where the i-th saved word is.
Place(i) == sp + 2 * (Len(saved) - i)

LEMMA IntactWords ==
  StackIntact <=> \A i \in 1..Len(saved) : WordAt(mem, Place(i), saved[i].word)
  BY DEF StackIntact, WordAt, Place

LEMMA IntactWordsNext ==
  (\A i \in 1..Len(saved') : WordAt(mem', Place(i)', saved'[i].word)) => StackIntact'
  BY DEF StackIntact, WordAt, Place

LEMMA AllButLastSeq ==
  ASSUME NEW S, NEW s \in Seq(S), s # <<>>
  PROVE  /\ AllButLast(s) \in Seq(S)
         /\ Len(AllButLast(s)) = Len(s) - 1
         /\ \A i \in 1..(Len(s) - 1) : AllButLast(s)[i] = s[i]
<1>1. Len(s) - 1 \in Nat /\ s \in [1..Len(s) -> S]
  BY EmptySeq, LenProperties
<1>2. AllButLast(s) \in [1..(Len(s) - 1) -> S]
  BY <1>1 DEF AllButLast
<1>3. AllButLast(s) \in Seq(S)
  BY <1>1, <1>2, SeqDef
<1>4. Len(AllButLast(s)) = Len(s) - 1
  <2> DEFINE n == Len(s) - 1
             k == Len(AllButLast(s))
  <2>1. k \in Nat /\ DOMAIN AllButLast(s) = 1..k
    BY <1>3, LenProperties
  <2>2. n \in Nat /\ DOMAIN AllButLast(s) = 1..n
    BY <1>1 DEF AllButLast
  <2> HIDE DEF n, k
  <2>3. k = n
    BY <2>1, <2>2
  <2> QED BY <2>3 DEF n, k
<1> QED BY <1>3, <1>4 DEF AllButLast

\* Where the saved words are: the latest at sp.
LEMMA SavedAt ==
  ASSUME StackInv
  PROVE  \A i \in 1..Len(saved) :
            /\ Place(i) \in Int /\ Place(i) >= sp
            /\ Place(i) \in Word /\ Place(i) + 1 \in Word
            /\ WordAt(mem, Place(i), saved[i].word)
<1> SUFFICES ASSUME NEW i \in 1..Len(saved)
             PROVE  /\ Place(i) \in Int /\ Place(i) >= sp
                    /\ Place(i) \in Word /\ Place(i) + 1 \in Word
                    /\ WordAt(mem, Place(i), saved[i].word)
  OBVIOUS
<1>1. sp \in Int /\ 0 <= sp
  BY WordBounds DEF StackInv, TypeOK
<1>2. Len(saved) \in Nat /\ i \in Int /\ i <= Len(saved)
  BY LenProperties DEF StackInv
<1>3. Place(i) \in Int /\ Place(i) >= sp
  BY <1>1, <1>2 DEF Place
<1>4. WordAt(mem, Place(i), saved[i].word)
  BY IntactWords DEF StackInv
<1>5. Place(i) + 1 \in Word /\ Place(i) + 1 <= 65535
  BY <1>4, WordBounds DEF WordAt
<1>6. Place(i) \in Word
  BY <1>1, <1>3, <1>5, IsWord
<1> QED BY <1>3, <1>4, <1>5, <1>6

\* Saving a word.
LEMMA SavedAppended ==
  ASSUME saved \in Seq(SavedType), NEW e \in SavedType, saved' = Append(saved, e)
  PROVE  /\ Len(saved) \in Nat
         /\ saved' \in Seq(SavedType) /\ Len(saved') = Len(saved) + 1
         /\ saved'[Len(saved) + 1] = e
         /\ \A i \in 1..Len(saved) : saved'[i] = saved[i]
         /\ \A i \in 1..Len(saved') : i = Len(saved) + 1 \/ i \in 1..Len(saved)
<1>1. Len(saved) \in Nat
  BY LenProperties
<1>2. /\ saved' \in Seq(SavedType) /\ Len(saved') = Len(saved) + 1
      /\ saved'[Len(saved) + 1] = e
      /\ \A i \in 1..Len(saved) : saved'[i] = saved[i]
  BY <1>1, AppendProperties
<1> QED BY <1>1, <1>2

LEMMA SaveKeepsCalls ==
  ASSUME saved \in Seq(SavedType), CallsKnown, NEW e \in SavedType,
         saved' = Append(saved, e),
         e.from # NotACall => e.word = (e.from + 2) % 65536
  PROVE  CallsKnown'
  BY SavedAppended DEF CallsKnown

LEMMA SaveKeepsIntact ==
  ASSUME StackInv, NEW hi, NEW lo, NEW e \in SavedType, e.word = MkWord(hi, lo),
         sp >= 2, mem' = Pushed(hi, lo), sp' = sp - 2, saved' = Append(saved, e)
  PROVE  StackIntact'
<1> PICK n : n = Len(saved)
  OBVIOUS
<1>1. sp \in Int /\ sp \in Word /\ sp <= 65535 /\ saved \in Seq(SavedType)
  BY WordBounds DEF StackInv, TypeOK
<1>2. /\ n \in Nat /\ Len(saved') = n + 1
      /\ saved'[n + 1] = e
      /\ \A i \in 1..n : saved'[i] = saved[i]
      /\ \A i \in 1..Len(saved') : i = n + 1 \/ i \in 1..n
  BY <1>1, SavedAppended
<1>3. /\ DOMAIN mem' = DOMAIN mem \cup {sp - 1, sp - 2}
      /\ mem'[sp - 1] = hi
      /\ mem'[sp - 2] = lo
      /\ \A x \in DOMAIN mem : x \in Word /\ x >= sp => mem'[x] = mem[x]
  <2>1. HoldsPushed(mem', hi, lo)
    BY <1>1, PushedWord
  <2> QED BY <2>1 DEF HoldsPushed
<1>4. WordAt(mem', sp - 2, MkWord(hi, lo))
  <2>1. sp - 2 + 1 = sp - 1 /\ sp - 1 \in Word
    BY <1>1, IsWord
  <2> QED BY <1>3, <2>1 DEF WordAt
<1>5. Place(n + 1)' = sp - 2
  <2>1. Place(n + 1)' = (sp - 2) + 2 * ((n + 1) - (n + 1))
    BY <1>2 DEF Place
  <2> QED BY <1>1, <1>2, <2>1
<1>6. ASSUME NEW i \in 1..n PROVE WordAt(mem', Place(i)', saved'[i].word)
  <2>1. Place(i)' = Place(i)
    <3>1. Place(i)' = (sp - 2) + 2 * ((n + 1) - i)
      BY <1>2 DEF Place
    <3>2. i \in Int
      BY <1>2
    <3> QED BY <1>1, <1>2, <3>1, <3>2 DEF Place
  <2>2. /\ Place(i) \in Int /\ Place(i) >= sp
        /\ Place(i) \in Word /\ Place(i) + 1 \in Word /\ WordAt(mem, Place(i), saved[i].word)
    BY SavedAt
  <2>3. Place(i) + 1 >= sp
    BY <1>1, <2>2
  <2>4. mem'[Place(i)] = mem[Place(i)] /\ mem'[Place(i) + 1] = mem[Place(i) + 1]
    BY <1>3, <2>2, <2>3 DEF WordAt
  <2>5. WordAt(mem', Place(i), saved[i].word)
    BY <1>3, <2>2, <2>4 DEF WordAt
  <2> QED BY <1>2, <2>1, <2>5
<1>7. WordAt(mem', Place(n + 1)', saved'[n + 1].word)
  BY <1>2, <1>4, <1>5
<1>8. \A i \in 1..Len(saved') : WordAt(mem', Place(i)', saved'[i].word)
  BY <1>2, <1>6, <1>7
<1> QED BY <1>8, IntactWordsNext

\* Taking a word back.
LEMMA RestoreKeepsIntact ==
  ASSUME StackInv, TypeOK', saved # <<>>,
         mem' = mem, sp' = (sp + 2) % 65536, saved' = AllButLast(saved)
  PROVE  StackInv'
<1> DEFINE n == Len(saved)
<1>1. sp \in Int /\ 0 <= sp /\ sp <= 65535
  BY WordBounds DEF StackInv, TypeOK
<1>2. n \in Nat /\ saved \in Seq(SavedType)
  BY LenProperties DEF StackInv
<1>3. /\ saved' \in Seq(SavedType) /\ Len(saved') = n - 1
      /\ \A i \in 1..(n - 1) : saved'[i] = saved[i]
  BY <1>2, AllButLastSeq
<1>4. \A i \in 1..(n - 1) : i \in 1..n
  BY <1>2
<1>5. CallsKnown'
  BY <1>3, <1>4 DEF StackInv, CallsKnown
<1>6. ASSUME NEW i \in 1..(n - 1) PROVE WordAt(mem', Place(i)', saved'[i].word)
  <2>1. Place(i) + 1 \in Word /\ WordAt(mem, Place(i), saved[i].word)
    BY <1>4, SavedAt
  <2>2. i \in Int /\ i <= n - 1
    BY <1>2
  <2>3. Place(i) = sp + 2 * (n - i) /\ Place(i)' = sp' + 2 * (n - 1 - i)
    BY <1>3 DEF Place
  <2>4. Place(i) + 1 <= 65535
    BY <2>1, WordBounds
  <2>5. Place(i) \in Int /\ sp + 2 <= Place(i)
    BY <1>1, <1>2, <2>2, <2>3
  <2>6. sp' = sp + 2
    BY <1>1, <2>4, <2>5
  <2>7. Place(i)' = Place(i)
    BY <1>1, <1>2, <2>2, <2>3, <2>6
  <2> QED BY <1>3, <2>1, <2>7
<1>7. StackIntact'
  BY <1>3, <1>6, IntactWordsNext
<1> QED BY <1>3, <1>5, <1>7 DEF StackInv

\* Leaving the saved words alone.
LEMMA UntouchedKeepsIntact ==
  ASSUME StackInv, TypeOK', DOMAIN mem \subseteq DOMAIN mem', Untouched, saved' = saved
  PROVE  StackInv'
<1> DEFINE n == Len(saved)
<1>1. n \in Nat /\ sp \in Int
  BY LenProperties, WordBounds DEF StackInv, TypeOK
<1>2. CallsKnown'
  BY DEF StackInv, CallsKnown
<1>3. ASSUME NEW i \in 1..n PROVE WordAt(mem', Place(i)', saved'[i].word)
  <2>1. Place(i)' = Place(i)
    BY DEF Place, Untouched
  <2>2. Place(i) \in Int /\ Place(i) >= sp /\ WordAt(mem, Place(i), saved[i].word)
    BY SavedAt
  <2>3. i \in Int /\ i >= 1
    BY <1>1
  <2>4. Place(i) + 1 <= sp + 2 * n - 1
    BY <1>1, <2>3 DEF Place
  <2>5. Place(i) \in Live /\ Place(i) + 1 \in Live
    BY <1>1, <2>2, <2>4 DEF Live
  <2>6. mem'[Place(i)] = mem[Place(i)] /\ mem'[Place(i) + 1] = mem[Place(i) + 1]
    BY <2>5 DEF Untouched
  <2>7. WordAt(mem', Place(i), saved[i].word)
    BY <2>2, <2>6 DEF WordAt
  <2> QED BY <2>1, <2>7
<1>4. StackIntact'
  BY <1>3, IntactWordsNext
<1> QED BY <1>2, <1>4 DEF StackInv

\* Giving the stack up.
LEMMA NothingSaved == ASSUME TypeOK, saved = <<>> PROVE StackInv
<1>1. saved \in Seq(SavedType) /\ Len(saved) = 0
  BY EmptySeq
<1>2. 1..Len(saved) = {}
  BY <1>1
<1> QED BY <1>1, <1>2 DEF StackInv, CallsKnown, StackIntact

LEMMA NothingSavedNext == ASSUME TypeOK', saved' = <<>> PROVE StackInv'
<1>1. saved' \in Seq(SavedType) /\ Len(saved') = 0
  BY EmptySeq
<1>2. 1..Len(saved') = {}
  BY <1>1
<1> QED BY <1>1, <1>2 DEF StackInv, CallsKnown, StackIntact

---------------------------------------------------------------------------
(* The steps.                                                               *)

\* A step that saves a word.
LEMMA SaveStep ==
  ASSUME StackInv, GoodOps, NEW op, Exec(op), Track(op), Saves(op), sp >= 2
  PROVE  /\ StackInv'
         /\ \E e \in SavedType : saved' = Append(saved, e)
         /\ restored' = restored
<1> DEFINE e == [word |-> SavedWord(op), from |-> IF op \in CallOps THEN pc ELSE NotACall]
<1>1. op \in GoodSaves /\ (op = 196 => cc.z = 0) /\ (op \in {202, 204} => cc.z = 1)
  BY DEF GoodOps, Saves
<1>2. PICK hi \in Byte, lo \in Byte :
        mem' = Pushed(hi, lo) /\ sp' = sp - 2 /\ MkWord(hi, lo) = SavedWord(op)
  BY <1>1, SavingStep DEF StackInv
<1>3. saved' = Append(saved, e) /\ restored' = restored
  BY DEF Track
<1>4. e \in SavedType
  <2>1. SavedWord(op) \in Word
    BY <1>2, MkWordWord
  <2>2. pc \in Int /\ NotACall \in Int
    BY WordBounds DEF StackInv, TypeOK, NotACall
  <2> QED BY <2>1, <2>2 DEF SavedType
<1>5. e.word = MkWord(hi, lo)
  BY <1>2
<1>6. e.from # NotACall => e.word = (e.from + 2) % 65536
  <2>1. op \in CallOps => SavedWord(op) = ReturnAddress
    BY DEF SavedWord, CallOps
  <2> QED BY <2>1 DEF ReturnAddress
<1>7. saved' \in Seq(SavedType) /\ CallsKnown'
  <2> HIDE DEF e
  <2>1. saved \in Seq(SavedType) /\ CallsKnown
    BY DEF StackInv
  <2> QED BY <1>3, <1>4, <1>6, <2>1, SavedAppended, SaveKeepsCalls
<1>8. StackIntact'
  <2> HIDE DEF e
  <2> QED BY <1>2, <1>3, <1>4, <1>5, SaveKeepsIntact
<1>9. TypeOK'
  BY ExecOK DEF StackInv
<1> QED BY <1>3, <1>4, <1>7, <1>8, <1>9 DEF StackInv

\* The latest saved word is where sp points.
LEMMA LatestAtSp ==
  ASSUME StackInv, saved # <<>>
  PROVE  /\ Len(saved) \in 1..Len(saved)
         /\ {sp, sp + 1} \subseteq DOMAIN mem
         /\ MkWord(mem[sp + 1], mem[sp]) = saved[Len(saved)].word
<1>1. Len(saved) \in Nat /\ Len(saved) >= 1
  BY EmptySeq, LenProperties DEF StackInv
<1>2. Place(Len(saved)) = sp
  <2>1. sp \in Int
    BY WordBounds DEF StackInv, TypeOK
  <2> QED BY <1>1, <2>1 DEF Place
<1>3. Len(saved) \in 1..Len(saved)
  BY <1>1
<1> QED BY <1>2, <1>3, SavedAt DEF WordAt

\* A step that takes a word back.
LEMMA RestoreStep ==
  ASSUME StackInv, GoodOps, NEW op, Exec(op), Track(op),
         ~(Saves(op) /\ sp >= 2), Restores(op), saved # <<>>
  PROVE  /\ StackInv'
         /\ saved' = AllButLast(saved)
         /\ restored' = saved[Len(saved)].word
<1>1. op \in GoodRestores /\ (op = 200 => cc.z = 1)
  BY DEF GoodOps, Restores
<1>2. /\ mem' = mem /\ sp' = (sp + 2) % 65536
      /\ TakenWord(op) = saved[Len(saved)].word
  BY <1>1, LatestAtSp, RestoringStep DEF StackInv
<1>3. saved' = AllButLast(saved) /\ restored' = TakenWord(op)
  BY DEF Track
<1>4. TypeOK'
  BY ExecOK DEF StackInv
<1> QED BY <1>2, <1>3, <1>4, RestoreKeepsIntact

\* Any other step keeps the saved words or gives them all up.
LEMMA OtherStep ==
  ASSUME StackInv, NEW op, Exec(op), Track(op),
         ~(Saves(op) /\ sp >= 2), ~(Restores(op) /\ saved # <<>>)
  PROVE  StackInv' /\ saved' \in {saved, <<>>} /\ restored' = restored
<1>1. saved' = (IF Untouched THEN saved ELSE <<>>) /\ restored' = restored
  BY DEF Track
<1>2. TypeOK'
  BY ExecOK DEF StackInv
<1>3. CASE Untouched
  BY <1>1, <1>2, <1>3, MemoryGrows, UntouchedKeepsIntact
<1>4. CASE ~Untouched
  <2>1. saved' = <<>>
    BY <1>1, <1>4
  <2>2. StackInv'
    BY <1>2, <2>1, NothingSavedNext
  <2> QED BY <1>1, <2>1, <2>2
<1> QED BY <1>3, <1>4

LEMMA StutterKeepsInv ==
  ASSUME StackInv, UNCHANGED stackVars PROVE StackInv'
<1>1. TypeOK'
  BY DEF StackInv, stackVars, TypeOK
<1> QED BY <1>1 DEF StackInv, stackVars, CallsKnown, StackIntact

LEMMA StackStep ==
  ASSUME StackInv, GoodOps, [StackNext]_stackVars PROVE StackInv'
<1>1. CASE StackNext
  <2>1. PICK op \in Read(pc) : Exec(op) /\ Track(op)
    BY <1>1 DEF StackNext
  <2> QED BY <2>1, SaveStep, RestoreStep, OtherStep
<1>2. CASE UNCHANGED stackVars
  BY <1>2, StutterKeepsInv
<1> QED BY <1>1, <1>2

LEMMA StackStart == StackInit => StackInv
  BY InitOK, NothingSaved DEF StackInit

LEMMA StackInvAlways ==
  ASSUME GoodOps PROVE StackSpec => []StackInv
<1>1. StackInit => StackInv
  BY StackStart
<1>2. StackInv /\ [StackNext]_stackVars => StackInv'
  BY StackStep
<1> QED BY <1>1, <1>2, PTL DEF StackSpec

---------------------------------------------------------------------------
(* The theorems.                                                            *)

\* Every saved word is intact in memory, the latest at sp, on every program
\* and however the stack instructions are nested (cpu.c:1430-1670).
THEOREM StackStaysIntact ==
  ASSUME GoodOps PROVE StackSpec => []StackIntact
<1>1. StackInv => StackIntact
  BY DEF StackInv
<1> QED BY <1>1, StackInvAlways, PTL

LEMMA ReturnStep ==
  ASSUME StackInv, GoodOps, [StackNext]_stackVars,
         pc \in DOMAIN mem, mem[pc] \in {201, 200},
         Len(saved') < Len(saved), saved[Len(saved)].from # NotACall
  PROVE  pc' = (saved[Len(saved)].from + 3) % 65536
<1> DEFINE from == saved[Len(saved)].from
<1>1. saved # <<>> /\ saved' # saved
  <2>1. Len(saved) \in Nat
    BY LenProperties DEF StackInv
  <2>2. saved' # saved
    BY <2>1
  <2>3. saved # <<>>
    <3> SUFFICES ASSUME saved = <<>> PROVE FALSE
      OBVIOUS
    <3>1. saved' \in Seq(SavedType)
      BY StackStep DEF StackInv
    <3> QED BY <3>1, EmptySeq, LenProperties
  <2> QED BY <2>2, <2>3
<1>2. PICK op \in Read(pc) : Exec(op) /\ Track(op)
  BY <1>1 DEF StackNext, stackVars
<1>3. op \in {201, 200}
  BY <1>2 DEF Read, ReadIn
<1>4. op = 200 => cc.z = 1
  <2> SUFFICES ASSUME op = 200, cc.z # 1 PROVE FALSE
    OBVIOUS
  <2>1. Ret(op)
    BY <1>2, <1>3, RestoreAction DEF GoodRestores
  <2>2. sp' = sp /\ mem' = mem
    BY <2>1 DEF Ret
  <2>3. ~Saves(op) /\ ~Restores(op) /\ Untouched
    BY <2>2 DEF Saves, Restores, Untouched, GoodOps, GoodSaves
  <2> QED BY <1>1, <1>2, <2>3 DEF Track
<1>5. pc' = (saved[Len(saved)].word + 1) % 65536
  <2>1. op \in GoodRestores
    BY <1>3 DEF GoodRestores
  <2> QED BY <1>1, <1>2, <1>3, <1>4, <2>1, LatestAtSp, RestoringStep DEF StackInv
<1>6. saved[Len(saved)].word = (from + 2) % 65536
  BY <1>1, LatestAtSp DEF StackInv, CallsKnown
<1>7. from \in Int
  <2>1. saved \in Seq(SavedType) /\ Len(saved) \in 1..Len(saved)
    BY <1>1, LatestAtSp DEF StackInv
  <2>2. saved[Len(saved)] \in SavedType
    BY <2>1
  <2> QED BY <2>2 DEF SavedType
<1>8. (((from + 2) % 65536) + 1) % 65536 = (from + 3) % 65536
  <2> HIDE DEF from
  <2> QED BY <1>7
<1> QED BY <1>5, <1>6, <1>8

\* A return that takes back a call's word goes on behind that call's three
\* bytes, though the call saves the address of its last byte and only the
\* pc += 1 that every case shares supplies the third (cpu.c:1430-1436,
\* 1467-1501).
THEOREM ReturnsFindCalls ==
  ASSUME GoodOps PROVE StackSpec => ReturnsAfterCall
<1>1. StackInv /\ [StackNext]_stackVars
      => [/\ pc \in DOMAIN mem
          /\ mem[pc] \in {\hC9, \hC8}
          /\ Len(saved') < Len(saved)
          /\ saved[Len(saved)].from # NotACall
          => pc' = (saved[Len(saved)].from + 3) % 65536]_stackVars
  BY ReturnStep
<1> QED BY <1>1, StackInvAlways, PTL DEF StackSpec, ReturnsAfterCall

---------------------------------------------------------------------------
(* Where calls go.                                                          *)

\* A byte of memory behind a write to it or beside it.
LEMMA WrittenByte ==
  ASSUME NEW m, NEW adr, NEW v, NEW x \in DOMAIN m, x \in Word
  PROVE  /\ x \in DOMAIN Write(m, adr, v)
         /\ Write(m, adr, v)[x] = IF x = adr THEN v ELSE m[x]
  BY DEF Write

\* A byte of memory behind a push.
LEMMA PushedByte ==
  ASSUME NEW hi, NEW lo, NEW x \in DOMAIN mem, x \in Word
  PROVE  /\ x \in DOMAIN Pushed(hi, lo)
         /\ Pushed(hi, lo)[x] = IF x = sp - 2 THEN lo ELSE IF x = sp - 1 THEN hi ELSE mem[x]
<1> DEFINE m == Write(mem, sp - 1, hi)
<1>1. x \in DOMAIN m /\ m[x] = IF x = sp - 1 THEN hi ELSE mem[x]
  BY WrittenByte
<1>2. Pushed(hi, lo) = Write(m, sp - 2, lo)
  BY DEF Pushed
<1> HIDE DEF m
<1>3. /\ x \in DOMAIN Write(m, sp - 2, lo)
      /\ Write(m, sp - 2, lo)[x] = IF x = sp - 2 THEN lo ELSE m[x]
  BY <1>1, WrittenByte
<1> QED BY <1>1, <1>2, <1>3

\* A call that is taken, with all its bytes in memory.
LEMMA CallStep ==
  ASSUME TypeOK, StackNext, pc .. (pc + 2) \subseteq DOMAIN mem,
         mem[pc] \in CallOps, sp' # sp
  PROVE  /\ {sp - 2, sp - 1} \cap {pc + 1, pc + 2} = {}
            => pc' = (MkWord(mem[pc + 2], mem[pc + 1]) + 1) % 65536
         /\ sp = pc + 3 => pc' = (pc + 3) % 65536
<1> DEFINE hi == Hi(ReturnAddress)
           lo == Lo(ReturnAddress)
           m == Pushed(hi, lo)
           low == pc + 1
           high == pc + 2
<1>1. pc \in Int /\ sp \in Int /\ pc >= 0 /\ pc <= 65535
  BY WordBounds DEF TypeOK
<1>2. {pc, low, high} \subseteq DOMAIN mem /\ {low, high} \subseteq Word
  <2>1. {pc, low, high} \subseteq pc .. (pc + 2)
    BY <1>1
  <2> QED BY <2>1 DEF TypeOK
<1>3. PICK op : op = mem[pc] /\ Exec(op)
  BY <1>2 DEF StackNext, Read, ReadIn
<1>4. Call(op)
  <2>1. op \in StackOpcodes /\ op \notin {201, 200, 213, 229, 245, 193, 209}
    BY <1>3 DEF CallOps, StackOpcodes, GoodSaves
  <2> QED BY <1>3, <2>1, StackAction, StackActionOpcodes
<1>5. \E adr \in AddressIn(m) : pc' = (adr + 1) % 65536
  BY <1>4 DEF Call, CallIf, Goto, Retire
<1>6. /\ low \in DOMAIN m /\ high \in DOMAIN m
      /\ m[low] = IF low = sp - 2 THEN lo ELSE IF low = sp - 1 THEN hi ELSE mem[low]
      /\ m[high] = IF high = sp - 2 THEN lo ELSE IF high = sp - 1 THEN hi ELSE mem[high]
  <2> HIDE DEF low, high, hi, lo
  <2> QED BY <1>2, PushedByte
<1>7. AddressIn(m) = {MkWord(m[high], m[low])}
  <2> HIDE DEF m
  <2> QED BY <1>6 DEF AddressIn, ReadIn
<1>8. pc' = (MkWord(m[high], m[low]) + 1) % 65536
  BY <1>5, <1>7
<1> HIDE DEF m, hi, lo
<1>9. ASSUME {sp - 2, sp - 1} \cap {pc + 1, pc + 2} = {}
      PROVE  pc' = (MkWord(mem[pc + 2], mem[pc + 1]) + 1) % 65536
  <2>1. m[low] = mem[low] /\ m[high] = mem[high]
    BY <1>6, <1>9
  <2> QED BY <1>8, <2>1
<1>10. ASSUME sp = pc + 3 PROVE pc' = (pc + 3) % 65536
  <2>1. m[low] = lo /\ m[high] = hi
    BY <1>1, <1>6, <1>10
  <2>2. MkWord(hi, lo) = (pc + 2) % 65536
    BY ReturnAddressWord, WordOfHalves DEF hi, lo, ReturnAddress
  <2>3. pc' = (((pc + 2) % 65536) + 1) % 65536
    BY <1>8, <2>1, <2>2
  <2> QED BY <1>1, <2>3
<1> QED BY <1>9, <1>10

\* On every program a call that is taken goes where its operand says, unless
\* its return address has been stored over the operand: where it covers both
\* bytes, the call goes on behind itself (cpu.c:1494-1499).
THEOREM CallsFollowOperand == StackSpec => CallsGoWhereTold
<1>1. StackInit => TypeOK
  BY InitOK DEF StackInit
<1>2. TypeOK /\ [StackNext]_stackVars => TypeOK'
  <2>1. ASSUME TypeOK, UNCHANGED stackVars PROVE TypeOK'
    BY <2>1 DEF stackVars, TypeOK
  <2>2. ASSUME TypeOK, StackNext PROVE TypeOK'
    <3>1. PICK op \in Read(pc) : Exec(op)
      BY <2>2 DEF StackNext
    <3> QED BY <2>2, <3>1, ExecOK
  <2> QED BY <2>1, <2>2
<1>3. TypeOK /\ [StackNext]_stackVars
      => [/\ pc .. (pc + 2) \subseteq DOMAIN mem
          /\ mem[pc] \in CallOps
          /\ sp' # sp
          => /\ {sp - 2, sp - 1} \cap {pc + 1, pc + 2} = {}
                => pc' = (MkWord(mem[pc + 2], mem[pc + 1]) + 1) % 65536
             /\ sp = pc + 3 => pc' = (pc + 3) % 65536]_stackVars
  BY CallStep
<1> QED BY <1>1, <1>2, <1>3, PTL DEF StackSpec, CallsGoWhereTold

---------------------------------------------------------------------------
(* The words are the abstract stack.                                        *)

WordsOf(s) == [i \in 1..Len(s) |-> s[i].word]

LEMMA WordsSeq ==
  ASSUME NEW s \in Seq(SavedType)
  PROVE  /\ WordsOf(s) \in Seq(Word)
         /\ Len(WordsOf(s)) = Len(s)
         /\ \A i \in 1..Len(s) : WordsOf(s)[i] = s[i].word
<1>1. Len(s) \in Nat /\ \A i \in 1..Len(s) : s[i] \in SavedType
  BY LenProperties
<1>2. WordsOf(s) \in [1..Len(s) -> Word]
  BY <1>1 DEF WordsOf, SavedType
<1>3. WordsOf(s) \in Seq(Word)
  BY <1>1, <1>2, SeqDef
<1>4. Len(WordsOf(s)) = Len(s)
  <2> DEFINE n == Len(s)
             k == Len(WordsOf(s))
  <2>1. k \in Nat /\ DOMAIN WordsOf(s) = 1..k
    BY <1>3, LenProperties
  <2>2. n \in Nat /\ DOMAIN WordsOf(s) = 1..n
    BY <1>1 DEF WordsOf
  <2> HIDE DEF n, k
  <2>3. k = n
    BY <2>1, <2>2
  <2> QED BY <2>3 DEF n, k
<1> QED BY <1>3, <1>4 DEF WordsOf

LEMMA NoWords == WordsOf(<<>>) = <<>>
<1>1. <<>> \in Seq(SavedType) /\ Len(<<>>) = 0
  BY EmptySeq
<1>2. WordsOf(<<>>) \in Seq(Word) /\ Len(WordsOf(<<>>)) = 0
  BY <1>1, WordsSeq
<1> QED BY <1>2, EmptySeq

\* Front of the abstract stack.
FrontOf(s) == [i \in 1..(Len(s) - 1) |-> s[i]]

LEMMA FrontAfterSave ==
  ASSUME NEW s \in Seq(SavedType), NEW e \in SavedType
  PROVE  /\ WordsOf(Append(s, e)) # <<>>
         /\ FrontOf(WordsOf(Append(s, e))) = WordsOf(s)
         /\ WordsOf(Append(s, e))[Len(WordsOf(Append(s, e)))] = e.word
<1>1. /\ Append(s, e) \in Seq(SavedType) /\ Len(Append(s, e)) = Len(s) + 1
      /\ Append(s, e)[Len(s) + 1] = e
      /\ \A i \in 1..Len(s) : Append(s, e)[i] = s[i]
      /\ Len(s) \in Nat
  BY AppendProperties, LenProperties
<1> DEFINE w == WordsOf(Append(s, e))
           v == WordsOf(s)
<1>2. /\ w \in Seq(Word) /\ Len(w) = Len(s) + 1
      /\ \A i \in 1..(Len(s) + 1) : w[i] = Append(s, e)[i].word
  BY <1>1, WordsSeq
<1>3. v = [i \in 1..Len(s) |-> s[i].word]
  BY DEF WordsOf
<1> HIDE DEF w, v
<1>4. \A i \in 1..Len(s) : w[i] = s[i].word
  BY <1>1, <1>2
<1>5. w[Len(w)] = e.word
  BY <1>1, <1>2
<1>6. w # <<>>
  BY <1>1, <1>2
<1>7. Len(w) - 1 = Len(s)
  BY <1>1, <1>2
<1>8. FrontOf(w) = v
  BY <1>3, <1>4, <1>7 DEF FrontOf
<1> QED BY <1>5, <1>6, <1>8 DEF w, v

LEMMA FrontAfterRestore ==
  ASSUME NEW s \in Seq(SavedType), s # <<>>
  PROVE  /\ WordsOf(s) # <<>>
         /\ WordsOf(AllButLast(s)) = FrontOf(WordsOf(s))
         /\ WordsOf(s)[Len(WordsOf(s))] = s[Len(s)].word
<1>1. Len(s) \in Nat /\ Len(s) >= 1
  BY EmptySeq, LenProperties
<1>2. /\ Len(AllButLast(s)) = Len(s) - 1
      /\ \A i \in 1..(Len(s) - 1) : AllButLast(s)[i] = s[i]
  BY AllButLastSeq
<1> DEFINE w == WordsOf(s)
<1>3. /\ w \in Seq(Word) /\ Len(w) = Len(s)
      /\ \A i \in 1..Len(s) : w[i] = s[i].word
  BY WordsSeq
<1> HIDE DEF w
<1>4. w # <<>>
  BY <1>1, <1>3
<1>5. w[Len(w)] = s[Len(s)].word
  BY <1>1, <1>3
<1>6. WordsOf(AllButLast(s)) = [i \in 1..(Len(s) - 1) |-> s[i].word]
  BY <1>2 DEF WordsOf
<1>7. FrontOf(w) = [i \in 1..(Len(s) - 1) |-> s[i].word]
  BY <1>1, <1>3 DEF FrontOf
<1> QED BY <1>4, <1>5, <1>6, <1>7 DEF w

\* Each step is a step of the abstract stack.
LEMMA AbstractStep ==
  ASSUME StackInv, GoodOps, [StackNext]_stackVars
  PROVE  \/ /\ WordsOf(saved') # <<>> /\ FrontOf(WordsOf(saved')) = WordsOf(saved)
            /\ WordsOf(saved')[Len(WordsOf(saved'))] \in Word /\ restored' = restored
         \/ /\ WordsOf(saved) # <<>>
            /\ restored' = WordsOf(saved)[Len(WordsOf(saved))]
            /\ WordsOf(saved') = FrontOf(WordsOf(saved))
         \/ WordsOf(saved') = <<>> /\ restored' = restored
         \/ WordsOf(saved') = WordsOf(saved) /\ restored' = restored
<1>1. saved \in Seq(SavedType)
  BY DEF StackInv
<1>2. CASE UNCHANGED stackVars
  BY <1>2 DEF stackVars
<1>3. ASSUME NEW op, Exec(op), Track(op), Saves(op) /\ sp >= 2
      PROVE  /\ WordsOf(saved') # <<>> /\ FrontOf(WordsOf(saved')) = WordsOf(saved)
             /\ WordsOf(saved')[Len(WordsOf(saved'))] \in Word /\ restored' = restored
  <2>1. PICK e \in SavedType : saved' = Append(saved, e) /\ restored' = restored
    BY <1>3, SaveStep
  <2>2. e.word \in Word
    BY DEF SavedType
  <2> QED BY <1>1, <2>1, <2>2, FrontAfterSave
<1>4. ASSUME NEW op, Exec(op), Track(op),
             ~(Saves(op) /\ sp >= 2), Restores(op) /\ saved # <<>>
      PROVE  /\ WordsOf(saved) # <<>>
             /\ restored' = WordsOf(saved)[Len(WordsOf(saved))]
             /\ WordsOf(saved') = FrontOf(WordsOf(saved))
  BY <1>1, <1>4, RestoreStep, FrontAfterRestore
<1>5. ASSUME NEW op, Exec(op), Track(op),
             ~(Saves(op) /\ sp >= 2), ~(Restores(op) /\ saved # <<>>)
      PROVE  WordsOf(saved') \in {WordsOf(saved), <<>>} /\ restored' = restored
  BY <1>5, OtherStep, NoWords
<1>6. CASE StackNext
  <2>1. PICK op \in Read(pc) : Exec(op) /\ Track(op)
    BY <1>6 DEF StackNext
  <2> QED BY <1>3, <1>4, <1>5, <2>1
<1> QED BY <1>2, <1>6

\* The saved words, with sp and the memory that really hold them hidden,
\* behave as the last-in first-out stack of WordStack.
THEOREM StackIsLifo ==
  ASSUME GoodOps PROVE StackSpec => RefinesWordStack
<1>1. StackInit => Abstract!Init
  BY NoWords DEF StackInit, Abstract!Init, WordsOf
<1>2. StackInv /\ [StackNext]_stackVars => [Abstract!Next]_(Abstract!vars)
  BY AbstractStep DEF Abstract!Next, Abstract!Save, Abstract!Restore, Abstract!Abandon,
     Abstract!Front, Abstract!Last, Abstract!vars, WordsOf, FrontOf
<1> QED BY <1>1, <1>2, StackInvAlways, PTL DEF StackSpec, RefinesWordStack, Abstract!Spec
=============================================================================
