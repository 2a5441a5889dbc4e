----------------------------- MODULE Assembler -----------------------------
(***************************************************************************)
(* The assembler, src/src/assembler.c, behind the lexer as                 *)
(* tools/asm8080.c runs them: once lex_all has returned without error, the *)
(* lines are turned into instructions one by one, until one of them cannot *)
(* be.                                                                     *)
(*                                                                         *)
(* An instruction is [bytes, addr]: the number the code builds, as its     *)
(* bytes, the first one first, as many as its size says.                   *)
(***************************************************************************)
EXTENDS Lexer

CONSTANT PastTable      \* the bytes that may follow asm_reg_to_code

A == INSTANCE Alu

ASSUME TableAssumption == PastTable \subseteq A!Byte /\ PastTable # {}

VARIABLES
    current,    \* the line assembled next
    instrs,     \* instr_buf
    outcome     \* "running", "assembled" or "failed"

asmVars == <<source, cursor, text_addr, lines, symbols, phase, current, instrs, outcome>>

AsmInit == LexInit /\ current = 1 /\ instrs = <<>> /\ outcome = "running"

---------------------------------------------------------------------------
(* Register fields.                                                         *)

\* asm_reg_to_code has no entries for SP and PSW.
RegCodes(r) ==
    CASE r \in {"NONE", "B"} -> {0} [] r = "C" -> {1} [] r = "D" -> {2} [] r = "E" -> {3}
      [] r = "H" -> {4} [] r = "L" -> {5} [] r = "M" -> {6} [] r = "A" -> {7}
      [] OTHER -> PastTable

PairCode(r) ==
    CASE r \in {"D", "E"} -> 1 [] r \in {"H", "L"} -> 2 [] r = "S" -> 3 [] OTHER -> 0

---------------------------------------------------------------------------
(* Opcode fields of the instruction groups.                                 *)

Code(table, op) == (CHOOSE e \in table : e[1] = op)[2]
Ops(table) == {e[1] : e \in table}

ArithCodes == {<<"ADD", \h80>>, <<"ADC", \h88>>, <<"SUB", \h90>>, <<"SBB", \h98>>,
               <<"ANA", \hA0>>, <<"XRA", \hA8>>, <<"ORA", \hB0>>, <<"CMP", \hB8>>,
               <<"RLC", \h07>>, <<"RRC", \h0F>>, <<"RAR", \h1F>>}
ImmCodes == {<<"ADI", \hC6>>, <<"ACI", \hCE>>, <<"SUI", \hD6>>, <<"SBI", \hDE>>,
             <<"ANI", \hE6>>, <<"XRI", \hEE>>, <<"ORI", \hF6>>, <<"CPI", \hFE>>}
PairCodes == {<<"DAD", \h09>>, <<"DCX", \h0B>>, <<"INX", \h03>>,
              <<"STAX", \h02>>, <<"LDAX", \h08>>}
CountCodes == {<<"INR", \h04>>, <<"DCR", \h05>>}
MovCodes == {<<"MOV", \h40>>, <<"POP", \hC1>>, <<"PUSH", \hC5>>, <<"SPHL", \hF9>>,
             <<"XCHG", \hEB>>}
JumpCodes == {<<"JNZ", \hC2>>, <<"JMP", \hC3>>, <<"JZ", \hCA>>, <<"JNC", \hD2>>,
              <<"JC", \hDA>>, <<"JP", \hF2>>, <<"JM", \hFA>>}
\* asm_call_to_code has no case for CNZ, whose code is what it begins with.
CallCodes == {<<"CNZ", \hC4>>, <<"CZ", \hCC>>, <<"CALL", \hCD>>, <<"CC", \hDC>>,
              <<"CPO", \hE4>>, <<"CPE", \hEC>>, <<"CP", \hF4>>, <<"CM", \hFC>>}
PlainCodes == {<<"RNZ", \hC0>>, <<"RZ", \hC8>>, <<"RET", \hC9>>, <<"RNC", \hD0>>,
               <<"RC", \hD8>>, <<"RPO", \hE0>>, <<"RPE", \hE8>>, <<"RP", \hF0>>,
               <<"RM", \hF8>>, <<"PCHL", \hE9>>, <<"CMA", \h2F>>, <<"DAA", \h27>>}

\* Seeded bug: the low byte is not masked.
Lo_Unmasked(n) == n

Lo(n) == n % 256

Hi(n) == (n \div 256) % 256

\* asm_jp keeps both halves of the target in the second byte.
AsmJp(l) == <<Code(JumpCodes, l.instr), A!Or(Lo(l.imm), Hi(l.imm)), 0>>
\* Seeded bug: the bytes of the address are in the wrong order.
AsmCall_Swapped(l) == <<Code(CallCodes, l.instr), Hi(l.imm), Lo(l.imm)>>

AsmCall(l) == <<Code(CallCodes, l.instr), Lo(l.imm), Hi(l.imm)>>

\* The instructions a line may become.  An immediate too wide for its field
\* is or-ed into the opcode of a two-byte instruction.
Encodings(l) ==
    LET op == l.instr
        first == l.reg[1]
        lo == Lo(l.imm)
        hi == Hi(l.imm)
    IN  CASE op \in Ops(ArithCodes) -> {<<A!Or(Code(ArithCodes, op), x)>> : x \in RegCodes(first)}
          [] op \in Ops(ImmCodes) -> {<<A!Or(Code(ImmCodes, op), hi), lo>>}
          [] op = "MVI" -> {<<A!Or(A!Or(\h06, (8 * x) % 256), hi), lo>> : x \in RegCodes(first)}
          [] op = "LXI" -> {<<1 + 16 * PairCode(first), lo, hi>>}
          [] op \in Ops(PairCodes) -> {<<Code(PairCodes, op) + 16 * PairCode(first)>>}
          [] op \in Ops(CountCodes) ->
               {<<A!Or(Code(CountCodes, op), (8 * x) % 256)>> : x \in RegCodes(first)}
          [] op \in Ops(MovCodes) ->
               {<<A!Or(A!Or(Code(MovCodes, op), (8 * x) % 256), y)>> :
                   x \in RegCodes(first), y \in RegCodes(l.reg[2])}
          [] op \in Ops(JumpCodes) -> {AsmJp(l)}
          [] op \in Ops(CallCodes) -> {AsmCall(l)}
          [] op \in Ops(PlainCodes) -> {<<Code(PlainCodes, op)>>}

Tables == {ArithCodes, ImmCodes, PairCodes, CountCodes, MovCodes, JumpCodes, CallCodes,
           PlainCodes}
Assembled == {"MVI", "LXI"} \cup UNION {Ops(t) : t \in Tables}

---------------------------------------------------------------------------
(* assembler_assem_line, and the loop of assembler_assem.                   *)

Assembling == phase = "resolved" /\ outcome = "running" /\ current <= Len(lines)

\* The last line leaves its status behind.
NextLine ==
    /\ current' = current + 1
    /\ outcome' = IF current = Len(lines) THEN "assembled" ELSE "running"

AssembleInstr ==
    /\ Assembling
    /\ LET l == lines[current]
       IN  /\ l.instr \in Assembled
           /\ \E bytes \in Encodings(l) :
                 instrs' = Append(instrs, [bytes |-> bytes, addr |-> l.addr])
    /\ NextLine
    /\ UNCHANGED lexVars

\* Seeded bug: the address is stepped before the byte is placed.
AssembleData_StepsFirst ==
    /\ Assembling
    /\ LET l == lines[current]
       IN  /\ l.instr \in {"DB", "DW", "DS"}
           /\ instrs' = instrs \o [i \in 1..Len(l.bytes) |->
                                     [bytes |-> <<l.bytes[i]>>, addr |-> l.addr + i]]
    /\ NextLine
    /\ UNCHANGED lexVars

\* asm_data: an instruction of one byte for every byte of the list.  DS has
\* no bytes.
AssembleData ==
    /\ Assembling
    /\ LET l == lines[current]
       IN  /\ l.instr \in {"DB", "DW", "DS"}
           /\ instrs' = instrs \o [i \in 1..Len(l.bytes) |->
                                     [bytes |-> <<l.bytes[i]>>, addr |-> l.addr + i - 1]]
    /\ NextLine
    /\ UNCHANGED lexVars

\* The instruction that was never filled in is appended all the same.
RejectLine ==
    /\ Assembling
    /\ lines[current].instr \notin Assembled \cup {"DB", "DW", "DS"}
    /\ instrs' = Append(instrs, [bytes |-> <<0>>, addr |-> 0])
    /\ outcome' = "failed"
    /\ UNCHANGED <<lexVars, current>>

\* Without a line the status returned was never assigned.
AssembleNothing ==
    /\ phase = "resolved" /\ outcome = "running" /\ lines = <<>>
    /\ outcome' \in {"assembled", "failed"}
    /\ UNCHANGED <<lexVars, current, instrs>>

\* asm8080 gives up when the lexer does.
LexFailed ==
    /\ phase = "failed" /\ outcome = "running"
    /\ outcome' = "failed"
    /\ UNCHANGED <<lexVars, current, instrs>>

AsmNext ==
    \/ LexNext /\ UNCHANGED <<current, instrs, outcome>>
    \/ AssembleInstr \/ AssembleData \/ RejectLine \/ AssembleNothing \/ LexFailed

AsmSpec == AsmInit /\ [][AsmNext]_asmVars /\ WF_asmVars(AsmNext)

---------------------------------------------------------------------------
(* Properties.                                                              *)

AsmTypeOK ==
    /\ current \in 1..(Len(lines) + 1)
    /\ outcome \in {"running", "assembled", "failed"}
    /\ \A k \in DOMAIN instrs : /\ instrs[k].addr \in Nat
                                /\ Len(instrs[k].bytes) \in 1..3
                                /\ \A b \in DOMAIN instrs[k].bytes : instrs[k].bytes[b] \in A!Byte

\* How many instructions a line becomes, and the first one of line i.
Emitted(l) == IF l.instr \in {"DB", "DW", "DS"} THEN Len(l.bytes) ELSE 1
FirstInstr[i \in 1..(Len(lines) + 1)] ==
    IF i = 1 THEN 1 ELSE FirstInstr[i - 1] + Emitted(lines[i - 1])

\* What lexer and assembler count apart: DS is an instruction of one byte to
\* the lexer and none to the assembler (lexer.c:1264), and so is a directive,
\* which the assembler takes for an instruction of two bytes or three.
Miscounted == {"DS", "END", "ORG", "SET"}
Counted == \A i \in DOMAIN source : source[i].t = "word" => source[i].s \notin Miscounted

\* Where the bytes of instruction k are when the instructions are written to
\* memory one behind the other from the address of the first line on.
Offset[k \in 1..(Len(instrs) + 1)] ==
    IF k = 1 THEN lines[1].addr ELSE Offset[k - 1] + Len(instrs[k - 1].bytes)

\* The lexer and the assembler each know the size of every instruction and
\* agree on it, but for what is Miscounted: the first instruction is where the
\* first pass put the first line, each goes on where the one before ends, and
\* together they end where the first pass ended.
LayoutAgrees ==
    outcome = "assembled" /\ lines # <<>> /\ Counted =>
      LET Behind(k) == instrs[k].addr + Len(instrs[k].bytes)
      IN  IF instrs = <<>> THEN text_addr = lines[1].addr
          ELSE /\ instrs[1].addr = lines[1].addr
               /\ \A k \in 2..Len(instrs) : instrs[k].addr = Behind(k - 1)
               /\ text_addr = Behind(Len(instrs))

\* Through both passes: the address in the bytes of a call to a label is, at
\* the width of an address, where the first instruction of the first line with
\* that label has come to lie, or of an earlier line that the lookup takes for
\* it (Targets).
CallReachesLabel ==
    outcome = "assembled" /\ Counted =>
      \A i \in DOMAIN lines :
        LET name == lines[i].symbol
            bytes == instrs[FirstInstr[i]].bytes
        IN  lines[i].instr \in Ops(CallCodes) /\ name # NoName /\ Begun(name) # {} =>
              \E j \in Targets(name) :
                 bytes[2] + 256 * bytes[3] = Offset[FirstInstr[j]] % 65536

\* lex_all and the assembler behind it come to an end on every source, accepted
\* or not, also where no token can be read and the cursor stays (lexer.c:1311):
\* the lines run out.
AssemblyEnds == <>(outcome # "running")

\* "JMP #0x%02X%02X", code[2], code[1]: the assembler writes the target of a
\* jump where the disassembler, and the processor, read it.
JumpTargetReadable ==
    outcome = "assembled" =>
      \A i \in DOMAIN lines :
        LET bytes == instrs[FirstInstr[i]].bytes
        IN  lines[i].instr \in Ops(JumpCodes) => bytes[2] + 256 * bytes[3] = lines[i].imm

=============================================================================
