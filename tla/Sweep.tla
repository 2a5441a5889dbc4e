------------------------------- MODULE Sweep -------------------------------
(***************************************************************************)
(* The loop of tools/dis8080.c behind the assembler: the bytes of the      *)
(* instructions, one behind the other, are the file it is given, and it    *)
(* lists one instruction after the other from the first byte on, stepping  *)
(* by what disassemble_8080_op returns.                                    *)
(***************************************************************************)
EXTENDS Assembler

T == INSTANCE DisTable

VARIABLES
    at,         \* pc of dis8080
    listing     \* what has been printed

sweepVars == <<asmVars, at, listing>>

SweepInit == AsmInit /\ at = 0 /\ listing = <<>>

buffer == FlattenSeq([k \in DOMAIN instrs |-> instrs[k].bytes])

\* Bytes printed from behind the end of the buffer are nobody's and left out.
Listed(adr) ==
    LET op == buffer[adr + 1]
    IN  [text |-> T!Text(op),
         operand |-> SubSeq(buffer, adr + 2, Min({Len(buffer), adr + 1 + T!OperandBytes(op)}))]

\* Seeded bug: the operand is not stepped over.
DisassembleOp_NoOperand ==
    /\ outcome = "assembled" /\ at < Len(buffer)
    /\ listing' = Append(listing, Listed(at))
    /\ at' = at + 1
    /\ UNCHANGED asmVars

DisassembleOp ==
    /\ outcome = "assembled" /\ at < Len(buffer)
    /\ listing' = Append(listing, Listed(at))
    /\ at' = at + T!OpBytes(buffer[at + 1])
    /\ UNCHANGED asmVars

SweepNext == (AsmNext /\ UNCHANGED <<at, listing>>) \/ DisassembleOp

SweepSpec == SweepInit /\ [][SweepNext]_sweepVars /\ WF_sweepVars(SweepNext)

---------------------------------------------------------------------------
(* Properties.                                                              *)

\* A line as the listing is to show it.
Written(l) ==
    [text |-> CASE l.reg[1] = "NONE" -> <<l.instr>>
                [] l.reg[1] # "NONE" /\ l.reg[2] = "NONE" -> <<l.instr, l.reg[1]>>
                [] OTHER -> <<l.instr, l.reg[1], l.reg[2]>>,
     operand |-> CASE l.instr \in ImmOps \cup {"MVI"} -> <<l.imm>>
                   [] l.instr \in CallOps \cup {"LXI"} -> <<Lo(l.imm), Hi(l.imm)>>
                   [] OTHER -> <<>>]

\* The registers an 8080 instruction may name first.
Operable(op) ==
    IF op \in {"STAX", "LDAX"} THEN {"B", "D"}
    ELSE IF op \in {"DAD", "DCX", "INX", "LXI"} THEN {"B", "D", "H", "S"}
    ELSE IF op \in {"PUSH", "POP"} THEN {"B", "D", "H", "PSW"}
    ELSE IF op \in OneRegOps \cup {"MOV", "MVI"} THEN {"B", "C", "D", "E", "H", "L", "M", "A"}
    ELSE {"NONE"}

\* The lines known not to be listed as written: jumps lose the high byte of
\* their target, LDAX has another opcode, PSW has no code; the others are
\* listed as another instruction or register.
Unlisted ==
    {<<o>> : o \in JumpOps \cup {"LDAX", "RNC"}}
    \cup {<<"PUSH", "PSW">>, <<"POP", "PSW">>, <<"LXI", "D">>, <<"DAD", "D">>, <<"DCX", "D">>,
          <<"INX", "S">>, <<"INR", "M">>, <<"DCR", "M">>, <<"MVI", "M">>}

\* Data is not listed as such, and a register in front of a label is lost.
Listable(l) ==
    /\ l.instr \notin DataOps \cup {"DS"}
    /\ l.reg[1] \in Operable(l.instr)
    /\ l.instr = "MOV" => l.reg[2] \in Operable("MOV") /\ l.reg # <<"M", "M">>
    /\ l.instr \in ImmOps \cup {"MVI"} => l.imm < 256
    /\ <<l.instr>> \notin Unlisted /\ <<l.instr, l.reg[1]>> \notin Unlisted

\* The mnemonics, registers, lengths and byte orders that lexer, assembler
\* and disassembler each have tables of agree: a program put through all
\* three is listed instruction by instruction as it was written, its labels
\* replaced by their addresses, and its listing ends where its bytes end.
ListingShowsSource ==
    outcome = "assembled" /\ at >= Len(buffer) /\ (\A i \in DOMAIN lines : Listable(lines[i])) =>
      /\ listing = [i \in DOMAIN lines |-> Written(lines[i])]
      /\ at = Len(buffer)
=============================================================================
