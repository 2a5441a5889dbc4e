------------------------------ MODULE DisTable ------------------------------
(***************************************************************************)
(* What disassemble_8080_op of src/src/disassem.c says of each opcode: the *)
(* number of bytes it returns, the mnemonic and registers it prints, and   *)
(* how many of the bytes behind the opcode it prints as an operand.        *)
(*                                                                         *)
(* An opcode is read as the processor reads it: two bits for the quarter   *)
(* of the table, three for the row and three for the column.  Where the    *)
(* code departs from the columns, so do the rows below.                    *)
(***************************************************************************)
EXTENDS Integers, Sequences, TLC

\* LDAX D is given three bytes and LXI D one.
ThreeBytes ==
    {\h01, \h1A, \h21, \h22, \h2A, \h31, \h32, \h3A,
     \hC2, \hC3, \hC4, \hCA, \hCB, \hCC, \hCD, \hD2, \hD4, \hDA, \hDC, \hDD,
     \hE2, \hE4, \hEA, \hEC, \hED, \hF2, \hF4, \hFA, \hFC, \hFD}
TwoBytes ==
    {\h06, \h0E, \h16, \h1E, \h26, \h2E, \h36, \h3E,
     \hC6, \hCE, \hD3, \hD6, \hDB, \hDE, \hE6, \hEE, \hF6, \hFE}

OpBytes(op) == IF op \in ThreeBytes THEN 3 ELSE IF op \in TwoBytes THEN 2 ELSE 1

\* LXI D prints both bytes of its operand all the same, LDAX D prints none.
OperandBytes(op) ==
    CASE op = \h11 -> 2 [] op = \h1A -> 0 [] OTHER -> OpBytes(op) - 1

Registers == <<"B", "C", "D", "E", "H", "L", "M", "A">>
Pairs(top) == <<"B", "D", "H", top>>

Row(op) == 1 + ((op \div 8) % 8)
Column(op) == op % 8

\* The pair of a row, and whether it is the first row with it.
PairOf(op, top) == Pairs(top)[1 + ((op \div 16) % 4)]
Upper(op) == Row(op) % 2 = 1

\* The rows that are given H, which is not their register.
OddRegisters == {\h19, \h1B, \h33, \h34, \h35, \h36}

Named(op, reg) == IF op \in OddRegisters THEN "H" ELSE reg

\* RAL is listed as DAA, and STA as SHLD.
FirstQuarter(op) ==
    LET pair == Named(op, PairOf(op, "S"))
        reg == Named(op, Registers[Row(op)])
    IN  CASE Column(op) = 0 -> <<IF op \in {\h00, \h08} THEN "NOP" ELSE "*NOP">>
          [] Column(op) = 1 -> <<IF Upper(op) THEN "LXI" ELSE "DAD", pair>>
          [] Column(op) = 2 /\ op < \h20 -> <<IF Upper(op) THEN "STAX" ELSE "LDAX", pair>>
          [] Column(op) = 2 /\ op >= \h20 ->
               <<(<<"SHLD", "LHLD", "SHLD", "LDA">>)[Row(op) - 4]>>
          [] Column(op) = 3 -> <<IF Upper(op) THEN "INX" ELSE "DCX", pair>>
          [] Column(op) = 4 -> <<"INR", reg>>
          [] Column(op) = 5 -> <<"DCR", reg>>
          [] Column(op) = 6 -> <<"MVI", reg>>
          [] Column(op) = 7 ->
               <<(<<"RLC", "RRC", "DAA", "RAR", "DAA", "CMA", "STC", "CMC">>)[Row(op)]>>

SecondQuarter(op) ==
    IF op = \h76 THEN <<"HLT">>
    ELSE <<"MOV", Registers[Row(op)], Registers[1 + Column(op)]>>

ThirdQuarter(op) ==
    <<(<<"ADD", "ADC", "SUB", "SBB", "ANA", "XRA", "ORA", "CMP">>)[Row(op)],
      Registers[1 + Column(op)]>>

Returns == <<"RNZ", "RZ", "RNZ", "RC", "RPO", "RPE", "RP", "RM">>
Jumps == <<"JNZ", "JZ", "JNC", "JC", "JNC", "JPE", "JP", "JM">>
Others == <<"JMP", "*JMP", "OUT", "IN", "XTHL", "XCHG", "DI", "EI">>
Calls == <<"CNZ", "CZ", "CNC", "CC", "CPO", "CPE", "CP", "CM">>
Immediates == <<"ADI", "ACI", "SUI", "XRI", "ANI", "XRI", "ORI", "CPI">>

\* RNC is listed as RNZ, JPO as JNC, SBI as XRI and RST 3 as RST 5.
LastQuarter(op) ==
    LET r == Row(op)
        pair == PairOf(op, "PSW")
    IN  CASE Column(op) = 0 -> <<Returns[r]>>
          [] Column(op) = 1 /\ Upper(op) -> <<"POP", pair>>
          [] Column(op) = 1 /\ ~Upper(op) -> <<(<<"RET", "*RET", "PCHL", "SPHL">>)[r \div 2]>>
          [] Column(op) = 2 -> <<Jumps[r]>>
          [] Column(op) = 3 -> <<Others[r]>>
          [] Column(op) = 4 -> <<Calls[r]>>
          [] Column(op) = 5 /\ Upper(op) -> <<"PUSH", pair>>
          [] Column(op) = 5 /\ ~Upper(op) -> <<IF op = \hCD THEN "CALL" ELSE "*CALL">>
          [] Column(op) = 6 -> <<Immediates[r]>>
          [] Column(op) = 7 -> <<"RST", ToString(IF op = \hDF THEN 5 ELSE r - 1)>>

\* Seeded bug: the two registers of MOV in the wrong order.
Text_MovReversed(op) ==
    CASE op < \h40 -> FirstQuarter(op)
      [] op \in \h40..\h7F -> IF op = \h76 THEN <<"HLT">>
                              ELSE <<"MOV", Registers[1 + Column(op)], Registers[Row(op)]>>
      [] op \in \h80..\hBF -> ThirdQuarter(op)
      [] OTHER -> LastQuarter(op)

\* The mnemonic and the registers.
Text(op) ==
    CASE op < \h40 -> FirstQuarter(op)
      [] op \in \h40..\h7F -> SecondQuarter(op)
      [] op \in \h80..\hBF -> ThirdQuarter(op)
      [] OTHER -> LastQuarter(op)

=============================================================================
