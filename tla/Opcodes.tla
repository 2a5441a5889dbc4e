------------------------------ MODULE Opcodes ------------------------------
(***************************************************************************)
(* The tables of src/src/opcode.c the lexer finds mnemonics and directives *)
(* in, and the enumerations of src/src/opcode.h that number them.  A code  *)
(* is known by the name of its enumerator; the codes of the directives     *)
(* share their numbers with the first instructions.                        *)
(***************************************************************************)
EXTENDS Integers, SequencesExt

InstrCodes ==
    <<"INVALID", "ACI", "ADC", "ADD", "ADI", "ANA", "AND", "ANI", "CALL", "CC", "CM", "CMA",
      "CMP", "CNZ", "CP", "CPE", "CPI", "CPO", "CZ", "DAA", "DAD", "DCR", "DCX", "DB", "DS",
      "DW", "IN", "INR", "INX", "JC", "JM", "JMP", "JNC", "JNZ", "JP", "JPE", "JPO", "JZ",
      "LDA", "LDAX", "LHLD", "LXI", "MOV", "MVI", "NOP", "ORA", "ORI", "OUT", "PCHL", "POP",
      "PUSH", "RAA", "RAL", "RAR", "RC", "RET", "RLC", "RM", "RNC", "RP", "RPE", "RPO", "RRC",
      "RZ", "RNZ", "SBB", "SBI", "SPHL", "STA", "STAX", "SUB", "SUI", "XCHG", "XTHL", "XRA",
      "XRI">>

DirCodes == <<"INVALID", "END", "ENDIF", "ENDM", "EQU", "IF", "MACRO", "ORG", "SET">>

\* LEX_INSTRUCTIONS has no entry for OUT, and that of SBI has the mnemonic of
\* SBB, which stands before it.
InstrTable ==
    [i \in {i \in DOMAIN InstrCodes : InstrCodes[i] # "OUT"} |->
        [instr |-> InstrCodes[i],
         mnemonic |-> IF InstrCodes[i] = "SBI" THEN "SBB" ELSE InstrCodes[i]]]

DirTable == [i \in DOMAIN DirCodes |-> [instr |-> DirCodes[i], mnemonic |-> DirCodes[i]]]

\* The first entry with each mnemonic.
FirstEntries(table) ==
    [m \in {table[i].mnemonic : i \in DOMAIN table} |->
        table[Min({i \in DOMAIN table : table[i].mnemonic = m})].instr]

Instrs == FirstEntries(InstrTable)
Directives == FirstEntries(DirTable)

\* opcode_table_find_mnemonic; entries are those of one of the tables.
FindMnemonic(entries, mnemonic) ==
    IF mnemonic \in DOMAIN entries THEN entries[mnemonic] ELSE "INVALID"

\* The instruction a directive is taken for by those who read its code as one.
SharedCode(dir) == InstrCodes[CHOOSE i \in DOMAIN DirCodes : DirCodes[i] = dir]
=============================================================================
