---------------------------- MODULE MCToolchain ----------------------------
(***************************************************************************)
(* Lexer, assembler and disassembler behind one another on every source    *)
(* - of one line with any mnemonic that is lexed and any of its registers, *)
(* - of one or two of the lines below, one of each kind of layout, of      *)
(*   encoding and of error,                                                *)
(* - of three of the lines whose layout or labels matter to the others.    *)
(* Of the labels X, Y and XY one is the beginning of another.              *)
(***************************************************************************)
EXTENDS Sweep

tok(t, s) == [t |-> t, s |-> s, n |-> 0]
lit(n) == [t |-> "literal", s |-> NoName, n |-> n]
str(n) == [t |-> "string", s |-> NoName, n |-> n]
nl == tok("nl", NoName)
comment == tok("comment", NoName)
gap == tok("gap", NoName)
word(s) == tok("word", s)

MCRegisters == {"B", "C", "D", "E", "H", "L", "M", "A", "SP", "PSW"}

MCOneLiners ==
    {<<word(o), nl>> : o \in NoOperandOps}
    \cup {<<word(o), word(r), nl>> : o \in OneRegOps, r \in MCRegisters}
    \cup {<<word("MOV"), word(r), word(s), nl>> : r, s \in MCRegisters}
    \cup {<<word("MVI"), word(r), lit(200), nl>> : r \in MCRegisters}
    \cup {<<word("LXI"), word(r), lit(300), nl>> : r \in MCRegisters}
    \cup {<<word(o), lit(200), nl>> : o \in ImmOps}
    \cup {<<word(o), lit(300), nl>> : o \in JumpOps \cup CallOps}

\* Lines that move addresses, define or use a label, end in one of the ways a
\* line may end, or fail.
MCShaping ==
    {<<nl>>,
     <<word("X"), word("MOV"), word("B"), word("C"), nl>>,
     <<word("JMP"), word("X"), comment>>,
     <<word("Y"), gap, nl, word("CALL"), word("Y"), nl>>,
     <<word("X"), word("LXI"), word("H"), lit(300), comment>>,
     <<word("DB"), lit(1), str(2), nl>>,
     <<word("DB"), word("Y"), gap, nl>>,
     <<word("STA"), word("Y"), nl>>,
     <<word("ADI"), comment>>,
     <<word("EQU"), lit(2), nl>>,
     <<tok("bang", NoName), nl>>,
     <<word("JZ"), word("Y")>>}

MCOthers ==
    {<<word("X"), word("MOV"), word("SP"), word("C"), nl>>,
     <<word("CALL"), word("X"), nl>>,
     <<word("Y"), nl, word("CNZ"), word("Y"), nl>>,
     <<word("Y"), word("DB"), lit(1), str(2), nl>>,
     <<word("XY"), word("CALL"), word("XY"), nl>>,
     <<word("MVI"), word("A"), word("X"), nl>>,
     <<word("ADI"), lit(300), nl>>,
     <<word("ADD"), word("M"), nl>>,
     <<word("INR"), word("D"), nl>>,
     <<word("STAX"), word("D"), nl>>,
     <<word("RET"), nl>>,
     <<word("X"), word("DS"), lit(2), nl>>,
     <<word("END"), nl>>,
     <<word("Y"), word("SET"), lit(2), nl>>,
     <<word("ENDIF"), nl>>}

MCLines == MCShaping \cup MCOthers

MCSources ==
    MCOneLiners \cup MCLines \cup {a \o b : a, b \in MCLines}
                \cup {a \o b \o c : a, b, c \in MCShaping}
                \cup {a \o b \o c : a, c \in MCOthers, b \in MCShaping}

MCWords == LexedOps \cup DOMAIN Directives \cup RegNames \cup {"STA", "X", "Y", "XY"}

\* No other word of these that is a label is the beginning of another.
MCPrefixPairs == {<<w, w>> : w \in MCWords} \cup {<<"X", "XY">>}
=============================================================================
