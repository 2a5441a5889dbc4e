------------------------------- MODULE Lexer -------------------------------
(***************************************************************************)
(* The lexer of the assembler, src/src/lexer.c: lex_all goes through the   *)
(* source once, a line at a time, gives each line an address, collects the *)
(* labels in the symbol table and then resolves the references to them.    *)
(*                                                                         *)
(* A source is a sequence of items [t, s, n]: a token or a piece of layout *)
(*   "word"     a mnemonic, directive, register or label with the name s   *)
(*   "literal"  a number, which strtol makes n of                          *)
(*   "string"   a string of n characters                                   *)
(*   "nl"       a newline, and the blanks around it                        *)
(*   "gap"      blanks that are more than the one separator lex_scan_token *)
(*              steps over, so that the cursor stays short of what follows *)
(*   "comment"  a comment with its newline                                 *)
(*   "comma"    a comma that does not directly follow a token              *)
(*   "bang"     an exclamation mark, which ends a token and begins none    *)
(***************************************************************************)
EXTENDS Opcodes

CONSTANTS
    Sources,    \* the source files, as sequences of items
    Words,      \* the words they are made of
    Starts,     \* the addresses the text may be set to start at
    PrefixPairs    \* the pairs <<p, q>> of names such that p is a prefix of q

NoName == ""

Items == [t : {"word", "literal", "string", "nl", "gap", "comment", "comma", "bang"},
          s : Words \union {NoName}, n : Nat]

ASSUME StartAssumption == Starts \subseteq Nat
ASSUME SourceAssumption ==
    /\ NoName \notin Words
    /\ \A file \in Sources : /\ file \in Seq(Items)
                             /\ \A i \in DOMAIN file : file[i].t = "word" => file[i].s \in Words

ASSUME PrefixAssumption == \A w \in Words : <<w, w>> \in PrefixPairs

VARIABLES
    source,     \* the file read by lex_read_file
    cursor,     \* the item at cur_pos
    text_addr,
    lines,      \* source_repr: the lines lexed so far
    symbols,    \* sym_table: the labels with their addresses
    phase       \* "lexing", "failed" or "resolved"

lexVars == <<source, cursor, text_addr, lines, symbols, phase>>

\* What line_info_init leaves in text_seg.
EmptyLine ==
    [instr |-> "INVALID", reg |-> <<"NONE", "NONE">>, imm |-> 0, symbol |-> NoName,
     label |-> NoName, bytes |-> <<>>, addr |-> 0, error |-> FALSE]

\* lex_read_file makes room for as many lines and symbols as there are
\* newlines in the file.
Newlines(upTo) ==
    {i \in 1..Len(source) : \/ i <= upTo /\ source[i].t = "nl"
                            \/ i < upTo /\ source[i].t = "comment"}
Capacity == Cardinality(Newlines(Len(source) + 1))

\* The line the cursor is on: cur_line counts a newline when it is reached.
LineAt(i) == Cardinality(Newlines(i))

LexInit ==
    /\ source \in Sources
    /\ cursor = 1
    /\ text_addr \in Starts
    /\ lines = <<>> /\ symbols = <<>>
    /\ phase = "lexing"

---------------------------------------------------------------------------
(* lex_next_token.                                                          *)

NoToken == [t |-> "none", s |-> NoName, n |-> 0]

RegNames == {"A", "B", "C", "D", "E", "H", "L", "M", "S", "SP", "PSW"}

\* What is no register, directive or mnemonic is a label.
Kind(word) ==
    CASE word \in RegNames -> "reg"
      [] FindMnemonic(Directives, word) # "INVALID" -> "directive"
      [] word \notin RegNames /\ FindMnemonic(Instrs, word) # "INVALID" -> "instr"
      [] OTHER -> "label"

Classified(item) == IF item.t = "word" THEN [item EXCEPT !.t = Kind(item.s)] ELSE item

Blank(i) == i <= Len(source) /\ source[i].t \in {"nl", "gap"}

SkipBlanks(i) == Min({j \in i..(Len(source) + 1) : ~Blank(j)})

\* The token at item j, and where the cursor is left behind it.
TokenAt[j \in 1..(Len(source) + 1)] ==
    IF j > Len(source) THEN [tok |-> NoToken, next |-> j]
    ELSE IF source[j].t \in {"comment", "bang"} THEN [tok |-> NoToken, next |-> j]
    ELSE IF source[j].t = "comma" THEN [tok |-> NoToken, next |-> j + 1]
    ELSE [tok |-> Classified(source[j]), next |-> j + 1]

\* The token found from item i on.  Newlines are skipped like blanks; a
\* comment is not.
Token(i) == TokenAt[SkipBlanks(i)]

---------------------------------------------------------------------------
(* The operands of one line.  Each gives the line, where the cursor is      *)
(* left, the size of the instruction and whether the status is good.        *)

Outcome(line, next, size, ok) == [line |-> line, next |-> next, size |-> size, ok |-> ok]

\* reg_char_to_code; what a token that is not a register gives is never
\* used, as its line is in error.
RegOf(tok) ==
    CASE tok.t # "reg" -> "NONE" [] tok.s = "SP" -> "S" [] OTHER -> tok.s

OneReg(l, i) ==
    LET a == Token(i)
    IN  Outcome([l EXCEPT !.reg[1] = RegOf(a.tok)], a.next, 1, a.tok.t = "reg")

TwoReg(l, i) ==
    LET a == Token(i)
        b == Token(a.next)
    IN  Outcome([l EXCEPT !.reg = <<RegOf(a.tok), RegOf(b.tok)>>], b.next, 1,
                a.tok.t = "reg" /\ b.tok.t = "reg")

\* lex_parse_imm, and lex_parse_jmp which does the same.
Imm(l, i, size) ==
    LET a == Token(i)
    IN  CASE a.tok.t = "literal" -> Outcome([l EXCEPT !.imm = a.tok.n], a.next, size, TRUE)
          [] a.tok.t = "label" -> Outcome([l EXCEPT !.symbol = a.tok.s], a.next, size, TRUE)
          [] OTHER -> Outcome(l, a.next, size, FALSE)

\* With a label the register is not stored, and its status is overwritten.
RegImm(l, i, size) ==
    LET a == Token(i)
        b == Token(a.next)
    IN  CASE b.tok.t = "literal" ->
               Outcome([l EXCEPT !.reg[1] = RegOf(a.tok), !.imm = b.tok.n], b.next, size,
                       a.tok.t = "reg")
          [] b.tok.t = "label" -> Outcome([l EXCEPT !.symbol = b.tok.s], b.next, size, TRUE)
          [] OTHER -> Outcome(l, b.next, size, FALSE)

\* A string is stored with its terminating zero.
Char == 83
DataBytes(tok) ==
    CASE tok.t = "literal" -> <<tok.n % 256>>
      [] tok.t = "string" -> [i \in 1..(tok.n + 1) |-> IF i <= tok.n THEN Char ELSE 0]
      [] OTHER -> <<>>

IsArg(tok) == tok.t \in {"literal", "string", "label"}

\* lex_parse_data: arguments are taken until the cursor is on another line
\* than it was on behind the mnemonic at i, or the source ends.  Of several
\* labels the last one stays.
Data(l, i) ==
    LET Ends(j) == LET a == TokenAt[j]
                   IN  \/ ~IsArg(a.tok) \/ a.next > Len(source)
                       \/ LineAt(a.next) > LineAt(i)
        end == Min({j \in i..(Len(source) + 1) : ~Blank(j) /\ Ends(j)})
        bytes == FlattenSeq([k \in 1..(end - i + 1) |-> DataBytes(TokenAt[i + k - 1].tok)])
        labels == {j \in i..end : TokenAt[j].tok.t = "label"}
    IN  Outcome([l EXCEPT !.bytes = bytes,
                          !.symbol = IF labels = {} THEN NoName ELSE TokenAt[Max(labels)].tok.s],
                TokenAt[end].next, Len(bytes), IsArg(TokenAt[end].tok))

---------------------------------------------------------------------------
(* One statement: the switches over directives and instructions.            *)

OneRegOps == {"ADC", "ADD", "ANA", "CMP", "DAD", "DCR", "INR", "INX", "LDAX", "ORA",
              "POP", "PUSH", "SBB", "STAX", "SUB", "XRA"}
ImmOps == {"ACI", "ADI", "ANI", "CPI", "ORI", "SUI", "SBI"}
JumpOps == {"JP", "JMP", "JC", "JNC", "JZ", "JM"}
CallOps == {"CALL", "CC", "CNZ", "CM", "CP", "CPE", "CPO", "CZ"}
NoOperandOps == {"PCHL", "RET", "RC", "RNC", "RZ", "RM", "RP", "RPE", "RPO", "RNZ"}
DataOps == {"DB", "DW"}

LexedOps == OneRegOps \cup ImmOps \cup JumpOps \cup CallOps \cup NoOperandOps
              \cup DataOps \cup {"MOV", "MVI", "LXI", "DS"}

\* The directives that have a case of their own.
CasedDirectives == {"END", "ENDIF", "ENDM", "IF", "MACRO", "ORG", "SET"}

Operands(op, l, i) ==
    CASE op \in OneRegOps -> OneReg(l, i)
      [] op \in ImmOps -> Imm(l, i, 2)
      [] op = "MOV" -> TwoReg(l, i)
      [] op = "MVI" -> RegImm(l, i, 2)
      [] op = "LXI" -> RegImm(l, i, 3)
      [] op \in JumpOps \cup CallOps -> Imm(l, i, 3)
      [] op \in NoOperandOps -> Outcome(l, i, 1, TRUE)
      [] op \in DataOps -> Data(l, i)
      [] op = "DS" -> Imm(l, i, 1)

\* The statement that begins with the token k.  A mnemonic without a case of
\* its own leaves its operands to the next lex_line and the instruction
\* invalid, with a good status; so does anything that is no mnemonic.
Statement(l, k) ==
    LET dir == FindMnemonic(Directives, k.tok.s)
        op == FindMnemonic(Instrs, k.tok.s)
    IN  CASE k.tok.t = "directive" /\ dir \in CasedDirectives ->
               Outcome([l EXCEPT !.instr = SharedCode(dir)], k.next, 1, TRUE)
          [] k.tok.t = "instr" /\ op \in LexedOps ->
               LET out == Operands(op, l, k.next)
               IN  [out EXCEPT !.line.instr = IF out.ok THEN op ELSE "INVALID"]
          [] OTHER -> Outcome(l, k.next, 1, TRUE)

---------------------------------------------------------------------------
(* The loop of lex_all.                                                     *)

Lexing == phase = "lexing" /\ cursor <= Len(source)

SkipLayout ==
    /\ Lexing
    /\ source[cursor].t \in {"nl", "gap", "comment"}
    /\ cursor' = cursor + 1
    /\ UNCHANGED <<source, text_addr, lines, symbols, phase>>

\* Seeded bug: the room for lines is not looked at.
EndLine_Unchecked(out) ==
    /\ cursor' = out.next
    /\ text_addr' = text_addr + out.size
    /\ lines' = Append(lines, [out.line EXCEPT !.addr = text_addr, !.error = ~out.ok])
    /\ UNCHANGED phase

\* Seeded bug: the line is given the address behind it.
EndLine_AddressBehind(out) ==
    /\ cursor' = out.next
    /\ text_addr' = text_addr + out.size
    /\ IF Len(lines) = Capacity
         THEN phase' = "failed" /\ UNCHANGED lines
         ELSE /\ lines' = Append(lines,
                            [out.line EXCEPT !.addr = text_addr', !.error = ~out.ok])
              /\ UNCHANGED phase

\* Seeded bug: a line there is no room for is dropped without a word.
EndLine_DropsLine(out) ==
    /\ cursor' = out.next
    /\ IF Len(lines) = Capacity
         THEN UNCHANGED <<lines, text_addr>>
         ELSE /\ lines' = Append(lines,
                            [out.line EXCEPT !.addr = text_addr, !.error = ~out.ok])
              /\ text_addr' = text_addr + out.size
    /\ UNCHANGED phase

\* The line is given its address and handed to source_info_add_line, whose
\* status replaces the status of the line and ends lex_all when it is bad.
EndLine(out) ==
    /\ cursor' = out.next
    /\ text_addr' = text_addr + out.size
    /\ IF Len(lines) = Capacity
         THEN phase' = "failed" /\ UNCHANGED lines
         ELSE /\ lines' = Append(lines,
                            [out.line EXCEPT !.addr = text_addr, !.error = ~out.ok])
              /\ UNCHANGED phase

LexLine ==
    /\ Lexing
    /\ source[cursor].t \notin {"nl", "gap", "comment"}
    /\ \E first \in {Token(cursor)} :
          LET labelled == [EmptyLine EXCEPT !.label = first.tok.s]
              bad(l) == Outcome(l, first.next, 1, FALSE)
          IN  \/ /\ first.tok.t = "none"
                 /\ EndLine(bad(EmptyLine)) /\ UNCHANGED symbols
              \/ /\ first.tok.t = "label" /\ Len(symbols) = Capacity
                 /\ EndLine(bad(labelled)) /\ UNCHANGED symbols
              \/ /\ first.tok.t = "label" /\ Len(symbols) < Capacity
                 /\ \E k \in {Token(first.next)} :
                       \E out \in {Statement(labelled, k)} : EndLine(out)
                 /\ symbols' = Append(symbols, [name |-> first.tok.s, addr |-> text_addr])
              \/ /\ first.tok.t \notin {"none", "label"}
                 /\ \E out \in {Statement(EmptyLine, first)} : EndLine(out)
                 /\ UNCHANGED symbols
    /\ UNCHANGED source

---------------------------------------------------------------------------
(* lex_resolve_labels.                                                      *)

\* symbol_table_get_str compares as many characters as the reference has, so
\* that it also finds a longer label.  An entry holds its name without a
\* terminator, in memory that may continue it: an entry in stray happens to
\* go on like the references it is too short for.
Matches(name, ref, stray) ==
    <<ref, name>> \in PrefixPairs \/ (name \in stray /\ <<name, ref>> \in PrefixPairs)

\* Seeded bug: the last matching entry wins.
Resolved_LastEntry(l, stray) ==
    LET found == {i \in 1..Len(symbols) : Matches(symbols[i].name, l.symbol, stray)}
    IN  IF l.symbol = NoName \/ found = {} THEN l
        ELSE [l EXCEPT !.imm = symbols[Max(found)].addr]

\* Seeded bug: the immediate is replaced whether or not a label is named.
Resolved_Clears(l, stray) ==
    LET found == {i \in 1..Len(symbols) : Matches(symbols[i].name, l.symbol, stray)}
    IN  [l EXCEPT !.imm = IF l.symbol = NoName \/ found = {} THEN 0
                          ELSE symbols[Min(found)].addr]

\* The first matching entry.
Resolved(l, stray) ==
    LET found == {i \in 1..Len(symbols) : Matches(symbols[i].name, l.symbol, stray)}
    IN  IF l.symbol = NoName \/ found = {} THEN l
        ELSE [l EXCEPT !.imm = symbols[Min(found)].addr]

Names == {symbols[i].name : i \in 1..Len(symbols)}

ResolveLabels ==
    /\ phase = "lexing" /\ cursor > Len(source)
    /\ \E stray \in SUBSET Names :
          lines' = [i \in 1..Len(lines) |-> Resolved(lines[i], stray)]
    /\ phase' = "resolved"
    /\ UNCHANGED <<source, cursor, text_addr, symbols>>

LexNext == SkipLayout \/ LexLine \/ ResolveLabels

LexSpec == LexInit /\ [][LexNext]_lexVars /\ WF_lexVars(LexNext)

---------------------------------------------------------------------------
(* Properties.                                                              *)

LexTypeOK ==
    /\ cursor \in 1..(Len(source) + 1)
    /\ text_addr \in Nat
    /\ phase \in {"lexing", "failed", "resolved"}
    /\ DOMAIN lines \subseteq 1..Capacity
    /\ DOMAIN symbols \subseteq 1..Capacity
    /\ \A i \in DOMAIN lines : /\ DOMAIN lines[i] = DOMAIN EmptyLine
                               /\ lines[i].addr \in Nat /\ lines[i].imm \in Nat
    /\ \A i \in DOMAIN symbols : symbols[i].addr \in Nat

HasLabel(l) == l.label # NoName

\* The symbol table and source_repr are filled separately (lex_line calls
\* symbol_table_add_sym, the end of lex_line source_info_add_line) and agree
\* all the same: the symbols are the labels of the lines, in order and each
\* with the address its line was given.
SymbolsFaithful ==
    phase # "failed" =>
      \E line \in [DOMAIN symbols -> DOMAIN lines] :
        /\ \A j, k \in DOMAIN symbols : j < k => line[j] < line[k]
        /\ \A i \in DOMAIN lines : HasLabel(lines[i]) <=> \E k \in DOMAIN symbols : line[k] = i
        /\ \A k \in DOMAIN symbols :
             symbols[k] = [name |-> lines[line[k]].label, addr |-> lines[line[k]].addr]

\* The lines whose label begins with the name, which is its own beginning.
Begun(name) ==
    {j \in DOMAIN lines : HasLabel(lines[j]) /\ <<name, lines[j].label>> \in PrefixPairs}

\* The line a reference to the name should find is the first one that carries
\* it.  A longer label may come before (lexer.c:156 compares a prefix), or a
\* shorter one whose entry happens to go on like the name.  Where no label is
\* the beginning of another, this is the first line with the label alone.
Targets(name) ==
    {j \in DOMAIN lines :
        /\ HasLabel(lines[j])
        /\ <<name, lines[j].label>> \in PrefixPairs \/ <<lines[j].label, name>> \in PrefixPairs
        /\ \A k \in Begun(name) : j <= k}

\* A line that names a label which some line carries, before or behind it, is
\* given the address of the first such line (lex_resolve_labels), or of an
\* earlier one which the lookup may take for it, and of no other.
ResolvedToLabel ==
    phase = "resolved" =>
      \A i \in DOMAIN lines :
        LET name == lines[i].symbol
        IN  name # NoName /\ Begun(name) # {} =>
              \E j \in Targets(name) : lines[i].imm = lines[j].addr

\* No number written in the source is lost to a label: only a line that names
\* a label has its immediate replaced, and nothing else of any line already
\* handed to source_info_add_line changes later.
LinesKept ==
    [][\A i \in DOMAIN lines :
          /\ i \in DOMAIN lines'
          /\ [lines'[i] EXCEPT !.imm = 0] = [lines[i] EXCEPT !.imm = 0]
          /\ lines[i].symbol = NoName => lines'[i] = lines[i]]_lexVars

=============================================================================
