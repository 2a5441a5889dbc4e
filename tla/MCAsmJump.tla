----------------------------- MODULE MCAsmJump -----------------------------
\* Assembler on a jump to an address of two bytes that differ, alone and
\* behind another instruction, and on one to a label.
EXTENDS Assembler

tok(t, s) == [t |-> t, s |-> s, n |-> 0]
word(s) == tok("word", s)
nl == tok("nl", NoName)

Jump == <<word("JMP"), [t |-> "literal", s |-> NoName, n |-> 300], nl>>
ToLabel == <<word("X"), word("JMP"), word("X"), nl>>

MCSources == {Jump, ToLabel, ToLabel \o Jump, Jump \o ToLabel}

MCWords == {"JMP", "X"}

MCPrefixPairs == {<<w, w>> : w \in MCWords}
=============================================================================
