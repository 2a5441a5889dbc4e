----------------------------- MODULE MCDrivers -----------------------------
(***************************************************************************)
(* Both loops on                                                           *)
(* - every program of three instructions of an alphabet that mixes times   *)
(*   (0, 4, 7, 10, 16), halts, traps, loops and flags,                     *)
(* - every program of four bytes that end a loop or do not,                *)
(* - every opcode behind each of four instructions that leave different    *)
(*   flags, in a program that halts wherever it goes from there.           *)
(***************************************************************************)
EXTENDS Drivers, Disassem, Programs

SlotAt(k) == 3 * (k - 1)

\* NOP, the NOP without a time, HLT, CPI (which does not move pc), a missing
\* opcode, LHLD, JMP to each slot but the last, RST 0, SUB A and JNZ.
Alphabet ==
    {<<\h00>>, <<\h08>>, <<\h76>>, <<\hFE>>, <<\h04>>, <<\h2A>>, <<\hC7>>,
     <<\h97>>, <<\hC2>> \o To(SlotAt(2)), <<\hC3>> \o To(SlotAt(2)), <<\hC3, 0, 0>>}

\* The NOP without a time, RST 0, which takes none either, a missing opcode and
\* HLT.
ShellBytes == {\h08, \hC7, \h04, \h76}

\* SUB A sets z; RLC of 129 sets the carry; XRA L of 129 and 1 leaves one bit
\* set and with it p.  Only opcodes of the last quarter depend on the flags.
Setters(op) == IF op < \hC0 THEN {\h00} ELSE {\h00, \h97, \h07, \hAD}

Prologue == LxiHCode(4097) \o <<\h3E, 129, \h00>>

Halts == [i \in 1..6 |-> \h76]

\* The operand is the address of one of the HLTs, less one.
EveryOpcode ==
    UNION {{Prologue \o <<f, op>> \o <<Len(Prologue) + 6, 0>> \o Halts : f \in Setters(op)} :
              op \in Byte}

MCImages ==
    {Placed(0, body) : body \in Bodies(Alphabet, 3) \cup [1..4 -> ShellBytes] \cup EveryOpcode}

MCBudgets == {0, 1, 20}
=============================================================================
