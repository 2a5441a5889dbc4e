----------------------------- MODULE MCEmuShell -----------------------------
\* emu8080 on every program of four bytes from: NOP, the NOP without a time,
\* RST 0, which takes no time either, SUB A, a missing opcode and HLT.
EXTENDS EmuShell, Programs

MCImages == {Placed(0, body) : body \in [1..4 -> {\h00, \h08, \hC7, \h97, \h04, \h76}]}
=============================================================================
