------------------------------ MODULE Disassem ------------------------------
(***************************************************************************)
(* The lengths disassemble_8080_op of src/src/disassem.c gives the         *)
(* instructions, beside the machine that executes them.  dis8080 steps     *)
(* over a program by these lengths and PrintState shows the instruction at *)
(* pc with them, so a listing is only right where cpu_exec moves pc by as  *)
(* much.                                                                   *)
(***************************************************************************)
EXTENDS Cpu

T == INSTANCE DisTable

\* The instructions that may go elsewhere: to an address they name, or to one
\* found by other means.
Branches == {\hC3, \hC2, \hD2, \hF2, \hF4, \hCD, \hC4, \hCC, \hCA}
Returns == {\hC9, \hC8, \hC7, \hCF}

\* The instructions known to differ: LXI B and D, LDAX D, LXI SP, STA, LHLD,
\* IN, SBI, POP PSW, CPI, and JNC, JP, CP, CZ and JZ where they are not taken.
Odd == {\h01, \h11, \h1A, \h31, \h32, \h2A, \hDB, \hDE, \hF1, \hFE,
        \hD2, \hF2, \hF4, \hCC, \hCA}

\* An executed op leaves pc where the listing has its next line, or goes
\* elsewhere as it is meant to.
Follows(op) ==
    \/ pc' = (pc + T!OpBytes(op)) % 65536
    \/ op \in Returns
    \/ op \in Branches /\ \E adr \in AddressIn(mem') : pc' = (adr + 1) % 65536

\* "returns the number of bytes of the op": an instruction that is executed
\* and does not go elsewhere leaves pc where the listing has its next line,
\* and a branch not taken steps over its operand.
LengthsAgree ==
    [][status' >= 0 /\ pc \in DOMAIN mem =>
          mem[pc] \in Odd \/ Follows(mem[pc])]_vars
=============================================================================
