---------------------------- MODULE MCStackPopD ----------------------------
(***************************************************************************)
(* The stack with POP D (0xD1) among the instructions that take words      *)
(* back: LXI SP, LXI D, PUSH D, and PUSH H or nothing, and then POP D and  *)
(* POP B in either order.  "TEST "PUSH D" AND "POP D"" of the diagnostic   *)
(* program src/asm/cpu_test.asm expects POP D to take back what was        *)
(* pushed last, as RefinesWordStack does.                                  *)
(***************************************************************************)
EXTENDS CpuStack, Programs

Prologue == LxiSpCode(64) \o LxiDCode(4660) \o LxiHCode(22136)

MCImages ==
    {Placed(0, Prologue \o <<\hD5, second>> \o back \o <<\h76>>) :
        second \in {\hE5, \h00}, back \in {<<\hD1, \hC1>>, <<\hC1, \hD1>>}}

MCSaveOps == {\hD5, \hE5}
MCRestoreOps == {\hC1, \hD1}
=============================================================================
