------------------------------ MODULE EmuShell ------------------------------
(***************************************************************************)
(* The loop of tools/emu8080.c: after the program file has been read into  *)
(* memory, cpu_exec is called until its status is not zero or until the    *)
(* limit on the number of calls is passed.  main keeps the status in a     *)
(* variable that is 0 to begin with, as the status of Cpu is.              *)
(***************************************************************************)
EXTENDS Cpu

CONSTANT Limit      \* TEST_CYCLE_LIMIT

ASSUME LimitAssumption == Limit \in Nat

VARIABLES
    num_cycles,     \* the calls of cpu_exec that did not fail
    finished        \* the loop has been left

shellVars == <<vars, num_cycles, finished>>

ShellInit == Init /\ num_cycles = 0 /\ finished = FALSE

\* Seeded bug: one more call than the limit allows.
Counted_OneMore ==
    /\ num_cycles' = num_cycles + 1
    /\ finished' = (num_cycles' > Limit + 1 \/ status' # 0)

\* Seeded bug: calls that take no time are not counted.
Counted_Timed ==
    /\ num_cycles' = IF status' = 0 THEN num_cycles ELSE num_cycles + 1
    /\ finished' = (num_cycles' > Limit \/ status' # 0)

\* The limit is looked at before the status is, by the condition of the loop.
Counted ==
    /\ num_cycles' = num_cycles + 1
    /\ finished' = (num_cycles' > Limit \/ status' # 0)

Failed == finished' = TRUE /\ UNCHANGED num_cycles

Iterate ==
    /\ ~finished
    /\ Next
    /\ IF status' < 0 THEN Failed ELSE Counted

ShellSpec == ShellInit /\ [][Iterate]_shellVars /\ WF_shellVars(Iterate)

---------------------------------------------------------------------------
ShellTypeOK == TypeOK /\ num_cycles \in 0..(Limit + 1) /\ finished \in BOOLEAN

\* "trap an unimplmented instruction", "Hit max cycles": the emulator goes on
\* until an instruction traps or halts, or the limit is passed.
RunsUntilTrap == finished => status < 0 \/ num_cycles > Limit
=============================================================================
