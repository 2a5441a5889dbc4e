------------------------------ MODULE Drivers ------------------------------
(***************************************************************************)
(* The two loops that drive the machine: cpu_run, called as often and with *)
(* whatever budgets a caller likes, and the loop of tools/emu8080.c, which *)
(* calls cpu_exec itself.  A program is linked with one of them.           *)
(***************************************************************************)
EXTENDS CpuRun, EmuShell

VARIABLE driver     \* "cpu_run" or "emu8080"

driversVars == <<runVars, num_cycles, finished, driver>>

DriversInit == RunInit /\ ShellInit /\ driver \in {"cpu_run", "emu8080"}

ShellIdle == UNCHANGED <<num_cycles, finished, driver>>
RunIdle == UNCHANGED <<running, budget, exec_cycles, result, driver>>

RunTurn == driver = "cpu_run" /\ Turn /\ ShellIdle
ShellTurn == driver = "emu8080" /\ Iterate /\ RunIdle

DriversNext ==
    \/ driver = "cpu_run" /\ RunNext /\ ShellIdle
    \/ ShellTurn
    \/ finished /\ UNCHANGED driversVars

\* One thread executes either loop and nothing interrupts it; a caller need
\* not call cpu_run again.
DriversSpec ==
    /\ DriversInit /\ [][DriversNext]_driversVars
    /\ WF_driversVars(RunTurn) /\ WF_driversVars(ShellTurn)

---------------------------------------------------------------------------
DriversTypeOK == RunTypeOK /\ ShellTypeOK

\* The emulator exits on every program, also on one whose instructions never
\* take any time and never trap: cpu_run does not (ReturnsOrSpins).
EmulatorExits == driver = "emu8080" ~> finished
=============================================================================
