------------------------------- MODULE CpuRun -------------------------------
(***************************************************************************)
(* cpu_run of src/src/cpu.c: the caller hands the machine a budget of      *)
(* clock periods and cpu_run executes instructions until their times reach *)
(* the budget or cpu_exec returns a negative status.  A caller may call    *)
(* cpu_run again on the same machine, with any budget, as often as it      *)
(* likes.                                                                  *)
(***************************************************************************)
EXTENDS Cpu

CONSTANTS
    Budgets,    \* the budgets callers ask for
    Garbage     \* the values an uninitialised int may hold

ASSUME BudgetAssumption == Budgets \subseteq Int
ASSUME GarbageAssumption == Garbage \subseteq Int

VARIABLES
    running,    \* a call of cpu_run is in progress
    budget,     \* its parameter cycles
    exec_cycles,
    result      \* what the last call returned

runVars == <<vars, running, budget, exec_cycles, result>>

RunInit ==
    /\ Init
    /\ running = FALSE
    /\ budget = 0 /\ exec_cycles = 0 /\ result = 0

\* Seeded bug: the loop is entered only where more than one period is asked for.
CallEmpty_ToOne(cycles) ==
    /\ ~running /\ cycles <= 1
    /\ budget' = cycles /\ exec_cycles' = 0
    /\ result' \in Garbage
    /\ UNCHANGED <<vars, running>>

\* With no budget the loop is not entered and the local status is returned
\* without ever having been assigned.
CallEmpty(cycles) ==
    /\ ~running /\ cycles <= 0
    /\ budget' = cycles /\ exec_cycles' = 0
    /\ result' \in Garbage
    /\ UNCHANGED <<vars, running>>

CallRun(cycles) ==
    /\ ~running /\ cycles > 0
    /\ running' = TRUE /\ budget' = cycles /\ exec_cycles' = 0
    /\ UNCHANGED <<vars, result>>

\* Seeded bug: a negative status is added like a time.
Account_AddsFirst ==
    /\ exec_cycles' = exec_cycles + status'
    /\ \/ status' >= 0 /\ exec_cycles' < budget /\ UNCHANGED <<running, result>>
       \/ /\ status' < 0 \/ ~(exec_cycles' < budget)
          /\ running' = FALSE /\ result' = status'

\* Seeded bug: the budget is compared before the time is added.
Account_ComparesFirst ==
    \/ status' < 0 /\ running' = FALSE /\ result' = status' /\ UNCHANGED exec_cycles
    \/ /\ status' >= 0
       /\ exec_cycles' = exec_cycles + status'
       /\ \/ exec_cycles < budget /\ UNCHANGED <<running, result>>
          \/ ~(exec_cycles < budget) /\ running' = FALSE /\ result' = status'

\* Seeded bug: the time of the last instruction replaces the sum.
Account_NoSum ==
    \/ status' < 0 /\ running' = FALSE /\ result' = status' /\ UNCHANGED exec_cycles
    \/ /\ status' >= 0
       /\ exec_cycles' = status'
       /\ \/ exec_cycles' < budget /\ UNCHANGED <<running, result>>
          \/ ~(exec_cycles' < budget) /\ running' = FALSE /\ result' = status'

\* A negative status leaves the loop before its time is added.
Account ==
    \/ /\ status' < 0
       /\ running' = FALSE /\ result' = status'
       /\ UNCHANGED exec_cycles
    \/ /\ status' >= 0
       /\ exec_cycles' = exec_cycles + status'
       /\ \/ exec_cycles' < budget /\ UNCHANGED <<running, result>>
          \/ ~(exec_cycles' < budget) /\ running' = FALSE /\ result' = status'

\* One turn of the loop.  The cpu_shift_register() call before cpu_exec is
\* left out: it wants the opcode byte to be both OUT and a port number, and
\* compares the address of the opcode with IN, so it never assigns anything.
Turn ==
    /\ running
    /\ Next
    /\ Account
    /\ UNCHANGED budget

RunNext == (\E cycles \in Budgets : CallEmpty(cycles) \/ CallRun(cycles)) \/ Turn

RunSpec == RunInit /\ [][RunNext]_runVars

---------------------------------------------------------------------------
RunTypeOK ==
    /\ TypeOK
    /\ running \in BOOLEAN
    /\ budget \in Int /\ exec_cycles \in Nat /\ result \in Int

\* The longest time of any case of cpu_exec.
MaxTime == 17

\* A call runs only while its budget lasts and exceeds it by less than one
\* instruction, whatever mixture of times the program has and however it ends.
BudgetKept ==
    /\ running => exec_cycles < budget
    /\ budget > 0 => exec_cycles < budget + MaxTime

\* A call that ends with budget left was ended by HLT or a trap, and says so.
EarlyEndReported ==
    ~running /\ budget > 0 /\ exec_cycles < budget => result < 0

\* What a call returns is the status of the instruction executed last, in any
\* sequence of calls.  Only a call without a budget, which executes nothing,
\* returns something else: what its local status happened to hold (cpu.c:80).
ResultIsStatus == result # status => running \/ budget <= 0

\* Both together: a caller can tell from the result how a call has ended, but
\* not that there was no budget.
ResultReported == EarlyEndReported /\ ResultIsStatus

\* HLT is final: a loaded program that has halted never executes anything
\* else, however often cpu_run is called again (cpu.c:794-796 leaves pc on
\* the HLT).
HaltIsFinal ==
    [][status = -2 /\ pc \in DOMAIN mem => UNCHANGED vars]_vars

\* cpu_run returns, or from some point on executes only instructions that
\* take no time: cases 0x08 and RST 0 never use up the budget.
ReturnsOrSpins == running ~> (~running \/ [](status = 0))
=============================================================================
