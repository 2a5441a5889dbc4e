--------------------------- MODULE Drivers_proof ---------------------------
(***************************************************************************)
(* Both drivers of the machine, on every program, every budget, every      *)
(* limit and every content of uninitialised memory.                        *)
(*                                                                         *)
(* First cpu_run alone: the budget is exceeded by less than one            *)
(* instruction, an early end is reported, and HLT is final.  Then cpu_run  *)
(* and the emulator's loop on one machine: the loop executes at most one   *)
(* instruction more than its limit, and under either driver what holds of  *)
(* cpu_run alone stays true.  At the end the machine beside the lengths of *)
(* the disassembler.                                                       *)
(***************************************************************************)
EXTENDS Drivers, Disassem, Cpu_proof

---------------------------------------------------------------------------
(* cpu_run.                                                                 *)

\* One instruction keeps the types and takes at most MaxTime.
LEMMA NextOK == ASSUME TypeOK, Next PROVE TypeOK' /\ status' \in Int /\ status' <= MaxTime
<1>1. TypeOK'
  BY ExecOK DEF Next
<1> QED BY <1>1 DEF TypeOK, MaxTime

\* The three invariants together are inductive.
RunInv == RunTypeOK /\ BudgetKept /\ EarlyEndReported

LEMMA SumBounds ==
  ASSUME NEW spent \in Int, NEW time \in Int, NEW limit \in Int,
         0 <= spent, spent < limit, 0 <= time, time <= 17
  PROVE  spent + time \in Nat /\ spent + time < limit + 17
  OBVIOUS

LEMMA RunInitOK == RunInit => RunInv
<1> SUFFICES ASSUME RunInit PROVE RunInv
  OBVIOUS
<1>1. TypeOK /\ running \in BOOLEAN /\ ~running
  BY InitOK DEF RunInit
<1>2. budget = 0 /\ exec_cycles = 0 /\ result = 0
  BY DEF RunInit
<1> QED BY <1>1, <1>2 DEF RunInv, RunTypeOK, BudgetKept, EarlyEndReported, MaxTime

LEMMA StutterTypes == ASSUME TypeOK, UNCHANGED vars PROVE TypeOK'
  BY DEF TypeOK, vars

LEMMA CallOfRunOK ==
  ASSUME RunInv, NEW cycles \in Budgets, CallEmpty(cycles) \/ CallRun(cycles)
  PROVE  RunInv'
<1>1. cycles \in Int
  BY BudgetAssumption
<1>2. TypeOK'
  BY StutterTypes DEF CallEmpty, CallRun, RunInv, RunTypeOK
<1>3. CASE CallEmpty(cycles)
  BY <1>1, <1>2, <1>3, GarbageAssumption
     DEF CallEmpty, RunInv, RunTypeOK, BudgetKept, EarlyEndReported, MaxTime
<1>4. CASE CallRun(cycles)
  BY <1>1, <1>2, <1>4
     DEF CallRun, RunInv, RunTypeOK, BudgetKept, EarlyEndReported, MaxTime
<1> QED BY <1>3, <1>4

LEMMA TurnOK == ASSUME RunInv, Turn PROVE RunInv'
<1>1. TypeOK' /\ status' \in Int /\ status' <= MaxTime
  BY NextOK DEF Turn, RunInv, RunTypeOK
<1>2. status' \in Int /\ status' <= 17
  BY <1>1 DEF MaxTime
<1>3. budget' = budget /\ budget \in Int
  BY DEF Turn, RunInv, RunTypeOK
<1>4. exec_cycles \in Int /\ 0 <= exec_cycles /\ exec_cycles < budget
  BY DEF Turn, RunInv, RunTypeOK, BudgetKept
<1>5. result \in Int
  BY DEF RunInv, RunTypeOK
<1>6. CASE status' < 0 /\ running' = FALSE /\ result' = status' /\ exec_cycles' = exec_cycles
  BY <1>1, <1>2, <1>3, <1>4, <1>6
     DEF RunInv, RunTypeOK, BudgetKept, EarlyEndReported, MaxTime
<1>7. CASE status' >= 0 /\ exec_cycles' = exec_cycles + status'
  <2>1. status' >= 0 => 0 <= status'
    BY <1>2
  <2>2. exec_cycles' \in Nat /\ exec_cycles' < budget + 17
    BY <1>2, <1>3, <1>4, <1>7, <2>1, SumBounds
  <2>3. CASE exec_cycles' < budget /\ running' = running /\ result' = result
    BY <1>1, <1>3, <1>5, <2>2, <2>3
       DEF Turn, RunInv, RunTypeOK, BudgetKept, EarlyEndReported, MaxTime
  <2>4. CASE ~(exec_cycles' < budget) /\ running' = FALSE /\ result' = status'
    <3>1. running' \in BOOLEAN /\ ~running' /\ result' \in Int
      BY <1>2, <2>4
    <3>2. exec_cycles' \in Int /\ ~(exec_cycles' < budget')
      BY <1>3, <2>2, <2>4
    <3> QED BY <1>1, <1>3, <2>2, <3>1, <3>2
            DEF RunInv, RunTypeOK, BudgetKept, EarlyEndReported, MaxTime
  <2>5. ~(status' < 0)
    BY <1>2, <2>1, <1>7
  <2>6. (exec_cycles' < budget /\ UNCHANGED <<running, result>>)
          \/ (~(exec_cycles' < budget) /\ running' = FALSE /\ result' = status')
    BY <2>5 DEF Turn, Account
  <2> QED BY <2>3, <2>4, <2>6
<1> QED BY <1>2, <1>6, <1>7 DEF Turn, Account

LEMMA RunStepOK == ASSUME RunInv, [RunNext]_runVars PROVE RunInv'
<1>1. CASE \E cycles \in Budgets : CallEmpty(cycles) \/ CallRun(cycles)
  BY <1>1, CallOfRunOK
<1>2. CASE Turn
  BY <1>2, TurnOK
<1>3. CASE UNCHANGED runVars
  <2>1. TypeOK'
    BY <1>3, StutterTypes DEF runVars, RunInv, RunTypeOK
  <2> QED BY <1>3, <2>1 DEF runVars, RunInv, RunTypeOK, BudgetKept, EarlyEndReported
<1> QED BY <1>1, <1>2, <1>3 DEF RunNext

\* A call of cpu_run runs while its budget lasts and exceeds it by less than
\* the longest instruction, whatever the program and however often and with
\* whatever budgets it is called.
THEOREM RunKeepsBudget == RunSpec => []BudgetKept
<1>1. RunSpec => []RunInv
  BY RunInitOK, RunStepOK, PTL DEF RunSpec
<1>2. RunInv => BudgetKept
  BY DEF RunInv
<1> QED BY <1>1, <1>2, PTL

\* A call that ends before its budget is used up returns the negative status
\* of the instruction that ended it.
THEOREM RunReportsEarlyEnd == RunSpec => []EarlyEndReported
<1>1. RunSpec => []RunInv
  BY RunInitOK, RunStepOK, PTL DEF RunSpec
<1>2. RunInv => EarlyEndReported
  BY DEF RunInv
<1> QED BY <1>1, <1>2, PTL

---------------------------------------------------------------------------
(* HLT is final: of the cases of cpu_exec only 0x76 returns -2, it leaves   *)
(* pc on itself, and no other case takes its opcode.                        *)

\* 0x00 - 0x3F: loads, counters and rotates: none is HLT, none returns -2.
LEMMA LoadsNotHlt ==
  ASSUME NEW op, Nop(op) \/ Lxi(op) \/ LxiSp(op) \/ StoreA(op)
           \/ LoadA(op) \/ Lhld(op) \/ Mvi(op) \/ Inx(op)
           \/ StepSp(op) \/ DcxD(op) \/ Dad(op) \/ InrDcr(op)
           \/ CountHL(op) \/ Rotate(op)
  PROVE  op # 118 /\ status' # -2
<1>1. CASE Nop(op)
  BY <1>1 DEF Nop, Retire
<1>2. CASE Lxi(op)
  BY <1>2 DEF Lxi, Retire
<1>3. CASE LxiSp(op)
  BY <1>3 DEF LxiSp, Retire
<1>4. CASE StoreA(op)
  BY <1>4 DEF StoreA, Retire
<1>5. CASE LoadA(op)
  BY <1>5 DEF LoadA, Retire
<1>6. CASE Lhld(op)
  BY <1>6 DEF Lhld, Retire
<1>7. CASE Mvi(op)
  BY <1>7, CodesOfRegs DEF Mvi, Retire, RegName
<1>8. CASE Inx(op)
  BY <1>8 DEF Inx, Retire
<1>9. CASE StepSp(op)
  BY <1>9 DEF StepSp, Retire
<1>10. CASE DcxD(op)
  BY <1>10 DEF DcxD, Retire
<1>11. CASE Dad(op)
  BY <1>11 DEF Dad, Retire
<1>12. CASE InrDcr(op)
  BY <1>12 DEF InrDcr, Retire, RegName, RegCode
<1>13. CASE CountHL(op)
  BY <1>13 DEF CountHL, Retire
<1>14. CASE Rotate(op)
  BY <1>14 DEF Rotate, Retire
<1> QED BY <1>1, <1>2, <1>3, <1>4, <1>5, <1>6, <1>7, <1>8, <1>9, <1>10, <1>11, <1>12, <1>13, <1>14

\* MOV, whose opcodes surround 0x76: none is HLT, none returns -2.
LEMMA MovesNotHlt ==
  ASSUME NEW op, MovBC(op) \/ MovDE(op) \/ MovHL(op) \/ MovA(op)
           \/ MovToM(op)
  PROVE  op # 118 /\ status' # -2
<1>1. CASE MovBC(op)
  BY <1>1, CodesOfRegs DEF MovBC, Retire, IsMov, IsMovM
<1>2. CASE MovDE(op)
  BY <1>2, CodesOfRegs DEF MovDE, Retire, IsMov, IsMovM
<1>3. CASE MovHL(op)
  BY <1>3, CodesOfRegs DEF MovHL, Retire, IsMov, IsMovM
<1>4. CASE MovA(op)
  BY <1>4, CodesOfRegs DEF MovA, Retire, IsMov, IsMovM
<1>5. CASE MovToM(op)
  BY <1>5 DEF MovToM, Retire, RegName, RegCode
<1> QED BY <1>1, <1>2, <1>3, <1>4, <1>5

\* The accumulator: none is HLT, none returns -2.
LEMMA AccumulatorNotHlt ==
  ASSUME NEW op, Add(op) \/ Adc(op) \/ Sub(op) \/ Sbb(op) \/ Ana(op)
           \/ Xra(op) \/ Ora(op) \/ Cmp(op)
  PROVE  op # 118 /\ status' # -2
<1>1. CASE Add(op)
  BY <1>1 DEF Add, Retire, RegName, RegCode
<1>2. CASE Adc(op)
  <2>1. op = 142 \/ \E r \in RegName : op = 136 + RegCode[r]
    BY <1>2 DEF Adc
  <2>2. status' # -2
    BY <1>2 DEF Adc, Retire
  <2> QED BY <2>1, <2>2 DEF RegName, RegCode
<1>3. CASE Sub(op)
  BY <1>3 DEF Sub, Retire, RegName, RegCode
<1>4. CASE Sbb(op)
  BY <1>4 DEF Sbb, Retire, RegName, RegCode
<1>5. CASE Ana(op)
  BY <1>5 DEF Ana, Retire, RegName, RegCode
<1>6. CASE Xra(op)
  BY <1>6 DEF Xra, Retire, RegName, RegCode
<1>7. CASE Ora(op)
  <2>1. op = 182 \/ op = 183 \/ \E r \in RegName : op = 176 + RegCode[r]
    BY <1>7 DEF Ora
  <2>2. status' # -2
    BY <1>7 DEF Ora, Retire
  <2> QED BY <2>1, <2>2 DEF RegName, RegCode
<1>8. CASE Cmp(op)
  BY <1>8 DEF Cmp, Retire, RegName, RegCode
<1> QED BY <1>1, <1>2, <1>3, <1>4, <1>5, <1>6, <1>7, <1>8

\* 0xC0 - 0xFF: immediates, jumps, calls and the stack: none is HLT, none returns -2.
LEMMA ControlNotHlt ==
  ASSUME NEW op, Immediate(op) \/ NoEffect(op) \/ Interrupts(op)
           \/ Jump(op) \/ JumpP(op) \/ Call(op) \/ Ret(op) \/ Rst(op)
           \/ PushPair(op) \/ PushB(op) \/ Pop(op) \/ PopPsw(op)
           \/ Xthl(op) \/ Sphl(op) \/ Cpi(op) \/ Unimplemented(op)
  PROVE  op # 118 /\ status' # -2
<1>1. CASE Immediate(op)
  BY <1>1 DEF Immediate, Retire
<1>2. CASE NoEffect(op)
  BY <1>2 DEF NoEffect, Retire
<1>3. CASE Interrupts(op)
  BY <1>3 DEF Interrupts, Retire
<1>4. CASE Jump(op)
  BY <1>4 DEF Jump, JumpIf, Retire, Goto
<1>5. CASE JumpP(op)
  BY <1>5 DEF JumpP, Retire, Goto
<1>6. CASE Call(op)
  BY <1>6 DEF Call, CallIf, Goto, Retire
<1>7. CASE Ret(op)
  BY <1>7 DEF Ret, Retire, Goto
<1>8. CASE Rst(op)
  BY <1>8 DEF Rst, Goto
<1>9. CASE PushPair(op)
  BY <1>9 DEF PushPair, Retire
<1>10. CASE PushB(op)
  BY <1>10 DEF PushB, Retire
<1>11. CASE Pop(op)
  BY <1>11 DEF Pop, Retire
<1>12. CASE PopPsw(op)
  BY <1>12 DEF PopPsw, Retire
<1>13. CASE Xthl(op)
  BY <1>13 DEF Xthl, Retire
<1>14. CASE Sphl(op)
  BY <1>14 DEF Sphl, Retire
<1>15. CASE Cpi(op)
  BY <1>15 DEF Cpi
<1>16. CASE Unimplemented(op)
  BY <1>16 DEF Unimplemented, Missing, Trap
<1> QED BY <1>1, <1>2, <1>3, <1>4, <1>5, <1>6, <1>7, <1>8, <1>9, <1>10, <1>11, <1>12, <1>13, <1>14, <1>15, <1>16

\* The opcode of HLT executes HLT, and nothing else ends with -2.
LEMMA OnlyHlt ==
  ASSUME NEW op, Exec(op), op = 118 \/ status' = -2 PROVE op = 118 /\ Hlt(op)
<1>1. Hlt(op)
  BY LoadsNotHlt, MovesNotHlt, AccumulatorNotHlt, ControlNotHlt DEF Exec
<1> QED BY <1>1 DEF Hlt

\* A machine that has halted in its program stands on the HLT.
HaltInv == status = -2 /\ pc \in DOMAIN mem => mem[pc] = 118

LEMMA HaltInitOK == RunInit => HaltInv
  BY DEF RunInit, Init, HaltInv

\* One instruction of a machine that stands on the HLT, or gets there.
LEMMA HaltNextOK ==
  ASSUME HaltInv, Next
  PROVE  HaltInv' /\ (status = -2 /\ pc \in DOMAIN mem => UNCHANGED vars)
<1>1. PICK op \in Read(pc) : Exec(op)
  BY DEF Next
<1>2. pc \in DOMAIN mem => op = mem[pc]
  BY DEF Read, ReadIn
<1>3. HaltInv'
  <2> SUFFICES ASSUME status' = -2, pc' \in DOMAIN mem' PROVE mem'[pc'] = 118
    BY DEF HaltInv
  <2>1. op = 118 /\ Hlt(op)
    BY <1>1, OnlyHlt
  <2> QED BY <1>2, <2>1 DEF Hlt
<1>4. ASSUME status = -2, pc \in DOMAIN mem PROVE UNCHANGED vars
  <2>1. op = 118
    BY <1>2, <1>4 DEF HaltInv
  <2>2. Hlt(op)
    BY <1>1, <2>1, OnlyHlt
  <2> QED BY <1>4, <2>2 DEF Hlt, vars
<1> QED BY <1>3, <1>4

LEMMA HaltStepOK ==
  ASSUME HaltInv, [RunNext]_runVars
  PROVE  HaltInv' /\ [status = -2 /\ pc \in DOMAIN mem => UNCHANGED vars]_vars
<1>1. CASE UNCHANGED vars
  BY <1>1 DEF HaltInv, vars
<1>2. CASE Turn
  BY <1>2, HaltNextOK DEF Turn
<1>3. (\E cycles \in Budgets : CallEmpty(cycles) \/ CallRun(cycles)) => UNCHANGED vars
  BY DEF CallEmpty, CallRun
<1>4. UNCHANGED runVars => UNCHANGED vars
  BY DEF runVars
<1> QED BY <1>1, <1>2, <1>3, <1>4 DEF RunNext

\* Once the program has halted, cpu_run executes nothing else however often
\* and with whatever budgets it is called again.
THEOREM HaltStays == RunSpec => HaltIsFinal
<1>1. RunSpec => []HaltInv
  BY HaltInitOK, HaltStepOK, PTL DEF RunSpec
<1>2. HaltInv /\ [RunNext]_runVars
        => [status = -2 /\ pc \in DOMAIN mem => UNCHANGED vars]_vars
  BY HaltStepOK
<1> QED BY <1>1, <1>2, PTL DEF RunSpec, HaltIsFinal

---------------------------------------------------------------------------
(* Both drivers.                                                            *)

\* That num_cycles stays below Limit + 2 needs that the loop has been left by
\* the time it is above Limit.
LeftInTime == ~finished => num_cycles <= Limit

DriversInv == RunInv /\ ShellTypeOK /\ LeftInTime

LEMMA DriversInitOK == DriversInit => DriversInv
<1> SUFFICES ASSUME DriversInit PROVE DriversInv
  OBVIOUS
<1>1. RunInv /\ TypeOK
  BY RunInitOK DEF DriversInit, RunInv, RunTypeOK
<1>2. num_cycles = 0 /\ finished = FALSE
  BY DEF DriversInit, ShellInit
<1>3. num_cycles \in 0..(Limit + 1) /\ num_cycles <= Limit
  BY <1>2, LimitAssumption
<1> QED BY <1>1, <1>2, <1>3 DEF DriversInv, ShellTypeOK, LeftInTime

\* While cpu_run drives, what the emulator keeps does not change but for the
\* machine.
LEMMA RunSideOK ==
  ASSUME DriversInv, RunNext, ShellIdle
  PROVE  DriversInv'
<1>1. RunInv'
  BY RunStepOK DEF DriversInv
<1>2. TypeOK'
  BY <1>1 DEF RunInv, RunTypeOK
<1> QED BY <1>1, <1>2 DEF DriversInv, ShellIdle, ShellTypeOK, LeftInTime

\* One iteration of the emulator executes one instruction, counts it or is
\* the last, and leaves what cpu_run keeps.
LEMMA IterateOK ==
  ASSUME DriversInv, Iterate, RunIdle
  PROVE  DriversInv'
<1>1. TypeOK' /\ status' \in Int
  BY NextOK DEF DriversInv, RunInv, RunTypeOK, Iterate
<1>2. RunInv'
  BY <1>1 DEF RunIdle, DriversInv, RunInv, RunTypeOK, BudgetKept, EarlyEndReported
<1>3. num_cycles \in Nat /\ num_cycles <= Limit /\ Limit \in Nat
  BY LimitAssumption DEF DriversInv, ShellTypeOK, LeftInTime, Iterate
<1>4. CASE Failed
  <2>1. finished' = TRUE /\ num_cycles' \in 0..(Limit + 1)
    BY <1>3, <1>4 DEF Failed
  <2> QED BY <1>1, <1>2, <2>1 DEF DriversInv, ShellTypeOK, LeftInTime
<1>5. CASE Counted
  <2>1. num_cycles' \in 0..(Limit + 1)
    BY <1>3, <1>5 DEF Counted
  <2>2. finished' \in BOOLEAN /\ (~finished' => ~(num_cycles' > Limit))
    BY <1>5 DEF Counted
  <2>3. ~finished' => num_cycles' <= Limit
    BY <1>3, <2>1, <2>2
  <2> QED BY <1>1, <1>2, <2>1, <2>2, <2>3 DEF DriversInv, ShellTypeOK, LeftInTime
<1> QED BY <1>4, <1>5 DEF Iterate

LEMMA DriversStepOK == ASSUME DriversInv, [DriversNext]_driversVars PROVE DriversInv'
<1>1. CASE driver = "cpu_run" /\ RunNext /\ ShellIdle
  BY <1>1, RunSideOK
<1>2. CASE ShellTurn
  BY <1>2, IterateOK DEF ShellTurn
<1>3. CASE UNCHANGED driversVars
  <2>1. UNCHANGED runVars /\ UNCHANGED <<num_cycles, finished>>
    BY <1>3 DEF driversVars
  <2>2. RunInv'
    BY <2>1, RunStepOK DEF DriversInv
  <2>3. TypeOK'
    BY <2>2 DEF RunInv, RunTypeOK
  <2> QED BY <2>1, <2>2, <2>3 DEF DriversInv, ShellTypeOK, LeftInTime
<1> QED BY <1>1, <1>2, <1>3 DEF DriversNext

\* Under either driver everything keeps its type; above all the loop of the
\* emulator stops at the limit, whatever the program does (emu8080.c:44-57).
THEOREM DriversTypeCorrect == DriversSpec => []DriversTypeOK
<1>1. DriversSpec => []DriversInv
  BY DriversInitOK, DriversStepOK, PTL DEF DriversSpec
<1>2. DriversInv => DriversTypeOK
  BY DEF DriversInv, RunInv, DriversTypeOK
<1> QED BY <1>1, <1>2, PTL

\* cpu_run keeps its budget and reports an early end also where it shares the
\* machine with the emulator's loop.
THEOREM DriversKeepBudget == DriversSpec => [](BudgetKept /\ EarlyEndReported)
<1>1. DriversSpec => []DriversInv
  BY DriversInitOK, DriversStepOK, PTL DEF DriversSpec
<1>2. DriversInv => BudgetKept /\ EarlyEndReported
  BY DEF DriversInv, RunInv
<1> QED BY <1>1, <1>2, PTL

\* What cpu_run returns is the status of the last instruction, unless the call
\* had no budget (cpu.c:78-101): the emulator executes instructions too, but
\* then nobody calls cpu_run.
OnlyRunHasBudget == budget > 0 => driver = "cpu_run"

ResultInv == ResultIsStatus /\ OnlyRunHasBudget

LEMMA ResultInitOK == DriversInit => ResultInv
<1> SUFFICES ASSUME DriversInit PROVE ResultInv
  OBVIOUS
<1>1. budget = 0 /\ result = 0 /\ status = 0
  BY DEF DriversInit, RunInit, Init
<1> QED BY <1>1 DEF ResultInv, ResultIsStatus, OnlyRunHasBudget

LEMMA ResultStepOK ==
  ASSUME DriversInv, ResultInv, [DriversNext]_driversVars
  PROVE  ResultInv'
<1>1. budget \in Int
  BY DEF DriversInv, RunInv, RunTypeOK
<1>2. CASE driver = "cpu_run" /\ RunNext /\ ShellIdle
  <2>1. OnlyRunHasBudget'
    BY <1>2 DEF ShellIdle, OnlyRunHasBudget
  <2>2. ASSUME NEW cycles \in Budgets, CallEmpty(cycles) PROVE ResultIsStatus'
    BY <2>2 DEF CallEmpty, ResultIsStatus
  <2>3. ASSUME NEW cycles \in Budgets, CallRun(cycles) PROVE ResultIsStatus'
    BY <2>3 DEF CallRun, ResultIsStatus
  <2>4. CASE Turn
    <3>1. running' \/ result' = status'
      BY <2>4 DEF Turn, Account
    <3> QED BY <2>1, <3>1 DEF ResultIsStatus, ResultInv
  <2> QED BY <1>2, <2>1, <2>2, <2>3, <2>4 DEF RunNext, ResultInv
<1>3. CASE ShellTurn
  <2>1. driver = "emu8080" /\ budget' = budget /\ driver' = driver
    BY <1>3 DEF ShellTurn, RunIdle
  <2>2. budget <= 0
    BY <1>1, <2>1 DEF ResultInv, OnlyRunHasBudget
  <2> QED BY <2>1, <2>2, <1>1 DEF ResultInv, ResultIsStatus, OnlyRunHasBudget
<1>4. CASE UNCHANGED driversVars
  BY <1>4 DEF driversVars, runVars, vars, ResultInv, ResultIsStatus, OnlyRunHasBudget
<1> QED BY <1>2, <1>3, <1>4 DEF DriversNext

\* Whatever the driver and the calls, no call that had a budget returns anything
\* but the status of the instruction executed last, and a negative one when
\* it ended with budget left (cpu.c:80-101).
THEOREM ResultsAreReported == DriversSpec => []ResultReported
<1>1. DriversSpec => []DriversInv
  BY DriversInitOK, DriversStepOK, PTL DEF DriversSpec
<1>2. DriversSpec => []ResultInv
  BY <1>1, ResultInitOK, ResultStepOK, PTL DEF DriversSpec
<1>3. DriversInv /\ ResultInv => ResultReported
  BY DEF DriversInv, RunInv, ResultInv, ResultReported
<1> QED BY <1>1, <1>2, <1>3, PTL

LEMMA DriversHaltStepOK ==
  ASSUME HaltInv, [DriversNext]_driversVars
  PROVE  HaltInv' /\ [status = -2 /\ pc \in DOMAIN mem => UNCHANGED vars]_vars
<1>1. CASE RunNext
  BY <1>1, HaltStepOK
<1>2. CASE ShellTurn
  BY <1>2, HaltNextOK DEF ShellTurn, Iterate
<1>3. CASE UNCHANGED driversVars
  BY <1>3, HaltStepOK DEF driversVars
<1> QED BY <1>1, <1>2, <1>3 DEF DriversNext

\* Whoever drives the machine, a program that has halted stays halted.
THEOREM DriversHaltStays == DriversSpec => HaltIsFinal
<1>1. DriversSpec => []HaltInv
  <2>1. DriversInit => HaltInv
    BY HaltInitOK DEF DriversInit
  <2> QED BY <2>1, DriversHaltStepOK, PTL DEF DriversSpec
<1>2. HaltInv /\ [DriversNext]_driversVars
        => [status = -2 /\ pc \in DOMAIN mem => UNCHANGED vars]_vars
  BY DriversHaltStepOK
<1> QED BY <1>1, <1>2, PTL DEF DriversSpec, HaltIsFinal

---------------------------------------------------------------------------
(* The lengths of the disassembler.                                         *)

\* The two middle quarters, MOV and the accumulator, are one byte long.
LEMMA MiddleOneByte == ASSUME NEW op \in \h40..\hBF PROVE T!OpBytes(op) = 1
  BY DEF T!OpBytes, T!ThreeBytes, T!TwoBytes

\* What goes on behind one byte of the middle quarters follows the listing.
LEMMA MiddleFollows ==
  ASSUME NEW op, op \in \h40..\hBF, pc' = (pc + 1) % 65536
  PROVE  Follows(op)
  BY MiddleOneByte DEF Follows

\* The first quarter: operands that are stepped over.
LEMMA LoadsFollow ==
  ASSUME NEW op, \/ Nop(op) \/ Lxi(op) \/ LxiSp(op) \/ StoreA(op) \/ LoadA(op) \/ Lhld(op)
  PROVE  op \in Odd \/ Follows(op)
<1>1. CASE Nop(op)
  BY <1>1 DEF Nop, Follows, Retire, Odd, T!OpBytes, T!ThreeBytes, T!TwoBytes
<1>2. CASE Lxi(op)
  BY <1>2 DEF Lxi, Follows, Retire, Odd, T!OpBytes, T!ThreeBytes, T!TwoBytes
<1>3. CASE LxiSp(op)
  BY <1>3 DEF LxiSp, Follows, Retire, Odd, T!OpBytes, T!ThreeBytes, T!TwoBytes
<1>4. CASE StoreA(op)
  BY <1>4 DEF StoreA, Follows, Retire, Odd, T!OpBytes, T!ThreeBytes, T!TwoBytes
<1>5. CASE LoadA(op)
  BY <1>5 DEF LoadA, Follows, Retire, Odd, T!OpBytes, T!ThreeBytes, T!TwoBytes
<1>6. CASE Lhld(op)
  BY <1>6 DEF Lhld, Follows, Retire, Odd, T!OpBytes, T!ThreeBytes, T!TwoBytes
<1> QED BY <1>1, <1>2, <1>3, <1>4, <1>5, <1>6

LEMMA MviFollows == ASSUME NEW op, Mvi(op) PROVE Follows(op)
<1>1. op \in {\h06, \h0E, \h26, \h2E, \h3E} /\ pc' = (pc + 2) % 65536
  BY CodesOfRegs DEF Mvi, RegName, Retire
<1>2. T!OpBytes(op) = 2
  BY <1>1 DEF T!OpBytes, T!ThreeBytes, T!TwoBytes
<1> QED BY <1>1, <1>2 DEF Follows

LEMMA InrDcrFollows == ASSUME NEW op, InrDcr(op) PROVE Follows(op)
<1>1. /\ op \in {\h0C, \h2C, \h3C, \h0D, \h25, \h2D, \h3D, \h05, \h1D}
      /\ pc' = (pc + 1) % 65536
  BY CodesOfRegs DEF InrDcr, Retire
<1>2. T!OpBytes(op) = 1
  BY <1>1 DEF T!OpBytes, T!ThreeBytes, T!TwoBytes
<1> QED BY <1>1, <1>2 DEF Follows

\* The rest of the first quarter has no operands.
LEMMA CountersFollow ==
  ASSUME NEW op, \/ Inx(op) \/ StepSp(op) \/ DcxD(op) \/ Dad(op) \/ CountHL(op) \/ Rotate(op)
  PROVE  Follows(op)
<1>1. CASE Inx(op)
  BY <1>1 DEF Inx, Follows, Retire, T!OpBytes, T!ThreeBytes, T!TwoBytes
<1>2. CASE StepSp(op)
  BY <1>2 DEF StepSp, Follows, Retire, T!OpBytes, T!ThreeBytes, T!TwoBytes
<1>3. CASE DcxD(op)
  BY <1>3 DEF DcxD, Follows, Retire, T!OpBytes, T!ThreeBytes, T!TwoBytes
<1>4. CASE Dad(op)
  BY <1>4 DEF Dad, Follows, Retire, T!OpBytes, T!ThreeBytes, T!TwoBytes
<1>5. CASE CountHL(op)
  BY <1>5 DEF CountHL, Follows, Retire, T!OpBytes, T!ThreeBytes, T!TwoBytes
<1>6. CASE Rotate(op)
  BY <1>6 DEF Rotate, Follows, Retire, T!OpBytes, T!ThreeBytes, T!TwoBytes
<1> QED BY <1>1, <1>2, <1>3, <1>4, <1>5, <1>6

LEMMA MovesFollow ==
  ASSUME NEW op, \/ MovBC(op) \/ MovDE(op) \/ MovHL(op) \/ MovA(op) \/ MovToM(op)
  PROVE  Follows(op)
<1>1. op \in \h40..\hBF /\ pc' = (pc + 1) % 65536
  <2>1. CASE MovBC(op)
    BY <2>1, CodesOfRegs DEF MovBC, IsMov, IsMovM, Retire, RegName
  <2>2. CASE MovDE(op)
    BY <2>2, CodesOfRegs DEF MovDE, IsMov, IsMovM, Retire, RegName
  <2>3. CASE MovHL(op)
    BY <2>3, CodesOfRegs DEF MovHL, IsMov, IsMovM, Retire, RegName
  <2>4. CASE MovA(op)
    BY <2>4, CodesOfRegs DEF MovA, IsMov, IsMovM, Retire, RegName
  <2>5. CASE MovToM(op)
    BY <2>5, CodesOfRegs DEF MovToM, IsMov, IsMovM, Retire, RegName
  <2> QED BY <2>1, <2>2, <2>3, <2>4, <2>5
<1> QED BY <1>1, MiddleFollows

LEMMA AccumulatorFollows ==
  ASSUME NEW op, \/ Add(op) \/ Adc(op) \/ Sub(op) \/ Sbb(op)
                 \/ Ana(op) \/ Xra(op) \/ Ora(op) \/ Cmp(op)
  PROVE  Follows(op)
<1>1. op \in \h40..\hBF /\ pc' = (pc + 1) % 65536
  <2>1. CASE Add(op)
    BY <2>1, CodesOfRegs DEF Add, Retire, RegName
  <2>2. CASE Adc(op)
    BY <2>2, CodesOfRegs DEF Adc, Retire, RegName
  <2>3. CASE Sub(op)
    BY <2>3, CodesOfRegs DEF Sub, Retire, RegName
  <2>4. CASE Sbb(op)
    BY <2>4, CodesOfRegs DEF Sbb, Retire, RegName
  <2>5. CASE Ana(op)
    BY <2>5, CodesOfRegs DEF Ana, Retire, RegName
  <2>6. CASE Xra(op)
    BY <2>6, CodesOfRegs DEF Xra, Retire, RegName
  <2>7. CASE Ora(op)
    BY <2>7, CodesOfRegs DEF Ora, Retire, RegName
  <2>8. CASE Cmp(op)
    BY <2>8, CodesOfRegs DEF Cmp, Retire, RegName
  <2> QED BY <2>1, <2>2, <2>3, <2>4, <2>5, <2>6, <2>7, <2>8
<1> QED BY <1>1, MiddleFollows

\* The last quarter: what goes on behind the instruction.
LEMMA StraightFollow ==
  ASSUME NEW op, \/ Immediate(op) \/ NoEffect(op) \/ Interrupts(op) \/ PushPair(op)
                 \/ PushB(op) \/ Pop(op) \/ PopPsw(op) \/ Xthl(op) \/ Sphl(op) \/ Cpi(op)
  PROVE  op \in Odd \/ Follows(op)
<1>1. CASE Immediate(op)
  BY <1>1 DEF Immediate, Follows, Retire, Odd, T!OpBytes, T!ThreeBytes, T!TwoBytes
<1>2. CASE NoEffect(op)
  BY <1>2 DEF NoEffect, Follows, Retire, Odd, T!OpBytes, T!ThreeBytes, T!TwoBytes
<1>3. CASE Interrupts(op)
  BY <1>3 DEF Interrupts, Follows, Retire, Odd, T!OpBytes, T!ThreeBytes, T!TwoBytes
<1>4. CASE PushPair(op)
  BY <1>4 DEF PushPair, Follows, Retire, Odd, T!OpBytes, T!ThreeBytes, T!TwoBytes
<1>5. CASE PushB(op)
  BY <1>5 DEF PushB, Follows, Retire, Odd, T!OpBytes, T!ThreeBytes, T!TwoBytes
<1>6. CASE Pop(op)
  BY <1>6 DEF Pop, Follows, Retire, Odd, T!OpBytes, T!ThreeBytes, T!TwoBytes
<1>7. CASE PopPsw(op)
  BY <1>7 DEF PopPsw, Follows, Retire, Odd, T!OpBytes, T!ThreeBytes, T!TwoBytes
<1>8. CASE Xthl(op)
  BY <1>8 DEF Xthl, Follows, Retire, Odd, T!OpBytes, T!ThreeBytes, T!TwoBytes
<1>9. CASE Sphl(op)
  BY <1>9 DEF Sphl, Follows, Retire, Odd, T!OpBytes, T!ThreeBytes, T!TwoBytes
<1>10. CASE Cpi(op)
  BY <1>10 DEF Cpi, Follows, Retire, Odd, T!OpBytes, T!ThreeBytes, T!TwoBytes
<1> QED BY <1>1, <1>2, <1>3, <1>4, <1>5, <1>6, <1>7, <1>8, <1>9, <1>10

\* The branches: an operand is the address of a jump or a call that is taken,
\* and read from the memory the call has pushed into.
LEMMA BranchesFollow ==
  ASSUME NEW op, \/ Jump(op) \/ JumpP(op) \/ Call(op) \/ Ret(op) \/ Rst(op)
  PROVE  op \in Odd \/ Follows(op)
<1>1. CASE Jump(op)
  BY <1>1 DEF Jump, JumpIf, Address, Branches, Goto,
              Follows, Retire, Odd, T!OpBytes, T!ThreeBytes, T!TwoBytes
<1>2. CASE JumpP(op)
  BY <1>2 DEF JumpP, Odd
<1>3. CASE Call(op)
  BY <1>3 DEF Call, CallIf, Branches, Goto,
              Follows, Retire, Odd, T!OpBytes, T!ThreeBytes, T!TwoBytes
<1>4. CASE Ret(op) \/ Rst(op)
  BY <1>4 DEF Ret, Rst, Follows, Returns
<1> QED BY <1>1, <1>2, <1>3, <1>4

LEMMA ExecFollows ==
  ASSUME NEW op, Exec(op), status' >= 0
  PROVE  op \in Odd \/ Follows(op)
<1>1. ~Hlt(op) /\ ~Unimplemented(op)
  BY DEF Hlt, Unimplemented, Trap
<1> QED
  BY <1>1, LoadsFollow, MviFollows, InrDcrFollows, CountersFollow, MovesFollow,
     AccumulatorFollows, StraightFollow, BranchesFollow DEF Exec

LEMMA StepsFollow ==
  ASSUME [DriversNext]_driversVars
  PROVE  [status' >= 0 /\ pc \in DOMAIN mem => mem[pc] \in Odd \/ Follows(mem[pc])]_vars
<1>1. Next \/ UNCHANGED vars
  BY DEF DriversNext, driversVars, runVars, RunNext, CallEmpty, CallRun, Turn, ShellTurn, Iterate
<1>2. ASSUME Next, pc \in DOMAIN mem, status' >= 0
      PROVE  mem[pc] \in Odd \/ Follows(mem[pc])
  <2>1. Read(pc) = {mem[pc]}
    BY <1>2 DEF Read, ReadIn
  <2> QED BY <1>2, <2>1, ExecFollows DEF Next
<1> QED BY <1>1, <1>2

\* CPU and disassembler share no table, and agree all the same on the length of
\* every instruction but those in Odd: in whatever program and state, under
\* either driver, execution goes on where the listing has its next line
\* (disassem.c:7), unless the instruction names another place to go.
THEOREM LengthsFit == DriversSpec => LengthsAgree
<1>1. [DriversNext]_driversVars
        => [status' >= 0 /\ pc \in DOMAIN mem => mem[pc] \in Odd \/ Follows(mem[pc])]_vars
  BY StepsFollow
<1> QED BY <1>1, PTL DEF DriversSpec, LengthsAgree
=============================================================================
