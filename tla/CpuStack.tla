------------------------------ MODULE CpuStack ------------------------------
(***************************************************************************)
(* The stack instructions of cpu_exec, watched by history variables that   *)
(* remember which words the program has saved and not taken back.  The     *)
(* machine of Cpu is unchanged; every step of it is also a step here.      *)
(*                                                                         *)
(* SaveOps and RestoreOps are the opcodes taken for stack instructions.    *)
(***************************************************************************)
EXTENDS Cpu, Sequences

CONSTANTS SaveOps, RestoreOps

VARIABLES
    saved,      \* [word, from] of each word on the stack, the latest last
    restored    \* the word the last restoring instruction took back

stackVars == <<reg, sp, pc, mem, cc, int_enable, status, saved, restored>>

CallOps == {\hCD, \hC4, \hCC, \hCA}

\* from is the address of the call that saved the word, or NotACall.
NotACall == -1

StackInit == Init /\ saved = <<>> /\ restored = 0

\* JZ (0xCA) is among the calls: the code pushes a return address for it.
Saves(op) ==
    /\ op \in SaveOps
    /\ op = \hC4 => cc.z = 0
    /\ op \in {\hCA, \hCC} => cc.z = 1

\* The word a saving instruction is meant to put on the stack.
SavedWord(op) ==
    CASE op = \hC5 -> Pair("b", "c")
      [] op = \hD5 -> Pair("d", "e")
      [] op = \hE5 -> HL
      [] op = \hF5 -> MkWord(reg["a"], PackPsw(cc))
      [] OTHER -> ReturnAddress

Restores(op) == op \in RestoreOps /\ (op = \hC8 => cc.z = 1)

\* The word a restoring instruction has just taken from memory: the pair it
\* loaded, or for a return the address from which execution goes on.
TakenWord(op) ==
    CASE op = \hC1 -> MkWord(reg'["b"], reg'["c"])
      [] op = \hD1 -> MkWord(reg'["d"], reg'["e"])
      [] op = \hF1 -> MkWord(reg'["a"], PackPsw(cc'))
      [] OTHER -> (pc' - 1) % 65536

\* The bytes of the saved words are those from sp upwards.
Live == sp .. (sp + 2 * Len(saved) - 1)

Untouched == sp' = sp /\ \A x \in Live : mem'[x] = mem[x]

AllButLast(s) == [i \in 1..(Len(s) - 1) |-> s[i]]

\* A push with sp below 2 runs off the bottom of memory.
Track(op) ==
    IF Saves(op) /\ sp >= 2
      THEN /\ saved' = Append(saved,
                         [word |-> SavedWord(op),
                          from |-> IF op \in CallOps THEN pc ELSE NotACall])
           /\ UNCHANGED restored
    ELSE IF Restores(op) /\ saved # <<>>
      THEN saved' = AllButLast(saved) /\ restored' = TakenWord(op)
    ELSE /\ saved' = IF Untouched THEN saved ELSE <<>>
         /\ UNCHANGED restored

StackNext == \E op \in Read(pc) : Exec(op) /\ Track(op)

StackSpec == StackInit /\ [][StackNext]_stackVars

---------------------------------------------------------------------------
\* The memory from sp upwards holds the saved words, the latest lowest, each
\* low byte first: no push, pop, call or return of cpu_exec disturbs another's
\* word, and sp always points at the latest one.
StackIntact ==
    \A i \in 1..Len(saved) :
        LET at == sp + 2 * (Len(saved) - i)
        IN  /\ at + 1 \in Word
            /\ {at, at + 1} \subseteq DOMAIN mem
            /\ MkWord(mem[at + 1], mem[at]) = saved[i].word

\* A return that takes back the word of a call goes on after that call's
\* three bytes (cpu.c:1430-1436 against 1467-1501: the call saves pc + 2 and
\* the pc += 1 at the end of cpu_exec supplies the third byte).
ReturnsAfterCall ==
    [][ /\ pc \in DOMAIN mem
        /\ mem[pc] \in {\hC9, \hC8}
        /\ Len(saved') < Len(saved)
        /\ saved[Len(saved)].from # NotACall
        => pc' = (saved[Len(saved)].from + 3) % 65536]_stackVars

\* A call that is taken goes where its operand says, unless the stack has come
\* down to it: the return address is stored before the operand is read
\* (cpu.c:1495-1499).  Where it falls just on the operand the call forgets
\* where it was to go and goes on behind itself, as if it had been skipped.
CallsGoWhereTold ==
    [][ /\ pc .. (pc + 2) \subseteq DOMAIN mem
        /\ mem[pc] \in CallOps
        /\ sp' # sp
        => /\ {sp - 2, sp - 1} \cap {pc + 1, pc + 2} = {}
              => pc' = (MkWord(mem[pc + 2], mem[pc + 1]) + 1) % 65536
           /\ sp = pc + 3 => pc' = (pc + 3) % 65536 ]_stackVars

\* The words themselves behave as the abstract stack.
Abstract == INSTANCE WordStack WITH
    Words <- Word,
    stack <- [i \in 1..Len(saved) |-> saved[i].word]

RefinesWordStack == Abstract!Spec
=============================================================================
