# TLA+ models of s8080

This directory specifies the Intel 8080 emulator and assembler of this
repository in TLA+. TLC checks the models on small instances, and TLAPS proves
the theorems about them for every program, source and call. The reference is the
code under `src/`: each definition says what the code does, also where a comment
or a test says otherwise. Paths below are those of the repository
(`src/cpu.c`, `tools/emu8080.c`, ...); in `PROJECT.json` they have the prefix
`src/` of the tree that holds it.

## 1. The system

| part | code | state it keeps | operations | works with |
|---|---|---|---|---|
| CPU | `src/cpu.c`, `src/cpu.h` | registers, flags, `sp`, `pc`, 64K memory, interrupt enable | `cpu_create`, `cpu_exec`, `cpu_run`, flag helpers | called by `emu8080` |
| Emulator | `tools/emu8080.c`, `src/emu_utils.c` | status and call count in locals | load a program file, execute until stopped | CPU, disassembler |
| Disassembler | `src/disassem.c`, `tools/dis8080.c` | none (a position in the file) | `disassemble_8080_op` prints one instruction and returns its length | shares its notion of lengths with the CPU |
| Lexer | `src/lexer.c`, `src/lexer.h` | source text, cursor, line and column, address, current line, symbol table, source representation | `lex_read_file`, `lex_all`, `lex_line`, `lex_next_token`, operand parsers, `lex_resolve_labels` | fills the tables the assembler reads |
| Symbol table | `src/lexer.c` | entries up to a fixed size | create, add, get by index, get by name, destroy | lexer |
| Source representation | `src/source.c` | lines up to a fixed size, each with a byte list | fill in a line, create, add, edit, get, clone, destroy | filled by the lexer, read by the assembler |
| Opcode tables | `src/opcode.c`, `src/opcode.h` | mnemonics with codes, constant once made | lookup by code and by name | lexer |
| Assembler | `src/assembler.c`, `tools/asm8080.c` | source representation, instructions, one instruction under way | `assembler_assem`, `assembler_assem_line`, one encoder per group | lexer before it, instruction vector behind it |
| Byte list | `src/list.c` | doubly linked nodes on the heap, a count | create, append data, append a node, remove, get, copy, destroy | `DB`/`DW` data of a line |
| Vectors | `src/vector.c`, `src/instr.c` | block, size, capacity | push back, extend, insert, init, get | output of the assembler |
| Display | `src/display.c` | an SDL surface | draw the video memory | no tool calls it |

The program is single-threaded and persists nothing. What is hard in it:

* **long sequences of legal calls**: the stack instructions must fit one another
  in order, width and direction over any nesting; `cpu_run` may be called again
  in any state, also after a halt or a trap;
* **one piece of knowledge in several places**: instruction lengths in the CPU
  and in the disassembler, instruction sizes in the lexer (addresses) and in the
  assembler (bytes), mnemonics and registers in the tables of lexer, assembler
  and disassembler, labels in the symbol table and in the lines;
* **things used before or after they are right**: a forward reference, a label
  on a line that turns out to be in error, flags taken from an accumulator that
  has not been assigned, a call whose own push overwrites its operand;
* **widths**: 8, 16 and 32 bits, carries and borrows, `sp` and `pc` at both ends
  of memory, addresses computed in `int`;
* **limits**: the tables of the lexer have as many entries as the file has
  newlines, the clock budget of `cpu_run`, the call limit of the emulator, the
  blocks of the vectors, memory itself;
* **ownership**: who frees a node or a line, and how often; ends and counts of
  lists kept by hand;
* **termination**: instructions that take no time, a cursor that does not move.

`PROJECT.json` lists every hazard at its line with the properties aimed at it.

## 2. Modules

| module | models | extends / uses |
|---|---|---|
| `Alu` | flag helpers of `cpu.h` and what each accumulator instruction computes, at C widths | |
| `AluRef` | `Alu` against arithmetic on numbers | `Alu` |
| `Cpu` | `cpu_exec`: one action per group of cases, `Init` is `cpu_create` and the loaded program | `Alu` |
| `WordStack` | abstract: a last-in first-out stack of words | |
| `CpuStack` | `Cpu` with history variables for the saved words; refines `WordStack` | `Cpu` |
| `CpuRun` | `cpu_run`, called any number of times | `Cpu` |
| `EmuShell` | the loop of `emu8080` | `Cpu` |
| `Drivers` | the machine under either of its drivers, `cpu_run` or `emu8080` | `CpuRun`, `EmuShell` |
| `DisTable` | what `disassemble_8080_op` says of each opcode: length, mnemonic, registers, operand | |
| `Disassem` | instruction lengths of the disassembler beside the machine | `Cpu`, `DisTable` |
| `Opcodes` | the opcode and directive tables and the search in them | |
| `Lexer` | `lex_read_file` (sizes), `lex_all` and all it calls | `Opcodes` |
| `Assembler` | `assembler_assem` behind `lex_all`, as `asm8080` composes them | `Lexer`, `Alu` |
| `Sweep` | `dis8080` behind both, over the bytes of the instructions | `Assembler`, `DisTable` |
| `ByteSeq` | abstract: byte lists are sequences, out of one memory | |
| `ByteList` | `list.c` pointer by pointer; refines `ByteSeq` | `ByteSeq` |
| `Source` | `source.c`: SourceInfos, their slots and lines | |
| `Vectors` | `vector.c` and `InstrBuffer`: growing and bounded containers | |
| `Programs` | helpers to build program images for the runs | |
| `MC*` | constants and bounds of the runs | |
| `*_proof` | theorems and their proofs | the module they are about |

### Correspondence of state

`Cpu`: `reg`, `sp`, `pc`, `cc`, `int_enable` are the fields of `CPUState`;
`status` is the value `cpu_exec` returned last. `mem` is a partial function:
its domain is what has been loaded or stored, and every other byte of the buffer
is what `malloc` left there, so reading it gives *any* member of `Uninit`
(undefined in C, a choice in the model). The code computes addresses such as
`sp-1`, `sp+1` and `pc+2` in `int`; they may leave the buffer. Such a read also
gives any member of `Uninit`, and such a write leaves `mem` alone.
Each action is one or several `case`s of the switch together with the common
`pc += 1` at its end (`Retire(n, t)` moves `pc` by `n` in all; `Goto(a, t)` sets
`pc` to `a` and then adds one). Opcodes are grouped by what they do; `Missing`
are the opcodes that trap. `cpu_shift_register` is left out of `CpuRun`: its
conditions cannot hold, so it never assigns anything.

`CpuStack` adds `saved`, the words pushed and not yet popped with the call each
came from, and `restored`. They watch and never restrict: an instruction that
moves `sp` otherwise, or writes into the saved words, makes `saved` empty
(`Track`), since the program has then given its stack up. `SaveOps` and
`RestoreOps` say which opcodes count as stack instructions.

`CpuRun`: `running`, `budget`, `exec_cycles` are the activation of `cpu_run`,
`result` what it returned. With a budget that is not positive the code returns an
uninitialised local: any member of `Garbage`.

`Drivers`: a behaviour has one `driver`, and the variables of the other one do not
move. A finished emulator stutters, so that TLC's deadlock check stays on.

`Opcodes`: a code is the name of its enumerator. `InstrTable` has the two slips
of `LEX_INSTRUCTIONS`: no entry for `OUT`, and `SBI` under the mnemonic `SBB`, so
that neither word is ever an instruction.

`Lexer`: `source` is the file as a sequence of items (words, literals, strings and
pieces of layout), made of the words in `Words`; `cursor` is `cur_pos`, `lines` is
`source_repr`, `symbols` is `sym_table`. What a word is (register, directive, instruction, label) is decided
as in `lex_next_token`, by `Kind`. Characters, columns and messages are
abstracted; what the reading of characters decides is kept: which blanks the
scanner steps over and which it leaves, newlines within a statement, a comment or
an exclamation mark in place of an operand, the length of a string, mnemonics that
have no case of their own.
Names match as `strncmp` with the length of the reference does
(`PrefixPairs`: a pair for every name and every name that begins with it); entries
are copied without a terminator, so an entry may also match as if it went on (`stray`).
In the properties `Targets` are the lines such a lookup may take for the label's. The register of a line in error is not
followed, because such a line is never assembled.

`Assembler`: `lines` are read one by one (`current`), `instrs` is the instruction
vector, each with address and bytes. `asm_reg_to_code` is indexed past its end
for `SP` and `PSW`: any member of `PastTable`.

`DisTable` reads an opcode as the processor does, two bits for the quarter and
three each for row and column; where the 256 cases of the switch depart from the
columns, so do the tables. `Sweep`: `at` is the `pc` of `dis8080`, `listing` what
has been printed, as mnemonic, registers and operand bytes. `asm8080` writes no
file, so the bytes of its instructions, one behind the other, stand for it.

`ByteList`: `heap` maps allocated addresses to nodes, `list` has `first` and `len`
of each list, `held` are the nodes a program has made and not handed over. A
new node gets the lowest free address, since nothing depends on which it is.
`fate` is "crashed" behind a NULL pointer written through, "undefined" behind a
pointer that was never initialised; nothing happens after either. Destroying,
copying and removing follow exactly the pointers the code follows.

`Source`: a line is one address with its contents (opcode, strings and byte list
come and go with it; `number` stands for the fields that are simply assigned),
`text_seg` the scratch line, `info` the slots and size of each SourceInfo. New
lines get any free addresses, in any order, since a clone compares and shares
addresses. `Created` has the outcomes of a memory that ends on the way. `fate` says how a
program went wrong: a slot outside the buffer, a line freed before, a NULL. The
history variable `calls` remembers the odd kinds of call (edit, clone, reading by
index, destroying an empty info, memory short), so that the properties can say
which of them an error needs; `given` has the lines that were added.

`Vectors`: `kind` chooses among ByteVector, InstrVector and InstrBuffer; `block`
is the memory, where `Undef` was never written. An item is an instruction as far
as `instr_copy` tells its parts apart: `code` stands for `instr` and `addr`, which
it copies, `size` for the field it does not. The vectors copy all of an item,
an InstrBuffer (`Copied`) leaves in `size` what `instr_create` left there, which is
nothing (`Created`). A byte is an item of size 1. A push that wants to grow may
find no memory (`starved`), and writes all the same.

Operators marked *Seeded bug* are variants of a definition with a plausible
mistake. Nothing uses them; substituted for the original they make a property
fail, which shows that the property can.

## 3. Runs

All runs finish in under three minutes with two workers.

| run | instance | checks and shows |
|---|---|---|
| `stack` | all 4-instruction programs over 12 instructions (`CALL`, `CNZ`, `CZ`, `PUSH D/H/PSW`, `POP B`, `RET`, `RZ`, `SUB A`, `MOV M,A` into the stack, `INX SP`), stack clear of the code (4096) or running off the bottom of memory and into the code (3); all 2-instruction programs with a stack whose first word falls on the first instruction, on one or both bytes of its operand (12 to 14) | `StackIntact`: the memory from `sp` upwards holds exactly the saved words; `CallsGoWhereTold`: a call goes to its operand unless its own push overwrites it, and on behind itself where the push covers it; `ReturnsAfterCall`: a return resumes behind the three bytes of its call; `RefinesWordStack`; `TypeOK` |
| `drivers` | all 3-instruction programs over 11 instructions with times 0 to 16, halts, traps, loops; all 4-byte programs over 4 instructions that end a loop or do not; every opcode behind up to four settings of the flags; budgets 0, 1, 20, limit 6 | `BudgetKept`, `HaltIsFinal`; `ResultReported`: what a call returns is the last status unless it had no budget, and negative when it ended early; `ReturnsOrSpins` (liveness): a call returns or executes only instructions without a time; `EmulatorExits` (liveness): the emulator exits on every program; `LengthsAgree`: but for the exceptions below the CPU moves `pc` by the disassembler's length; `DriversTypeOK` |
| `alu` | every pair of bytes, both carries | `AddExact`, `SubExact`, `LogicExact` against numbers; in `LogicExact` also `FlagsFollow`: which logic instructions take their flags from the result and which, `ANI`, `ORI`, `XRA M`, `ORA M` and `CMP M`, from the accumulator before it |
| `toolchain` | one line of every mnemonic with every register; all sources of 1 or 2 of 27 kinds of lines; of 3 of the 12 that move addresses, define or use labels, or fail, and of one of these between two of the others; the labels `X`, `Y` and `XY`; start at 254 | `SymbolsFaithful`, `ResolvedToLabel`, `LinesKept`, `LayoutAgrees`, `CallReachesLabel`, `ListingShowsSource`, `AssemblyEnds` (liveness: lexer and assembler end on every source), `LexTypeOK`, `AsmTypeOK` |
| `list` | two lists over four nodes, all calls in any order | `LinksSound`, `NothingLeaked`, `RemovalsCrash` (exactly which removals follow NULL), `ListsAreSequences` (refinement of `ByteSeq`), `ListTypeOK` |
| `source` | two SourceInfos of 1 or 2 lines, four lines of memory, all calls in any order | `LinesAsGiven`, `ArraysPileUp` (edits leave the byte arrays of what they edit), and which calls it takes to leave the buffer (`InsideUntilEdited`), to free twice or follow NULL (`FreedOnce`), to lose a line (`LinesReachable`); `SourceTypeOK` |
| `vectors` | the three containers created for 0 to 3, arrays of up to 5, up to 8 elements | `WritesInside`, `HoldsWhatWasPushed` (an InstrBuffer: all but the sizes), `NeverFull`, `GrowsTwofold`, `VectorTypeOK` |

Five more runs each show one statement of the repository that the code does not
keep (section 5).

### Bounds and why they are enough

* Programs of four slots contain every pair and triple of stack instructions,
  with a disturber between any two; the fourth is needed for a call, its
  subroutine's save and restore, and the return. `MaxSaved` (4) cuts recursion
  that only repeats itself deeper, `MaxDrift` (10) an `INX SP` in a loop.
  `Bounded` also stops where execution leaves the bytes of the program (it would
  execute unknown memory) or runs the prologue again. `Uninit` has one member
  in most runs: which byte it is only selects the program that unknown memory
  continues with. The proofs have no such restriction.
* Budgets 0, 1 and 20 are: no loop, ended by the first timed instruction, ended
  in the middle of a mixture of several.
* `Limit` 6 stands for the 200 000 of `TEST_CYCLE_LIMIT`: the loop counts one
  by one and compares, so that the distance to the limit has no other effect.
* Three lines are enough for a label, its reference and a line between or
  beside them that changes addresses or fails; `Starts` = {254} makes the sizes
  of a line or two cross a byte boundary. `PastTable` {0, 255} are the extremes
  of an unknown byte that is or-ed into an opcode. Each kind of line that the
  lexer counts wrongly (`Miscounted`: `DS`, `END`, `SET`; `ORG` is lexed the same
  way) is among the 27, before, behind and between the others.
* Four nodes are a list of three, with one before, between and behind to remove,
  beside another list, and a memory that is then full. Which byte a node holds
  matters to no operation, but chunks that have been set to zero and those that
  have not tell the order apart.
* Two SourceInfos are what cloning needs; a buffer of two lines has a filled and
  an empty slot at once; four lines of memory are two full infos, so that making
  a third line too many runs short. `MaxSize`, `MaxArrays` cut edits that only
  repeat; `MaxCalls` (2) ends a behaviour after two kinds of odd call, since
  each property excuses at most three and an error needs one. Lines are
  interchangeable, and so are the infos, so the run uses them as symmetric model
  values; it checks invariants only.
* Capacities 0 to 3 with arrays of up to 5 include every order of size,
  capacity, twice the capacity and the length asked for.
* `AluRef`, and the opcodes of `drivers` and `toolchain`, are exhaustive.

`CHECK_DEADLOCK FALSE` is set where the program ends: `lex_all` and
`assembler_assem` return, `dis8080` exits, a list or an info is past undefined
behaviour, a container destroyed. The machine itself never deadlocks: each opcode
has an action.

### Fairness

The code is one thread that nothing interrupts, so a call that has begun is
carried on: weak fairness of the next step (`RunTurn`, one turn of the loop of
`cpu_run`, and `ShellTurn`, one of `emu8080`, in `DriversSpec`; `Iterate` in
`ShellSpec`; the next-state relation in `LexSpec`, `AsmSpec` and `SweepSpec`).
Nothing is assumed of the caller of `cpu_run`: it need never call. The containers
only do what they are told, and have no liveness.

## 4. Proofs

TLAPS proves, for every set of program images and every content of uninitialised
memory, every set of source files, and lists, source representations and
containers of any number and size:

| theorem | states | module |
|---|---|---|
| `TypeCorrect` | `Spec => []TypeOK`: registers, flags, `sp`, `pc` and memory keep their C widths, the status is -2, -1 or 0 to 17 | `Cpu_proof` |
| `RunKeepsBudget` | `RunSpec => []BudgetKept`: `cpu_run` exceeds its budget by less than one instruction | `Drivers_proof` |
| `RunReportsEarlyEnd` | `RunSpec => []EarlyEndReported`: a call that ends early returns a negative status | `Drivers_proof` |
| `HaltStays` | `RunSpec => HaltIsFinal`: once halted, nothing changes, however often `cpu_run` is called | `Drivers_proof` |
| `StackStaysIntact` | `StackSpec => []StackIntact`: the saved words are in memory from `sp` upwards | `CpuStack_proof` |
| `ReturnsFindCalls` | `StackSpec => ReturnsAfterCall`: a return goes on behind the call whose word it takes | `CpuStack_proof` |
| `CallsFollowOperand` | `StackSpec => CallsGoWhereTold`: a call goes to its operand, unless its push overwrites it | `CpuStack_proof` |
| `StackIsLifo` | `StackSpec => RefinesWordStack`: the words behave as `WordStack` | `CpuStack_proof` |
| `ResultsAreReported` | `DriversSpec => []ResultReported`: a call that had a budget returns the status of the last instruction, a negative one when it ended early | `Drivers_proof` |
| `DriversTypeCorrect` | `DriversSpec => []DriversTypeOK`: under either driver the types are kept, and the emulator executes at most one instruction past its limit | `Drivers_proof` |
| `LengthsFit` | `DriversSpec => LengthsAgree`: an executed instruction of the program leaves `pc` where the disassembler has its next line, unless it branches or is one of the exceptions of section 5 | `Drivers_proof` |
| `VectorsTypeCorrect` | `Spec => []VectorTypeOK`: block, capacity and size fit one another | `Vectors_proof` |
| `VectorsWriteInside` | `Spec => []WritesInside`: no push writes behind the block, but for the two named cases | `Vectors_proof` |
| `VectorsHold` | `Spec => []HoldsWhatWasPushed`: the vectors hold what was pushed, an InstrBuffer the instructions and addresses beside sizes that were never written | `Vectors_proof` |
| `BufferNeverFull` | `Spec => []NeverFull` | `Vectors_proof` |
| `VectorsGrowTwofold` | `Spec => GrowsTwofold`: every move at least doubles | `Vectors_proof` |
| `AddIsExact` | `RefSpec => []AddExact`: accumulator and carry together are the sum | `AluRef_proof` |
| `SubIsExact` | `RefSpec => []SubExact`: a subtraction borrows exactly when it must, and `ADD` and `CMA` undo it | `AluRef_proof` |
| `LogicFitsAddition` | `RefSpec => []LogicParts`: `ANA`, `ORA`, `XRA` fit one another and addition, the parities agree | `AluRef_proof` |
| `FlagsFollowAccumulator` | `RefSpec => []FlagsFollow`: the flags of each logic instruction are those of the accumulator it leaves, or of the one before | `AluRef_proof` |
| `LogicIsExact` | `RefSpec => []LogicExact`: both of these together | `AluRef_proof` |
| `LexerTypeCorrect` | `LexSpec => []LexTypeOK`: `lex_all` never leaves the tables sized by counting newlines, neither the lines nor the symbols | `Toolchain_proof` |
| `SymbolsAreLabels` | `LexSpec => []SymbolsFaithful`: the symbols are the labels of the lines, in order, each with its line's address | `Toolchain_proof` |
| `LinesStay` | `LexSpec => LinesKept`: only references change a finished line | `Toolchain_proof` |
| `LabelsResolve` | `LexSpec => []ResolvedToLabel`: a reference gets the address of the first line with its label, or of an earlier line whose label is the beginning of it or begins with it | `Toolchain_proof` |
| `AssemblerTypeCorrect` | `AsmSpec => []AsmTypeOK`: instructions have an address and one to three bytes | `Toolchain_proof` |
| `PassesAgree` | `AsmSpec => []LayoutAgrees`: the addresses the lexer counts are where the assembler's bytes are | `Toolchain_proof` |
| `CallsReachLabels` | `AsmSpec => []CallReachesLabel`: the bytes of a call name the place of its label's instruction, or of what the lookup takes for it | `Toolchain_proof` |
| `ListingIsTheSource` | `SweepSpec => []ListingShowsSource`: lexer, assembler and disassembler put one behind the other show a program as it was written, for all lines that are `Listable` | `Toolchain_proof` |
| `AssemblerRunsLexer`, `ListingRunsAssembler` | each composition takes its component's steps only | `Toolchain_proof` |
| `ListTypeCorrect` | `Spec => []ListTypeOK`: nothing freed is followed | `ByteList_proof` |
| `LinksStaySound` | `Spec => []LinksSound`: `first`, `len`, `next` and `prev` of every list fit one another | `ByteList_proof` |
| `NothingIsLost` | `Spec => []NothingLeaked`: a node is held or on exactly one list | `ByteList_proof` |
| `OnlyLastCrashes` | `Spec => []RemovalsCrash` | `ByteList_proof` |
| `SequencesKept` | `Spec => ListsAreSequences`: the linked lists implement the sequences of `ByteSeq` | `ByteList_proof` |
| `InductiveHolds` | `Spec => []IInv`, the invariant behind the next five | `Source_proof` |
| `TypeCorrect` | `Spec => []SourceTypeOK` | `Source_proof` |
| `KeepsLines` | `Spec => []LinesAsGiven`: a filled slot has its own line only | `Source_proof` |
| `StaysInside` | `Spec => []InsideUntilEdited` | `Source_proof` |
| `FreesOnce` | `Spec => []FreedOnce` | `Source_proof` |
| `ForgetsNothing` | `Spec => []LinesReachable` | `Source_proof` |

`Drivers_proof` also restates the theorems about `cpu_run` for `DriversSpec`, the
specification of the run `drivers` (`DriversKeepBudget`, `DriversHaltStays`). By
`AssemblerRunsLexer` and `ListingRunsAssembler` what is proved of `LexSpec` and
`AsmSpec` holds under `SweepSpec`, the specification of the run `toolchain`.

### Assumptions

* `ImageAssumption`: a program is bytes at 16-bit addresses. `UninitAssumption`:
  memory that nothing wrote reads as some byte.
* `BudgetAssumption`, `GarbageAssumption`: the argument of `cpu_run` and its
  uninitialised result are integers.
* `LimitAssumption`, `CapacityAssumption`, `MaxLenAssumption`: the limit of the
  emulator, capacities and lengths are natural numbers. `UndefAssumption`:
  memory that was never written is told from codes and sizes. `LengthsAssumption`:
  an instruction may be one byte long, as a byte is.
* `StartAssumption`, `SourceAssumption`: the text starts at a natural number; a
  source is a sequence of items whose words are among `Words`, and no word is the
  empty name. `TableAssumption`: what is read behind the register table of the
  assembler is a byte.
* `NodesAssumption`, `LinesAssumption`: memory has finitely many nodes or lines;
  nodes are numbered. `PointerAssumption`: `NULL` and a pointer that was never
  initialised are no nodes. `DataAssumption`, `SizesAssumption`: data are
  sequences of bytes, sizes natural numbers.
* `PrefixAssumption`: every word begins with itself. Nothing is assumed of which
  labels begin with which others.
* `Counted`, a condition in `LayoutAgrees` and `CallReachesLabel`: no `DS`, `END`,
  `ORG` or `SET`, which the lexer gives another size than the assembler (section 5).
* `GoodOps`, for `StackStaysIntact`, `ReturnsFindCalls` and `StackIsLifo`: the instructions taken for saves are
  among `CALL`, `CNZ`, `CZ`, `JZ`, `PUSH D`, `PUSH H`, `PUSH PSW`, those taken
  for restores among `RET`, `RZ`, `POP B`. All others are executed as well and
  may disturb the stack; a step that moves `sp` or overwrites a saved word in
  another way gives the saved words up (`Track`). `MCSaveOps` and
  `MCRestoreOps` of the run `stack` are the full sets. With `POP D` among the
  restores the property is false: run `doc_pop_d`.

### The arguments

`TypeOK` is inductive. There is a lemma for each action of `Cpu`, on the lemmas
in the same module (each accumulator instruction yields a byte and bits as flags) and
on facts about bytes and words (`IsByte`, `IsWord`, `MkWordWord`).

`BudgetKept` and `EarlyEndReported` are inductive only together with `RunTypeOK`
(`RunInv`): that the excess is below `MaxTime` needs the status of one
instruction to be at most 17, which is a part of `TypeOK`.

`HaltIsFinal` is a property of steps; it needs `HaltInv`, that a status of -2
means that `pc` still points at `HLT`. This holds because no case but `0x76`
returns -2 (four lemmas over the groups of cases), and `0x76` leaves `pc` alone.
A new call of `cpu_run` then executes `HLT` again.

`StackIntact` alone is not inductive for the stack theorems. `StackInv` adds
`TypeOK`, that `saved` is a sequence of records, and `CallsKnown`, that a word
saved by a call is the call's address plus two modulo 2^16. A step saves
(`SaveStep`: the two bytes go below `sp`, hence below every saved word, and
`sp` does not wrap since it is at least 2), restores (`RestoreStep`: the latest
word is at `sp`; `sp` + 2 wraps only where nothing else is saved) or does neither
(`OtherStep`: no instruction takes a byte of memory away, and `Untouched` is
exactly what keeps the words). `ReturnsFindCalls` adds one to the word of
`CallsKnown`; `CallsFollowOperand` needs `TypeOK` only: `CallStep` reads the two bytes of the
operand out of the memory the push has left (`PushedByte`); `StackIsLifo` maps each of the three kinds of step to `Save`,
`Restore`, `Abandon` or a stutter (`AbstractStep`).

`DriversInv` joins `RunInv` with `LeftInTime`, that the emulator has left its loop
once the count is above the limit: without it the count could go on. The steps of
one driver leave what the other keeps alone, but for the machine: `status` moves under
`emu8080` too, and `ResultInv` has `OnlyRunHasBudget` for that, since `ResultReported`
speaks of calls with a budget. `LengthsAgree`
holds step by step without an invariant: each group of cases of `cpu_exec` is
compared with the lengths of `DisTable` (`LoadsFollow` to `BranchesFollow`), the two quarters of moves
and arithmetic by `MiddleOneByte`, that they are one byte long in both. It speaks of
instructions in memory that was loaded or stored; what unknown memory executes has
no listing.

`VInv`, the invariant of the containers, joins type, contents, `NeverFull` and
`WritesInside`: a push relies on `size <= capacity` to have room once it has
extended, and an insert on the slot kept free; that an InstrBuffer has no size in any
slot (`Sizeless`) is what `HoldsWhatWasPushed` needs of the slots not yet filled.
`CopyKeeps` is the lemma about the
one place where memory is written, `PushExtending` the two outcomes of an
allocation. `GrowsTwofold` follows per step from `BytesWanted(len) >= capacity`.

`AluRef`: sums and differences are linear arithmetic at 8 bits. `&`, `|` and `^` go
through bits: `BitsOf` splits a byte into its eight bits and `OfBits` puts them
together (`ByteIs`), the operators of `Alu` work on each (`BitsOfLogic`), and `SumOfBits`
adds up what the bits say. `FlagsFollow` rests on two lemmas: `a & a = a`,
`(x & y) & y = x & y` and `(x | y) | y = x | y` (`Absorbs`), and setting the flags forgets what
they were (`FlagsOnce`).

`Lexer`: `LexInv` joins `SymbolsFaithful` with `Room`, that lines and symbols fit in
their tables. The symbols enumerate the labelled lines: `Enumerates` exposes the
increasing map from symbols to lines that `SymbolsFaithful` only says to exist, and
`EnumeratesLabelled`, `EnumeratesUnlabelled` extend it by a line. What is not obvious
is the label that finds the symbol table full: the code drops it and goes on.
Nothing is lost, because there are at most as many symbols as lines
(`IncreasingIs`), so that the lines are full as well and the line fails. `LabelsResolve` rests on `FirstFound`: the entry of
every line whose label begins with the reference matches, so that the first entry that does
is no later than the first of them, and an earlier one matches only as a `stray`.

`Assembler`: `AsmInv` adds to it `Laid`, that each finished line starts where the one
before ends by the lexer's count, and `Chained`, that the instructions emitted so
far follow one another from the address of the first line to that of the current
one. The link is `SizesAgree` with `EncodingsAre`: for each mnemonic the lexer's size
is the number of bytes of its encoding. For calls `Emission` adds where the
instructions of each line begin (`FirstInstr`) and `ChainedOffset` that an address is the
offset of the bytes from the beginning, so that the operand of a call, reduced to
16 bits, is the place where the bytes of its label's line are.

`Sweep`: a line's instructions must be compared with a table of 256 opcodes. `Shapely`
says what the lexer leaves in a line (a second register with `MOV` only, and never `SBI`, before
which `SBB` is found), `OneEach` that without data line i has become instruction i. Of
each group of mnemonics a lemma then says that what the line becomes is disassembled as the
line and with its length (`Lists`, `ArithListed` to `PlainListed`, `LineListed`): for
`MOV`, `MVI`, `INR`, `DCR` and the arithmetic along the rows and columns of the table (`OrApart`,
`RegisterColumns`), for the others opcode by opcode. `ListedSoFar` is the loop of `dis8080`: `at`
is always the beginning of an instruction (`Place`), because the bytes lie where
the lengths in front of them add up to (`FlattenPlaces`, `BufferIs`), and what has been
listed is what lies before it.

`ByteList`: the properties speak of walks along `next`. `ListInv` says instead that
there is, for each list, a sequence `c[l]` of nodes, all different and shared by no
other list, that the links run through forwards and backwards (`Sound`). `Walked`
and `ChainIs` show once that the walk of the model is that sequence. Each operation is
then one of three changes of sequences, each with a lemma: a node more at the end
(`GrownSound`), one fewer anywhere (`ShrunkSound`), none left (`EmptiedSound`).
`byte_list_copy` is a loop whose turns append to the list it reads, should that be the
same list; `Copying` is its invariant and `CopiedIs` the result, also where memory ends on
the way. For the refinement `ChunkAppended`, `ChunkRemoved`, `ChunkWritten`, `ChunksGone` and
`ChunksCopied` carry each change over to the sequence of chunks, and each action of
`ByteList` maps to one of `ByteSeq` or a stutter (`StepMaps`).

`Source`: `IInv` adds to the properties `NoNullSlot` (a slot is empty only where
memory ran out), `SizeInRange` (before any edit no info is overfull), `UnfilledBlank` (what
is not filled yet is blank) and `DeadHaveNone` (a destroyed info keeps nothing). Each of
them holds only until an odd call, as the properties do; `StoredKeeps` is about a line
that goes into a slot, `CreateKeeps` and `CloneInfoKeeps` about memory in which
any free addresses were handed out.

Where a loop or a recursive function must be followed, the proofs do the induction
over a set: `SetInduction` says that a set of natural numbers with 0 in it and, with
each member, the next one, has them all. It follows from a least element
(`LeastNat`) and needs no operator as a parameter.

### Model-checked only

* `ReturnsOrSpins`, `EmulatorExits`, `AssemblyEnds`: liveness under
  fairness.
* `ArraysPileUp` of `Source`: it counts arrays over the slots of an info and over
  all lines stored in it, and what such a sum is for sets of any size needs an
  induction over data.

Every other safety invariant and action property of the passing runs is proved.

## 5. Where the code and its comments or tests part

Five disagreements have a run of their own, which TLC ends with a
counterexample:

| run | the repository says | the code does |
|---|---|---|
| `doc_adc` | `src/cpu.c:907` "ADC B  (A <- A + B + CY)" | adds the carry of the addition it has just made, not the one before it (`:911`) |
| `doc_pop_d` | `asm/cpu_test.asm:722` TEST "PUSH D" AND "POP D" | `POP D` takes D from below `sp` (`src/cpu.c:1523`) |
| `doc_emulator` | `tools/emu8080.c:47`, `:52` run until a trap or the limit | the loop ends at the first instruction that takes time (`:44`) |
| `doc_clone` | `test/test_source_info.c:100` "Check that the pointers are not equal" | the clone is given the lines of the original (`src/source.c:544`) |
| `doc_jump` | `src/disassem.c:635` a jump's target is in two bytes | `asm_jp` or-s both halves into one byte (`src/assembler.c:344`) |

Others met while modelling, and kept in the models as the code has them:

* `src/cpu.c:1409`: ADI stores the sum shifted right by 8; asm/cpu_test.asm:113 says "ADI 6 ;A=6,C=0,P=1,S=0,Z=0" of an accumulator of 0.
* `src/cpu.c:1597`: ANI calls logic_set_flags, which reads the accumulator, before it assigns the result to the accumulator; asm/cpu_test.asm:171 says "ANI 055H ;A=F0H<AND>55H=50H,C=0,P=1,S=0,Z=0".
* `src/cpu.c:163`: RLC or-s bit 7 of the old accumulator back into bit 7 and nothing into bit 0; asm/cpu_test.asm:677 says of two rotations of 42H compared with 9: "CNZ CPUER ;TEST "RLC" FOR ROTATION".
* `src/cpu.c:117`: LXI B moves pc by one where the disassembler gives three bytes (and fourteen other opcodes differ); src/disassem.c:7 says "returns the number of bytes of the op".
* `src/cpu.c:1396`: PUSH B stores C at sp in place of sp-2 and so overwrites what was there; asm/cpu_test.asm:716 says of a BC pushed and popped: "CNZ CPUER ;TEST "PUSH B" AND "POP B"".
* `src/cpu.c:1604`: POP PSW takes the carry from bits 0 and 2 and adds 2 to pc in place of sp; asm/cpu_test.asm:710 says "CC CPUER ;TEST "PUSH PSW" AND "POP PSW"".
* `src/cpu.c:1570`: XTHL stores L and H at the addresses given by the two bytes it has read from the stack; src/cpu.c:1570 says "XTHL  L <-> SP, H <-> SP+1".
* `src/cpu.c:47`: UnimplementedInstruction decrements pc, which cpu_exec has not advanced; src/cpu.c:46 says "PC will have advanced by one, so undo that".
* `src/cpu.c:541`: The case assigns state->c to state->b; src/cpu.c:540 says "case 0x42:      // MOV B,D".
* `src/cpu.c:1374`: JMP assigns the operand to pc and breaks, so that the final pc += 1 is added to it; asm/cpu_test.asm:111 says "JMP J060 ;TEST "JMP" (IT'S A LITTLE LATE,BUT WHAT THE HELL!".
* `src/cpu.c:374`: DCX H adds one to HL; asm/cpu_test.asm:558 says "CNZ CPUER ;TEST "DCX" H".
* `src/lexer.c:156`: symbol_table_get_str compares only as many characters as the reference has and returns the first match; src/lexer.c:994 says "look it up in the symbol table and insert the address of that symbol in the immediate field". `ResolvedToLabel` and `CallReachesLabel` say which lines the lookup may take for that of a label (`Targets`).
* `src/opcode.c:81`: the entry of SBI has the mnemonic "SBB", and OUT has no entry, so that both words are lexed as labels; src/opcode.c:14 says "All supported opcodes as Opcode structures" and asm/cpu_test.asm:166 uses SBI.
* `src/lexer.c:660`: in verbose mode LEX_INSTRUCTIONS is indexed by the code, which names the next entry from OUT on and nothing for XRI.
* `src/instr.c:55`: instr_copy copies addr and instr and leaves size out, and instr_create (`:23`) never sets it, so that an instruction taken from an InstrBuffer has a size nobody wrote; src/instr.c:64 prints by that size, and src/instr.h:20 declares it beside the two.
* `src/source.c:503`: source_info_edit_line increments size, so that source_info_full is not true when the buffer is.
* `src/list.c:208`: byte_list_append_node never sets list_end, which byte_list_append_data sets to the first node.
* `src/lexer.c:1267`: lex_line leaves the operands of a mnemonic without a case to the next call, which makes a line of its own of them, so that a source may have more lines than newlines; src/lexer.c:285 says "this number is guaranteed to be big enough to hold what we need".
* `src/lexer.c:934`: The loop compares cur_line before the token is read and a blank before the newline keeps the cursor short of it, so that the token of the next line is taken; src/lexer.c:931 says "once we go to a  new line we don't need to lex anymore tokens into the buffer".
* `src/lexer.c:789`: With a label as second argument lex_parse_reg_imm does not store the register; src/lexer.c:782 says "Second arg could also be a symbol to be resolved in next pass".
* `src/assembler.c:452`: asm_data emits DB and DW alike, one byte for each byte of the list, and the lexer gives every literal one byte; src/lexer.c:1256 says "Word size handled in assembler".
* `src/lexer.c:1264`: The lexer counts one byte for DS whatever its operand is; asm/cpu_test.asm:798 says "SAVSTK: DS 2 ;TEMPORARY STACK-POINTER STORAGE LOCATION".
* `src/lexer.c:1131`: The cases of the directives put a directive_code into the opcode of the line, where the assembler reads it as an instruction code; src/opcode.h:114 says "Psuedo ops / assembler directives".
* `src/lexer.c:1216`: lex_line has no case for JNZ: the line is left without operands and the operand is lexed as a label definition on a line of its own; src/assembler.c:643 lists LEX_JNZ among the "jump instructions".
* `src/assembler.c:256`: asm_accum gives LDAX B the opcode 0x08; src/cpu.c:189 says "case 0x0A:      // LDAX B" and :185 "case 0x08" is a NOP.

`LengthsAgree` excepts the opcodes for which CPU and disassembler differ
(`Odd` in `Disassem`): `LXI B`, `LXI D`, `LDAX D`, `LXI SP`, `STA`, `LHLD`, `IN`, `SBI`,
`POP PSW`, `CPI`, and `JNC`, `JP`, `CP`, `CZ`, `JZ` when not taken.

`LayoutAgrees` and `CallReachesLabel` except sources with a line in `Miscounted`: `DS` is
counted as one byte and becomes none, and the directive codes of `END`, `ORG` and `SET`
are those of instructions of two or three bytes where the lexer counts one
(`src/lexer.c:1264`, `:1131`).

`ListingShowsSource` excepts the lines in `Unlisted` of `Sweep`, where tables differ: the
jumps, whose target is lost (`doc_jump`); `LDAX` and `PUSH`/`POP PSW`, which are
encoded otherwise; `RNC`, `LXI D`, `DAD D`, `DCX D`, `INX SP`, `INR M`, `DCR M` and
`MVI M`, which the listing takes for another instruction, register or length.
Data, a register in front of a label, registers the instruction does not have
and immediates wider than a byte are not `Listable`.

The stack properties hold of the instructions in `MCSaveOps` and
`MCRestoreOps`. `PUSH B`, `POP D`, `POP PSW` and `XTHL` are not among them for
the reasons above; the machine of the model executes them as the code does.

## 6. Faithfulness

`Cpu`, the lengths, and the lexer with the assembler were compared with the
compiled code: for each opcode, random registers, flags and memory, and for each
source line of the runs, the state the model allows contained the state the
program reached. `DisTable` was compared with the cases of the switch for all 256
opcodes.

## 7. Not modelled, and what is next

Not modelled:

* text output and file reading (`emu_utils.c`, the formats of the listing): pure
  I/O;
* SDL (`display.c`): no tool calls it, and what it does is on a surface outside
  the program;
* failed allocations other than of nodes, lines and blocks: the second `malloc`
  of `byte_node_create`, the strings of a line, the tables of opcodes and
  symbols, and the clean-up of `asm8080`;
* what happens after undefined behaviour: the state is kept as "undefined",
  "outside" or "freed" and nothing follows;
* `byte_node_set_next` and `byte_node_set_prev` called by clients, and
  `symbol_table_get_idx` and `opcode_table_find_instr`, which only tests call;
* printing: the index of `LEX_INSTRUCTIONS` in verbose mode, and the rows `display.c`
  draws (`:117` starts one row beyond the surface);
* the vendored test framework.

What only exists as another form of the same data (hex and decimal literals, upper
and lower case) is part of the items.

Next: what `emu8080` executes before it stops, for every program (`EmuShell`).
