# A verification development for the rv32i workbench

TLA+ modules, TLC configurations and TLAPS proofs for the repository's own
logic: the Chisel RV32I core and its benches, the NEMU emulator (interpreter,
run control, debugger, watchpoints, expressions, differential testing with
QEMU, SD card, keyboard), `thread-os` on the processors of the native abstract
machine, the `minirv` instruction-replacement macros, and the GCD units of
`npc`. Every definition that models code names its lines in `PROJECT.json`
(`map`).

- [1. The system](#1-the-system)
- [2. Modules](#2-modules)
- [3. Runs](#3-runs)
- [4. Proofs](#4-proofs)
- [5. What the checks found](#5-what-the-checks-found)
- [6. Not modelled, and limits](#6-not-modelled-and-limits)
- [7. State of the work](#7-state-of-the-work)

## 1. The system

The repository is a computer-architecture course workbench. Its parts, the state
they keep and how they meet:

| Part | Code | State | Operations | Meets |
|---|---|---|---|---|
| Chisel RV32I core | `chisel-template/src/main/scala` | pc, 32 registers, instruction and data memory | one instruction per clock; reset (pc only); a download port into each memory | its benches; NEMU by intention |
| Core benches | `chisel-template/src/test`, `sim` | phase of the test, words downloaded | download, reset, look at fetches, run to the halt loop | drive the core |
| NEMU interpreter | `nemu/src/isa/riscv32/inst.c`, `memory` | pc, registers, pmem | `isa_exec_once`, `paddr_read`, `paddr_write` | called by the run control |
| NEMU run control and debugger | `cpu-exec.c`, `sdb.c`, `hostcall.c`, `state.c` | `nemu_state`, the instruction count, batch mode | `c`, `si N`, `w`, `d`, `x`, `q`, end of input; guest traps; device update | everything in NEMU goes through `nemu_state` |
| NEMU watchpoints | `watchpoint.c` | a pool of nodes on two linked lists | `new_wp`, `free_wp`, `check_wp` | commands of the debugger; checked after every instruction |
| NEMU expressions | `sdb/expr.c` | token array | `make_token`, `get_main_op`, `eval` | debugger and watchpoints |
| NEMU differential testing | `cpu/difftest/dut.c` | skip flag, instructions left to catch up | `difftest_step`, `difftest_skip_ref`, `difftest_skip_dut` | a reference emulator; sets `NEMU_ABORT` |
| QEMU adapter | `nemu/tools/qemu-diff` | a TCP connection | memory, registers and single steps in GDB's protocol | called by differential testing; talks to QEMU |
| SD card and its Linux driver | `device/sdcard.c`, `resource/sdcard/nemu.c` | block count, direction, the extended-CSD mode; the driver's request, command and data | commands through registers, data word by word | the guest's MMC layer calls the driver |
| Keyboards | `device/keyboard.c`, `native/ioe/input.c` | a ring of keys each | press, poll | device update; on the native AM a thread of its own |
| Other NEMU devices | `nemu/src/device` | clock latch, I/O space | memory-mapped reads and writes; `device_update` polls the window | may set `NEMU_QUIT` in the middle of a run |
| thread-os | `am-kernels/kernels/thread-os` | tasks in a ring, saved contexts, one spin lock | `func()`, `on_interrupt()` | contexts and processors of the AM |
| Native AM: processors and traps | `am/src/native/{cte,mpe,platform}.c` | processes, signals, a pipe | fork, timer, `yield`, `iret` | runs thread-os |
| minirv | `abstract-machine/tools/minirv` | tables; scratch registers and stack words | one macro per RV32I instruction | assembles AM programs for a machine with eight instructions |
| GCD units | `npc/src` | two operand registers, busy, valid | load, subtract, answer | ready/valid neighbours |
| Rest of the AM, klib, kernels | `abstract-machine`, `am-kernels` | | | section 6 |

The behaviours that are hard, and the properties that make each part correct:

- **One global `nemu_state`, many writers.** A watchpoint, a trap, a mismatch,
  an invalid instruction and the closing of the window can all fall on one
  instruction, and the loop tests the state at one place. A run must stop for
  each of them, stop for nothing else, count its instructions right, and leave an
  exit status that tells a bad run from a good one.
- **Lists that are relinked by hand.** Every node of the pool is on exactly one
  list, both lists end, and the whole is no more than a map from numbers to
  watched expressions.
- **A reference that is out of step.** Device accesses are copied, packed groups
  are skipped; between them, a correct NEMU is never stopped and a wrong one is.
- **A conversation instead of a call.** Commands to QEMU and its answers carry a
  check sum and are repeated when it is wrong. No repetition may run an
  instruction twice or leave one out, and every call returns.
- **Threads, processors and signals.** A timer signal can fall on every place of
  a thread: inside the lock, before the first switch, while another processor's
  handler walks the same ring. No step of a thread may be lost or done twice, no
  stack may have two users, and nobody may be forgotten.
- **A card without interrupts.** Command, data and completion run in one call
  chain with early ends (a short scatter list, a missing image): the right blocks
  move, nothing else does, and each request is answered once.
- **Rings with two ends.** Keys come out in order and once each, with one thread
  and with two.
- **Hardware without reset.** The core executes whatever its memory holds while a
  program is being downloaded, and only the pc is reset. The program's result must
  not depend on any of it.
- **Two implementations of one instruction set.** The core and the interpreter
  decode immediates, compute and branch differently and must agree.
- **Ready/valid with stalls and resets.** Each request is answered once, rightly,
  and the answer stands until it is taken.
- **Macros that share scratch.** Each minirv macro borrows registers and stack
  words that the macros inside it use too.
- **Splitting an expression at its main operator.** Precedence, associativity,
  unary operators and parentheses come out of one backward search.

The full list of hazards, with the line where each bites and the property that
covers it, is in `PROJECT.json` (`hazards`).

## 2. Modules

| Module | Models | EXTENDS / uses |
|---|---|---|
| `Watchpoint` | `watchpoint.c`, `cmd_w`, `cmd_d` | |
| `WatchpointSet` | abstract: a map from numbers to watched expressions | refined by `Watchpoint` |
| `Monitor` | `cpu-exec.c`, `sdb.c`, `hostcall.c`, `state.c`, window events | composes `Watchpoint` |
| `Difftest` | `cpu/difftest/dut.c` with a packing reference; what a call of REF must amount to | |
| `QemuDifftest` | `qemu-diff`: the calls of REF as conversations, with QEMU | `Difftest`, which it refines |
| `Expr` | `expr.c`, beside C's grammar | |
| `SdCard` | `sdcard.c` under its Linux driver | |
| `KeyFifo` | abstract: a bounded FIFO of keys | refined by `Keyboard` |
| `Keyboard` | both key rings, the event thread and its mutex | |
| `SpinThreads` | abstract: threads around one lock, without processors | refined by `ThreadOs` |
| `ThreadOs` | thread-os on the native AM's processors, signals and pipe | |
| `Rv32` | words, instruction fields | |
| `Rv32iTop` | the core: decoder, immediates, ALU, registers, memories, pc | `Rv32` |
| `NemuRiscv32` | `decode_exec` and pmem, definitions only | `Rv32` |
| `Lockstep` | core and interpreter on the same instructions | `Rv32iTop`, `NemuRiscv32` |
| `TopFib` | both benches around the core | `Rv32iTop` |
| `MiniRv` | the minirv macros and tables, beside a reference machine | `NemuRiscv32` |
| `CommonDivisor` | what a greatest common divisor is | |
| `DecoupledGcd`, `Gcd` | the two units | `CommonDivisor` |
| `GcdServer` | abstract: a server of one request at a time | refined by `DecoupledGcd` |
| `*Proofs`, `MiniRvMacros` | theorems (section 4); `SdbProofs` is about `Watchpoint` and `Expr`, `MachineProofs` about `SdCard`, `Keyboard` and `ThreadOs`, `CoreProofs` about `Lockstep` and `TopFib`; `MiniRvMacros` has the lemmas of most macros, and `MiniRvProofs`, which extends it, the rest and the theorems | the modules and TLAPS |
| `MC*` | instances for TLC | |

How state and actions correspond to the code:

**Watchpoint.** `next`, `head`, `free_`, `str`, `last_value` are the fields and
globals of `watchpoint.c`; `NULL` is a model value. `CmdW`, `CmdD`, `Check` are the
whole handlers (`new_wp` with the copying and evaluation of `cmd_w`; both
branches of `free_wp`; the walk of `check_wp`). A failed assertion leaves the
process in a final place (`no_wp`, `bad_expr`). `mem` is what expressions are
worth; an instruction changes it at will. `expr()`'s verdict on a string does not
depend on the machine, so strings are split into `Exprs` and `BadExprs`. Mapping
to `WatchpointSet`: `watched` is the map from the nodes on the list from `head`
to their expression and last value.

**Monitor.** NEMU is one thread; `pc` walks through the places where
`nemu_state` is read or written: the prompt, `execute`'s loop head, `difftest_step`,
`check_wp`, the test of the state, the device update, and the end of `cpu_exec`.
Each instruction of the guest is any of: plain, device access, `ebreak` with either
result, invalid, out of memory. The window is closed by the environment at any
time (`CloseWindow`). The watchpoint pool is `Watchpoint` itself, instantiated with
the place; property `WatchSpec` says that the composition uses it as that module
requires. The count is kept as in the code; `Forever` is 2^64 - 1.

**Difftest, QemuDifftest.** The guest is a straight line of instructions, each
plain, a device access or the head of a group that the reference runs as one.
Registers are abstracted to whose mistake they show. `difftest_step` is one action
in three cases (catch up, copy, compare). Nothing in the repository calls
`difftest_skip_dut`; it is modelled as its comment says it is to be used: by the
instruction that heads a group. In `QemuDifftest` each access to REF is a list of
commands (`M` for the image, cut at the packet size; `g`, `G`, `s`), and NEMU is
somewhere in `gdb_send()` or `gdb_recv()`: sending, waiting for the sign, reading
what comes. A packet is a command or a reply with a bit that says whether its
check sum fits. `D` is `Difftest` with REF taken as it was until a call is over;
`CallsAreAtomic` is `D!Spec`. The hook that compares is the ISA's, and in every ISA
it is a stub that says no. `RegsHook` is what it may say of equal registers:
`{FALSE}` is the stub; `BOOLEAN`, in the run `difftest`, has in it every behaviour of
the stub and those of a hook that now and then lets NEMU go on, so that runs do not
end at their first comparison. That no hook passes registers that differ is true of
the stub and is all that is assumed. What the properties say is about `dut.c`: when
the hook is called and what it is shown, not what it makes of it. They hold, and their
mutants break them, with `RegsHook = {FALSE}` alone as well.

**Expr.** A token is its type and what it is worth. `make_token`'s reading of
`-` and `*` as unary, `check_parentheses`, `get_main_op` and `eval` are operators
over ranges of the token array, with the assertion, the overrun and the endless
recursion as results of their own. `Meaning` is the set of values C's grammar
gives the same tokens, one level of precedence per level of the grammar.

**SdCard.** The card's callbacks are operators the driver's actions call:
`CardCmd` when SDCMD is written, `CardData` before a load and after a store of
SDDATA. The driver's actions are its functions from `nemu_request` to
`nemu_finish_request`; one word of a transfer is one action. Words of a write are
numbered, so that a word in the wrong place shows.

**Keyboard.** `kind` says which ring. NEMU's is filled and emptied between guest
instructions, each by one action; the native AM's by two threads, each an
automaton from lock to unlock, one load or store of the ring's variables per step.
Mapping to `KeyFifo`: the ring from `key_f` to `key_r`, and the key the guest has
read but not yet returned.

**ThreadOs.** A processor is a process of the host: in the program, or in a step
of the handler (`mode`). `run[c]` is the context it runs on, a record of the stack
it lies on, the place in the program, and the signal mask. `Expire` is the
interval timer, `Deliver` the signal, with the drop of `setup_stack()` in a shared
library; `Save`, `Pick` and `Restore` are `on_interrupt()`, one turn of its loop
per action, and `iret`. The boot sequence (fork, the byte per child through the
pipe, the start of the timer, the first `yield`) is there whole. Mapping to
`SpinThreads`: where each thread is, on its processor or in its saved context.

**Rv32iTop, TopFib.** One step is one clock edge. Wires are definitions named for
the Chisel signals; the right side of every register's `when` is an `...Edge`
operator. Registers and memories start with anything. Words have four bytes of
`ByteWidth` bits so that TLC can reach every carry and sign; instructions keep
their 32 bits as six fields. `TopFib` has the two benches' phases; the
chiseltest bench downloads from the last word to the first with the core
running, the Verilator bench from first to last under reset.

**Lockstep.** In each cycle `NemuRiscv32!DecodeExec` runs the instruction the core
fetches, from NEMU's own pc, registers and memory. A run ends at an instruction
outside the fourteen of the core or an access on which the two differ by
design (`InReach`: the core drops the low address bits and wraps round).

**MiniRv.** A macro is a sequence of base instructions, composed as the macros
nest. A step expands one instruction and runs the expansion on a machine with
garbage in the scratch registers, the scratch stack words and the array of `seq`;
beside it a reference machine does what the ISA says. The tables are those
of `gen-lut.c`. NEMU's own `slti` and `sltiu` differ from the ISA, so the
reference compares with the sign-extended immediate instead of using them.

**DecoupledGcd, Gcd.** One step is one clock edge with any input, any consumer and
any reset. `MCGcd` runs both units on the same operands under one bench.

## 3. Runs

| Run | Question | Bounds, and why they are enough |
|---|---|---|
| `watchpoint` | Do the lists stay a partition, end, and implement the map? | 3 nodes: an inner node with a neighbour on both sides; 2 expressions, 2 values |
| `monitor` | How can a run stop, and what can happen to the state on the way? | 2 nodes, one good and one bad expression, steps 0, 1, 2: every pair of consecutive instructions with every stop reason on each; batch mode and interactive |
| `difftest` | Is each call of REF done once, does it return, is the hook shown a difference when NEMU has made a mistake and only then, and does no mistake go past it? | 6 instructions, groups of 3: every placement of groups and devices before, inside and after; at most one mistake of NEMU, anywhere; an image of 3 packets, the last one short; 2 packets spoiled, so that what is sent again can be spoiled again |
| `lockstep` | Do core and interpreter agree after every cycle? | Two instructions from a sample of all fourteen, five corner values of the word, and single instructions over the corners of every immediate format; downloads through both ports meanwhile. 24-bit words: no immediate bit is cut |
| `top_fib` | Does each bench see its program fetched and computing fib(10) = 55, and halt, whatever was in the core before? | Both benches in full; power-up contents include jumps, stores and non-zero register 0 |
| `gcd` | Is each request answered once, rightly, and stably? Does it end? | Operands 0..5: every order of subtraction and both zeros |
| `minirv` | Does each expansion do what its instruction does and touch nothing else? | Every macro, destinations and sources among `zero`, `sp`, `s0`, `s1`, `a0` in all overlaps but `seqz s0` (section 5); ten corner values of word, byte and shift amount in all pairs; two garbage values. Immediates and shift amounts are samples on both sides of each byte boundary |
| `thread_os` | Does the lock exclude, does each stack have one user, is no step lost, does everybody go on? | 3 threads on 1 and on 2 processors: a processor with several threads beside one with one, so that a holder of the lock can be switched out while another processor spins, and while its own other thread does. 2 threads with 3 processors, one of them beyond the tasks' ring, is outside the assumptions (section 5) |
| `sdcard` | Do the right blocks move and no others, is each request taken back and answered? | 2 blocks of 2 words, every length of the scatter list: inside a block, between two, before the first; images that end between the blocks, or are missing; requests follow each other without bound |
| `keyboard` | Is each ring a FIFO, and does a guest that polls get every key? | A ring of 4 places, 2 keys: empty, wrapped, full, and one key too many |
| `expr` | Is an expression worth what C says, and does no search leave its range? | Up to 8 tokens where each token out of place counts twice: two binary operators with a parenthesis around one of them, three without; words of eight bits |

A twelfth run, `monitor_end`, expects a violation (section 5).

`CHECK_DEADLOCK FALSE` is said where the system stops: the process exits or an
assertion ends it, a program or a bench ends, a harness has run its instructions.

**Fairness.**

- `Monitor!FairSpec`: the emulator thread goes on (`WF` on its steps), and the
  poll of the window, which is skipped unless 1/60 s has passed (`device.c:39`),
  is not skipped for ever (`SF`): time passes while instructions run. Nothing is
  assumed of the user or of the guest.
- `QemuDifftest!QSpec`: NEMU's thread goes on and QEMU answers (`WF` each). The
  connection is TCP and loses nothing; that packets are spoiled finitely often is
  the bound `MaxSpoiled`.
- `ThreadOs!ThreadOsSpec`: the host schedules every process (`WF`), and the interval
  timer does not expire inside a shared library every time (`SF` on
  `TickInText`): the timer counts the time the process runs (`ITIMER_VIRTUAL`),
  `printf` is a small part of `func()`, and its delay loop is in the program
  itself. Without the second one, `setup_stack()` may drop every tick, and a
  thread keeps its processor for ever.
- `SdCard!Spec`: the driver goes on; it runs under its mutex and waits for nobody.
  The MMC layer is not assumed to send anything.
- `Keyboard!KeyboardSpec`: both threads go on (`WF`), a mutex that is free again and again
  is got at last (`SF`), and the guest goes on polling. The user presses what he
  likes; `Drained` says what is true when he stops.
- `TopFib`, `Gcd`: the clock runs. `DecoupledGcd!FairSpec`: the clock runs, and
  reset and consumer do not block for ever; without the consumer a request cannot
  end, and the code gives it no timeout.

Each property of a passing run has a mutant: an operator beside the definition it
replaces (`..._NoPush`, `..._OffByOne`, ...) that changes it as a slip in the code
would, and that TLC finds to violate the property.

## 4. Proofs

TLAPS checks these for every value of the constants:

| Theorem | Says | Argument |
|---|---|---|
| `SdbProofs` `TypeCorrect`, `Partition`, `NoCycle`, `Current` | type; the lists partition the pool; no walk returns; a watched value is the present one | `IInv`: types, values current, and `PoolInv(Nat)`: there is a set A and a ranking such that `head` starts a chain through A and `free_` one through the rest, ranks growing along `next` |
| `SdbProofs` `Refinement` | the pool implements `WatchpointSet` | each action maps to the abstract one under `IInv` |
| `SdbProofs` `Expr_StaysInside` | whatever is typed, of whatever length, `get_main_op()` finds the end of every parenthesis inside its range: its assertion never fails | a range that `eval()` splits is balanced; after a parenthesis opens, the first place where the depth returns to 0 is the first that `check_parentheses` accepts, and what follows is balanced again (`SearchEnds`, `AfterSearch`) |
| `SdbProofs` `Expr_MeansWhatCMeans` | an expression of whatever length, with its unary operators where `tokenise()` looks for them, is worth what C makes of it; its evaluation neither fails nor recurses for ever | by induction on the phrase (`AllUnderstood`): to `eval()` a phrase is a balanced range whose operators outside parentheses bind at least as much as its level (`Shape`), so that the operator the grammar splits at is the one `get_main_op()` finds (`MainOpIsMain`, `BinaryPhrase`), and no range is met twice on the way down (`Fresh`) |
| `MonitorProofs` `Invariance`, `StepsCounted`, `BatchExit` | the invariant of the loops; `si N` counts right; the exit status of batch mode is the verdict | `IndInv`: what `nemu_state`, the two counts and batch mode can be at each place between two tests of the state |
| `MonitorProofs` `TrapsSkipped`, `EndKept`, `RunningOnly` | the three action properties on `nemu_state` | each step from `IndInv`: a state that has ended is only ever seen on the way from the instruction that ended it to the prompt, and where the differential test sees END it is to skip |
| `MonitorProofs` `WatchRefinement` | the loops use the pool as `Watchpoint` requires | every action is one of `Watchpoint`'s or leaves the pool alone |
| `MachineProofs` `ThreadOs_TypeCorrect`, `_StacksApart` | type; no two processors on one stack, contexts on their own stack | `IndInv`: a thread's home processor is the only one that is ever on its stack; what a handler saved is the place of the thread it interrupted |
| `MachineProofs` `ThreadOs_Exclusion` | one thread at a time between `lock()` and `unlock()`, for every number of threads and processors | the lock's word is set exactly when some thread's place is inside, and the atomic exchange lets one in |
| `MachineProofs` `ThreadOs_Refinement` | processors, signals and switches implement `SpinThreads` | handler steps leave every thread's place alone, `func()`'s steps are `SpinThreads`' |
| `MachineProofs` `Keyboard_Refinement` | both rings are `KeyFifo`, for every length | lemmas on what a store, a step of `key_r` and a step of `key_f` do to the sequence of keys; the mutex keeps what the guest read the oldest key |
| `CoreProofs` `Lockstep_InLockstep` | core and interpreter agree after every cycle, for every width, memory size, program and download | `IndInv`: same pc, registers and memory, the pc a word; one lemma per instruction class on each side |
| `CoreProofs` `TopFib_ComputesFib` | under both benches the program is fetched as downloaded, never enters the loop for a wrong load, and has 55 in the registers it compares when it comes to its halt, for every width, memory size and power-up content | `FibInv`: how far the download has come and what it has written (`Loading`); which fetches were looked at (`Fetching`); and for each place of the program and each turn of its loop the two Fibonacci numbers and the counter in their registers (`RunsAt`) |
| `GcdProofs` `DecoupledGcd_OffersGcd`, `_StableOutput`, `_ServesRequests` | the answer is the gcd of its request; a stalled answer stands; the unit is a one-request server | `IndInv`: while busy, the registers have the same common divisors as the request |
| `GcdProofs` `Bench_ValidIsGcd` | under the bench of both units, at any moment of a load or a reset, what `GCD` calls valid is the gcd of the last operands | the bench's steps are steps of the plain unit or leave it alone (`Bench_RunsBothUnits`); there the registers keep the common divisors of the operands (`Gcd_ValidIsGcd`) |
| `DifftestProofs` `Difftest_InStep`, `_MistakesShow`, `_NoMistakePasses` | between two instructions the reference is where NEMU is, or as far ahead as what is left of `skip_dut_nr_inst`; NEMU catches up in time, and where the hook stops it the registers it was shown differ just when NEMU has made a mistake that no device access hid; only to catch up does NEMU go on past such a mistake | `StepInv`: NEMU is level with the reference (`CaughtUp`), behind it inside a packed group whose mistakes so far are known (`CatchingUp`), or about to copy its registers (`Copies`) |
| `DifftestProofs` `Qemu_CallsAreAtomic` | every call of the reference interface, as a conversation with QEMU over a line that spoils packets, happens exactly once: the adapter refines `Difftest` | `WireInv`: of the packets of a call, those before the present one are done, those after it are not, and the present one is unanswered on the way there, or answered and done, or a repeat QEMU has not acted on twice |
| `DifftestProofs` `Qemu_InStep`, `_MistakesShow`, `_NoMistakePasses` | the three properties with QEMU for reference, as the run checks them | the refinement carries them over |
| `MachineProofs` `SdCard_Type`, `_NoWarning` | the position never leaves the image; none of the driver's `WARN_ON`s fires | `Control`: which of `mrq`, `cmd` and `data` is set at each place of the driver |
| `MachineProofs` `SdCard_Transferred` | a request served without an error moved the words it names and changed no other, for every size of the image and of a block | `Transfer`: before the command is sent nothing has moved; after it the card's `addr` is the number of words moved, the extended CSD is on exactly as long as it must be, and `Effect` says what that many words have done to buffer, image and position |
| `MiniRvProofs` `MiniRvImplements`, `MiniRvNoStray` | an expansion does what its instruction does and strays nowhere: every instruction minirv replaces, every operand the compiler may name, every content of the registers and the scratch memory, bytes of five to eight bits | `Agreement` (theorem `MiniRvAgreement`): before the instruction both machines are in the same start state; after it they agree on every register but `tp` and `gp`, on the program's memory and on the pc, and the one strays only if the other does. One lemma per macro, put together as the macros nest (below) |

For the pool, the partition alone is not inductive: relinking an inner node is
right only because no other node points to it and the walk from the head meets
every node of its list exactly once. Ranks say so without recursion over the list.

For the run control, the properties speak of the prompt and the exit only; the
invariant has to say what a test of the state *before* may be relied on at each
place *after* it: that between an instruction and its check the state is not STOP,
that done is one ahead of the count there, that in batch mode `n` is unbounded and
no watchpoint is in use, so that STOP at the end of `cpu_exec` is impossible.

The refinements `WatchpointSet`, `Watchpoint` under `Monitor`, `KeyFifo` and
`SpinThreads` are about safety: the abstract modules have no fairness.

For differential testing, what `InStep` says between two steps is not enough: while
NEMU catches up, the invariant has to remember which instructions of the group it
has made its mistake in and whether a device access is still to copy its registers
over the reference's. The theorems hold for every hook that
`RegsHook` allows, the stub of the repository among them. The refinement needs no bound on the spoiled packets, and no fairness.

For the SD card, the obvious invariant (the position is as far behind the first
block as words were moved) is wrong in two places, and the proof says where: at the
end of an image that is shorter than the request, where `fread()` leaves the
position, and for a request that finds the card still in the extended CSD because
an earlier transfer of it was broken off. `Transferred` excludes the second
(`clean`); `Sent` bounds the position in both.

The proofs assume the `ASSUME`s of the modules (a pool of finite size, `NULL`
not a node, words of at least one bit per byte, memory sizes that are positive, a
ring of at least two places, step counts that are numbers, an image and blocks of
at least one word, `NULL` none of the commands and requests) and, where a theorem
names it, its hypothesis; TLC evaluates the `ASSUME`s in the runs.

In `Expr`, the loops of `get_main_op()` and `tokenise()`, `eval()` and the grammar are
recursive functions, not `RECURSIVE` operators, which no proof could speak of. That
such a function does in TLA+ what its body says is not free: it has to be shown that
some function does. The proofs build it from a measure that every call makes smaller
(the tokens left; for `eval()`, the ranges not yet open, then the width of the range;
for the grammar, the width, then the level) and the least-element lemma `NatMin`; what
the calls return follows along the same measure. That is also how an induction over
data is written here: a least counterexample in `Nat`, from the library's theorem on
minimal elements, which takes no operator for a parameter.
`ExprAssumption` says that memory holds numbers, none of which is the mark of a
failed assertion.

`TopFib`'s invariant follows the program text: its fetch phase is about each of the
words downloaded, its run about each address the pc comes to, with the loop's
counter from 0 to 10. `ProgramAssumption` says that the program fits the memory
and that a word can hold the numbers it computes; `Lockstep`'s proof does not use it.

In `MiniRv` a step is an instruction, and its expansion up to a hundred base
instructions; the invariant is the easy part, and the work is in what an expansion
computes. The proof goes from the
bottom up, in `MiniRvMacros` as far as the macros that need no table of shifts, then in
`MiniRvProofs`:

- numbers: `Pow2` is a recursive function, so that it has to be shown to exist
  (`Recursion`, by a least counterexample in `Nat`) before it can be positive and
  additive; a quotient and a remainder are unique; a word is four bytes; `And`, `Or`
  and `Xor`, which are sums over the bits, work byte by byte (`BitwiseWd`);
- code: running a sequence is running its parts (`RunSteps`); `Does(m0, c, m, R, S)` says
  that code `c` takes `m0` to `m` and may change the registers `R` and the bytes `S`, no
  more; one lemma per base instruction extends it by one instruction;
- tables: where each lies, what each entry is, and that the index a macro computes
  is inside (`SmallEntries`, `LogicEntry`, `ShiftEntry`);
- macros: for each, what it may change (`Does`) and what it leaves in `rd`, from the
  lemmas of the macros inside it. The operands are any registers the assumptions allow,
  so that every overlap with `s0`, `s1` and `rd` but the one of `seqz s0` is in the lemma;
- arithmetic behind the macros: three signs index the answer of a comparison
  (`IndexMeans`); a word shifted right is the sum of four shifted bytes, and their
  additions carry nowhere (`ShiftSum`, `SumByte`);
- the program's own loads and stores, whose addresses may be anywhere: `Reaches` is
  `Does` with the condition on which the code strays;
- instructions: what the expansion leaves is what the ISA says (`...Agrees`), and
  every well-formed instruction is one of those (`InstructionRight`).

The assumptions of `MiniRv` are those of its own text (`inst-replace.h:5-11`): the
compiler names neither `tp` nor `gp`, and nothing it loads is in the memory the macros
write. Beside them stand what the assembler checks or encodes (an immediate of twelve
bits, a shift amount below 32), the width of a byte (from five bits, so that one byte of
the `and` table masks a shift amount, to the eight of the code), destinations that are
neither `zero` nor, but for `sub`, `sp`, and `seqz s0`, which is wrong in the code
(section 5). The instance that TLC runs satisfies them.

In `Lockstep` no such fact is needed: both sides apply the same operator to the same
operands, and `InReach` requires the address of an access to be a word, as it is
wherever the registers hold words. That `Modulus` is positive is proved from `Pow2` too.

Only model-checked:

- all liveness properties (`StepsEnd`, `CloseEndsRun`, `CallsReturn`, `Progress`,
  `Scheduled`, `Answered`, `Drained`, `Halts`, `RequestsEnd`, `NonzeroEnds`):
  liveness under fairness and ENABLED are out of TLAPS's reach here.

Every invariant that a run checks is proved, and every action property and refinement
that is not about liveness.

## 5. What the checks found

| Run | Finding |
|---|---|
| `monitor_end` | A watchpoint that fires on the last instruction turns `NEMU_END` into `NEMU_STOP`, and `c` runs on past the trap (`cpu-exec.c:47`), where `cpu_exec` says of an ended program "To restart the program, exit NEMU and run again" (`cpu-exec.c:112`) |

Other behaviour seen while modelling. It is in the models as it is in the code,
or kept out by an assumption that says so:

- Debugger: `cmd_w` asserts that `new_wp()` is not NULL after it may return NULL,
  so that one `w` too many ends NEMU (`sdb.c:122`); `cmd_x` checks only its first
  word (`sdb.c:95`).
- Expressions: after `==`, `!=` and `&&` a `*` or `-` is taken for the binary
  operator: `1 == *p` and `x && *p` give 0, `127 == -2 / 2` is worth something
  else than in C; `--1`, `-*p`, `**p` and a lone operator reach
  `assert(0)`; `(1 2)` and `1+2 3` recurse without end; `1 2` and `()` are 0,
  `1+` is 1. `MeansWhatCMeans` is about expressions whose unary operators stand
  where `make_token` looks for them (`Recognised`). An expression of more than 32 tokens runs over
  the array (`expr.c:116`).
- Differential testing: `isa_difftest_checkregs` is a stub that returns false in
  every ISA, before it looks (`isa/riscv32/difftest/dut.c:20`), so that the first
  instruction that is compared stops NEMU with `NEMU_ABORT` though its registers are
  the reference's. `init_difftest` says that "The result of every instruction will be
  compared" (`cpu/difftest/dut.c:85`). TLC, run by hand with `RegsHook = {FALSE}`,
  finds `state = "ABORT" => ref # dut` violated there; so no property here says that a
  stop means a difference. `MistakesShow` says what the stub was shown when it said no.
- Interpreter: `slti` compares unsigned and `sltiu` cuts its immediate
  (`inst.c:95`); division by zero stops the host (`inst.c:83`); bounds checks look
  at the first byte of an access (`paddr.c:54`).
- Core: funct3 of loads, stores and `jalr` is ignored (`Decoder.scala:81`).
- `GCD` with first operand 0 subtracts zero for ever (`GCD.scala:20`):
  `NonzeroEnds` makes the exception. `GCDSpec`'s loop ends before the last answers
  are looked at (`GCDSpec.scala:42`).
- minirv: `seqz s0, rs` restores the saved `s0` over its result
  (`inst-replace.h:272`); `MCInsts` leaves out that one destination.
- thread-os: a processor whose number is not below that of the tasks finds no
  task of its own and walks the ring for ever (`thread-os.c:51`); `main` has room
  for 8 processors and `platform.c` allows 16. `ThreadOs` was also run by hand on
  2 tasks and 3 processors, which shows that the other processors are not disturbed.
- Devices: reading the low half of the clock first gives halves of two times
  (`timer.c:24`); the audio pipe's `count` is changed from two sides without a
  lock, and short writes are taken for whole ones (`native/ioe/audio.c:36`); a
  remapped page makes the list of mappings a cycle (`native/vme.c:113`).

## 6. Not modelled, and limits

`PROJECT.json` lists every part with its status. The map covers under a tenth of
the repository's implementation lines. Most of what is left is not this
workbench's own logic: the kconfig and fixdep tools taken from Linux (about ten
thousand lines), a ROM image in C (`mario-rom.c`), `libgcc`, the ported programs
and benchmarks with their data (litenes, coremark, dhrystone, microbench), and
generated files. Models of them would say nothing about the system. Of the
repository's own code, these are left out:

- stubs and skeletons: MMU and interrupts of riscv32, vga, audio and disk of NEMU,
  the `rtl` modules, most of klib (`panic("Not implemented")`), the drivers of the
  AM on NEMU that are left for the reader of the workbench to write;
- the other ISAs of NEMU: interpreters behind the same interface, with a handful
  of instructions each;
- the adapters for Spike (calls the simulator as a library) and KVM (single steps
  of the host processor); what NEMU uses of them is `Difftest`;
- the native AM's memory, sound and screen: wrappers of the host; the audio pipe
  is a race with nothing left to promise;
- `yield-os`: `thread-os` with two tasks, one processor, no timer and no lock;
- start-up and logging, build files, and pure I/O (disassembly, option parsing).

Abstractions a reader should know of:

- `cmd_w` copies its argument into 32 bytes without a bound (`sdb.c:125-129`);
  the model has arguments that fit.
- Guest instructions in `Monitor` have arbitrary effects on watched values; no
  instruction set is attached to it.
- The reference emulator of `Difftest` is external, and makes no mistakes. In
  `QemuDifftest` a spoiled packet keeps what delimits it and its place in the
  stream, signs are not spoiled, and hexadecimal, escapes and run lengths are
  abstracted to whether a packet is understood.
- `Expr` starts from tokens: the regular expressions that cut a line are left out,
  and a register is a number.
- `SdCard` has no probe and remove of the driver, and no constants of the card's
  identification registers.
- `Keyboard` has a set of keys for the tables of scan codes.
- `ThreadOs` has no memory set-up (`init_platform`); a step of a thread between
  two places is atomic where nothing shared is touched.
- `Lockstep` covers the fourteen instructions of the core. The other instructions of
  `inst.c` are translated in `NemuRiscv32`; `minirv` uses their ALU and branch
  operators, and nothing runs its multiplication and division.
- `MiniRv` leaves out assembler errors (`.abort` for operands `sp`, `gp`, `tp` of
  logic instructions), labels, and the pseudo-instructions that only rename or
  swap operands of a modelled one.

## 7. State of the work

Modelled first: watchpoints, run control, differential testing, the core with its
benches and the interpreter beside it, minirv, the GCD units; then thread-os and
the native processors, the SD card with its driver, both keyboards, expressions,
the conversation with QEMU, and the proofs about thread-os, the keyboards and the
run control; then the proofs about differential testing down to the packets, the
SD card and the bench of the GCD units; then those about the core's benches and about
the expression evaluator; last the proofs about minirv.

What would add most from here, in order:

1. more of the instruction set in `Lockstep` if the core grows, and NEMU's division
   and comparison instructions against the ISA once the code is mended;
2. `audio.c` once its counter is guarded.
