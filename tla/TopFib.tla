------------------------------- MODULE TopFib -------------------------------
(***************************************************************************)
(* The core under its two test benches, which run the same program.        *)
(*                                                                         *)
(* The chiseltest bench (TopFibProgramTest.scala) downloads the program    *)
(* word by word, from the last to the first, while the core is running     *)
(* whatever its instruction memory holds; resets the pc; looks at the      *)
(* first four fetches; resets the pc again and lets the program run.       *)
(*                                                                         *)
(* The Verilator bench (sim/TopTestFramework.h) holds the reset while it   *)
(* downloads, from the first word to the last: the core executes the word  *)
(* at address 0 in every cycle.                                            *)
(*                                                                         *)
(* The reset reaches the pc only.  So nothing of what the core did in the  *)
(* meantime to its registers and its data memory may matter.               *)
(***************************************************************************)
EXTENDS Rv32iTop, Sequences

VARIABLES
  phase,     \* "load", "reset", "fetch", "restart" (chiseltest), "hold",
             \* "settle" (Verilator), "run", "halt", "timeout"
  index,     \* the next word to download
  fetched,   \* fetchedAfterLoad
  cycles     \* of the program

bench == <<phase, index, fetched, cycles>>

-----------------------------------------------------------------------------
(* TinyRv32Asm and the program *)

encodeR(f7, s2, s1, f3, d, op) ==
  [funct7 |-> f7, rs2 |-> s2, rs1 |-> s1, funct3 |-> f3, rd |-> d, opcode |-> op]

encodeI(n, s1, f3, d, op) ==
  LET imm12 == n % 4096 IN encodeR(imm12 \div 32, imm12 % 32, s1, f3, d, op)

encodeS(n, s2, s1, f3, op) ==
  LET imm12 == n % 4096 IN encodeR(imm12 \div 32, s2, s1, f3, imm12 % 32, op)

encodeB(offset, s2, s1, f3, op) ==
  LET imm13 == offset % 8192 IN
  encodeR(Bit(imm13, 12) * 64 + ((imm13 \div 32) % 64), s2, s1, f3,
          ((imm13 \div 2) % 16) * 2 + Bit(imm13, 11), op)

addi(d, s1, n)      == encodeI(n, s1, 0, d, OP_IMM)
add(d, s1, s2)      == encodeR(0, s2, s1, 0, d, OP)
lw(d, s1, n)        == encodeI(n, s1, 2, d, LOAD)
sw(s2, s1, n)       == encodeS(n, s2, s1, 2, STORE)
beq(s1, s2, offset) == encodeB(offset, s2, s1, 0, BRANCH)

FibN        == 10
ExpectedFib == 55
HaltPc      == 56
FailPc      == 52
maxCycles   == 200

Program ==
  << addi(1, 0, 0), addi(2, 0, 1), addi(3, 0, FibN), addi(4, 0, 0),
     beq(4, 3, 24),
     add(5, 1, 2), add(1, 2, 0), add(2, 5, 0), addi(4, 4, 1),
     beq(0, 0, -20),
     sw(1, 0, 0), lw(6, 0, 0),
     beq(6, 1, 8), beq(0, 0, 0), beq(6, 1, 0) >>

\* The program fits into the memory, and what it computes into a word.
ASSUME ProgramAssumption == Len(Program) <= MEM_INST_SIZE /\ 128 <= Modulus

-----------------------------------------------------------------------------
(* The bench *)

BenchInit ==
  /\ Init
  /\ \/ phase = "load" /\ index = Len(Program) - 1
     \/ phase = "hold" /\ index = 0
  /\ fetched = <<>> /\ cycles = 0

\* One word, in the direction step, with the reset held or not.
Download(from, reset, step, last, to) ==
  /\ phase = from
  /\ Clock(reset, Write(4 * index, Program[index + 1]), None)
  /\ IF index = last THEN phase' = to /\ index' = index
     ELSE index' = index + step /\ phase' = phase
  /\ UNCHANGED <<fetched, cycles>>

Reset(from, to) ==
  /\ phase = from
  /\ Clock(TRUE, None, None)
  /\ phase' = to
  /\ UNCHANGED <<index, fetched, cycles>>

Fetch ==
  /\ phase = "fetch"
  /\ fetched' = Append(fetched, inst)
  /\ Clock(FALSE, None, None)
  /\ phase' = IF Len(fetched') = 4 THEN "restart" ELSE "fetch"
  /\ UNCHANGED <<index, cycles>>

\* The loop looks for the halt loop before each of at most maxCycles cycles.
reachedHalt ==
  regPC = HaltPc /\ ResultBranch(ctrl, DataRead(inst.rs1), DataRead(inst.rs2))

Run ==
  /\ phase = "run" /\ cycles < maxCycles /\ ~ reachedHalt
  /\ Clock(FALSE, None, None)
  /\ cycles' = cycles + 1
  /\ UNCHANGED <<phase, index, fetched>>

EndRun ==
  /\ phase = "run"
  /\ cycles = maxCycles \/ reachedHalt
  /\ phase' = IF cycles < maxCycles THEN "halt" ELSE "timeout"
  /\ UNCHANGED <<vars, index, fetched, cycles>>

BenchNext ==
  \/ Download("load", FALSE, -1, 0, "reset")
  \/ Reset("reset", "fetch")
  \/ Fetch
  \/ Reset("restart", "run")
  \/ Download("hold", TRUE, 1, Len(Program) - 1, "settle")
  \/ Reset("settle", "run")
  \/ Run
  \/ EndRun

\* A bench is one thread that steps the clock until it is done.
BenchSpec ==
  BenchInit /\ [][BenchNext]_<<vars, bench>> /\ WF_<<vars, bench>>(BenchNext)

-----------------------------------------------------------------------------
(* Properties *)

\* TopFibProgramTest.scala:160 and 223-228, what the two benches assert.
\* After the download and a reset the core fetches the program's first four
\* words, wherever the pc was and whatever the core did while it was
\* downloaded; and the program never enters the loop that reports a wrong
\* load and halts with fib(10) in the registers it compares, whatever was left
\* in the registers and the data memory.
ComputesFib ==
  /\ \A n \in DOMAIN fetched : fetched[n] = Program[n]
  /\ phase \in {"run", "halt"} => regPC # FailPc
  /\ phase = "halt" =>
       /\ inst = Program[HaltPc \div 4 + 1]
       /\ DataRead(inst.rs1) = ExpectedFib
       /\ DataRead(inst.rs2) = ExpectedFib

\* TopFibProgramTest.scala:218-221.  The halt loop is reached in maxCycles.
Halts == <>(phase = "halt")

=============================================================================
