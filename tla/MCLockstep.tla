----------------------------- MODULE MCLockstep -----------------------------
(***************************************************************************)
(* Programs for the two machines, over a sample of registers and           *)
(* immediates.  The instruction memory is so small that a program wraps    *)
(* round, and MaxCycles bounds a run.  Words have 24 bits: no bit of an    *)
(* immediate is cut off, and the largest shifts empty a word.              *)
(*   Pairs: two instructions, for what one leaves to the next: the ALU,    *)
(*          loads, stores, branches and jumps, with values at the corners  *)
(*          of the word and downloads through both ports.                  *)
(*   Ones:  one instruction, twice: the corners of every field of the I,   *)
(*          S, B and J formats.                                            *)
(***************************************************************************)
EXTENDS Lockstep

CONSTANT MaxCycles

ASSUME MaxCyclesAssumption == MaxCycles \in Nat

VARIABLE cycles

fetched == <<vars, nemu, cycles>>

Fields(f7, r2, r1, f3, d, op) ==
  [funct7 |-> f7, rs2 |-> r2, rs1 |-> r1, funct3 |-> f3, rd |-> d, opcode |-> op]

\* R format on x1 and x2, with x0 as a source and as a destination.
RSample ==
  {Fields(f[1], s, 1, f[2], d, OP) :
     f \in {<<0, 0>>, <<32, 0>>, <<0, 7>>, <<0, 6>>, <<0, 1>>, <<0, 5>>},
     s \in {0, 2}, d \in {0, 1}}

\* The rest: immediates 4, -4 (or 2 and -2 for the targets), -1 and 0.
PairRest ==
  {Fields(f7, 4, 1, f3, 2, OP_IMM) : f7 \in {0, 127}, f3 \in {0, 6}}
    \cup {Fields(0, 4, r1, 2, 1, LOAD) : r1 \in {0, 2}}
    \cup {Fields(0, 1, r1, 2, d, STORE) : r1 \in {0, 2}, d \in {0, 4}}
    \cup {Fields(f7, 2, 1, f3, 29, BRANCH) : f7 \in {0, 127}, f3 \in {0, 1}}
    \cup {Fields(0, 4, 1, 0, d, JALR) : d \in {0, 1}}
    \cup {Fields(0, 8, 31, 7, d, JAL) : d \in {0, 2}}

PairInsts == RSample \cup PairRest

Pairs == {[a \in {0, 1} |-> IF a = 0 THEN i ELSE j] : i, j \in PairInsts}

Corners == {0, 3, Modulus \div 2 - 1, Modulus \div 2, Modulus - 4}

RegsWith(x, y) == [r \in 0 .. 31 |-> CASE r = 1 -> x [] r = 2 -> y [] OTHER -> 0]

PairRegs == {RegsWith(x, y) : x \in Corners, y \in Corners \cup {8}}

Zeros == [a \in 0 .. MEM_DATA_SIZE - 1 |-> 0]

MCPowerUpData == {Zeros}

\* What is downloaded meanwhile: a jump over the second word, and a datum.
MCInstWrites == {Write(4, Fields(0, 8, 0, 0, 2, JAL))}
MCDataWrites == {Write(8, Modulus - 1)}

\* The corners of the fields an immediate is made of.
OneInsts ==
  {Fields(f7, r2, r1, 0, 1, op) :
      f7 \in {0, 31, 32, 63, 64, 127}, r2 \in {0, 1, 30, 31}, r1 \in {0, 2}, op \in {OP_IMM, JALR}}
    \cup {Fields(f7, r2, 2, 2, 1, LOAD)  : f7 \in {0, 64, 127}, r2 \in {0, 4, 28}}
    \cup {Fields(f7, 1, 2, 2, d, STORE) : f7 \in {0, 64, 127}, d \in {0, 4, 28}}
    \cup {Fields(f7, 1, 2, f3, d, BRANCH) :
             f7 \in {0, 31, 32, 63, 64, 127}, f3 \in {0, 1}, d \in {0, 1, 2, 30, 31}}
    \cup {Fields(f7, r2, r1, f3, 1, JAL) :
             f7 \in {0, 31, 32, 63, 64, 127}, r2 \in {0, 1, 2, 30, 31},
             r1 \in {0, 1, 16, 31}, f3 \in {0, 1, 7}}

Ones == {[a \in {0, 1} |-> i] : i \in OneInsts}

MCPowerUpInst == Pairs \cup Ones

\* x2 reaches the data memory with the immediates of the loads and stores.
OneRegs == {RegsWith(1, y) : y \in {0, 32, 2048, Modulus - 28}}

MCPowerUpRegs == PairRegs \cup OneRegs

MCInit ==
  /\ LockInit
  /\ cycles = 0
  /\ IF memInst \in Ones THEN regs \in OneRegs ELSE regs \in PairRegs

MCNext ==
  /\ cycles < MaxCycles
  /\ cycles' = cycles + 1
  /\ LockNext

MCSpec == MCInit /\ [][MCNext]_fetched
=============================================================================
