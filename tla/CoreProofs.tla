---------------------------- MODULE CoreProofs -----------------------------
(***************************************************************************)
(* The Chisel core and NEMU's interpreter stay in lockstep, for every word *)
(* width, every size of the memories, every program and every download     *)
(* (sections 1 to 6).  The proof goes by format.  For each, one lemma says *)
(* what decode_exec() makes of the instruction, one what the core drives   *)
(* on its wires, and the two are equal because the immediates are.         *)
(*                                                                         *)
(* The core under its two test benches computes fib(10), whatever it holds *)
(* at power-up (sections 7 to 12).  The invariant says how far the         *)
(* download is, which words were fetched and, from the last reset on,      *)
(* where in the program the core is and what that place needs of the       *)
(* registers.                                                              *)
(***************************************************************************)
EXTENDS Lockstep, TopFib, SequenceTheorems, WellFoundedInduction, TLAPS

-----------------------------------------------------------------------------
(* 1. Words and immediates *)

LessThan == {ss \in Nat \X Nat : ss[1] < ss[2]}

\* A set of naturals that has 0 and the successor of each member is Nat.
LEMMA Induction ==
  ASSUME NEW T \in SUBSET Nat, 0 \in T, \A n \in T : n + 1 \in T
  PROVE  T = Nat
<1> SUFFICES ASSUME Nat \ T # {} PROVE FALSE
  OBVIOUS
<1>1. IsWellFoundedOn(LessThan, Nat)
  BY NatLessThanWellFounded DEF OpToRel, LessThan
<1>2. PICK l \in Nat \ T : \A k \in Nat \ T : ~ (<<k, l>> \in LessThan)
  BY <1>1, WFMin
<1>3. l # 0 /\ l - 1 \in Nat /\ <<l - 1, l>> \in LessThan
  BY DEF LessThan
<1>4. l - 1 \in T
  BY <1>2, <1>3
<1> QED BY <1>4

\* The powers of two up to the n-th.
Doubles(n, f) ==
  /\ f \in [0 .. n -> Nat \ {0}]
  /\ f[0] = 1
  /\ \A i \in 1 .. n : f[i] = 2 * f[i - 1]

LEMMA DoublesExist == ASSUME NEW n \in Nat PROVE \E f : Doubles(n, f)
<1> DEFINE T == {k \in Nat : \E f : Doubles(k, f)}
<1>1. 0 \in T
  <2>1. Doubles(0, [i \in 0 .. 0 |-> 1])
    BY DEF Doubles
  <2> QED BY <2>1
<1>2. ASSUME NEW k \in T PROVE k + 1 \in T
  <2> PICK f : Doubles(k, f)
    OBVIOUS
  <2> DEFINE g == [i \in 0 .. k + 1 |-> IF i = k + 1 THEN 2 * f[k] ELSE f[i]]
  <2>1. k \in Nat /\ f[k] \in Nat \ {0}
    BY DEF Doubles
  <2>2. g \in [0 .. k + 1 -> Nat \ {0}] /\ g[0] = 1
    BY <2>1 DEF Doubles
  <2>3. ASSUME NEW i \in 1 .. k + 1 PROVE g[i] = 2 * g[i - 1]
    <3>1. CASE i = k + 1
      BY <2>1, <3>1
    <3>2. CASE i # k + 1
      <4>1. i \in 1 .. k /\ g[i] = f[i] /\ g[i - 1] = f[i - 1]
        BY <2>1, <3>2
      <4> HIDE DEF g
      <4> QED BY <4>1 DEF Doubles
    <3> QED BY <3>1, <3>2
  <2> HIDE DEF g
  <2>4. Doubles(k + 1, g)
    BY <2>2, <2>3 DEF Doubles
  <2> QED BY <2>1, <2>4
<1> HIDE DEF T
<1>3. T = Nat
  BY <1>1, <1>2, Induction DEF T
<1> QED BY <1>3 DEF T

LEMMA DoublesSame ==
  ASSUME NEW n \in Nat, NEW l \in Nat, NEW f, NEW g, Doubles(n, f), Doubles(l, g),
         NEW k \in Nat, k <= n, k <= l
  PROVE  f[k] = g[k]
<1> DEFINE T == {i \in Nat : i <= n /\ i <= l => f[i] = g[i]}
<1>1. 0 \in T
  BY DEF Doubles
<1>2. ASSUME NEW i \in T PROVE i + 1 \in T
  <2> SUFFICES ASSUME i + 1 <= n, i + 1 <= l PROVE f[i + 1] = g[i + 1]
    OBVIOUS
  <2> DEFINE i1 == i + 1
  <2>1. i \in Nat /\ f[i] = g[i] /\ i1 \in 1 .. n /\ i1 \in 1 .. l /\ i1 - 1 = i
    OBVIOUS
  <2> HIDE DEF i1
  <2>2. f[i1] = g[i1]
    BY <2>1 DEF Doubles
  <2> QED BY <2>2 DEF i1
<1> HIDE DEF T
<1>3. T = Nat
  BY <1>1, <1>2, Induction DEF T
<1> QED BY <1>3 DEF T

\* Pow2 has its equations.
LEMMA Pow2Is == Pow2 = [n \in Nat |-> IF n = 0 THEN 1 ELSE 2 * Pow2[n - 1]]
<1> DEFINE upto(n) == CHOOSE f : Doubles(n, f)
           h       == [n \in Nat |-> upto(n)[n]]
           Eq(f)   == f = [n \in Nat |-> IF n = 0 THEN 1 ELSE 2 * f[n - 1]]
<1>1. ASSUME NEW n \in Nat PROVE Doubles(n, upto(n))
  BY DoublesExist
<1> HIDE DEF upto
<1>2. ASSUME NEW n \in Nat PROVE h[n] = IF n = 0 THEN 1 ELSE 2 * h[n - 1]
  <2>1. h[n] = upto(n)[n] /\ (n # 0 => n - 1 \in Nat /\ n \in 1 .. n /\ h[n - 1] = upto(n - 1)[n - 1])
    OBVIOUS
  <2>2. n # 0 => upto(n - 1)[n - 1] = upto(n)[n - 1]
    <3> SUFFICES ASSUME n # 0 PROVE upto(n - 1)[n - 1] = upto(n)[n - 1]
      OBVIOUS
    <3> DEFINE l == n - 1
    <3>1. l \in Nat /\ l <= l /\ l <= n
      OBVIOUS
    <3> HIDE DEF l
    <3>2. upto(l)[l] = upto(n)[l]
      BY <1>1, <3>1, DoublesSame
    <3> QED BY <3>2 DEF l
  <2> HIDE DEF h
  <2>3. CASE n = 0
    BY <1>1, <2>1, <2>3 DEF Doubles
  <2>4. CASE n # 0
    BY <1>1, <2>1, <2>2, <2>4 DEF Doubles
  <2> QED BY <2>3, <2>4
<1>3. Eq(h)
  <2> DEFINE g == [n \in Nat |-> IF n = 0 THEN 1 ELSE 2 * h[n - 1]]
  <2>1. \A n \in Nat : h[n] = g[n]
    BY <1>2
  <2>2. h = [n \in Nat |-> h[n]] /\ g = [n \in Nat |-> g[n]]
    OBVIOUS
  <2>3. h = g
    <3> HIDE DEF g, h
    <3> QED BY <2>1, <2>2
  <2> QED BY <2>3
<1> HIDE DEF h
<1> QED BY <1>3, Zenon DEF Pow2

\* The powers that the bits of a branch's immediate stand for.
LEMMA Pow2Small == Pow2[11] = 2048 /\ Pow2[12] = 4096
<1>1. Pow2[0] = 1 /\ \A n \in Nat : Pow2[n + 1] = 2 * Pow2[n]
  <2>1. \A n \in Nat : Pow2[n] = IF n = 0 THEN 1 ELSE 2 * Pow2[n - 1]
    BY Pow2Is
  <2>2. ASSUME NEW n \in Nat PROVE Pow2[n + 1] = 2 * Pow2[n]
    <3>1. n + 1 \in Nat /\ n + 1 # 0 /\ (n + 1) - 1 = n
      OBVIOUS
    <3> QED BY <2>1, <3>1
  <2> QED BY <2>1, <2>2
<1>2. Pow2[1] = 2 /\ Pow2[2] = 4 /\ Pow2[3] = 8 /\ Pow2[4] = 16
  BY <1>1
<1>3. Pow2[5] = 32 /\ Pow2[6] = 64 /\ Pow2[7] = 128 /\ Pow2[8] = 256
  BY <1>1, <1>2
<1>4. Pow2[9] = 512 /\ Pow2[10] = 1024 /\ Pow2[11] = 2048 /\ Pow2[12] = 4096
  BY <1>1, <1>3
<1> QED BY <1>4

LEMMA ModulusPositive == Modulus \in Nat \ {0}
<1> DEFINE T == {n \in Nat : Pow2[n] \in Nat \ {0}}
<1>1. \A n \in Nat : Pow2[n] = IF n = 0 THEN 1 ELSE 2 * Pow2[n - 1]
  BY Pow2Is
<1>2. 0 \in T
  BY <1>1
<1>3. \A n \in T : n + 1 \in T
  BY <1>1
<1> HIDE DEF T
<1>4. T = Nat
  BY <1>2, <1>3, Induction DEF T
<1> QED BY <1>4, ByteWidthAssumption DEF T, Modulus, DATA_WIDTH

\* What is reduced to a word is one.
LEMMA ModWord == ASSUME NEW n \in Int PROVE n % Modulus \in Word
BY ModulusPositive DEF Word

\* Adding words gives a word.
LEMMA AddWord == ASSUME NEW a \in Int, NEW b \in Int PROVE Add(a, b) \in Word
BY ModWord DEF Add

\* ImmGen and decode_operand() build the same immediates.
LEMMA SameImmI == ASSUME NEW i \in Inst PROVE ImmGen(i, "I") = immI(i)
BY SMT DEF ImmGen, immI

LEMMA SameImmS == ASSUME NEW i \in Inst PROVE ImmGen(i, "S") = immS(i)
<1>1. Sext(i.funct7 * 32 + i.rd, 4096) = Sext(i.funct7, 128) * 32 + i.rd
  BY SMT DEF Sext, Inst
<1> QED BY <1>1, SMT DEF ImmGen, immS

LEMMA SameImmB == ASSUME NEW i \in Inst PROVE ImmGen(i, "B") = immB(i)
<1>1. Sext((i.funct7 \div 64) * 4096 + (i.rd % 2) * 2048
             + (i.funct7 % 64) * 32 + (i.rd \div 2) * 2, 8192)
        = Sext(i.funct7 \div 64, 2) * 4096 + (i.funct7 % 64) * 32
             + (i.rd \div 2) * 2 + (i.rd % 2) * 2048
  BY SMT DEF Sext, Inst
<1> QED BY <1>1, SMT DEF ImmGen, immB

LEMMA SameImmJ == ASSUME NEW i \in Inst PROVE ImmGen(i, "J") = immJ(i)
<1> DEFINE b20      == i.funct7 \div 64
           b19to12  == i.rs1 * 8 + i.funct3
           b11      == i.rs2 % 2
           b10to1   == (i.funct7 % 64) * 16 + i.rs2 \div 2
<1>1. b20 \in {0, 1} /\ b19to12 \in 0 .. 255 /\ b11 \in {0, 1} /\ b10to1 \in 0 .. 1023
  BY SMT DEF Inst
<1>2. Sext(b20 * 1048576 + b19to12 * 4096 + b11 * 2048 + b10to1 * 2, 2097152)
        = Sext(b20, 2) * 1048576 + b10to1 * 2 + b11 * 2048 + b19to12 * 4096
  <2> HIDE DEF b20, b19to12, b11, b10to1
  <2> QED BY <1>1, SMT DEF Sext
<1> QED BY <1>2, SMT DEF ImmGen, immJ

\* Immediates are words.
LEMMA ImmWord ==
  ASSUME NEW i \in Inst
  PROVE  immI(i) \in Word /\ immS(i) \in Word /\ immB(i) \in Word /\ immJ(i) \in Word
<1> DEFINE I  == i.funct7 * 32 + i.rs2
           St == i.funct7 * 32 + i.rd
           B  == (i.funct7 \div 64) * 4096 + (i.rd % 2) * 2048
                   + (i.funct7 % 64) * 32 + (i.rd \div 2) * 2
           J  == (i.funct7 \div 64) * 1048576
                   + (i.rs1 * 8 + i.funct3) * 4096 + (i.rs2 % 2) * 2048
                   + ((i.funct7 % 64) * 16 + i.rs2 \div 2) * 2
<1>1. I \in Int /\ St \in Int /\ B \in Int /\ J \in Int
  <2>1. /\ i.funct7 \in Int /\ i.rs2 \in Int /\ i.rs1 \in Int
        /\ i.funct3 \in Int /\ i.rd \in Int
    BY SMT DEF Inst
  <2> QED BY <2>1, SMT
<1>2. \A n \in Int, size \in {4096, 8192, 2097152} : ToWord(Sext(n, size)) \in Word
  <2>1. \A n \in Int, size \in {4096, 8192, 2097152} : Sext(n, size) \in Int
    BY SMT DEF Sext
  <2> QED BY <2>1, ModWord, SMT DEF ToWord
<1>3. /\ ToWord(Sext(I, 4096)) \in Word /\ ToWord(Sext(St, 4096)) \in Word
      /\ ToWord(Sext(B, 8192)) \in Word /\ ToWord(Sext(J, 2097152)) \in Word
  <2> HIDE DEF I, St, B, J
  <2> QED BY <1>1, <1>2, SMT
<1>4. /\ ImmGen(i, "I") = ToWord(Sext(I, 4096)) /\ ImmGen(i, "S") = ToWord(Sext(St, 4096))
      /\ ImmGen(i, "B") = ToWord(Sext(B, 8192)) /\ ImmGen(i, "J") = ToWord(Sext(J, 2097152))
  BY SMT DEF ImmGen
<1> QED
  <2> HIDE DEF I, St, B, J
  <2> QED BY <1>3, <1>4, SameImmI, SameImmS, SameImmB, SameImmJ, SMT

\* An address in reach indexes the same word of both memories.
LEMMA WordAddrAligned ==
  ASSUME NEW addr, Aligned(addr)
  PROVE  /\ WordAddr(addr, MEM_DATA_SIZE) = addr \div 4
         /\ addr \div 4 \in 0 .. MEM_DATA_SIZE - 1
         /\ (addr + 3) \div 4 = addr \div 4
         /\ addr \in Nat
<1>1. addr \in Nat /\ addr % 4 = 0 /\ addr \div 4 < MEM_DATA_SIZE
  BY ModulusPositive DEF Aligned, Word
<1>2. addr \div 4 \in 0 .. MEM_DATA_SIZE - 1 /\ (addr + 3) \div 4 = addr \div 4
  BY <1>1, MemAssumption
<1>3. \A n \in Nat, k \in Nat \ {0} : n < k => n % k = n
  OBVIOUS
<1> QED BY <1>1, <1>2, <1>3, MemAssumption DEF WordAddr

\* An address of the instruction memory is in it.
LEMMA WordAddrInst ==
  ASSUME NEW addr \in Word
  PROVE  WordAddr(addr, MEM_INST_SIZE) \in 0 .. MEM_INST_SIZE - 1
<1>1. addr \div 4 \in Nat
  BY ModulusPositive DEF Word
<1> QED BY <1>1, MemAssumption DEF WordAddr
-----------------------------------------------------------------------------
(* 2. What decode_exec() makes of the fourteen instructions *)

LEMMA Opcodes ==
  /\ OP = 51 /\ OP_IMM = 19 /\ LOAD = 3 /\ STORE = 35 /\ BRANCH = 99
  /\ JALR = 103 /\ JAL = 111 /\ LUI = 55 /\ AUIPC = 23 /\ SYSTEM = 115
BY DEF OP, OP_IMM, LOAD, STORE, BRANCH, JALR, JAL, LUI, AUIPC, SYSTEM

LEMMA ExecIsOp ==
  ASSUME NEW i \in Inst, i.opcode = OP, Fourteen(i)
  PROVE  DecodeExec(i, pc, gpr, mem)
           = Writes(i, RegOp(i.funct7, i.funct3, gpr[i.rs1], gpr[i.rs2]), Add(pc, 4), gpr, mem)
<1>1. <<i.funct7, i.funct3>> \in RegFuncts /\ i.funct7 # 1
  BY Opcodes, SMT DEF Fourteen, RegFuncts, Inst
<1>2. DecodeExec(i, pc, gpr, mem) = ExecOp(i, pc, gpr, mem)
  BY <1>1, Opcodes, SMT DEF DecodeExec
<1> QED BY <1>1, <1>2, SMT DEF ExecOp, Traps

LEMMA ExecIsImm ==
  ASSUME NEW i \in Inst, i.opcode = OP_IMM, Fourteen(i)
  PROVE  DecodeExec(i, pc, gpr, mem)
           = Writes(i, ImmOp(i.funct7, i.funct3, gpr[i.rs1], immI(i)), Add(pc, 4), gpr, mem)
<1>1. ImmFunct(i.funct7, i.funct3)
  BY Opcodes, SMT DEF Fourteen, ImmFunct, Inst
<1> QED BY <1>1, Opcodes, SMT DEF DecodeExec

LEMMA ExecIsLoad ==
  ASSUME NEW i \in Inst, i.opcode = LOAD, Fourteen(i),
         NEW addr, addr = Add(gpr[i.rs1], immI(i)), Aligned(addr),
         DOMAIN mem = 0 .. MEM_DATA_SIZE - 1
  PROVE  DecodeExec(i, pc, gpr, mem) = Writes(i, mem[addr \div 4], Add(pc, 4), gpr, mem)
<1>1. i.funct3 = 2
  BY Opcodes, SMT DEF Fourteen, Inst
<1>2. Access(mem, addr, 4) = "RUNNING"
  BY WordAddrAligned, SMT DEF Access
<1>3. Extended(2, Mr(mem, addr, 4)) = mem[addr \div 4]
  BY SMT DEF Extended, Mr, Aligned
<1>4. LoadLen(2) = 4
  BY DEF LoadLen
<1>5. DecodeExec(i, pc, gpr, mem) = ExecLoad(i, addr, pc, gpr, mem)
  BY <1>1, Opcodes, SMT DEF DecodeExec
<1> QED BY <1>1, <1>2, <1>3, <1>4, <1>5, SMT DEF ExecLoad

LEMMA ExecIsStore ==
  ASSUME NEW i \in Inst, i.opcode = STORE, Fourteen(i),
         NEW addr, addr = Add(gpr[i.rs1], immS(i)), Aligned(addr),
         DOMAIN mem = 0 .. MEM_DATA_SIZE - 1
  PROVE  DecodeExec(i, pc, gpr, mem)
           = Goes(Add(pc, 4), gpr, [mem EXCEPT ![addr \div 4] = gpr[i.rs2]])
<1>1. i.funct3 = 2
  BY Opcodes, SMT DEF Fourteen, Inst
<1>2. Access(mem, addr, 4) = "RUNNING"
  BY WordAddrAligned, SMT DEF Access
<1>3. Mw(mem, addr, 4, gpr[i.rs2]) = [mem EXCEPT ![addr \div 4] = gpr[i.rs2]]
  BY SMT DEF Mw, Aligned
<1>4. StoreLen(2) = 4
  BY DEF StoreLen
<1>5. DecodeExec(i, pc, gpr, mem) = ExecStore(i, addr, pc, gpr, mem)
  BY <1>1, Opcodes, SMT DEF DecodeExec
<1> QED BY <1>1, <1>2, <1>3, <1>4, <1>5, SMT DEF ExecStore

LEMMA ExecIsBranch ==
  ASSUME NEW i \in Inst, i.opcode = BRANCH, Fourteen(i)
  PROVE  DecodeExec(i, pc, gpr, mem)
           = Goes(IF Taken(i.funct3, gpr[i.rs1], gpr[i.rs2]) THEN Add(pc, immB(i))
                  ELSE Add(pc, 4), gpr, mem)
<1>1. i.funct3 \notin {2, 3}
  BY Opcodes, SMT DEF Fourteen, Inst
<1> QED BY <1>1, Opcodes, SMT DEF DecodeExec

LEMMA ExecIsJump ==
  ASSUME NEW i \in Inst, Fourteen(i)
  PROVE  /\ i.opcode = JAL =>
              DecodeExec(i, pc, gpr, mem)
                = Writes(i, Add(pc, 4), Add(pc, immJ(i)), gpr, mem)
         /\ i.opcode = JALR =>
              DecodeExec(i, pc, gpr, mem)
                = Writes(i, Add(pc, 4), Add(gpr[i.rs1], immI(i)), gpr, mem)
<1>1. i.opcode = JALR => i.funct3 = 0
  BY Opcodes, SMT DEF Fourteen, Inst
<1> QED BY <1>1, Opcodes, SMT DEF DecodeExec

-----------------------------------------------------------------------------
(* 3. What the core's wires carry for them *)

\* The control bundle, by opcode.
Drives(c, jump, jal, branch, regWrite, load, store, aluSrc, op, sel) ==
  /\ c.ctrlJump = jump /\ c.ctrlJAL = jal /\ c.ctrlBranch = branch
  /\ c.ctrlRegWrite = regWrite /\ c.ctrlLoad = load /\ c.ctrlStore = store
  /\ c.ctrlALUSrc = aluSrc /\ c.ctrlOP = op /\ c.immSel = sel

LEMMA DecodeDrives ==
  ASSUME NEW i
  PROVE  /\ i.opcode = OP => Drives(Decode(i), FALSE, FALSE, FALSE, TRUE, FALSE, FALSE, FALSE, RTypeOp(i), "X")
         /\ i.opcode = OP_IMM => Drives(Decode(i), FALSE, FALSE, FALSE, TRUE, FALSE, FALSE, TRUE,
                                         IF i.funct3 = 6 THEN "OR" ELSE "ADD", "I")
         /\ i.opcode = LOAD => Drives(Decode(i), FALSE, FALSE, FALSE, TRUE, TRUE, FALSE, TRUE, "ADD", "I")
         /\ i.opcode = STORE => Drives(Decode(i), FALSE, FALSE, FALSE, FALSE, FALSE, TRUE, TRUE, "ADD", "S")
         /\ i.opcode = BRANCH => Drives(Decode(i), FALSE, FALSE, TRUE, FALSE, FALSE, FALSE, FALSE, BranchOp(i), "B")
         /\ i.opcode = JAL => Drives(Decode(i), TRUE, TRUE, FALSE, TRUE, FALSE, FALSE, TRUE, "ADD", "J")
         /\ i.opcode = JALR => Drives(Decode(i), TRUE, FALSE, FALSE, TRUE, FALSE, FALSE, TRUE, "ADD", "I")
BY Opcodes, SMT DEF Decode, NoCtrl, Drives

\* The ALU computes the register operations of the six R instructions ...
LEMMA AluIsRegOp ==
  ASSUME NEW i \in Inst, i.opcode = OP, Fourteen(i), NEW a, NEW b, NEW m
  PROVE  ResultAlu(Decode(i), a, b, m) = RegOp(i.funct7, i.funct3, a, b)
<1>1. <<i.funct7, i.funct3>> \in {<<0, 0>>, <<32, 0>>, <<0, 7>>, <<0, 6>>, <<0, 1>>, <<0, 5>>}
  BY Opcodes, SMT DEF Fourteen, Inst
<1>2. /\ ~ Decode(i).ctrlJump /\ ~ Decode(i).ctrlJAL /\ ~ Decode(i).ctrlALUSrc
      /\ Decode(i).ctrlOP = RTypeOp(i)
  BY DecodeDrives, Zenon DEF Drives
<1>3. RTypeOp(i) = CASE i.funct7 = 0  /\ i.funct3 = 0 -> "ADD"
                     [] i.funct7 = 32 /\ i.funct3 = 0 -> "SUB"
                     [] i.funct3 = 7 -> "AND"
                     [] i.funct3 = 6 -> "OR"
                     [] i.funct3 = 1 -> "SLL"
                     [] i.funct3 = 5 -> "SRL"
  BY <1>1, SMT DEF RTypeOp
<1> QED BY <1>1, <1>2, <1>3, SMT DEF ResultAlu, AluAdd, RegOp

\* ... and of addi and ori.
LEMMA AluIsImmOp ==
  ASSUME NEW i \in Inst, i.opcode = OP_IMM, Fourteen(i), NEW a, NEW b, NEW m
  PROVE  ResultAlu(Decode(i), a, b, m) = ImmOp(i.funct7, i.funct3, a, m)
<1>1. i.funct3 \in {0, 6}
  BY Opcodes, SMT DEF Fourteen, Inst
<1>2. /\ ~ Decode(i).ctrlJump /\ ~ Decode(i).ctrlJAL /\ Decode(i).ctrlALUSrc
      /\ Decode(i).ctrlOP = IF i.funct3 = 6 THEN "OR" ELSE "ADD"
  BY DecodeDrives, Zenon DEF Drives
<1> QED BY <1>1, <1>2, SMT DEF ResultAlu, AluAdd, ImmOp

\* Loads, stores and jumps use the adder, branches compare and add to the pc.
LEMMA AluIsTarget ==
  ASSUME NEW i \in Inst, Fourteen(i), NEW a, NEW b, NEW m
  PROVE  /\ i.opcode \in {LOAD, STORE} => ResultAlu(Decode(i), a, b, m) = Add(a, m)
         /\ i.opcode = JAL => ResultAlu(Decode(i), a, b, m) = Add(regPC, m)
         /\ i.opcode = JALR /\ Even(Add(a, m)) => ResultAlu(Decode(i), a, b, m) = Add(a, m)
         /\ i.opcode = BRANCH =>
              /\ ResultAlu(Decode(i), a, b, m) = Add(regPC, m)
              /\ ResultBranch(Decode(i), a, b) <=> Taken(i.funct3, a, b)
<1> DEFINE c == Decode(i)
<1>1. CASE i.opcode \in {LOAD, STORE}
  <2>1. ~ c.ctrlJump /\ ~ c.ctrlJAL /\ c.ctrlALUSrc /\ c.ctrlOP = "ADD"
    BY <1>1, DecodeDrives, Zenon DEF Drives
  <2> QED BY <1>1, <2>1, Opcodes, SMT DEF ResultAlu, AluAdd
<1>2. CASE i.opcode = JAL
  <2>1. c.ctrlJump /\ c.ctrlJAL /\ c.ctrlALUSrc /\ c.ctrlOP = "ADD"
    BY <1>2, DecodeDrives, Zenon DEF Drives
  <2> QED BY <1>2, <2>1, Opcodes, SMT DEF ResultAlu, AluAdd
<1>3. CASE i.opcode = JALR
  <2>1. c.ctrlJump /\ ~ c.ctrlJAL /\ c.ctrlALUSrc /\ c.ctrlOP = "ADD"
    BY <1>3, DecodeDrives, Zenon DEF Drives
  <2>2. ResultAlu(c, a, b, m) = Add(a, m) - (Add(a, m) % 2)
    BY <2>1, SMT DEF ResultAlu, AluAdd
  <2>3. Even(Add(a, m)) => Add(a, m) - (Add(a, m) % 2) = Add(a, m)
    BY ModulusPositive, SMT DEF Even, Word
  <2> QED BY <1>3, <2>2, <2>3, Opcodes, SMT
<1>4. CASE i.opcode = BRANCH
  <2>1. c.ctrlOP = BranchOp(i)
    BY <1>4, DecodeDrives, Zenon DEF Drives
  <2>2. i.funct3 \in {0, 1}
    BY <1>4, Opcodes, SMT DEF Fourteen, Inst
  <2>3. /\ i.funct3 = 0 => c.ctrlOP = "EQ"
        /\ i.funct3 = 1 => c.ctrlOP = "NEQ"
    BY <2>1, SMT DEF BranchOp
  <2>4. ResultAlu(c, a, b, m) = Add(regPC, m)
    BY <2>2, <2>3, SMT DEF ResultAlu
  <2>5. CASE i.funct3 = 0
    <3>1. ResultBranch(c, a, b) <=> a = b
      BY <2>3, <2>5, SMT DEF ResultBranch
    <3>2. Taken(0, a, b) <=> a = b
      BY SMT DEF Taken
    <3> QED BY <1>4, <2>4, <2>5, <3>1, <3>2, Opcodes, SMT
  <2>6. CASE i.funct3 = 1
    <3>1. ResultBranch(c, a, b) <=> a # b
      BY <2>3, <2>6, SMT DEF ResultBranch
    <3>2. Taken(1, a, b) <=> a # b
      BY SMT DEF Taken
    <3> QED BY <1>4, <2>4, <2>6, <3>1, <3>2, Opcodes, SMT
  <2> QED BY <2>2, <2>5, <2>6, SMT
<1> QED BY <1>1, <1>2, <1>3, <1>4

-----------------------------------------------------------------------------
(* 4. The inductive invariant *)

\* The two register files agree where a register can be read.
SameRegs(f, g) ==
  /\ f = [r \in 0 .. 31 |-> f[r]]
  /\ g = [r \in 0 .. 31 |-> g[r]]
  /\ g[0] = 0
  /\ \A r \in 1 .. 31 : f[r] = g[r]

\* Lockstep, and the types that keep every fetch and access in its memory.
IndInv ==
  /\ regPC = pc
  /\ SameRegs(regs, gpr)
  /\ memData = mem
  /\ state = "RUNNING"
  /\ regPC \in Word
  /\ memInst \in InstFile
  /\ DOMAIN memData = 0 .. MEM_DATA_SIZE - 1

\* The pc that follows is a word.
LEMMA NextWord == ASSUME IndInv PROVE pc \in Int /\ Add(pc, 4) \in Word
<1>1. pc \in Int
  BY ModulusPositive DEF IndInv, Word
<1> QED BY <1>1, AddWord

LEMMA IndInvImplies == IndInv => InLockstep
BY DEF IndInv, InLockstep, SameRegs

\* The core skips a write of x0, NEMU writes it and clears it again.
LEMMA SameWrite ==
  ASSUME NEW f, NEW g, SameRegs(f, g), NEW d \in 0 .. 31, NEW v
  PROVE  SameRegs(IF d # 0 THEN [f EXCEPT ![d] = v] ELSE f,
                  [[g EXCEPT ![d] = v] EXCEPT ![0] = 0])
<1> DEFINE F == IF d # 0 THEN [f EXCEPT ![d] = v] ELSE f
           G == [[g EXCEPT ![d] = v] EXCEPT ![0] = 0]
<1>1. /\ f = [r \in 0 .. 31 |-> f[r]] /\ g = [r \in 0 .. 31 |-> g[r]]
      /\ \A r \in 1 .. 31 : f[r] = g[r]
  BY Zenon DEF SameRegs
<1>2. F = [r \in 0 .. 31 |-> IF r = d /\ d # 0 THEN v ELSE f[r]]
  BY <1>1, SMT
<1>3. G = [r \in 0 .. 31 |-> IF r = 0 THEN 0 ELSE IF r = d THEN v ELSE g[r]]
  BY <1>1, SMT
<1> HIDE DEF F, G
<1>4. F = [r \in 0 .. 31 |-> F[r]] /\ G = [r \in 0 .. 31 |-> G[r]]
  BY <1>2, <1>3, SMT
<1>5. G[0] = 0 /\ \A r \in 1 .. 31 : F[r] = G[r]
  BY <1>1, <1>2, <1>3, SMT
<1>6. SameRegs(F, G)
  BY <1>4, <1>5, Zenon DEF SameRegs
<1> QED BY <1>6 DEF F, G

LEMMA SameNoWrite ==
  ASSUME NEW f, NEW g, SameRegs(f, g)
  PROVE  SameRegs(f, [g EXCEPT ![0] = 0])
BY SMT DEF SameRegs

LEMMA SameCleared ==
  ASSUME NEW f \in RegFile
  PROVE  SameRegs(f, [f EXCEPT ![0] = 0])
<1> DEFINE G == [f EXCEPT ![0] = 0]
<1>1. f = [r \in 0 .. 31 |-> f[r]]
  BY SMT DEF RegFile
<1>2. G = [r \in 0 .. 31 |-> IF r = 0 THEN 0 ELSE f[r]]
  BY <1>1, SMT
<1> HIDE DEF G
<1>3. G = [r \in 0 .. 31 |-> G[r]]
  BY <1>2, SMT
<1>4. G[0] = 0 /\ \A r \in 1 .. 31 : f[r] = G[r]
  BY <1>2, SMT
<1>5. SameRegs(f, G)
  BY <1>1, <1>3, <1>4, Zenon DEF SameRegs
<1> QED BY <1>5 DEF G

LEMMA InitInv == LockInit => IndInv
<1> SUFFICES ASSUME LockInit PROVE IndInv
  OBVIOUS
<1>1. regs \in RegFile /\ memInst \in InstFile /\ memData \in DataFile
  BY PowerUpAssumption, Zenon DEF LockInit, Init
<1>2. SameRegs(regs, gpr)
  <2>1. gpr = [regs EXCEPT ![0] = 0]
    BY DEF LockInit
  <2> QED BY <1>1, <2>1, SameCleared
<1>3. DOMAIN memData = 0 .. MEM_DATA_SIZE - 1
  BY <1>1 DEF DataFile
<1>4. regPC \in Word
  <2>1. regPC = 0
    BY DEF LockInit, Init, START_ADDR
  <2> QED BY <2>1, ModulusPositive, SMT DEF Word
<1> QED BY <1>1, <1>2, <1>3, <1>4 DEF LockInit, Init, IndInv

\* What a cycle does, with the wires of the core named after the instruction:
\* a and b its operands, x what the ALU makes of them.
Stored(i, x, b) ==
  IF Decode(i).ctrlStore THEN [memData EXCEPT ![WordAddr(x, MEM_DATA_SIZE)] = b]
  ELSE memData

\* The core's next state, but for the data port, is the one decode_exec() gives.
Agrees(i, x, b) ==
  LET next == DecodeExec(i, pc, gpr, mem) IN
  /\ next.dnpc = regPC'
  /\ regPC' \in Word
  /\ SameRegs(regs', next.gpr)
  /\ next.mem = Stored(i, x, b)
  /\ next.state = "RUNNING"

\* The two forms of decode_exec()'s result, field by field.
LEMMA GoesFields ==
  ASSUME NEW t, NEW g, NEW w
  PROVE  /\ Goes(t, g, w).dnpc = t /\ Goes(t, g, w).gpr = [g EXCEPT ![0] = 0]
         /\ Goes(t, g, w).mem = w /\ Goes(t, g, w).state = "RUNNING"
BY DEF Goes

LEMMA WritesFields ==
  ASSUME NEW i, NEW v, NEW t, NEW g, NEW w
  PROVE  /\ Writes(i, v, t, g, w).dnpc = t
         /\ Writes(i, v, t, g, w).gpr = [[g EXCEPT ![i.rd] = v] EXCEPT ![0] = 0]
         /\ Writes(i, v, t, g, w).mem = w
         /\ Writes(i, v, t, g, w).state = "RUNNING"
BY DEF Writes, Goes

\* A clock edge in terms of the instruction.
Edge(i, x, a, b) ==
  LET c   == Decode(i)
      res == IF c.ctrlLoad THEN memData[WordAddr(x, MEM_DATA_SIZE)] ELSE x
  IN
  /\ regPC' = IF c.ctrlJump \/ (c.ctrlBranch /\ ResultBranch(c, a, b)) THEN res
              ELSE Add(regPC, 4)
  /\ regs' = IF c.ctrlRegWrite /\ i.rd # 0
             THEN [regs EXCEPT ![i.rd] = IF c.ctrlJump THEN Add(regPC, 4) ELSE res]
             ELSE regs

\* Instructions that write what the ALU or the memory gives and go on.
LEMMA EdgeWrites ==
  ASSUME NEW i \in Inst, NEW x, NEW a, NEW b, Edge(i, x, a, b), IndInv,
         ~ Decode(i).ctrlJump, ~ Decode(i).ctrlBranch, Decode(i).ctrlRegWrite,
         ~ Decode(i).ctrlStore,
         NEW v, v = IF Decode(i).ctrlLoad THEN memData[WordAddr(x, MEM_DATA_SIZE)] ELSE x,
         DecodeExec(i, pc, gpr, mem) = Writes(i, v, Add(pc, 4), gpr, mem)
  PROVE  Agrees(i, x, b)
<1>1. regPC' = Add(pc, 4) /\ regs' = IF i.rd # 0 THEN [regs EXCEPT ![i.rd] = v] ELSE regs
  BY SMT DEF Edge, IndInv
<1>2. SameRegs(regs', [[gpr EXCEPT ![i.rd] = v] EXCEPT ![0] = 0])
  <2>1. i.rd \in 0 .. 31 /\ SameRegs(regs, gpr)
    BY DEF Inst, IndInv
  <2> QED BY <1>1, <2>1, SameWrite
<1>3. Add(pc, 4) \in Word
  BY NextWord
<1>4. Stored(i, x, b) = mem
  BY Zenon DEF Stored, IndInv
<1>5. Writes(i, v, Add(pc, 4), gpr, mem).state = "RUNNING"
  BY WritesFields, Zenon
<1> QED BY <1>1, <1>2, <1>3, <1>4, <1>5, WritesFields DEF Agrees

\* Jumps link and go to what the ALU gives.
LEMMA EdgeJumps ==
  ASSUME NEW i \in Inst, NEW x \in Word, NEW a, NEW b, Edge(i, x, a, b), IndInv,
         Decode(i).ctrlJump, Decode(i).ctrlRegWrite, ~ Decode(i).ctrlLoad,
         ~ Decode(i).ctrlStore,
         DecodeExec(i, pc, gpr, mem) = Writes(i, Add(pc, 4), x, gpr, mem)
  PROVE  Agrees(i, x, b)
<1>1. regPC' = x /\ regs' = IF i.rd # 0 THEN [regs EXCEPT ![i.rd] = Add(pc, 4)] ELSE regs
  BY SMT DEF Edge, IndInv
<1>2. SameRegs(regs', [[gpr EXCEPT ![i.rd] = Add(pc, 4)] EXCEPT ![0] = 0])
  <2>1. i.rd \in 0 .. 31 /\ SameRegs(regs, gpr)
    BY DEF Inst, IndInv
  <2> QED BY <1>1, <2>1, SameWrite
<1>3. Stored(i, x, b) = mem
  BY Zenon DEF Stored, IndInv
<1>4. Writes(i, Add(pc, 4), x, gpr, mem).state = "RUNNING"
  BY WritesFields, Zenon
<1> QED BY <1>1, <1>2, <1>3, <1>4, WritesFields DEF Agrees

\* Stores write no register.
LEMMA EdgeStore ==
  ASSUME NEW i \in Inst, NEW x, NEW a, NEW b, Edge(i, x, a, b), IndInv,
         ~ Decode(i).ctrlJump, ~ Decode(i).ctrlBranch, ~ Decode(i).ctrlRegWrite,
         DecodeExec(i, pc, gpr, mem) = Goes(Add(pc, 4), gpr, Stored(i, x, b))
  PROVE  Agrees(i, x, b)
<1>1. regPC' = Add(pc, 4) /\ regs' = regs
  BY SMT DEF Edge, IndInv
<1>2. SameRegs(regs', [gpr EXCEPT ![0] = 0])
  BY <1>1, SameNoWrite, Zenon DEF IndInv
<1>3. Add(pc, 4) \in Word
  BY NextWord
<1>4. Goes(Add(pc, 4), gpr, Stored(i, x, b)).state = "RUNNING"
  BY DEF Goes
<1> QED BY <1>1, <1>2, <1>3, <1>4, GoesFields DEF Agrees

\* Branches go to what the ALU gives, or on.
LEMMA EdgeBranch ==
  ASSUME NEW i \in Inst, NEW x \in Word, NEW a, NEW b, Edge(i, x, a, b), IndInv,
         ~ Decode(i).ctrlJump, Decode(i).ctrlBranch, ~ Decode(i).ctrlRegWrite,
         ~ Decode(i).ctrlLoad, ~ Decode(i).ctrlStore,
         NEW t, t = IF ResultBranch(Decode(i), a, b) THEN x ELSE Add(pc, 4),
         DecodeExec(i, pc, gpr, mem) = Goes(t, gpr, mem)
  PROVE  Agrees(i, x, b)
<1>1. regPC' = t /\ regs' = regs
  BY SMT DEF Edge, IndInv
<1>2. SameRegs(regs', [gpr EXCEPT ![0] = 0])
  BY <1>1, SameNoWrite, Zenon DEF IndInv
<1>3. t \in Word
  BY NextWord, Zenon
<1>4. Goes(t, gpr, mem).state = "RUNNING"
  BY DEF Goes
<1>5. Stored(i, x, b) = mem
  BY Zenon DEF Stored, IndInv
<1> QED BY <1>1, <1>2, <1>3, <1>4, <1>5, GoesFields DEF Agrees

\* Loads and stores alone: the address is the adder's.
LEMMA AluIsAddress ==
  ASSUME NEW i \in Inst, Fourteen(i), i.opcode \in {LOAD, STORE}, NEW a, NEW b, NEW m
  PROVE  ResultAlu(Decode(i), a, b, m) = Add(a, m)
<1>1. i.opcode \in {LOAD, STORE} => ResultAlu(Decode(i), a, b, m) = Add(a, m)
  BY AluIsTarget
<1> QED BY <1>1, Zenon

\* Every instruction of the fourteen, its operands and immediate as the wires
\* have them.
LEMMA EdgeAgrees ==
  ASSUME NEW i \in Inst, IndInv, Fourteen(i), InReach(i), NEW x,
         x = ResultAlu(Decode(i), gpr[i.rs1], gpr[i.rs2], ImmGen(i, Decode(i).immSel)),
         Edge(i, x, gpr[i.rs1], gpr[i.rs2])
  PROVE  Agrees(i, x, gpr[i.rs2])
<1> DEFINE a == gpr[i.rs1]
           b == gpr[i.rs2]
<1>1. CASE i.opcode = OP
  <2>1. /\ ~ Decode(i).ctrlJump /\ ~ Decode(i).ctrlBranch /\ Decode(i).ctrlRegWrite
        /\ ~ Decode(i).ctrlLoad /\ ~ Decode(i).ctrlStore
    BY <1>1, DecodeDrives, Zenon DEF Drives
  <2>2. DecodeExec(i, pc, gpr, mem) = Writes(i, x, Add(pc, 4), gpr, mem)
    BY <1>1, ExecIsOp, AluIsRegOp, Zenon
  <2> QED BY <2>1, <2>2, EdgeWrites, Zenon
<1>2. CASE i.opcode = OP_IMM
  <2>1. /\ ~ Decode(i).ctrlJump /\ ~ Decode(i).ctrlBranch /\ Decode(i).ctrlRegWrite
        /\ ~ Decode(i).ctrlLoad /\ ~ Decode(i).ctrlStore /\ Decode(i).immSel = "I"
    BY <1>2, DecodeDrives, Zenon DEF Drives
  <2>2. x = ImmOp(i.funct7, i.funct3, a, immI(i))
    BY <1>2, <2>1, SameImmI, AluIsImmOp, Zenon
  <2>3. DecodeExec(i, pc, gpr, mem) = Writes(i, x, Add(pc, 4), gpr, mem)
    BY <1>2, <2>2, ExecIsImm, Zenon
  <2> QED BY <2>1, <2>3, EdgeWrites, Zenon
<1>3. CASE i.opcode = LOAD
  <2>1. /\ ~ Decode(i).ctrlJump /\ ~ Decode(i).ctrlBranch /\ Decode(i).ctrlRegWrite
        /\ Decode(i).ctrlLoad /\ ~ Decode(i).ctrlStore /\ Decode(i).immSel = "I"
    BY <1>3, DecodeDrives, Zenon DEF Drives
  <2>2. x = Add(a, immI(i))
    <3>1. x = ResultAlu(Decode(i), a, b, immI(i))
      BY <2>1, SameImmI, Zenon
    <3>2. i.opcode \in {LOAD, STORE}
      BY <1>3
    <3> QED BY <3>1, <3>2, AluIsAddress, SMTT(30)
  <2>3. Aligned(x)
    BY <1>3, <2>2, Zenon DEF InReach
  <2>4. DecodeExec(i, pc, gpr, mem)
          = Writes(i, memData[WordAddr(x, MEM_DATA_SIZE)], Add(pc, 4), gpr, mem)
    BY <1>3, <2>2, <2>3, ExecIsLoad, WordAddrAligned, SMTT(30) DEF IndInv
  <2> QED BY <2>1, <2>4, EdgeWrites, Zenon
<1>4. CASE i.opcode = STORE
  <2>1. /\ ~ Decode(i).ctrlJump /\ ~ Decode(i).ctrlBranch /\ ~ Decode(i).ctrlRegWrite
        /\ Decode(i).ctrlStore /\ Decode(i).immSel = "S"
    BY <1>4, DecodeDrives, Zenon DEF Drives
  <2>2. x = Add(a, immS(i))
    <3>1. x = ResultAlu(Decode(i), a, b, immS(i))
      BY <2>1, SameImmS, Zenon
    <3>2. i.opcode \in {LOAD, STORE}
      BY <1>4
    <3> QED BY <3>1, <3>2, AluIsAddress, SMTT(30)
  <2>3. Aligned(x)
    BY <1>4, <2>2, Zenon DEF InReach
  <2>4. Stored(i, x, b) = [mem EXCEPT ![x \div 4] = b]
    BY <2>1, <2>3, WordAddrAligned, Zenon DEF Stored, IndInv
  <2>5. DecodeExec(i, pc, gpr, mem) = Goes(Add(pc, 4), gpr, Stored(i, x, b))
    BY <1>4, <2>2, <2>3, <2>4, ExecIsStore, Zenon DEF IndInv
  <2> QED BY <2>1, <2>5, EdgeStore, Zenon
<1>5. CASE i.opcode = BRANCH
  <2>1. /\ ~ Decode(i).ctrlJump /\ Decode(i).ctrlBranch /\ ~ Decode(i).ctrlRegWrite
        /\ ~ Decode(i).ctrlLoad /\ ~ Decode(i).ctrlStore /\ Decode(i).immSel = "B"
    BY <1>5, DecodeDrives, Zenon DEF Drives
  <2>2. x = Add(pc, immB(i)) /\ (ResultBranch(Decode(i), a, b) <=> Taken(i.funct3, a, b))
    <3>1. x = ResultAlu(Decode(i), a, b, immB(i)) /\ regPC = pc
      BY <2>1, SameImmB, Zenon DEF IndInv
    <3> QED BY <1>5, <3>1, AluIsTarget, Zenon
  <2>3. x \in Word
    BY <2>2, AddWord, ImmWord, ModulusPositive, SMT DEF IndInv, Word
  <2>4. DecodeExec(i, pc, gpr, mem)
          = Goes(IF ResultBranch(Decode(i), a, b) THEN x ELSE Add(pc, 4), gpr, mem)
    BY <1>5, <2>2, ExecIsBranch, Zenon
  <2> QED BY <2>1, <2>3, <2>4, EdgeBranch, Zenon
<1>6. CASE i.opcode = JAL
  <2>1. /\ Decode(i).ctrlJump /\ Decode(i).ctrlRegWrite
        /\ ~ Decode(i).ctrlLoad /\ ~ Decode(i).ctrlStore /\ Decode(i).immSel = "J"
    BY <1>6, DecodeDrives, Zenon DEF Drives
  <2>2. x = Add(pc, immJ(i))
    <3>1. x = ResultAlu(Decode(i), a, b, immJ(i)) /\ regPC = pc
      BY <2>1, SameImmJ, Zenon DEF IndInv
    <3> QED BY <1>6, <3>1, AluIsTarget, Zenon
  <2>3. x \in Word
    BY <2>2, AddWord, ImmWord, ModulusPositive, SMT DEF IndInv, Word
  <2> QED BY <1>6, <2>1, <2>2, <2>3, ExecIsJump, EdgeJumps, Zenon
<1>7. CASE i.opcode = JALR
  <2>1. /\ Decode(i).ctrlJump /\ Decode(i).ctrlRegWrite
        /\ ~ Decode(i).ctrlLoad /\ ~ Decode(i).ctrlStore /\ Decode(i).immSel = "I"
    BY <1>7, DecodeDrives, Zenon DEF Drives
  <2>2. Even(Add(a, immI(i)))
    BY <1>7, Zenon DEF InReach
  <2>3. x = Add(a, immI(i)) /\ x \in Word
    <3>1. x = ResultAlu(Decode(i), a, b, immI(i))
      BY <2>1, SameImmI, Zenon
    <3> QED BY <1>7, <2>2, <3>1, AluIsTarget, Zenon DEF Even
  <2> QED BY <1>7, <2>1, <2>3, ExecIsJump, EdgeJumps, Zenon
<1> QED BY <1>1, <1>2, <1>3, <1>4, <1>5, <1>6, <1>7, Zenon DEF Fourteen

-----------------------------------------------------------------------------
(* 5. A cycle preserves it *)

\* The wires carry the operands NEMU reads.
LEMMA ReadsSame ==
  ASSUME IndInv, NEW n \in 0 .. 31
  PROVE  DataRead(n) = gpr[n]
<1>1. n = 0 \/ n \in 1 .. 31
  BY SMT
<1>2. SameRegs(regs, gpr)
  BY DEF IndInv
<1> QED BY <1>1, <1>2, Zenon DEF SameRegs, DataRead

LEMMA CycleInv ==
  ASSUME IndInv, NEW iw \in InstWrites \cup {None}, NEW dw \in DataWrites \cup {None},
         Cycle(iw, dw)
  PROVE  IndInv'
<1> DEFINE i == inst
           a == gpr[inst.rs1]
           b == gpr[inst.rs2]
           x == resultALU
           next == DecodeExec(inst, pc, gpr, mem)
<1>1. i \in Inst
  BY WordAddrInst, Zenon DEF IndInv, InstFile, inst
<1>2. i.rs1 \in 0 .. 31 /\ i.rs2 \in 0 .. 31
  BY <1>1 DEF Inst
<1>3. DataRead(inst.rs1) = a /\ DataRead(inst.rs2) = b
  BY <1>2, ReadsSame, Zenon
<1>4. x = ResultAlu(Decode(i), a, b, ImmGen(i, Decode(i).immSel))
  BY <1>3, Zenon DEF resultALU, ctrl, imm
<1>5. Edge(i, x, a, b)
  <2>1. PCRegEdge(FALSE) /\ RegistersEdge
    BY DEF Cycle, Clock
  <2> QED BY <2>1, <1>3, Zenon DEF PCRegEdge, RegistersEdge, Edge, taken, result, ctrl
<1>6. Agrees(i, x, b)
  BY <1>1, <1>4, <1>5, EdgeAgrees, Zenon DEF Cycle
<1>7. /\ pc' = next.dnpc /\ gpr' = next.gpr /\ state' = next.state
      /\ mem' = IF dw.en THEN [next.mem EXCEPT ![WordAddr(dw.addr, MEM_DATA_SIZE)] = dw.data]
                ELSE next.mem
  BY Zenon DEF Cycle
<1>8. regPC' = pc' /\ SameRegs(regs', gpr') /\ state' = "RUNNING" /\ regPC' \in Word
  BY <1>6, <1>7, Zenon DEF Agrees
<1>9. memData' = mem' /\ DOMAIN memData' = 0 .. MEM_DATA_SIZE - 1
  <2>1. MemDataEdge(dw) /\ (dw.en => i.opcode # STORE)
    BY DEF Cycle, Clock
  <2>2. DOMAIN Stored(i, x, b) = 0 .. MEM_DATA_SIZE - 1
    BY DEF Stored, IndInv
  <2>3. next.mem = Stored(i, x, b)
    BY <1>6, Zenon DEF Agrees
  <2>4. CASE dw.en
    <3>1. ~ Decode(i).ctrlStore
      BY <1>6, <2>1, <2>4, DecodeDrives, Zenon DEF Drives, Cycle, Fourteen
    <3>2. Stored(i, x, b) = memData
      BY <3>1, Zenon DEF Stored
    <3> QED BY <1>7, <2>1, <2>2, <2>3, <2>4, <3>2 DEF MemDataEdge
  <2>5. CASE ~ dw.en
    <3>1. memData' = Stored(i, x, b)
      BY <1>3, <2>1, <2>5, Zenon DEF MemDataEdge, Stored, ctrl
    <3> QED BY <1>7, <2>2, <2>3, <2>5, <3>1, Zenon
  <2> QED BY <2>4, <2>5, Zenon
<1>10. memInst' \in InstFile
  <2>1. MemInstEdge(iw)
    BY DEF Cycle, Clock
  <2>2. CASE iw.en
    <3>1. iw \in InstWrites
      BY <2>2 DEF None
    <3>2. iw.data \in Inst
      <4>1. iw \in [en : {TRUE}, addr : Word, data : Inst]
        BY <3>1, PortAssumption, Zenon
      <4> QED BY <4>1, SMT
    <3>3. memInst' = [memInst EXCEPT ![WordAddr(iw.addr, MEM_INST_SIZE)] = iw.data]
      BY <2>1, <2>2, Zenon DEF MemInstEdge
    <3>4. memInst \in [0 .. MEM_INST_SIZE - 1 -> Inst]
      BY DEF IndInv, InstFile
    <3> QED BY <3>2, <3>3, <3>4, Zenon DEF InstFile
  <2>3. CASE ~ iw.en
    BY <2>1, <2>3, Zenon DEF MemInstEdge, IndInv
  <2> QED BY <2>2, <2>3, Zenon
<1> QED BY <1>8, <1>9, <1>10, Zenon DEF IndInv

-----------------------------------------------------------------------------
(* 6. The theorem *)

\* In every reachable state the core and NEMU agree on the pc, the registers
\* and the data memory: on the fourteen instructions Decoder, ImmGen, Alu,
\* Registers, PCReg and Mem compute what decode_exec() computes.
THEOREM Lockstep_InLockstep == LockSpec => []InLockstep
<1>1. LockInit => IndInv
  BY InitInv
<1>2. IndInv /\ [LockNext]_<<vars, nemu>> => IndInv'
  <2> SUFFICES ASSUME IndInv, [LockNext]_<<vars, nemu>> PROVE IndInv'
    OBVIOUS
  <2>1. CASE LockNext
    BY <2>1, CycleInv, Zenon DEF LockNext
  <2>2. CASE UNCHANGED <<vars, nemu>>
    <3>1. /\ UNCHANGED <<regPC, regs, memInst, memData>>
          /\ UNCHANGED <<pc, gpr, mem, state>>
      BY <2>2 DEF vars, nemu
    <3> QED BY <3>1 DEF IndInv, SameRegs
  <2> QED BY <2>1, <2>2
<1> QED BY <1>1, <1>2, IndInvImplies, PTL DEF LockSpec

-----------------------------------------------------------------------------
(* 7. The invariant of the test benches *)

\* What the registers can hold: fib(0) .. fib(11).
fib(n) == <<0, 1, 1, 2, 3, 5, 8, 13, 21, 34, 55, 89>>[n + 1]

\* The counter i of the loop, and the two numbers before and after its body.
Loop(a, b, c, i) == regs[1] = fib(a) /\ regs[2] = fib(b) /\ regs[3] = 10 /\ regs[4] = i

RunsAt(i) ==
  \/ regPC = 0
  \/ regPC = 4 /\ regs[1] = 0
  \/ regPC = 8 /\ regs[1] = 0 /\ regs[2] = 1
  \/ regPC = 12 /\ regs[1] = 0 /\ regs[2] = 1 /\ regs[3] = 10
  \/ regPC = 16 /\ Loop(i, i + 1, 10, i)
  \/ regPC = 20 /\ i < 10 /\ Loop(i, i + 1, 10, i)
  \/ regPC = 24 /\ i < 10 /\ Loop(i, i + 1, 10, i) /\ regs[5] = fib(i + 2)
  \/ regPC = 28 /\ i < 10 /\ Loop(i + 1, i + 1, 10, i) /\ regs[5] = fib(i + 2)
  \/ regPC = 32 /\ i < 10 /\ Loop(i + 1, i + 2, 10, i)
  \/ regPC = 36 /\ i < 10 /\ Loop(i + 1, i + 2, 10, i + 1)
  \/ regPC = 40 /\ regs[1] = 55
  \/ regPC = 44 /\ regs[1] = 55 /\ memData[0] = 55
  \/ regPC \in {48, 56} /\ regs[1] = 55 /\ regs[6] = 55

\* The memories and the register file have their words, whatever is in them.
Files ==
  /\ DOMAIN regs = 0 .. 31
  /\ DOMAIN memInst = 0 .. MEM_INST_SIZE - 1
  /\ DOMAIN memData = 0 .. MEM_DATA_SIZE - 1

Loaded(from, to) == \A k \in from .. to : memInst[k] = Program[k + 1]

\* How far the bench is.
Loading ==
  /\ phase = "load" => index \in 0 .. 14 /\ Loaded(index + 1, 14)
  /\ phase = "hold" => index \in 0 .. 14 /\ Loaded(0, index - 1)
  /\ phase \notin {"load", "hold"} => Loaded(0, 14)

Fetching ==
  /\ fetched \in Seq({Program[n] : n \in 1 .. 15})
  /\ Len(fetched) <= 4
  /\ \A n \in 1 .. Len(fetched) : fetched[n] = Program[n]
  /\ phase \in {"load", "reset", "hold", "settle"} => Len(fetched) = 0
  /\ phase = "fetch" => Len(fetched) < 4 /\ regPC = 4 * Len(fetched)

Running ==
  /\ phase \in {"run", "halt"} => \E i \in 0 .. 10 : RunsAt(i)
  /\ phase = "halt" => regPC = HaltPc

FibInv ==
  /\ phase \in {"load", "reset", "fetch", "restart", "hold", "settle", "run", "halt", "timeout"}
  /\ Files /\ Loading /\ Fetching /\ Running

-----------------------------------------------------------------------------
(* 8. Numbers, and the program in the memory *)

LEMMA Numbers ==
  /\ Modulus \in Nat /\ 128 <= Modulus
  /\ MEM_INST_SIZE \in Nat /\ 15 <= MEM_INST_SIZE
  /\ MEM_DATA_SIZE \in Nat /\ 1 <= MEM_DATA_SIZE
  /\ Len(Program) = 15
  /\ DOMAIN Program = 1 .. 15
<1>1. Len(Program) = 15 /\ DOMAIN Program = 1 .. 15
  BY DEF Program
<1> QED BY <1>1, ProgramAssumption, ModulusPositive, MemAssumption

LEMMA Wraps == ASSUME NEW n \in Nat, NEW k \in Nat, n < k PROVE (n + k) % k = n
OBVIOUS

LEMMA Small == ASSUME NEW n \in Nat, NEW k \in Nat, n < k PROVE n % k = n
OBVIOUS

\* The address of word k.
LEMMA AddrOfWord ==
  ASSUME NEW k \in 0 .. 14
  PROVE  WordAddr(4 * k, MEM_INST_SIZE) = k /\ k \in 0 .. MEM_INST_SIZE - 1
<1>1. (4 * k) \div 4 = k
  OBVIOUS
<1>2. k \in Nat /\ k < MEM_INST_SIZE
  BY Numbers
<1>3. k % MEM_INST_SIZE = k
  BY <1>2, Numbers, Small
<1> QED BY <1>1, <1>2, <1>3, Numbers DEF WordAddr

LEMMA AddSmall ==
  ASSUME NEW a \in Nat, NEW b \in Nat, a + b < 128
  PROVE  Add(a, b) = a + b
<1>1. a + b \in Nat /\ a + b < Modulus
  BY Numbers
<1> QED BY <1>1, Numbers, Small DEF Add

LEMMA FibStep ==
  /\ \A n \in 0 .. 11 : fib(n) \in 0 .. 89
  /\ \A n \in 0 .. 9 : fib(n) + fib(n + 1) = fib(n + 2)
  /\ fib(0) = 0 /\ fib(1) = 1 /\ fib(10) = 55
BY SMT DEF fib

-----------------------------------------------------------------------------
(* 9. What the program's instructions do *)

\* A clock edge without a reset and without writes at the ports.
LEMMA FreeEdge ==
  ASSUME Clock(FALSE, None, None)
  PROVE  /\ regPC' = IF taken THEN result ELSE Add(regPC, 4)
         /\ regs' = IF ctrl.ctrlRegWrite /\ inst.rd # 0
                    THEN [regs EXCEPT ![inst.rd] = IF ctrl.ctrlJump THEN Add(regPC, 4) ELSE result]
                    ELSE regs
         /\ memInst' = memInst
         /\ memData' = IF ctrl.ctrlStore
                       THEN [memData EXCEPT ![WordAddr(resultALU, MEM_DATA_SIZE)] = DataRead(inst.rs2)]
                       ELSE memData
BY Zenon DEF Clock, PCRegEdge, RegistersEdge, MemInstEdge, MemDataEdge, None

\* The fields and the immediate of the four formats, as TinyRv32Asm builds them.
LEMMA AddiFields ==
  ASSUME NEW d, NEW s, NEW n \in 0 .. 127
  PROVE  /\ addi(d, s, n).opcode = OP_IMM /\ addi(d, s, n).funct3 = 0
         /\ addi(d, s, n).rd = d /\ addi(d, s, n).rs1 = s
         /\ ImmGen(addi(d, s, n), "I") = n
<1>1. n % 4096 = n
  BY SMT
<1>2. (n \div 32) * 32 + (n % 32) = n
  BY SMT
<1>3. /\ addi(d, s, n).opcode = OP_IMM /\ addi(d, s, n).funct3 = 0
      /\ addi(d, s, n).rd = d /\ addi(d, s, n).rs1 = s
      /\ addi(d, s, n).funct7 = n \div 32 /\ addi(d, s, n).rs2 = n % 32
  BY <1>1, SMT DEF addi, encodeI, encodeR
<1>4. ImmGen(addi(d, s, n), "I") = ToWord(Sext(n, 4096))
  BY <1>2, <1>3, SMT DEF ImmGen
<1>5. Sext(n, 4096) = n
  BY SMT DEF Sext
<1>6. n % Modulus = n
  BY Numbers, Small, SMT
<1>7. ToWord(Sext(n, 4096)) = n
  BY <1>5, <1>6 DEF ToWord
<1> QED BY <1>3, <1>4, <1>7

LEMMA AddiRuns ==
  ASSUME NEW d, d # 0, NEW s, NEW n \in 0 .. 127,
         inst = addi(d, s, n), Clock(FALSE, None, None)
  PROVE  /\ regPC' = Add(regPC, 4)
         /\ regs' = [regs EXCEPT ![d] = Add(DataRead(s), n)]
         /\ memInst' = memInst /\ memData' = memData
<1>1. /\ inst.opcode = OP_IMM /\ inst.funct3 = 0 /\ inst.rd = d /\ inst.rs1 = s
      /\ ImmGen(inst, "I") = n
  <2>1. /\ addi(d, s, n).opcode = OP_IMM /\ addi(d, s, n).funct3 = 0
        /\ addi(d, s, n).rd = d /\ addi(d, s, n).rs1 = s
        /\ ImmGen(addi(d, s, n), "I") = n
    BY AddiFields
  <2> QED BY <2>1, Zenon
<1>2. Drives(ctrl, FALSE, FALSE, FALSE, TRUE, FALSE, FALSE, TRUE, "ADD", "I")
  <2>1. Drives(Decode(inst), FALSE, FALSE, FALSE, TRUE, FALSE, FALSE, TRUE,
               IF inst.funct3 = 6 THEN "OR" ELSE "ADD", "I")
    BY <1>1, DecodeDrives
  <2>2. inst.funct3 # 6
    BY <1>1
  <2> QED BY <2>1, <2>2 DEF ctrl
<1>3. resultALU = Add(DataRead(s), n)
  BY <1>1, <1>2, SMT DEF resultALU, ResultAlu, AluAdd, imm, Drives
<1>4. ~ taken /\ result = resultALU
  BY <1>2, Zenon DEF taken, result, Drives
<1>5. d # 0 /\ ctrl.ctrlRegWrite /\ ~ ctrl.ctrlJump /\ ~ ctrl.ctrlStore
  BY <1>2, SMT DEF Drives
<1> QED BY <1>1, <1>3, <1>4, <1>5, FreeEdge

LEMMA AddRuns ==
  ASSUME NEW d, d # 0, NEW s1, NEW s2,
         inst = add(d, s1, s2), Clock(FALSE, None, None)
  PROVE  /\ regPC' = Add(regPC, 4)
         /\ regs' = [regs EXCEPT ![d] = Add(DataRead(s1), DataRead(s2))]
         /\ memInst' = memInst /\ memData' = memData
<1>1. /\ inst.opcode = OP /\ inst.funct3 = 0 /\ inst.funct7 = 0 /\ inst.rd = d
      /\ inst.rs1 = s1 /\ inst.rs2 = s2
  BY SMT DEF add, encodeR
<1>2. RTypeOp(inst) = "ADD"
  BY <1>1, SMT DEF RTypeOp
<1>3. Drives(ctrl, FALSE, FALSE, FALSE, TRUE, FALSE, FALSE, FALSE, "ADD", "X")
  BY <1>1, <1>2, DecodeDrives DEF ctrl
<1>4. resultALU = Add(DataRead(s1), DataRead(s2))
  BY <1>1, <1>3, SMT DEF resultALU, ResultAlu, AluAdd, Drives
<1>5. ~ taken /\ result = resultALU
  BY <1>3, Zenon DEF taken, result, Drives
<1>6. d # 0 /\ ctrl.ctrlRegWrite /\ ~ ctrl.ctrlJump /\ ~ ctrl.ctrlStore
  BY <1>3, SMT DEF Drives
<1> QED BY <1>1, <1>4, <1>5, <1>6, FreeEdge

\* The two accesses, of the data word at address 0.
LEMMA FirstWord ==
  /\ WordAddr(Add(0, 0), MEM_DATA_SIZE) = 0
  /\ ToWord(Sext(0, 4096)) = 0
<1>1. Add(0, 0) = 0
  BY AddSmall
<1>2. 0 \div 4 = 0 /\ 0 % MEM_DATA_SIZE = 0 /\ 0 % Modulus = 0
  BY Numbers, Small, SMT
<1>3. Sext(0, 4096) = 0
  BY SMT DEF Sext
<1> QED BY <1>1, <1>2, <1>3 DEF WordAddr, ToWord

LEMMA SwRuns ==
  ASSUME NEW s, inst = sw(s, 0, 0), Clock(FALSE, None, None)
  PROVE  /\ regPC' = Add(regPC, 4) /\ regs' = regs /\ memInst' = memInst
         /\ memData' = [memData EXCEPT ![0] = DataRead(s)]
<1>1. /\ inst.opcode = STORE /\ inst.rs1 = 0 /\ inst.rs2 = s
      /\ inst.funct7 = 0 /\ inst.rd = 0
  <2>1. 0 % 4096 = 0 /\ 0 \div 32 = 0 /\ 0 % 32 = 0
    BY SMT
  <2> QED BY <2>1, SMT DEF sw, encodeS, encodeR
<1>2. ImmGen(inst, "S") = 0
  BY <1>1, FirstWord, SMT DEF ImmGen
<1>3. Drives(ctrl, FALSE, FALSE, FALSE, FALSE, FALSE, TRUE, TRUE, "ADD", "S")
  BY <1>1, DecodeDrives DEF ctrl
<1>4. resultALU = Add(0, 0)
  BY <1>1, <1>2, <1>3, SMT DEF resultALU, ResultAlu, AluAdd, imm, Drives, DataRead
<1>5. ~ taken
  BY <1>3, Zenon DEF taken, Drives
<1>6. ~ ctrl.ctrlRegWrite /\ ctrl.ctrlStore
  BY <1>3 DEF Drives
<1> QED BY <1>1, <1>4, <1>5, <1>6, FreeEdge, FirstWord

LEMMA LwRuns ==
  ASSUME NEW d, d # 0, inst = lw(d, 0, 0), Clock(FALSE, None, None)
  PROVE  /\ regPC' = Add(regPC, 4) /\ regs' = [regs EXCEPT ![d] = memData[0]]
         /\ memInst' = memInst /\ memData' = memData
<1>1. /\ inst.opcode = LOAD /\ inst.rs1 = 0 /\ inst.rs2 = 0 /\ inst.funct7 = 0 /\ inst.rd = d
  <2>1. 0 % 4096 = 0 /\ 0 \div 32 = 0 /\ 0 % 32 = 0
    BY SMT
  <2> QED BY <2>1, SMT DEF lw, encodeI, encodeR
<1>2. ImmGen(inst, "I") = 0
  BY <1>1, FirstWord, SMT DEF ImmGen
<1>3. Drives(ctrl, FALSE, FALSE, FALSE, TRUE, TRUE, FALSE, TRUE, "ADD", "I")
  BY <1>1, DecodeDrives DEF ctrl
<1>4. resultALU = Add(0, 0)
  BY <1>1, <1>2, <1>3, SMT DEF resultALU, ResultAlu, AluAdd, imm, Drives, DataRead
<1>5. ~ taken /\ result = memData[0]
  BY <1>3, <1>4, FirstWord DEF taken, result, Drives
<1>6. d # 0 /\ ctrl.ctrlRegWrite /\ ~ ctrl.ctrlJump /\ ~ ctrl.ctrlStore
  BY <1>3 DEF Drives
<1> QED BY <1>1, <1>5, <1>6, FreeEdge

\* A branch of the program: forward by less than a page, or back to the loop.
\* (The offset is a variable in the next lemmas: with a negative literal on its
\* left the SMT translation folds % and \div towards zero, as C does.)
LEMMA Back == ASSUME NEW n \in Int, n + 20 = 0, NEW k \in Nat, 20 < k PROVE n % k = k - 20
BY SMT

LEMMA BackFields ==
  ASSUME NEW n \in Int, n + 20 = 0, NEW s1, NEW s2
  PROVE  /\ beq(s1, s2, n).funct7 = 127 /\ beq(s1, s2, n).rd = 13
         /\ ToWord(n) = Modulus - 20
<1>1. n % 8192 = 8172
  BY SMT
<1>2. Bit(8172, 12) = 1 /\ Bit(8172, 11) = 1 /\ (8172 \div 32) % 64 = 63 /\ (8172 \div 2) % 16 = 6
  BY Pow2Small, SMT DEF Bit
<1>3. beq(s1, s2, n) = encodeR(Bit(n % 8192, 12) * 64 + (((n % 8192) \div 32) % 64), s2, s1, 0,
                               (((n % 8192) \div 2) % 16) * 2 + Bit(n % 8192, 11), BRANCH)
  BY DEF beq, encodeB
<1>4. beq(s1, s2, n) = encodeR(127, s2, s1, 0, 13, BRANCH)
  BY <1>1, <1>2, <1>3
<1>5. ToWord(n) = Modulus - 20
  BY Numbers, Back DEF ToWord
<1> QED BY <1>4, <1>5 DEF encodeR

LEMMA BeqTaken ==
  ASSUME NEW s1, NEW s2, NEW n, inst = beq(s1, s2, n)
  PROVE  /\ inst.opcode = BRANCH /\ inst.rs1 = s1 /\ inst.rs2 = s2
         /\ Drives(ctrl, FALSE, FALSE, TRUE, FALSE, FALSE, FALSE, FALSE, "EQ", "B")
         /\ ResultBranch(ctrl, DataRead(inst.rs1), DataRead(inst.rs2)) <=> DataRead(s1) = DataRead(s2)
<1>1. inst.opcode = BRANCH /\ inst.funct3 = 0 /\ inst.rs1 = s1 /\ inst.rs2 = s2
  BY DEF beq, encodeB, encodeR
<1>2. BranchOp(inst) = "EQ"
  BY <1>1, SMT DEF BranchOp
<1>3. Drives(ctrl, FALSE, FALSE, TRUE, FALSE, FALSE, FALSE, FALSE, "EQ", "B")
  BY <1>1, <1>2, DecodeDrives DEF ctrl
<1>4. ResultBranch(ctrl, DataRead(s1), DataRead(s2)) <=> DataRead(s1) = DataRead(s2)
  BY <1>3, SMT DEF ResultBranch, Drives
<1> QED BY <1>1, <1>3, <1>4

LEMMA BeqRuns ==
  ASSUME NEW s1, NEW s2, NEW n,
         inst = beq(s1, s2, n), Clock(FALSE, None, None)
  PROVE  /\ regPC' = IF DataRead(s1) = DataRead(s2) THEN Add(regPC, ImmGen(beq(s1, s2, n), "B"))
                     ELSE Add(regPC, 4)
         /\ regs' = regs /\ memInst' = memInst /\ memData' = memData
<1>1. /\ inst.rs1 = s1 /\ inst.rs2 = s2
      /\ Drives(ctrl, FALSE, FALSE, TRUE, FALSE, FALSE, FALSE, FALSE, "EQ", "B")
      /\ ResultBranch(ctrl, DataRead(inst.rs1), DataRead(inst.rs2)) <=> DataRead(s1) = DataRead(s2)
  BY BeqTaken
<1>2. imm = ImmGen(beq(s1, s2, n), "B")
  BY <1>1 DEF imm, Drives
<1>3. resultALU = Add(regPC, imm)
  BY <1>1, SMT DEF resultALU, ResultAlu, Drives
<1>4. result = resultALU
  BY <1>1 DEF result, Drives
<1>5. taken <=> DataRead(s1) = DataRead(s2)
  BY <1>1 DEF taken, Drives
<1>6. ~ ctrl.ctrlRegWrite /\ ~ ctrl.ctrlStore
  BY <1>1 DEF Drives
<1> QED BY <1>2, <1>3, <1>4, <1>5, <1>6, FreeEdge

\* The targets of the program's branches.
LEMMA BeqTargets ==
  ASSUME NEW s1, NEW s2
  PROVE  /\ Add(16, ImmGen(beq(s1, s2, 24), "B")) = 40
         /\ Add(48, ImmGen(beq(s1, s2, 8), "B")) = 56
         /\ \A n \in Int : n + 20 = 0 => Add(36, ImmGen(beq(s1, s2, n), "B")) = 16
<1>1. beq(s1, s2, 24).funct7 = 0 /\ beq(s1, s2, 24).rd = 24
  BY Pow2Small, SMT DEF beq, encodeB, encodeR, Bit
<1>2. beq(s1, s2, 8).funct7 = 0 /\ beq(s1, s2, 8).rd = 8
  BY Pow2Small, SMT DEF beq, encodeB, encodeR, Bit
<1>3. ImmGen(beq(s1, s2, 24), "B") = ToWord(24) /\ ImmGen(beq(s1, s2, 8), "B") = ToWord(8)
  BY <1>1, <1>2, SMT DEF ImmGen, Sext
<1>4. ToWord(24) = 24 /\ ToWord(8) = 8
  BY Numbers, Small DEF ToWord
<1>5. ASSUME NEW n \in Int, n + 20 = 0
      PROVE  Add(36, ImmGen(beq(s1, s2, n), "B")) = 16
  <2>1. /\ beq(s1, s2, n).funct7 = 127 /\ beq(s1, s2, n).rd = 13
        /\ ToWord(n) = Modulus - 20
    BY <1>5, BackFields
  <2>2. ImmGen(beq(s1, s2, n), "B") = ToWord(n)
    <3>1. ImmGen(beq(s1, s2, n), "B") = ToWord(Sext(8172, 8192))
      BY <2>1, SMT DEF ImmGen
    <3>2. Sext(8172, 8192) = n
      BY <1>5, SMT DEF Sext
    <3> QED BY <3>1, <3>2
  <2>3. (36 + (Modulus - 20)) % Modulus = 16
    <3>1. 36 + (Modulus - 20) = 16 + Modulus
      BY Numbers
    <3>2. (16 + Modulus) % Modulus = 16
      BY Numbers, Wraps
    <3> QED BY <3>1, <3>2
  <2> QED BY <2>1, <2>2, <2>3 DEF Add
<1> QED BY <1>3, <1>4, <1>5, AddSmall

-----------------------------------------------------------------------------
(* 10. The program, step by step *)

LEMMA ProgramWords ==
  /\ Program[1] = addi(1, 0, 0) /\ Program[2] = addi(2, 0, 1)
  /\ Program[3] = addi(3, 0, 10) /\ Program[4] = addi(4, 0, 0)
  /\ Program[5] = beq(4, 3, 24) /\ Program[6] = add(5, 1, 2)
  /\ Program[7] = add(1, 2, 0) /\ Program[8] = add(2, 5, 0)
  /\ Program[9] = addi(4, 4, 1) /\ Program[10] = beq(0, 0, -20)
  /\ Program[11] = sw(1, 0, 0) /\ Program[12] = lw(6, 0, 0)
  /\ Program[13] = beq(6, 1, 8) /\ Program[15] = beq(6, 1, 0)
BY SMT DEF Program, FibN

LEMMA Literals ==
  /\ 0 \in 0 .. 127 /\ 1 \in 0 .. 127 /\ 10 \in 0 .. 127
  /\ 1 # 0 /\ 2 # 0 /\ 3 # 0 /\ 4 # 0 /\ 5 # 0 /\ 6 # 0
BY SMT

LEMMA Sums ==
  /\ Add(0, 0) = 0 /\ Add(0, 1) = 1 /\ Add(0, 10) = 10
  /\ Add(0, 4) = 4 /\ Add(4, 4) = 8 /\ Add(8, 4) = 12 /\ Add(12, 4) = 16
  /\ Add(16, 4) = 20 /\ Add(20, 4) = 24 /\ Add(24, 4) = 28 /\ Add(28, 4) = 32
  /\ Add(32, 4) = 36 /\ Add(40, 4) = 44 /\ Add(44, 4) = 48
BY AddSmall

\* x0 reads as zero.
LEMMA Reads ==
  /\ DataRead(0) = 0 /\ DataRead(1) = regs[1] /\ DataRead(2) = regs[2]
  /\ DataRead(3) = regs[3] /\ DataRead(4) = regs[4] /\ DataRead(5) = regs[5]
  /\ DataRead(6) = regs[6]
BY SMT DEF DataRead

\* With the program in the memory the core fetches it.
LEMMA Fetches ==
  ASSUME Loaded(0, 14), NEW k \in 0 .. 14, regPC = 4 * k
  PROVE  inst = Program[k + 1]
BY AddrOfWord DEF inst, Loaded

\* The first four words go on to the next, whatever the registers hold.
LEMMA FirstFour ==
  ASSUME Loaded(0, 14), Clock(FALSE, None, None)
  PROVE  /\ regPC = 0 => /\ regPC' = 4 /\ memInst' = memInst /\ memData' = memData
                         /\ regs' = [regs EXCEPT ![1] = 0]
         /\ regPC = 4 => /\ regPC' = 8 /\ memInst' = memInst /\ memData' = memData
                         /\ regs' = [regs EXCEPT ![2] = 1]
         /\ regPC = 8 => /\ regPC' = 12 /\ memInst' = memInst /\ memData' = memData
                         /\ regs' = [regs EXCEPT ![3] = 10]
         /\ regPC = 12 => /\ regPC' = 16 /\ memInst' = memInst /\ memData' = memData
                          /\ regs' = [regs EXCEPT ![4] = 0]
<1>1. ASSUME regPC = 0
      PROVE  /\ regPC' = 4 /\ memInst' = memInst /\ memData' = memData
             /\ regs' = [regs EXCEPT ![1] = 0]
  <2>1. inst = addi(1, 0, 0)
    BY <1>1, Fetches, ProgramWords
  <2>2. /\ regPC' = Add(regPC, 4) /\ memInst' = memInst /\ memData' = memData
        /\ regs' = [regs EXCEPT ![1] = Add(DataRead(0), 0)]
    BY <2>1, Literals, AddiRuns, Zenon
  <2> QED BY <1>1, <2>2, Sums, Reads, Zenon
<1>2. ASSUME regPC = 4
      PROVE  /\ regPC' = 8 /\ memInst' = memInst /\ memData' = memData
             /\ regs' = [regs EXCEPT ![2] = 1]
  <2>1. inst = addi(2, 0, 1)
    BY <1>2, Fetches, ProgramWords
  <2>2. /\ regPC' = Add(regPC, 4) /\ memInst' = memInst /\ memData' = memData
        /\ regs' = [regs EXCEPT ![2] = Add(DataRead(0), 1)]
    BY <2>1, Literals, AddiRuns, Zenon
  <2> QED BY <1>2, <2>2, Sums, Reads, Zenon
<1>3. ASSUME regPC = 8
      PROVE  /\ regPC' = 12 /\ memInst' = memInst /\ memData' = memData
             /\ regs' = [regs EXCEPT ![3] = 10]
  <2>1. inst = addi(3, 0, 10)
    BY <1>3, Fetches, ProgramWords
  <2>2. /\ regPC' = Add(regPC, 4) /\ memInst' = memInst /\ memData' = memData
        /\ regs' = [regs EXCEPT ![3] = Add(DataRead(0), 10)]
    BY <2>1, Literals, AddiRuns, Zenon
  <2> QED BY <1>3, <2>2, Sums, Reads, Zenon
<1>4. ASSUME regPC = 12
      PROVE  /\ regPC' = 16 /\ memInst' = memInst /\ memData' = memData
             /\ regs' = [regs EXCEPT ![4] = 0]
  <2>1. inst = addi(4, 0, 0)
    BY <1>4, Fetches, ProgramWords
  <2>2. /\ regPC' = Add(regPC, 4) /\ memInst' = memInst /\ memData' = memData
        /\ regs' = [regs EXCEPT ![4] = Add(DataRead(0), 0)]
    BY <2>1, Literals, AddiRuns, Zenon
  <2> QED BY <1>4, <2>2, Sums, Reads, Zenon
<1> QED BY <1>1, <1>2, <1>3, <1>4

LEMMA RunsEdge ==
  ASSUME Files, Loaded(0, 14), NEW i \in 0 .. 10, RunsAt(i), ~ reachedHalt,
         Clock(FALSE, None, None)
  PROVE  memInst' = memInst /\ \E j \in 0 .. 10 : RunsAt(j)'
<1>1. DOMAIN regs = 0 .. 31 /\ DOMAIN memData = 0 .. MEM_DATA_SIZE - 1
  BY DEF Files
<1>3. CASE regPC \in {0, 4, 8} /\ (regPC = 4 => regs[1] = 0) /\ (regPC = 8 => regs[1] = 0 /\ regs[2] = 1)
  <2>1. CASE regPC = 0
    <3>1. regPC' = 4 /\ memInst' = memInst /\ regs' = [regs EXCEPT ![1] = 0]
      BY <2>1, FirstFour, SMT
    <3> QED BY <1>1, <3>1, SMT DEF RunsAt
  <2>2. CASE regPC = 4
    <3>1. regPC' = 8 /\ memInst' = memInst /\ regs' = [regs EXCEPT ![2] = 1]
      BY <2>2, FirstFour, SMT
    <3> QED BY <1>1, <1>3, <2>2, <3>1, SMT DEF RunsAt
  <2>3. CASE regPC = 8
    <3>1. regPC' = 12 /\ memInst' = memInst /\ regs' = [regs EXCEPT ![3] = 10]
      BY <2>3, FirstFour, SMT
    <3> QED BY <1>1, <1>3, <2>3, <3>1, SMT DEF RunsAt
  <2> QED BY <1>3, <2>1, <2>2, <2>3
<1>4. CASE regPC = 12 /\ regs[1] = 0 /\ regs[2] = 1 /\ regs[3] = 10
  <2>1. regPC' = 16 /\ regs' = [regs EXCEPT ![4] = 0] /\ memInst' = memInst
    BY <1>4, FirstFour, SMT
  <2>2. RunsAt(0)'
    BY <1>1, <1>4, <2>1, FibStep, SMT DEF RunsAt, Loop
  <2> QED BY <2>1, <2>2
<1>5. CASE regPC = 16 /\ Loop(i, i + 1, 10, i)
  <2>1. inst = beq(4, 3, 24)
    BY <1>5, Fetches, ProgramWords
  <2>2. /\ regPC' = IF regs[4] = regs[3] THEN 40 ELSE 20
        /\ regs' = regs /\ memInst' = memInst /\ memData' = memData
    <3>1. /\ regPC' = IF DataRead(4) = DataRead(3) THEN Add(regPC, ImmGen(beq(4, 3, 24), "B"))
                      ELSE Add(regPC, 4)
          /\ regs' = regs /\ memInst' = memInst /\ memData' = memData
      BY <2>1, BeqRuns, Zenon
    <3>2. Add(16, ImmGen(beq(4, 3, 24), "B")) = 40
      BY BeqTargets, SMTT(30)
    <3> QED BY <1>5, <3>1, <3>2, Sums, Reads, SMTT(30)
  <2>3. RunsAt(i)'
    BY <1>5, <2>2, FibStep, SMT DEF RunsAt, Loop
  <2> QED BY <2>2, <2>3
<1>6. CASE regPC = 20 /\ i < 10 /\ Loop(i, i + 1, 10, i)
  <2>1. inst = add(5, 1, 2)
    BY <1>6, Fetches, ProgramWords
  <2>2. /\ regPC' = 24 /\ memInst' = memInst
        /\ regs' = [regs EXCEPT ![5] = Add(regs[1], regs[2])]
    <3>1. PICK d : d = 5 /\ d # 0
      BY SMT
    <3>2. inst = add(d, 1, 2)
      BY <2>1, <3>1, Zenon
    <3>3. /\ regPC' = Add(regPC, 4) /\ memInst' = memInst
          /\ regs' = [regs EXCEPT ![d] = Add(DataRead(1), DataRead(2))]
      BY <3>1, <3>2, AddRuns, Zenon
    <3> QED BY <1>6, <3>1, <3>3, Sums, Reads, Zenon
  <2>3. Add(regs[1], regs[2]) = fib(i + 2)
    <3>1. regs[1] = fib(i) /\ regs[2] = fib(i + 1) /\ i \in 0 .. 9
      BY <1>6 DEF Loop
    <3>2. fib(i) \in Nat /\ fib(i + 1) \in Nat /\ fib(i) + fib(i + 1) = fib(i + 2) /\ fib(i + 2) < 128
      BY <3>1, FibStep
    <3> QED BY <3>1, <3>2, AddSmall
  <2>4. RunsAt(i)'
    BY <1>1, <1>6, <2>2, <2>3, SMT DEF RunsAt, Loop
  <2> QED BY <2>2, <2>4
<1>7. CASE regPC = 24 /\ i < 10 /\ Loop(i, i + 1, 10, i) /\ regs[5] = fib(i + 2)
  <2>1. inst = add(1, 2, 0)
    BY <1>7, Fetches, ProgramWords
  <2>2. /\ regPC' = 28 /\ memInst' = memInst
        /\ regs' = [regs EXCEPT ![1] = Add(regs[2], 0)]
    <3>1. /\ regPC' = Add(regPC, 4) /\ memInst' = memInst
          /\ regs' = [regs EXCEPT ![1] = Add(DataRead(2), DataRead(0))]
      BY <2>1, Literals, AddRuns, Zenon
    <3> QED BY <1>7, <3>1, Sums, Reads, Zenon
  <2>3. Add(regs[2], 0) = fib(i + 1)
    <3>1. regs[2] = fib(i + 1) /\ fib(i + 1) \in Nat /\ fib(i + 1) < 128
      BY <1>7, FibStep DEF Loop
    <3> QED BY <3>1, AddSmall
  <2>4. RunsAt(i)'
    BY <1>1, <1>7, <2>2, <2>3, SMT DEF RunsAt, Loop
  <2> QED BY <2>2, <2>4
<1>8. CASE regPC = 28 /\ i < 10 /\ Loop(i + 1, i + 1, 10, i) /\ regs[5] = fib(i + 2)
  <2>1. inst = add(2, 5, 0)
    BY <1>8, Fetches, ProgramWords
  <2>2. /\ regPC' = 32 /\ memInst' = memInst
        /\ regs' = [regs EXCEPT ![2] = Add(regs[5], 0)]
    <3>1. /\ regPC' = Add(regPC, 4) /\ memInst' = memInst
          /\ regs' = [regs EXCEPT ![2] = Add(DataRead(5), DataRead(0))]
      BY <2>1, Literals, AddRuns, Zenon
    <3> QED BY <1>8, <3>1, Sums, Reads, Zenon
  <2>3. Add(regs[5], 0) = fib(i + 2)
    <3>1. regs[5] = fib(i + 2) /\ fib(i + 2) \in Nat /\ fib(i + 2) < 128
      BY <1>8, FibStep
    <3> QED BY <3>1, AddSmall
  <2>4. RunsAt(i)'
    BY <1>1, <1>8, <2>2, <2>3, SMT DEF RunsAt, Loop
  <2> QED BY <2>2, <2>4
<1>9. CASE regPC = 32 /\ i < 10 /\ Loop(i + 1, i + 2, 10, i)
  <2>1. inst = addi(4, 4, 1)
    BY <1>9, Fetches, ProgramWords
  <2>2. /\ regPC' = 36 /\ memInst' = memInst
        /\ regs' = [regs EXCEPT ![4] = Add(regs[4], 1)]
    <3>1. /\ regPC' = Add(regPC, 4) /\ memInst' = memInst
          /\ regs' = [regs EXCEPT ![4] = Add(DataRead(4), 1)]
      BY <2>1, Literals, AddiRuns, Zenon
    <3> QED BY <1>9, <3>1, Sums, Reads, Zenon
  <2>3. Add(regs[4], 1) = i + 1
    BY <1>9, AddSmall DEF Loop
  <2>4. RunsAt(i)'
    BY <1>1, <1>9, <2>2, <2>3, SMT DEF RunsAt, Loop
  <2> QED BY <2>2, <2>4
<1>10. CASE regPC = 36 /\ i < 10 /\ Loop(i + 1, i + 2, 10, i + 1)
  <2>1. inst = beq(0, 0, -20)
    BY <1>10, Fetches, ProgramWords
  <2>2. regPC' = Add(36, ImmGen(beq(0, 0, -20), "B")) /\ regs' = regs /\ memInst' = memInst
    <3>1. /\ regPC' = IF DataRead(0) = DataRead(0) THEN Add(regPC, ImmGen(beq(0, 0, -20), "B"))
                      ELSE Add(regPC, 4)
          /\ regs' = regs /\ memInst' = memInst
      BY <2>1, BeqRuns, Zenon
    <3> QED BY <1>10, <3>1, Zenon
  <2>3. regPC' = 16
    <3>1. -20 \in Int /\ (-20) + 20 = 0
      BY SMT
    <3>2. Add(36, ImmGen(beq(0, 0, -20), "B")) = 16
      BY <3>1, BeqTargets, SMTT(30)
    <3> QED BY <2>2, <3>2
  <2>4. RunsAt(i + 1)' /\ i + 1 \in 0 .. 10
    BY <1>10, <2>2, <2>3, SMT DEF RunsAt, Loop
  <2> QED BY <2>2, <2>4
<1>11. CASE regPC = 40 /\ regs[1] = 55
  <2>1. inst = sw(1, 0, 0)
    BY <1>11, Fetches, ProgramWords
  <2>2. /\ regPC' = 44 /\ regs' = regs /\ memInst' = memInst
        /\ memData' = [memData EXCEPT ![0] = 55]
    <3>1. /\ regPC' = Add(regPC, 4) /\ regs' = regs /\ memInst' = memInst
          /\ memData' = [memData EXCEPT ![0] = DataRead(1)]
      BY <2>1, SwRuns, Zenon
    <3> QED BY <1>11, <3>1, Sums, Reads, Zenon
  <2>3. RunsAt(i)'
    BY <1>1, <1>11, <2>2, Numbers, SMT DEF RunsAt
  <2> QED BY <2>2, <2>3
<1>12. CASE regPC = 44 /\ regs[1] = 55 /\ memData[0] = 55
  <2>1. inst = lw(6, 0, 0)
    BY <1>12, Fetches, ProgramWords
  <2>2. /\ regPC' = 48 /\ regs' = [regs EXCEPT ![6] = 55] /\ memInst' = memInst
    <3>1. /\ regPC' = Add(regPC, 4) /\ regs' = [regs EXCEPT ![6] = memData[0]]
          /\ memInst' = memInst
      BY <2>1, Literals, LwRuns, Zenon
    <3> QED BY <1>12, <3>1, Sums, Reads, Zenon
  <2>3. RunsAt(i)'
    BY <1>1, <1>12, <2>2, SMT DEF RunsAt
  <2> QED BY <2>2, <2>3
<1>13. CASE regPC = 48 /\ regs[1] = 55 /\ regs[6] = 55
  <2>1. inst = beq(6, 1, 8)
    BY <1>13, Fetches, ProgramWords
  <2>2. regPC' = 56 /\ regs' = regs /\ memInst' = memInst
    <3>1. /\ regPC' = IF DataRead(6) = DataRead(1) THEN Add(regPC, ImmGen(beq(6, 1, 8), "B"))
                      ELSE Add(regPC, 4)
          /\ regs' = regs /\ memInst' = memInst
      BY <2>1, BeqRuns, Zenon
    <3>2. Add(48, ImmGen(beq(6, 1, 8), "B")) = 56
      BY BeqTargets, SMTT(30)
    <3> QED BY Reads, <1>13, <3>1, <3>2, SMTT(30)
  <2>3. RunsAt(i)'
    BY <1>13, <2>2, SMT DEF RunsAt
  <2> QED BY <2>2, <2>3
<1>14. CASE regPC = 56 /\ regs[1] = 55 /\ regs[6] = 55
  <2>1. inst = beq(6, 1, 0)
    BY <1>14, Fetches, ProgramWords
  <2>2. ResultBranch(ctrl, DataRead(inst.rs1), DataRead(inst.rs2)) <=> DataRead(6) = DataRead(1)
    BY <2>1, BeqTaken, Zenon
  <2>3. reachedHalt
    BY Reads, <1>14, <2>2 DEF reachedHalt, HaltPc
  <2> QED BY <2>3
<1> QED BY <1>3, <1>4, <1>5, <1>6, <1>7, <1>8, <1>9, <1>10, <1>11, <1>12, <1>13, <1>14 DEF RunsAt

-----------------------------------------------------------------------------
(* 11. The bench, step by step *)

LEMMA FibInitInv == BenchInit => FibInv
<1> SUFFICES ASSUME BenchInit PROVE FibInv
  OBVIOUS
<1>1. Files
  <2>1. regs \in RegFile /\ memInst \in InstFile /\ memData \in DataFile
    BY PowerUpAssumption DEF BenchInit, Init
  <2> QED BY <2>1 DEF Files, RegFile, InstFile, DataFile
<1>2. /\ fetched = <<>>
      /\ \/ phase = "load" /\ index = 14
         \/ phase = "hold" /\ index = 0
  BY Numbers, SMT DEF BenchInit
<1>3. Loading
  BY <1>2, SMT DEF Loading, Loaded
<1>4. Fetching
  BY <1>2, SMT DEF Fetching
<1>5. Running
  BY <1>2 DEF Running
<1> QED BY <1>1, <1>2, <1>3, <1>4, <1>5 DEF FibInv

\* A clock edge keeps the files, whatever it executes and downloads.
LEMMA EdgeFiles ==
  ASSUME Files, NEW reset, NEW iw, Clock(reset, iw, None)
  PROVE  Files'
<1>1. DOMAIN regs' = DOMAIN regs
  BY SMT DEF Clock, RegistersEdge
<1>2. DOMAIN memInst' = DOMAIN memInst
  BY SMT DEF Clock, MemInstEdge
<1>3. DOMAIN memData' = DOMAIN memData
  BY SMT DEF Clock, MemDataEdge
<1> QED BY <1>1, <1>2, <1>3 DEF Files

LEMMA EdgeReset ==
  ASSUME NEW iw, Clock(TRUE, iw, None)
  PROVE  regPC' = 0
BY DEF Clock, PCRegEdge, START_ADDR

LEMMA EdgeKeeps ==
  ASSUME NEW reset, Clock(reset, None, None)
  PROVE  memInst' = memInst
BY Zenon DEF Clock, MemInstEdge, None

\* The word is in its place after the edge that downloads it, whatever the core
\* executes meanwhile: a store goes to the data memory.
LEMMA EdgeDownloads ==
  ASSUME Files, NEW k \in 0 .. 14, NEW reset, Clock(reset, Write(4 * k, Program[k + 1]), None)
  PROVE  \A n \in 0 .. 14 : memInst'[n] = IF n = k THEN Program[k + 1] ELSE memInst[n]
<1>1. memInst' = [memInst EXCEPT ![WordAddr(4 * k, MEM_INST_SIZE)] = Program[k + 1]]
  BY Zenon DEF Clock, MemInstEdge, Write
<1>2. WordAddr(4 * k, MEM_INST_SIZE) = k
  BY AddrOfWord
<1>3. 0 .. 14 \subseteq DOMAIN memInst
  BY Numbers, SMT DEF Files
<1> QED BY <1>1, <1>2, <1>3

\* What the bench's steps have in common: no fetch is recorded before the reset.
LEMMA Unfetched ==
  ASSUME FibInv, fetched' = fetched, phase \in {"load", "reset", "hold", "settle"},
         phase' \in {"load", "hold", "reset", "settle"}
  PROVE  Fetching' /\ Running'
<1>1. Fetching /\ Len(fetched) = 0
  BY DEF FibInv, Fetching
<1> QED BY <1>1, SMT DEF Fetching, Running

LEMMA DownInv == ASSUME FibInv, Download("load", FALSE, -1, 0, "reset") PROVE FibInv'
<1>1. /\ phase = "load" /\ index \in 0 .. 14 /\ Loaded(index + 1, 14)
      /\ Files /\ Clock(FALSE, Write(4 * index, Program[index + 1]), None)
  BY DEF FibInv, Loading, Download
<1>2. Files'
  BY <1>1, EdgeFiles, Zenon
<1>3. \A k \in index .. 14 : memInst'[k] = Program[k + 1]
  <2>1. \A n \in 0 .. 14 : memInst'[n] = IF n = index THEN Program[index + 1] ELSE memInst[n]
    BY <1>1, EdgeDownloads, Zenon
  <2> QED BY <1>1, <2>1, SMT DEF Loaded
<1>4. \/ index = 0 /\ phase' = "reset"
      \/ index # 0 /\ index' = index - 1 /\ phase' = "load"
  BY <1>1, SMT DEF Download
<1>5. Loading'
  BY <1>1, <1>3, <1>4, SMT DEF Loading, Loaded
<1>6. Fetching' /\ Running'
  BY <1>1, <1>4, Unfetched DEF Download
<1> QED BY <1>2, <1>4, <1>5, <1>6 DEF FibInv

LEMMA UpInv ==
  ASSUME FibInv, Download("hold", TRUE, 1, Len(Program) - 1, "settle")
  PROVE  FibInv'
<1>1. /\ phase = "hold" /\ index \in 0 .. 14 /\ Loaded(0, index - 1)
      /\ Files /\ Clock(TRUE, Write(4 * index, Program[index + 1]), None)
  BY DEF FibInv, Loading, Download
<1>2. Files'
  BY <1>1, EdgeFiles, Zenon
<1>3. \A k \in 0 .. index : memInst'[k] = Program[k + 1]
  <2>1. \A n \in 0 .. 14 : memInst'[n] = IF n = index THEN Program[index + 1] ELSE memInst[n]
    BY <1>1, EdgeDownloads, Zenon
  <2>2. index \in 0 .. 14 /\ \A n \in 0 .. index - 1 : memInst[n] = Program[n + 1]
    BY <1>1 DEF Loaded
  <2> SUFFICES ASSUME NEW k \in 0 .. index PROVE memInst'[k] = Program[k + 1]
    OBVIOUS
  <2>3. CASE k = index
    BY <2>1, <2>2, <2>3
  <2>4. CASE k # index
    <3>1. k \in 0 .. index - 1 /\ k \in 0 .. 14
      BY <2>2, <2>4, SMT
    <3> QED BY <2>1, <2>2, <2>4, <3>1
  <2> QED BY <2>3, <2>4
<1>4. \/ index = 14 /\ phase' = "settle"
      \/ index # 14 /\ index' = index + 1 /\ phase' = "hold"
  BY <1>1, Numbers, SMT DEF Download
<1>5. Loading'
  BY <1>1, <1>3, <1>4, SMTT(30) DEF Loading, Loaded
<1>6. Fetching' /\ Running'
  BY <1>1, <1>4, Unfetched DEF Download
<1> QED BY <1>2, <1>4, <1>5, <1>6 DEF FibInv

\* A reset finds the program loaded and leaves the pc at its first word.
LEMMA ResetInv ==
  ASSUME FibInv, NEW from, NEW to, Reset(from, to),
         \/ from = "reset" /\ to = "fetch"
         \/ from = "restart" /\ to = "run"
         \/ from = "settle" /\ to = "run"
  PROVE  FibInv'
<1>1. /\ phase = from /\ phase' = to /\ index' = index /\ fetched' = fetched
      /\ Files /\ Loaded(0, 14) /\ Fetching /\ Clock(TRUE, None, None)
  <2>1. phase = from /\ from \notin {"load", "hold"}
    BY Zenon DEF Reset
  <2> QED BY <2>1 DEF FibInv, Loading, Reset
<1>2. Files' /\ memInst' = memInst /\ regPC' = 0
  BY <1>1, EdgeFiles, EdgeKeeps, EdgeReset, Zenon
<1>3. Loading'
  BY <1>1, <1>2, SMT DEF Loading, Loaded
<1>4. Fetching'
  BY <1>1, <1>2, SMT DEF Fetching
<1>5. Running'
  BY <1>1, <1>2, SMT DEF Running, RunsAt
<1> QED BY <1>1, <1>2, <1>3, <1>4, <1>5 DEF FibInv

LEMMA FetchInv == ASSUME FibInv, Fetch PROVE FibInv'
<1>1. /\ phase = "fetch" /\ fetched' = Append(fetched, inst)
      /\ phase' = IF Len(fetched') = 4 THEN "restart" ELSE "fetch"
      /\ Files /\ Loaded(0, 14) /\ Fetching /\ Clock(FALSE, None, None)
  BY DEF FibInv, Loading, Fetch
<1>2. Files' /\ memInst' = memInst
  BY <1>1, EdgeFiles, EdgeKeeps, Zenon
<1>3. PICK k \in 0 .. 3 : k = Len(fetched) /\ regPC = 4 * k
  <2>1. PICK S : fetched \in Seq(S)
    BY <1>1, Zenon DEF Fetching
  <2>2. Len(fetched) \in Nat
    BY <2>1, LenProperties, Zenon
  <2>3. Len(fetched) < 4
    BY <1>1, Zenon DEF Fetching
  <2>4. Len(fetched) \in 0 .. 3
    <3>1. \A n \in Nat : n < 4 => n \in 0 .. 3
      BY SMT
    <3> QED BY <2>2, <2>3, <3>1, Zenon
  <2>5. regPC = 4 * Len(fetched)
    BY <1>1, Zenon DEF Fetching
  <2> QED BY <2>4, <2>5, Zenon
<1>4. inst = Program[k + 1]
  <2>1. k \in 0 .. 14
    OBVIOUS
  <2> QED BY <1>1, <1>3, <2>1, Fetches
<1>5. regPC' = 4 * (k + 1)
  <2>1. /\ regPC = 0 => regPC' = 4
        /\ regPC = 4 => regPC' = 8
        /\ regPC = 8 => regPC' = 12
        /\ regPC = 12 => regPC' = 16
    BY <1>1, FirstFour, Zenon
  <2>2. regPC = 4 * k
    BY <1>3
  <2> QED BY <2>1, <2>2, SMT
<1>6. Loading'
  BY <1>1, <1>2, SMT DEF Loading, Loaded
<1>7. Fetching'
  BY <1>1, <1>3, <1>4, <1>5, SMTT(30) DEF Fetching
<1>8. Running'
  BY <1>1 DEF Running
<1> QED BY <1>1, <1>2, <1>6, <1>7, <1>8 DEF FibInv

LEMMA RunInv == ASSUME FibInv, Run PROVE FibInv'
<1>1. /\ phase = "run" /\ phase' = "run" /\ index' = index /\ fetched' = fetched
      /\ Files /\ Loaded(0, 14) /\ Fetching /\ Clock(FALSE, None, None) /\ ~ reachedHalt
  BY DEF FibInv, Loading, Run
<1>2. PICK i \in 0 .. 10 : RunsAt(i)
  BY <1>1 DEF FibInv, Running
<1>3. Files' /\ memInst' = memInst /\ \E j \in 0 .. 10 : RunsAt(j)'
  BY <1>1, <1>2, EdgeFiles, RunsEdge, Zenon
<1>4. Loading'
  BY <1>1, <1>3, SMT DEF Loading, Loaded
<1>5. Fetching'
  BY <1>1, SMT DEF Fetching
<1>6. Running'
  BY <1>1, <1>3 DEF Running
<1> QED BY <1>1, <1>3, <1>4, <1>5, <1>6 DEF FibInv

LEMMA EndRunInv == ASSUME FibInv, EndRun PROVE FibInv'
<1>1. /\ phase = "run" /\ UNCHANGED <<regPC, regs, memInst, memData, index, fetched>>
      /\ \/ phase' = "timeout"
         \/ phase' = "halt" /\ reachedHalt
  BY SMT DEF EndRun, vars, maxCycles
<1>2. Files' /\ Loading' /\ Fetching'
  BY <1>1, SMT DEF FibInv, Files, Loading, Loaded, Fetching
<1>3. Running'
  BY <1>1, SMT DEF FibInv, Running, RunsAt, Loop, reachedHalt
<1> QED BY <1>1, <1>2, <1>3 DEF FibInv

LEMMA StutterInv == ASSUME FibInv, UNCHANGED <<vars, bench>> PROVE FibInv'
BY SMTT(30) DEF FibInv, Files, Loading, Loaded, Fetching, Running, RunsAt, Loop, vars, bench

\* What the bench asserts at the halt loop.
LEMMA FibInvImplies == ASSUME FibInv PROVE ComputesFib
<1>1. \A n \in DOMAIN fetched : fetched[n] = Program[n]
  BY SMT DEF FibInv, Fetching
<1>2. ASSUME phase \in {"run", "halt"} PROVE regPC # FailPc
  BY <1>2, SMT DEF FibInv, Running, RunsAt, FailPc
<1>3. ASSUME phase = "halt"
      PROVE  /\ inst = Program[HaltPc \div 4 + 1]
             /\ DataRead(inst.rs1) = ExpectedFib /\ DataRead(inst.rs2) = ExpectedFib
  <2>1. regPC = 56 /\ Loaded(0, 14) /\ regs[1] = 55 /\ regs[6] = 55
    BY <1>3, SMT DEF FibInv, Loading, Running, RunsAt, HaltPc
  <2>2. inst = Program[15]
    BY <2>1, Fetches
  <2>3. inst.rs1 = 6 /\ inst.rs2 = 1
    <3>1. inst = beq(6, 1, 0)
      BY <2>2, ProgramWords, Zenon
    <3> QED BY <3>1, BeqTaken, Zenon
  <2>4. HaltPc \div 4 + 1 = 15
    BY SMT DEF HaltPc
  <2> QED BY <2>1, <2>2, <2>3, <2>4, Reads DEF ExpectedFib
<1> QED BY <1>1, <1>2, <1>3 DEF ComputesFib

-----------------------------------------------------------------------------
(* 12. The theorem of the benches *)

\* Whatever the registers and the memories hold at power-up, whatever the core
\* executes while the program is downloaded, and however wide its words are from
\* 128 values on: the core fetches what was downloaded, never reaches the loop
\* that reports a wrong load, and halts with fib(10) in both registers compared.
THEOREM TopFib_ComputesFib == BenchSpec => []ComputesFib
<1>1. BenchInit => FibInv
  BY FibInitInv
<1>2. FibInv /\ [BenchNext]_<<vars, bench>> => FibInv'
  <2> SUFFICES ASSUME FibInv, [BenchNext]_<<vars, bench>> PROVE FibInv'
    OBVIOUS
  <2>1. CASE Download("load", FALSE, -1, 0, "reset")
    BY <2>1, DownInv
  <2>2. CASE Reset("reset", "fetch")
    BY <2>2, ResetInv, Zenon
  <2>3. CASE Fetch
    BY <2>3, FetchInv
  <2>4. CASE Reset("restart", "run")
    BY <2>4, ResetInv, Zenon
  <2>5. CASE Download("hold", TRUE, 1, Len(Program) - 1, "settle")
    BY <2>5, UpInv
  <2>6. CASE Reset("settle", "run")
    BY <2>6, ResetInv, Zenon
  <2>7. CASE Run
    BY <2>7, RunInv
  <2>8. CASE EndRun
    BY <2>8, EndRunInv
  <2>9. CASE UNCHANGED <<vars, bench>>
    BY <2>9, StutterInv
  <2> QED BY <2>1, <2>2, <2>3, <2>4, <2>5, <2>6, <2>7, <2>8, <2>9 DEF BenchNext
<1>3. FibInv => ComputesFib
  BY FibInvImplies
<1> QED BY <1>1, <1>2, <1>3, PTL DEF BenchSpec

=============================================================================
