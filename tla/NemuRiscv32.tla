---------------------------- MODULE NemuRiscv32 ----------------------------
(***************************************************************************)
(* NEMU's riscv32 interpreter (nemu/src/isa/riscv32/inst.c): what          *)
(* decode_exec() makes of one instruction.  Definitions only.              *)
(*                                                                         *)
(* DecodeExec(i, pc, gpr, mem) is a record:                                *)
(*   dnpc, gpr, mem   the next pc, registers and memory                    *)
(*   state            what the instruction does to NEMU: "RUNNING", "END"  *)
(*                    (ebreak), "ABORT" (invalid), "PANIC" (an address     *)
(*                    outside pmem), "CRASH" (the host's divide exception) *)
(*                    or "UNDEFINED" (an access that leaves pmem midway;   *)
(*                    only its first byte is checked)                      *)
(* mem maps the words of pmem to their values; there are no devices.       *)
(***************************************************************************)
EXTENDS Rv32

\* immI() .. immJ()
immI(i) == ToWord(Sext(i.funct7 * 32 + i.rs2, 4096))
immS(i) == ToWord(Sext(i.funct7, 128) * 32 + i.rd)
immU(i) == ToWord((i.funct7 * 8192 + i.rs2 * 256 + i.rs1 * 8 + i.funct3) * 4096)
immB(i) == ToWord(Sext(i.funct7 \div 64, 2) * 4096 + (i.funct7 % 64) * 32
                  + (i.rd \div 2) * 2 + (i.rd % 2) * 2048)
immJ(i) == ToWord(Sext(i.funct7 \div 64, 2) * 1048576
                  + ((i.funct7 % 64) * 16 + i.rs2 \div 2) * 2
                  + (i.rs2 % 2) * 2048 + (i.rs1 * 8 + i.funct3) * 4096)

-----------------------------------------------------------------------------
(* Memory: paddr_read(), paddr_write(), little-endian *)

ByteOf(w, n) == (w \div Pow2[ByteWidth * n]) % Pow2[ByteWidth]

ByteAt(mem, addr) == ByteOf(mem[addr \div 4], addr % 4)

FromBytes(bytes, len) ==
  LET low[n \in 0 .. len] ==
        IF n = 0 THEN 0 ELSE low[n - 1] + bytes[n - 1] * Pow2[ByteWidth * (n - 1)]
  IN  low[len]

Mr(mem, addr, len) ==
  IF len = 4 /\ addr % 4 = 0 THEN mem[addr \div 4]
  ELSE FromBytes([n \in 0 .. len - 1 |-> ByteAt(mem, addr + n)], len)

Mw(mem, addr, len, data) ==
  IF len = 4 /\ addr % 4 = 0 THEN [mem EXCEPT ![addr \div 4] = data]
  ELSE [w \in DOMAIN mem |->
          FromBytes([n \in 0 .. 3 |-> IF 4 * w + n \in addr .. addr + len - 1
                                      THEN ByteOf(data, 4 * w + n - addr)
                                      ELSE ByteOf(mem[w], n)], 4)]

Access(mem, addr, len) ==
  IF addr \div 4 \notin DOMAIN mem THEN "PANIC"
  ELSE IF (addr + len - 1) \div 4 \notin DOMAIN mem THEN "UNDEFINED"
  ELSE "RUNNING"

-----------------------------------------------------------------------------
(* The instruction table of decode_exec() *)

Abs(a) == IF a < 0 THEN - a ELSE a

\* C's division
Truncated(a, b) == IF (a < 0) = (b < 0) THEN Abs(a) \div Abs(b) ELSE - (Abs(a) \div Abs(b))

\* add .. sltu and the M extension without mulhsu and mulhu, by funct7, funct3.
RegFuncts == ({0} \X (0 .. 7)) \cup {<<32, 0>>, <<32, 5>>}
               \cup ({1} \X {0, 1, 4, 5, 6, 7})

RegOp(f7, f3, a, b) ==
  CASE f7 = 0  /\ f3 = 0 -> Add(a, b)
    [] f7 = 32 /\ f3 = 0 -> Sub(a, b)
    [] f7 = 0  /\ f3 = 7 -> And(a, b)
    [] f7 = 0  /\ f3 = 6 -> Or(a, b)
    [] f7 = 0  /\ f3 = 4 -> Xor(a, b)
    [] f7 = 0  /\ f3 = 1 -> Shl(a, b % 32)
    [] f7 = 0  /\ f3 = 5 -> Shr(a, b % 32)
    [] f7 = 32 /\ f3 = 5 -> Sar(a, b % 32)
    [] f7 = 0  /\ f3 = 2 -> IF Signed(a) < Signed(b) THEN 1 ELSE 0
    [] f7 = 0  /\ f3 = 3 -> IF a < b THEN 1 ELSE 0
    [] f7 = 1  /\ f3 = 0 -> (Signed(a) * Signed(b)) % Modulus
    [] f7 = 1  /\ f3 = 1 -> ((Signed(a) * Signed(b)) \div Modulus) % Modulus
    [] f7 = 1  /\ f3 = 4 -> Truncated(Signed(a), Signed(b)) % Modulus
    [] f7 = 1  /\ f3 = 5 -> a \div b
    [] f7 = 1  /\ f3 = 6 -> (Signed(a) - Signed(b) * Truncated(Signed(a), Signed(b))) % Modulus
    [] f7 = 1  /\ f3 = 7 -> a % b

\* Divisions the host's divide instruction refuses.
Traps(f7, f3, a, b) ==
  /\ f7 = 1
  /\ \/ f3 \in 4 .. 7 /\ b = 0
     \/ f3 \in {4, 6} /\ a = Modulus \div 2 /\ b = Modulus - 1

\* addi .. sltiu; the shifts look at funct7, slti compares unsigned words (imm
\* is a word_t) and sltiu cuts the immediate to 12 bits.
ImmFunct(f7, f3) == (f3 = 1 => f7 = 0) /\ (f3 = 5 => f7 \in {0, 32})

ImmOp(f7, f3, a, imm) ==
  CASE f3 = 0 -> Add(a, imm)
    [] f3 = 7 -> And(a, imm)
    [] f3 = 6 -> Or(a, imm)
    [] f3 = 4 -> Xor(a, imm)
    [] f3 = 1 -> Shl(a, imm % 32)
    [] f3 = 5 -> IF f7 = 0 THEN Shr(a, imm % 32) ELSE Sar(a, imm % 32)
    [] f3 = 2 -> IF a < imm THEN 1 ELSE 0
    [] f3 = 3 -> IF a < imm % 4096 THEN 1 ELSE 0

\* lw, lh, lhu, lbu by funct3: there is no lb.
LoadLen(f3)  == CASE f3 = 2 -> 4 [] f3 \in {1, 5} -> 2 [] f3 = 4 -> 1
StoreLen(f3) == CASE f3 = 2 -> 4 [] f3 = 1 -> 2 [] f3 = 0 -> 1

Extended(f3, x) ==
  IF f3 = 1 THEN Sext(x, Pow2[2 * ByteWidth]) % Modulus ELSE x

\* beq, bne, blt, bge, bltu, bgeu by funct3
Taken(f3, a, b) ==
  CASE f3 = 0 -> a = b
    [] f3 = 1 -> a # b
    [] f3 = 4 -> Signed(a) < Signed(b)
    [] f3 = 5 -> Signed(a) >= Signed(b)
    [] f3 = 6 -> a < b
    [] f3 = 7 -> a >= b

\* An instruction ends NEMU's run, goes on at t, or writes rd and goes on at t;
\* the last two end with R(0) = 0.
Stop(s, pc, gpr, mem) == [dnpc |-> Add(pc, 4), gpr |-> gpr, mem |-> mem, state |-> s]

Goes(t, gpr, mem) ==
  [dnpc |-> t, gpr |-> [gpr EXCEPT ![0] = 0], mem |-> mem, state |-> "RUNNING"]

Writes(i, v, t, gpr, mem) == Goes(t, [gpr EXCEPT ![i.rd] = v], mem)

ExecOp(i, pc, gpr, mem) ==
  IF Traps(i.funct7, i.funct3, gpr[i.rs1], gpr[i.rs2]) THEN Stop("CRASH", pc, gpr, mem)
  ELSE Writes(i, RegOp(i.funct7, i.funct3, gpr[i.rs1], gpr[i.rs2]), Add(pc, 4), gpr, mem)

ExecLoad(i, addr, pc, gpr, mem) ==
  LET len == LoadLen(i.funct3) IN
  IF Access(mem, addr, len) = "RUNNING"
  THEN Writes(i, Extended(i.funct3, Mr(mem, addr, len)), Add(pc, 4), gpr, mem)
  ELSE Stop(Access(mem, addr, len), pc, gpr, mem)

ExecStore(i, addr, pc, gpr, mem) ==
  LET len == StoreLen(i.funct3) IN
  IF Access(mem, addr, len) = "RUNNING"
  THEN Goes(Add(pc, 4), gpr, Mw(mem, addr, len, gpr[i.rs2]))
  ELSE Stop(Access(mem, addr, len), pc, gpr, mem)

\* decode_exec(): the body of the first pattern that matches.
DecodeExec(i, pc, gpr, mem) ==
  CASE i.opcode = OP /\ <<i.funct7, i.funct3>> \in RegFuncts -> ExecOp(i, pc, gpr, mem)
    [] i.opcode = OP_IMM /\ ImmFunct(i.funct7, i.funct3) ->
         Writes(i, ImmOp(i.funct7, i.funct3, gpr[i.rs1], immI(i)), Add(pc, 4), gpr, mem)
    [] i.opcode = LOAD /\ i.funct3 \in {1, 2, 4, 5} ->
         ExecLoad(i, Add(gpr[i.rs1], immI(i)), pc, gpr, mem)
    [] i.opcode = STORE /\ i.funct3 \in 0 .. 2 ->
         ExecStore(i, Add(gpr[i.rs1], immS(i)), pc, gpr, mem)
    [] i.opcode = BRANCH /\ i.funct3 \notin {2, 3} ->
         Goes(IF Taken(i.funct3, gpr[i.rs1], gpr[i.rs2]) THEN Add(pc, immB(i))
              ELSE Add(pc, 4), gpr, mem)
    [] i.opcode = JAL -> Writes(i, Add(pc, 4), Add(pc, immJ(i)), gpr, mem)
    [] i.opcode = JALR /\ i.funct3 = 0 ->
         Writes(i, Add(pc, 4), Add(gpr[i.rs1], immI(i)), gpr, mem)
    [] i.opcode = LUI   -> Writes(i, immU(i), Add(pc, 4), gpr, mem)
    [] i.opcode = AUIPC -> Writes(i, Add(pc, immU(i)), Add(pc, 4), gpr, mem)
    [] i = [funct7 |-> 0, rs2 |-> 1, rs1 |-> 0, funct3 |-> 0, rd |-> 0,
            opcode |-> SYSTEM] -> Stop("END", pc, gpr, mem)
    [] OTHER -> Stop("ABORT", pc, gpr, mem)

=============================================================================
