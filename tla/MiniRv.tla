------------------------------- MODULE MiniRv -------------------------------
(***************************************************************************)
(* minirv (abstract-machine/tools/minirv): assembler macros that expand    *)
(* RV32I into add, addi, lui, lw, lbu, sw, sb and jalr, with tables for    *)
(* what those cannot compute.  tp and gp are scratch, and so is the stack  *)
(* below sp.                                                               *)
(*                                                                         *)
(* An expansion is a sequence of base instructions.  A step expands one    *)
(* RV32I instruction and runs the expansion; beside it a reference machine *)
(* does what the instruction means.  Numbers of the macros that come from  *)
(* the width of a byte (8, 16, 24, 256) follow ByteWidth.                  *)
(***************************************************************************)
EXTENDS NemuRiscv32, Sequences

CONSTANTS
  Regs,       \* the registers a program of the instance uses
  PowerUps,   \* initial values of the registers
  Garbages,   \* what scratch memory may hold: bytes
  Insts       \* the instructions

zero == 0   sp == 2   gp == 3   tp == 4   s0 == 8   s1 == 9

ASSUME RegsAssumption == {zero, sp, gp, tp, s0, s1} \subseteq Regs /\ Regs \subseteq 0 .. 31

\* The and table masks a shift amount of five bits byte by byte.
ASSUME WidthAssumption == ByteWidth \in 5 .. 8

VARIABLES
  machine,    \* the machine the expansion runs on
  ref,        \* the machine the instruction is meant for
  ran         \* the instruction that was run, or <<>>

vars == <<machine, ref, ran>>

-----------------------------------------------------------------------------
(* Tables and memory *)

B == Pow2[ByteWidth]

\* Where the linker put the read-only tables, the array seq writes, the top of
\* the stack, the target of a branch, and the code after the expansion.
Rodata     == 4096
SameArray  == 1024
StackTop   == 256
Target     == 16
After      == 32

SameResult == Rodata
Check0     == SameResult + 8
Slt1       == Check0 + B
Sltu1      == Slt1 + 8
Or1        == Sltu1 + 8
And8       == Or1 + 4
Or8        == And8 + B * B
Xor8       == Or8 + B * B
Sll8       == Xor8 + B * B
Srl8       == Sll8 + 32 * B * 4
Sra8       == Srl8 + 32 * B * 4
RodataEnd  == Sra8 + 32 * B * 4

\* gen_table: entry a of a table of bytes; byte a of a table of words.
LogicByte(Op(_, _), a) == Op(a \div B, a % B)

ShiftByte(Op(_, _), a) == ByteOf(Op((a \div 4) % B, a \div (4 * B)), a % 4)

SrlRow(i, n) == Shr(i * B * B * B, n)
SraRow(i, n) == Sar(i * B * B * B, n)

Tables == Rodata .. RodataEnd - 1

Rom ==
  [a \in Tables |->
     CASE a < Check0 -> IF a = SameResult THEN 1 ELSE 0
       [] a \in Check0 .. Slt1 - 1  -> IF a = Check0 THEN 0 ELSE 1
       [] a \in Slt1 .. Sltu1 - 1   -> <<0, 1, 0, 0, 1, 1, 0, 1>>[a - Slt1 + 1]
       [] a \in Sltu1 .. Or1 - 1    -> <<0, 1, 1, 1, 0, 0, 0, 1>>[a - Sltu1 + 1]
       [] a \in Or1 .. And8 - 1     -> <<0, 1, 1, 1>>[a - Or1 + 1]
       [] a \in And8 .. Or8 - 1     -> LogicByte(And, a - And8)
       [] a \in Or8 .. Xor8 - 1     -> LogicByte(Or, a - Or8)
       [] a \in Xor8 .. Sll8 - 1    -> LogicByte(Xor, a - Xor8)
       [] a \in Sll8 .. Srl8 - 1    -> ShiftByte(Shl, a - Sll8)
       [] a \in Srl8 .. Sra8 - 1    -> ShiftByte(SrlRow, a - Srl8)
       [] a \in Sra8 .. RodataEnd - 1 -> ShiftByte(SraRow, a - Sra8)]

\* Scratch below the stack pointer (seven words), the array of seq, and what
\* belongs to the program: two words at the stack pointer.
Scratch == (StackTop - 28 .. StackTop - 1) \cup (SameArray .. SameArray + B - 1)
Owned   == StackTop .. StackTop + 7
Ram     == Scratch \cup Owned

-----------------------------------------------------------------------------
(* The base instructions, each a sequence of one *)

Base(op, a, b, c) == <<[op |-> op, a |-> a, b |-> b, c |-> c]>>

add(rd, rs1, rs2)   == Base("add", rd, rs1, rs2)
addi(rd, rs1, imm)  == Base("addi", rd, rs1, imm)
lui(rd, imm)        == Base("lui", rd, imm, 0)
lw(rd, off, rs1)    == Base("lw", rd, off, rs1)
lbu(rd, off, rs1)   == Base("lbu", rd, off, rs1)
sw(rs2, off, rs1)   == Base("sw", rs2, off, rs1)
sb(rs2, off, rs1)   == Base("sb", rs2, off, rs1)
jalr(rd, rs1)       == Base("jalr", rd, rs1, 0)

\* mc: regs, ram, pc (After until a jump), stray (an access hit neither ram nor,
\* for a load, the tables).
Set(mc, rd, v) == IF rd = 0 THEN mc ELSE [mc EXCEPT !.regs[rd] = v]

ByteIn(mc, a) == IF a \in Ram THEN mc.ram[a]
                 ELSE IF a \in Tables THEN Rom[a] ELSE 0

Read(mc, rd, addr, len) ==
  [Set(mc, rd, FromBytes([n \in 0 .. len - 1 |-> ByteIn(mc, addr + n)], len)) EXCEPT
     !.stray = @ \/ \E n \in 0 .. len - 1 : addr + n \notin Ram /\ addr + n \notin Tables]

StoreByte(mc, a, v) ==
  IF a \in Ram THEN [mc EXCEPT !.ram[a] = v] ELSE [mc EXCEPT !.stray = TRUE]

Store(mc, rs2, addr, len) ==
  LET after[n \in 0 .. len] ==
        IF n = 0 THEN mc ELSE StoreByte(after[n - 1], addr + n - 1, ByteOf(mc.regs[rs2], n - 1))
  IN  after[len]

Exec(mc, i) ==
  LET addr == Add(mc.regs[i.c], i.b) IN
  IF mc.jumped THEN mc
  ELSE CASE i.op = "add"  -> Set(mc, i.a, Add(mc.regs[i.b], mc.regs[i.c]))
         [] i.op = "addi" -> Set(mc, i.a, Add(mc.regs[i.b], i.c))
         [] i.op = "lui"  -> Set(mc, i.a, i.b)
         [] i.op = "lw"   -> Read(mc, i.a, addr, 4)
         [] i.op = "lbu"  -> Read(mc, i.a, addr, 1)
         [] i.op = "sw"   -> Store(mc, i.a, addr, 4)
         [] i.op = "sb"   -> Store(mc, i.a, addr, 1)
         [] i.op = "jalr" -> [Set(mc, i.a, After) EXCEPT !.pc = mc.regs[i.b], !.jumped = TRUE]

Run(mc, code) ==
  LET after[n \in 0 .. Len(code)] == IF n = 0 THEN mc ELSE Exec(after[n - 1], code[n])
  IN  after[Len(code)]

-----------------------------------------------------------------------------
(* Macros: pieces *)

VAR_A == 4   VAR_B == 5   VAR_C == 6   VAR_D == 7

Var(n)     == -4 * n
Push(r, n) == sw(r, Var(n), sp)
Pop(r, n)  == lw(r, Var(n), sp)
mv(rd, rs) == addi(rd, rs, 0)
li(rd, n)  == addi(rd, zero, n)

\* %hi and %lo
la(r, addr) ==
  LET low == Sext(addr % 4096, 4096) IN lui(r, addr - low) \o addi(r, r, low)

call_template(r, addr) == la(r, addr) \o jalr(r, r)

Getbyte(rd, rs1, n) == sw(rs1, Var(VAR_C), sp) \o lbu(rd, Var(VAR_C) + n, sp)

sh(rs, off, base) ==
  sb(rs, off, base) \o Getbyte(tp, rs, 1) \o sb(tp, off + 1, base)

\* .rept
Repeat(code, n) ==
  LET times[k \in 0 .. n] == IF k = 0 THEN <<>> ELSE times[k - 1] \o code
  IN  times[n]

\* Shifts by whole bytes go through memory.
slliSmall(rd, rs1, n) ==
  IF n = 0 THEN IF rd = rs1 THEN <<>> ELSE mv(rd, rs1)
  ELSE add(rd, rs1, rs1) \o Repeat(add(rd, rd, rd), n - 1)

slli(rd, rs1, n) ==
  IF n >= 3 * ByteWidth
  THEN sw(zero, Var(VAR_A), sp) \o sb(rs1, Var(VAR_A) + 3, sp) \o lw(rd, Var(VAR_A), sp)
         \o slliSmall(rd, rd, n - 3 * ByteWidth)
  ELSE IF n >= 2 * ByteWidth
  THEN sw(zero, Var(VAR_A), sp) \o sh(rs1, Var(VAR_A) + 2, sp) \o lw(rd, Var(VAR_A), sp)
         \o slliSmall(rd, rd, n - 2 * ByteWidth)
  ELSE slliSmall(rd, rs1, n)

msb(rd, rs1) == Getbyte(rd, rs1, 3) \o slli(rd, rd, 1) \o Getbyte(rd, rd, 1)

\* Mutant: gp is not saved, although slt holds the signs there.
Not_NoPush(rd, rs1) ==
  LET byte(n) == lbu(gp, Var(VAR_C) + n, sp) \o add(gp, gp, tp) \o lbu(gp, 0, gp)
                   \o sb(gp, Var(VAR_D) + n, sp)
  IN  sw(rs1, Var(VAR_C), sp) \o la(tp, Xor8 + (B - 1) * B)
        \o byte(3) \o byte(2) \o byte(1) \o byte(0)
        \o lw(rd, Var(VAR_D), sp)

Not(rd, rs1) ==
  LET byte(n) == lbu(gp, Var(VAR_C) + n, sp) \o add(gp, gp, tp) \o lbu(gp, 0, gp)
                   \o sb(gp, Var(VAR_D) + n, sp)
  IN  Push(gp, 3) \o sw(rs1, Var(VAR_C), sp) \o la(tp, Xor8 + (B - 1) * B)
        \o byte(3) \o byte(2) \o byte(1) \o byte(0)
        \o Pop(gp, 3) \o lw(rd, Var(VAR_D), sp)

sub(rd, rs1, rs2) == Not(tp, rs2) \o add(rd, rs1, tp) \o addi(rd, rd, 1)

-----------------------------------------------------------------------------
(* Macros: comparisons *)

\* The signs of the operands and of their difference index the table.
slt_template(lut, rd, rs1, rs2) ==
  Push(s0, 1) \o Push(s1, 2)
    \o sw(rs2, Var(VAR_A), sp) \o mv(s0, rs1) \o lw(s1, Var(VAR_A), sp)
    \o msb(gp, s0) \o slli(gp, gp, 1)
    \o msb(tp, s1) \o add(gp, gp, tp) \o slli(gp, gp, 1)
    \o sub(tp, s0, s1) \o msb(tp, tp) \o add(gp, gp, tp)
    \o la(tp, lut) \o add(tp, tp, gp)
    \o Pop(s1, 2) \o Pop(s0, 1)
    \o lbu(rd, 0, tp)

slt(rd, rs1, rs2)  == slt_template(Slt1, rd, rs1, rs2)
sltu(rd, rs1, rs2) == slt_template(Sltu1, rd, rs1, rs2)

\* rd = 0 when the bytes are the same: the second write is to the first's place.
check_8bit_same(table, rd, n) ==
  lbu(rd, Var(VAR_A) + n, sp) \o add(tp, table, rd) \o li(rd, 1) \o sb(rd, 0, tp)
    \o lbu(rd, Var(VAR_B) + n, sp) \o add(rd, table, rd) \o sb(zero, 0, rd)
    \o lbu(rd, 0, tp)

seq(rd, rs1, rs2) ==
  sw(rs1, Var(VAR_A), sp) \o sw(rs2, Var(VAR_B), sp) \o Push(s0, 1) \o Push(s1, 2)
    \o la(s0, SameArray)
    \o check_8bit_same(s0, gp, 0)
    \o check_8bit_same(s0, s1, 1) \o add(gp, gp, s1)
    \o check_8bit_same(s0, s1, 2) \o add(gp, gp, s1)
    \o check_8bit_same(s0, s1, 3) \o add(gp, gp, s1)
    \o la(tp, SameResult) \o add(tp, tp, gp) \o lbu(rd, 0, tp)
    \o Pop(s1, 2) \o Pop(s0, 1)

check_8bit_0(table, rd, n) ==
  lbu(rd, Var(VAR_A) + n, sp) \o add(rd, table, rd) \o lbu(rd, 0, rd)

seqz(rd, rs1) ==
  sw(rs1, Var(VAR_A), sp) \o Push(s0, 1) \o la(s0, Check0)
    \o check_8bit_0(s0, gp, 0)
    \o check_8bit_0(s0, tp, 1) \o add(gp, gp, tp)
    \o check_8bit_0(s0, tp, 2) \o add(gp, gp, tp)
    \o check_8bit_0(s0, tp, 3) \o add(gp, gp, tp)
    \o la(tp, SameResult) \o add(tp, tp, gp) \o lbu(rd, 0, tp)
    \o Pop(s0, 1)

-----------------------------------------------------------------------------
(* Macros: branches and jumps *)

\* Two addresses on the stack, and tp picks one.
branch_resolve(target, is_tp_high_sel_target) ==
  LET high == IF is_tp_high_sel_target THEN target ELSE After
      low  == IF is_tp_high_sel_target THEN After ELSE target
  IN  slli(tp, tp, 2) \o add(tp, sp, tp)
        \o la(gp, high) \o sw(gp, Var(VAR_A), sp)
        \o la(gp, low)  \o sw(gp, Var(VAR_B), sp)
        \o lw(tp, Var(VAR_B), tp) \o jalr(zero, tp)

SetEqual(rs1, rs2) ==
  IF rs2 = zero THEN seqz(tp, rs1)
  ELSE IF rs1 = zero THEN seqz(tp, rs2)
  ELSE seq(tp, rs1, rs2)

beq(rs1, rs2, target) == SetEqual(rs1, rs2) \o branch_resolve(target, TRUE)
bne(rs1, rs2, target) == SetEqual(rs1, rs2) \o branch_resolve(target, FALSE)

\* tp = 1 unless rs2 > 0
NotPositive(rs2) ==
  msb(gp, rs2) \o addi(tp, rs2, -1) \o msb(tp, tp) \o add(gp, gp, tp)
    \o la(tp, Or1) \o add(tp, gp, tp) \o lbu(tp, 0, tp)

blt(rs1, rs2, target) ==
  IF rs2 = zero THEN msb(tp, rs1) \o branch_resolve(target, TRUE)
  ELSE IF rs1 = zero THEN NotPositive(rs2) \o branch_resolve(target, FALSE)
  ELSE slt(tp, rs1, rs2) \o branch_resolve(target, TRUE)

bge(rs1, rs2, target) ==
  IF rs1 = zero THEN NotPositive(rs2) \o branch_resolve(target, TRUE)
  ELSE slt(tp, rs1, rs2) \o branch_resolve(target, FALSE)

bltu(rs1, rs2, target) == sltu(tp, rs1, rs2) \o branch_resolve(target, TRUE)
bgeu(rs1, rs2, target) == sltu(tp, rs1, rs2) \o branch_resolve(target, FALSE)

j(addr)       == la(tp, addr) \o jalr(zero, tp)
jal(rd, addr) == IF rd = zero THEN j(addr) ELSE call_template(rd, addr)
tail(addr)    == la(tp, addr) \o jalr(zero, tp) \o call_template(1, addr)

-----------------------------------------------------------------------------
(* Macros: logic and shifts *)

logic8_byte(lut_reg, n) ==
  lbu(tp, Var(VAR_A) + n, sp) \o sb(tp, Var(VAR_D) + 1, sp)
    \o lbu(tp, Var(VAR_B) + n, sp) \o sb(tp, Var(VAR_D), sp)
    \o lw(tp, Var(VAR_D), sp) \o add(tp, lut_reg, tp) \o lbu(tp, 0, tp)
    \o sb(tp, Var(VAR_C) + n, sp)

\* The assembly stops where sp, gp or tp would be an operand (but for an
\* immediate in tp).
logic(lut, rd, rs1, rs2) ==
  IF rd = zero THEN <<>>
  ELSE sw(rs1, Var(VAR_A), sp) \o sw(rs2, Var(VAR_B), sp) \o la(rd, lut)
         \o sw(zero, Var(VAR_D), sp)
         \o logic8_byte(rd, 3) \o logic8_byte(rd, 2) \o logic8_byte(rd, 1) \o logic8_byte(rd, 0)
         \o lw(rd, Var(VAR_C), sp)

\* Mutant: the shift amount is not masked.
getshamt_NoMask(rd, rs1) == sb(rs1, Var(VAR_B), sp) \o lbu(rd, Var(VAR_B), sp)

\* The low five bits, by the and table.
getshamt(rd, rs1) ==
  sb(rs1, Var(VAR_B), sp) \o lbu(rd, Var(VAR_B), sp) \o la(tp, And8 + 31 * B)
    \o add(rd, rd, tp) \o lbu(rd, 0, rd)

\* s0 = the row of the table for the shift amount in rs2
ShiftRow(rs2, lut) ==
  getshamt(s0, rs2) \o sw(zero, Var(VAR_B), sp) \o sb(s0, Var(VAR_B) + 1, sp)
    \o lw(s0, Var(VAR_B), sp) \o slli(s0, s0, 2) \o la(tp, lut) \o add(s0, s0, tp)

get_shift_byte_in_tp(base, n) ==
  lbu(tp, Var(VAR_A) + n, sp) \o slli(tp, tp, 2) \o add(tp, base, tp) \o lw(tp, 0, tp)

sll(rd, rs1, rs2) ==
  Push(s0, 1) \o sw(rs1, Var(VAR_A), sp) \o ShiftRow(rs2, Sll8)
    \o sw(zero, Var(VAR_B), sp)
    \o get_shift_byte_in_tp(s0, 3) \o sb(tp, Var(VAR_B) + 3, sp) \o lw(gp, Var(VAR_B), sp)
    \o get_shift_byte_in_tp(s0, 2) \o sh(tp, Var(VAR_B) + 2, sp) \o lw(tp, Var(VAR_B), sp)
    \o add(gp, gp, tp)
    \o get_shift_byte_in_tp(s0, 1) \o slli(tp, tp, ByteWidth) \o add(gp, gp, tp)
    \o get_shift_byte_in_tp(s0, 0)
    \o Pop(s0, 1) \o add(rd, gp, tp)

\* From s0, the row in the srl table: the bytes of the result below the top
\* byte's share, then that share from the srl or the sra table.
ShiftRight(rd, is_arith) ==
  get_shift_byte_in_tp(s0, 2) \o sw(tp, Var(VAR_B), sp)
    \o get_shift_byte_in_tp(s0, 1) \o sw(tp, Var(VAR_C), sp)
    \o get_shift_byte_in_tp(s0, 0) \o sw(tp, Var(VAR_D), sp)
    \o lbu(gp, Var(VAR_B) + 1, sp)
    \o lbu(tp, Var(VAR_C) + 2, sp) \o add(gp, gp, tp)
    \o lbu(tp, Var(VAR_D) + 3, sp) \o add(gp, gp, tp) \o sw(gp, Var(VAR_D), sp)
    \o lbu(gp, Var(VAR_B) + 2, sp)
    \o lbu(tp, Var(VAR_C) + 3, sp) \o add(gp, gp, tp) \o sb(gp, Var(VAR_D) + 1, sp)
    \o lbu(gp, Var(VAR_B) + 3, sp) \o sb(gp, Var(VAR_D) + 2, sp)
    \o lw(gp, Var(VAR_D), sp)
    \o (IF is_arith THEN la(tp, Sra8 - Srl8) \o add(s0, s0, tp) ELSE <<>>)
    \o get_shift_byte_in_tp(s0, 3)
    \o Pop(s0, 1) \o add(rd, gp, tp)

\* srl and sra
shift_right(rd, rs1, rs2, is_arith) ==
  Push(s0, 1) \o sw(rs1, Var(VAR_A), sp) \o ShiftRow(rs2, Srl8) \o ShiftRight(rd, is_arith)

\* srli and srai, with a short way for the top byte
shift_right_imm(rd, rs1, imm, is_arith) ==
  IF imm # 3 * ByteWidth
  THEN Push(s0, 1) \o sw(rs1, Var(VAR_A), sp) \o la(s0, Srl8 + imm * B * 4)
         \o ShiftRight(rd, is_arith)
  ELSE IF is_arith
  THEN sw(rs1, Var(VAR_A), sp) \o la(tp, Sra8 + imm * B * 4)
         \o lbu(rd, Var(VAR_A) + 3, sp) \o slli(rd, rd, 2) \o add(tp, tp, rd) \o lw(rd, 0, tp)
  ELSE Getbyte(rd, rs1, 3)

-----------------------------------------------------------------------------
(* Macros: loads *)

lb(rd, off, base) ==
  sw(zero, Var(VAR_A), sp) \o lbu(rd, off, base) \o sb(rd, Var(VAR_A) + 3, sp)
    \o lw(rd, Var(VAR_A), sp) \o shift_right_imm(rd, rd, 3 * ByteWidth, TRUE)

lhu(rd, off, base) ==
  sw(zero, Var(VAR_A), sp) \o lbu(tp, off + 1, base) \o sb(tp, Var(VAR_A) + 1, sp)
    \o lw(tp, Var(VAR_A), sp) \o lbu(rd, off, base) \o add(rd, rd, tp)

lh(rd, off, base) ==
  sw(zero, Var(VAR_A), sp) \o lbu(gp, off + 1, base) \o sb(gp, Var(VAR_A) + 3, sp)
    \o lw(gp, Var(VAR_A), sp) \o shift_right_imm(gp, gp, 2 * ByteWidth, TRUE)
    \o lbu(rd, off, base) \o add(rd, rd, gp)

-----------------------------------------------------------------------------
(* An instruction: its expansion, and what it means *)

\* <<name, rd, rs1, rs2 or immediate>>; loads and stores have the offset third
\* and the base fourth; branches go to Target.
Expansion(i) ==
  LET d == i[2]   a == i[3]   b == i[4] IN
  CASE i[1] = "sub"  -> sub(d, a, b)
    [] i[1] = "neg"  -> sub(d, zero, a)
    [] i[1] = "not"  -> Not(d, a)
    [] i[1] = "slt"  -> slt(d, a, b)
    [] i[1] = "slti" -> li(tp, b) \o slt(d, a, tp)
    [] i[1] = "sgtz" -> slt(d, zero, a)
    [] i[1] = "sltu" -> sltu(d, a, b)
    [] i[1] = "sltiu" -> li(tp, b) \o sltu(d, a, tp)
    [] i[1] = "snez" -> sltu(d, zero, a)
    [] i[1] = "seqz" -> seqz(d, a)
    [] i[1] = "sltz" -> msb(d, a)
    [] i[1] = "and"  -> logic(And8, d, a, b)
    [] i[1] = "or"   -> logic(Or8, d, a, b)
    [] i[1] = "xor"  -> logic(Xor8, d, a, b)
    [] i[1] = "andi" -> li(tp, b) \o logic(And8, d, a, tp)
    [] i[1] = "ori"  -> li(tp, b) \o logic(Or8, d, a, tp)
    [] i[1] = "xori" -> li(tp, b) \o logic(Xor8, d, a, tp)
    [] i[1] = "sll"  -> sll(d, a, b)
    [] i[1] = "slli" -> slli(d, a, b)
    [] i[1] = "srl"  -> shift_right(d, a, b, FALSE)
    [] i[1] = "srli" -> shift_right_imm(d, a, b, FALSE)
    [] i[1] = "sra"  -> shift_right(d, a, b, TRUE)
    [] i[1] = "srai" -> shift_right_imm(d, a, b, TRUE)
    [] i[1] = "lb"   -> lb(d, a, b)
    [] i[1] = "lh"   -> lh(d, a, b)
    [] i[1] = "lhu"  -> lhu(d, a, b)
    [] i[1] = "sh"   -> sh(d, a, b)
    [] i[1] = "beq"  -> beq(a, b, Target)
    [] i[1] = "bne"  -> bne(a, b, Target)
    [] i[1] = "blt"  -> blt(a, b, Target)
    [] i[1] = "bge"  -> bge(a, b, Target)
    [] i[1] = "bltu" -> bltu(a, b, Target)
    [] i[1] = "bgeu" -> bgeu(a, b, Target)
    [] i[1] = "jal"  -> jal(d, Target)
    [] i[1] = "tail" -> tail(Target)

\* The ISA's meaning, with NEMU's operators (NEMU's slti and sltiu differ from
\* the ISA; here they are slt and sltu on the sign-extended immediate).
RegMeaning(f7, f3, mc, d, x, y) == Set(mc, d, RegOp(f7, f3, x, y))

Branches(i, mc, f3) ==
  IF Taken(f3, mc.regs[i[3]], mc.regs[i[4]]) THEN [mc EXCEPT !.pc = Target] ELSE mc

Funct == [sub |-> <<32, 0>>, slt |-> <<0, 2>>, sltu |-> <<0, 3>>, and |-> <<0, 7>>,
          or |-> <<0, 6>>, xor |-> <<0, 4>>, sll |-> <<0, 1>>, srl |-> <<0, 5>>, sra |-> <<32, 5>>]

ImmFunct3 == [slti |-> <<0, 2>>, sltiu |-> <<0, 3>>, andi |-> <<0, 7>>, ori |-> <<0, 6>>,
              xori |-> <<0, 4>>, slli |-> <<0, 1>>, srli |-> <<0, 5>>, srai |-> <<32, 5>>]

BranchFunct == [beq |-> 0, bne |-> 1, blt |-> 4, bge |-> 5, bltu |-> 6, bgeu |-> 7]

Load(mc, d, addr, len, f3) ==
  LET loaded == Read(mc, d, addr, len) IN
  Set(loaded, d, IF f3 = 0 THEN ToWord(Sext(loaded.regs[d], B)) ELSE Extended(f3, loaded.regs[d]))

Meaning(i, mc) ==
  LET d == i[2]   a == i[3]   b == i[4] IN
  CASE i[1] \in DOMAIN Funct ->
         RegMeaning(Funct[i[1]][1], Funct[i[1]][2], mc, d, mc.regs[a], mc.regs[b])
    [] i[1] \in DOMAIN ImmFunct3 ->
         RegMeaning(ImmFunct3[i[1]][1], ImmFunct3[i[1]][2], mc, d, mc.regs[a], ToWord(b))
    [] i[1] \in DOMAIN BranchFunct -> Branches(i, mc, BranchFunct[i[1]])
    [] i[1] = "neg"  -> RegMeaning(32, 0, mc, d, 0, mc.regs[a])
    [] i[1] = "not"  -> RegMeaning(0, 4, mc, d, mc.regs[a], Modulus - 1)
    [] i[1] = "sgtz" -> RegMeaning(0, 2, mc, d, 0, mc.regs[a])
    [] i[1] = "sltz" -> RegMeaning(0, 2, mc, d, mc.regs[a], 0)
    [] i[1] = "snez" -> RegMeaning(0, 3, mc, d, 0, mc.regs[a])
    [] i[1] = "seqz" -> RegMeaning(0, 3, mc, d, mc.regs[a], 1)
    [] i[1] = "lb"   -> Load(mc, d, Add(mc.regs[b], a), 1, 0)
    [] i[1] = "lh"   -> Load(mc, d, Add(mc.regs[b], a), 2, 1)
    [] i[1] = "lhu"  -> Load(mc, d, Add(mc.regs[b], a), 2, 5)
    [] i[1] = "sh"   -> Store(mc, d, Add(mc.regs[b], a), 2)
    [] i[1] = "jal"  -> [Set(mc, d, After) EXCEPT !.pc = Target]
    [] i[1] = "tail" -> [mc EXCEPT !.pc = Target]

-----------------------------------------------------------------------------

Registers(r) == [r EXCEPT ![zero] = 0, ![sp] = StackTop]

\* The compiler's side: it uses neither tp nor gp, and what it loads is not in
\* the scratch memory.  Left out is seqz of s0, where the macro's last step, which
\* restores s0, undoes the result.
Named == Regs \ {gp, tp}
Dest  == Named \ {zero, sp}

WellFormed(i) ==
  LET n == i[1]   d == i[2]   a == i[3]   b == i[4] IN
  /\ Len(i) = 4
  /\ \/ n \in DOMAIN Funct /\ d \in Dest /\ a \in Named /\ b \in Named
     \/ n = "sub" /\ d = sp /\ a \in Named /\ b \in Named
     \/ n \in {"slti", "sltiu", "andi", "ori", "xori"} /\ d \in Dest /\ a \in Named
          /\ b \in -2048 .. 2047
     \/ n \in {"slli", "srli", "srai"} /\ d \in Dest /\ a \in Named /\ b \in 0 .. 31
     \/ n \in {"neg", "not", "sgtz", "sltz", "snez"} /\ d \in Dest /\ a \in Named
     \/ n = "seqz" /\ d \in Dest \ {s0} /\ a \in Named
     \/ n \in {"lb", "lh", "lhu"} /\ d \in Dest /\ a \in -2048 .. 2047 /\ b \in Named
     \/ n = "sh" /\ d \in Named /\ a \in -2048 .. 2047 /\ b \in Named
     \/ n \in DOMAIN BranchFunct /\ a \in Named /\ b \in Named
     \/ n = "jal" /\ d \in Dest \cup {zero}
     \/ n = "tail"

Loads(i, r) ==
  CASE i[1] = "lb" -> {Add(r[i[4]], i[3])}
    [] i[1] \in {"lh", "lhu"} -> {Add(r[i[4]], i[3]), Add(r[i[4]], i[3] + 1)}
    [] OTHER -> {}

ASSUME PowerUpsAssumption == PowerUps \subseteq [Regs -> Word]

ASSUME GarbagesAssumption == Garbages \subseteq 0 .. B - 1

ASSUME InstsAssumption ==
  \A i \in Insts :
    WellFormed(i) /\ \A r \in PowerUps : Loads(i, Registers(r)) \cap Scratch = {}

\* Nothing is known of tp, gp and the scratch memory.
Init ==
  /\ \E r \in PowerUps, g \in Garbages, data \in Garbages :
       machine = [regs |-> Registers(r),
                  ram  |-> [a \in Ram |-> IF a \in Owned THEN data ELSE g],
                  pc |-> After, jumped |-> FALSE, stray |-> FALSE]
  /\ ref = machine
  /\ ran = <<>>

\* One instruction of a compiled program.
Instruction(i) ==
  /\ ran = <<>>
  /\ ran' = i
  /\ machine' = Run(machine, Expansion(i))
  /\ ref' = Meaning(i, ref)

Next == \E i \in Insts : Instruction(i)

Spec == Init /\ [][Next]_vars

-----------------------------------------------------------------------------
(* Properties *)

\* Whatever registers are named twice, an expansion leaves every register but
\* tp and gp, the program's memory and the way the program goes on as the
\* instruction does.
Implements ==
  /\ \A r \in Regs \ {tp, gp} : machine.regs[r] = ref.regs[r]
  /\ \A a \in Owned : machine.ram[a] = ref.ram[a]
  /\ machine.pc = ref.pc

\* No expansion reads or writes outside its tables, its scratch memory and the
\* memory the instruction names.
NoStray == ref.stray \/ ~ machine.stray

=============================================================================
