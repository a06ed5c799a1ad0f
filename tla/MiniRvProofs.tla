---------------------------- MODULE MiniRvProofs ----------------------------
(***************************************************************************)
(* The minirv macro layer (inst-replace.h and its tables) does what RV32I  *)
(* says, for every program instruction, every register content and every   *)
(* byte width that the assumptions of MiniRv allow.                        *)
(*                                                                         *)
(* The invariant is Agreement (section 26): before an instruction has run  *)
(* both machines are in one starting state, and after it the one that      *)
(* ran the macro's expansion agrees with the one that ran the instruction. *)
(* It follows from what each macro does: MiniRvMacros has the first        *)
(* sixteen sections, and here are the shifts by tables (17 to 19), the     *)
(* program's own loads and stores (20, 21), and what each instruction      *)
(* expands to (22 to 25).                                                  *)
(***************************************************************************)
EXTENDS MiniRvMacros, SequenceTheorems, TLAPS

USE DEF zero, sp, gp, tp, s0, s1, StackTop

-----------------------------------------------------------------------------
(* 17. The tables of the shifts, and sll *)

\* The tables of the shifts: the row of a shift amount and the entry of a byte.
Shift(lut) == lut = Sll8 \/ lut = Srl8 \/ lut = Sra8
Shamt(k)   == k \in Nat /\ k < 32

RowAt(lut, k)      == lut + 4 * (B * k)
EntryAt(lut, b, k) == lut + 4 * (b + B * k)

ShiftWord(lut, b, k) ==
  Wd(Ro(EntryAt(lut, b, k)), Ro(EntryAt(lut, b, k) + 1), Ro(EntryAt(lut, b, k) + 2), Ro(EntryAt(lut, b, k) + 3))

EntryIn(a) == a \in Tables /\ a + 1 \in Tables /\ a + 2 \in Tables /\ a + 3 \in Tables

\* The place of a byte and a shift amount in a table of a shift.
LEMMA ShiftPlace ==
  ASSUME NEW lut, NEW b, NEW k, Shift(lut), b \in Byte, Shamt(k)
  PROVE  /\ Shl(b, 2) = 4 * b /\ EntryIn(EntryAt(lut, b, k))
         /\ Add(RowAt(lut, k), 4 * b) = EntryAt(lut, b, k)
         /\ RowAt(lut, k) \in Nat
<1> DEFINE p == B * k
           e == 4 * (b + p)
           w == b * 4
<1>1. lut \in Nat /\ k \in Nat /\ k < 32 /\ b \in Nat /\ b < B /\ B \in Nat /\ B <= 256
  BY TablePlaces, ByteNat, WidthBounds DEF Shift, Shamt
<1>2. p \in Nat
  BY <1>1
<1>3. Shl(b, 2) = 4 * b
  <2>1. Pow2[2] = 4 /\ w \in Nat /\ w < 1024 /\ w = 4 * b
    BY <1>1, Pow2Def
  <2>2. Shl(b, 2) = w % Modulus
    BY <1>1, <2>1, ShlMod
  <2> HIDE DEF w
  <2>3. w \in Word
    BY <2>1, WidthBounds DEF Word
  <2> QED BY <2>1, <2>2, <2>3, SmallWord
<1>4. /\ Sll8 + (e + 0) \in Tables /\ Srl8 + (e + 0) \in Tables /\ Sra8 + (e + 0) \in Tables
      /\ Sll8 + (e + 1) \in Tables /\ Srl8 + (e + 1) \in Tables /\ Sra8 + (e + 1) \in Tables
      /\ Sll8 + (e + 2) \in Tables /\ Srl8 + (e + 2) \in Tables /\ Sra8 + (e + 2) \in Tables
      /\ Sll8 + (e + 3) \in Tables /\ Srl8 + (e + 3) \in Tables /\ Sra8 + (e + 3) \in Tables
  <2>1. ASSUME NEW n, n \in Nat, n < 4
        PROVE  Sll8 + (e + n) \in Tables /\ Srl8 + (e + n) \in Tables /\ Sra8 + (e + n) \in Tables
    BY <1>1, <2>1, ShiftEntry
  <2>2. 0 \in Nat /\ 1 \in Nat /\ 2 \in Nat /\ 3 \in Nat /\ 0 < 4 /\ 1 < 4 /\ 2 < 4 /\ 3 < 4
    OBVIOUS
  <2> HIDE DEF e
  <2> QED BY <2>1, <2>2
<1> HIDE DEF p
<1>5. e \in Nat /\ lut + e \in Nat /\ 4 * p \in Nat /\ 4 * b \in Nat /\ (lut + 4 * p) + 4 * b = lut + e
  BY <1>1, <1>2
<1>6. lut + e = EntryAt(lut, b, k) /\ lut + 4 * p = RowAt(lut, k)
  BY DEF EntryAt, RowAt, p
<1> HIDE DEF e
<1>7. lut + e \in Tables /\ lut + (e + 1) \in Tables /\ lut + (e + 2) \in Tables /\ lut + (e + 3) \in Tables
  <2>1. e + 0 = e
    BY <1>5
  <2> QED BY <1>4, <2>1 DEF Shift
<1>8. (lut + e) + 1 = lut + (e + 1) /\ (lut + e) + 2 = lut + (e + 2) /\ (lut + e) + 3 = lut + (e + 3)
  BY <1>1, <1>5
<1>9. EntryIn(lut + e)
  BY <1>7, <1>8 DEF EntryIn
<1>10. lut + 4 * p \in Nat /\ (lut + 4 * p) + 4 * b \in Tables
  BY <1>1, <1>5, <1>7
<1>11. Add(lut + 4 * p, 4 * b) = (lut + 4 * p) + 4 * b
  BY <1>5, <1>10, EntryAdd
<1> QED BY <1>3, <1>5, <1>6, <1>9, <1>10, <1>11

\* The word in a table is the shifted byte.
LEMMA ShiftMeans ==
  ASSUME NEW b, NEW k, b \in Byte, Shamt(k)
  PROVE  /\ ShiftWord(Sll8, b, k) = Shl(b, k) /\ Shl(b, k) \in Word
         /\ ShiftWord(Srl8, b, k) = SrlRow(b, k) /\ SrlRow(b, k) \in Word
         /\ ShiftWord(Sra8, b, k) = SraRow(b, k) /\ SraRow(b, k) \in Word
<1> DEFINE e == 4 * (b + B * k)
<1>1. k \in Nat /\ k < 32 /\ b \in Nat /\ B \in Nat
  BY ByteNat, WidthBounds DEF Shamt
<1>2. e \in Nat /\ e + 0 = e
  BY <1>1
<1>3. /\ Ro(Sll8 + (e + 0)) = ByteOf(Shl(b, k), 0) /\ Ro(Sll8 + (e + 1)) = ByteOf(Shl(b, k), 1)
      /\ Ro(Sll8 + (e + 2)) = ByteOf(Shl(b, k), 2) /\ Ro(Sll8 + (e + 3)) = ByteOf(Shl(b, k), 3)
  BY <1>1, ShiftEntry
<1>4. /\ Ro(Srl8 + (e + 0)) = ByteOf(SrlRow(b, k), 0) /\ Ro(Srl8 + (e + 1)) = ByteOf(SrlRow(b, k), 1)
      /\ Ro(Srl8 + (e + 2)) = ByteOf(SrlRow(b, k), 2) /\ Ro(Srl8 + (e + 3)) = ByteOf(SrlRow(b, k), 3)
  BY <1>1, ShiftEntry
<1>5. /\ Ro(Sra8 + (e + 0)) = ByteOf(SraRow(b, k), 0) /\ Ro(Sra8 + (e + 1)) = ByteOf(SraRow(b, k), 1)
      /\ Ro(Sra8 + (e + 2)) = ByteOf(SraRow(b, k), 2) /\ Ro(Sra8 + (e + 3)) = ByteOf(SraRow(b, k), 3)
  BY <1>1, ShiftEntry
<1>6. Shl(b, k) \in Word /\ SrlRow(b, k) \in Word /\ SraRow(b, k) \in Word
  BY <1>1, ShiftWords
<1>7. ASSUME NEW lut, lut \in Nat
      PROVE  /\ EntryAt(lut, b, k) = lut + (e + 0) /\ EntryAt(lut, b, k) + 1 = lut + (e + 1)
             /\ EntryAt(lut, b, k) + 2 = lut + (e + 2) /\ EntryAt(lut, b, k) + 3 = lut + (e + 3)
  <2>1. EntryAt(lut, b, k) = lut + e
    BY DEF EntryAt
  <2> HIDE DEF e
  <2> QED BY <1>2, <1>7, <2>1
<1> HIDE DEF e
<1>8. Sll8 \in Nat /\ Srl8 \in Nat /\ Sra8 \in Nat
  BY TablePlaces
<1>9. ShiftWord(Sll8, b, k) = Shl(b, k)
  BY <1>3, <1>6, <1>7, <1>8, WordIsBytes DEF ShiftWord
<1>10. ShiftWord(Srl8, b, k) = SrlRow(b, k)
  BY <1>4, <1>6, <1>7, <1>8, WordIsBytes DEF ShiftWord
<1>11. ShiftWord(Sra8, b, k) = SraRow(b, k)
  BY <1>5, <1>6, <1>7, <1>8, WordIsBytes DEF ShiftWord
<1> QED BY <1>6, <1>9, <1>10, <1>11

\* The low five bits of a word are those of its low byte.
LEMMA ShamtIs ==
  ASSUME NEW x, x \in Word
  PROVE  And(31, ByteOf(x, 0)) = x % 32 /\ Shamt(x % 32) /\ x % 32 \in Byte
<1> DEFINE b == ByteOf(x, 0)
           c == ByteOf(x, 1)
           d == ByteOf(x, 2)
           e == ByteOf(x, 3)
           q == Pow2[ByteWidth - 5]
           high == c + B * d + (B * B) * e
           u == b \div 32
           r == b % 32
<1>1. x \in Int /\ x = Wd(b, c, d, e)
  BY WordIsBytes, WordNat DEF Word
<1>2. b \in Byte /\ c \in Byte /\ d \in Byte /\ e \in Byte
  BY <1>1, ByteRange
<1>3. b \in Nat /\ c \in Nat /\ d \in Nat /\ e \in Nat /\ B \in Nat /\ B >= 32
  BY <1>2, ByteNat, WidthBounds
<1>4. And(31, b) = r
  BY <1>2, And31
<1>5. q \in Nat /\ B = 32 * q
  <2>1. ByteWidth - 5 \in Nat /\ (ByteWidth - 5) + 5 = ByteWidth
    BY WidthAssumption
  <2>2. Pow2[5] = 32 /\ 5 \in Nat
    BY Pow2Def
  <2> DEFINE n == ByteWidth - 5
  <2>3. n \in Nat /\ Pow2[n + 5] = Pow2[ByteWidth]
    BY <2>1
  <2>4. Pow2[n + 5] = Pow2[n] * Pow2[5] /\ Pow2[n] \in Nat
    <3> HIDE DEF n
    <3> QED BY <2>2, <2>3, Pow2Sum, Pow2Positive
  <2>5. B = q * 32 /\ q \in Nat
    BY <2>2, <2>3, <2>4 DEF B, q, n
  <2> HIDE DEF q
  <2> QED BY <2>5
<1> HIDE DEF b, c, d, e, q
<1>6. high \in Int /\ x = b + B * high
  BY <1>1, <1>3 DEF Wd
<1>7. u \in Int /\ r \in 0 .. 31 /\ b = 32 * u + r
  BY <1>3
<1> HIDE DEF high, u, r
<1>8. u + q * high \in Int /\ x = 32 * (u + q * high) + r
  BY <1>3, <1>5, <1>6, <1>7
<1> DEFINE v == u + q * high
<1> HIDE DEF v
<1>9. v \in Int /\ x = 32 * v + r
  BY <1>8 DEF v
<1>10. x % 32 = r
  BY <1>1, <1>7, <1>9
<1>11. r \in Nat /\ r < 32 /\ r \in Byte
  BY <1>3, <1>7, ByteNat
<1> QED BY <1>4, <1>10, <1>11 DEF Shamt, b

\* The shift amount.
LEMMA ShamtDoes ==
  ASSUME NEW m, NEW rd, NEW rs1,
         Ready(m),
         rd \in Regs \ {zero, sp, tp},
         rs1 \in Regs
  PROVE  /\ Does(m, getshamt(rd, rs1), Run(m, getshamt(rd, rs1)), Two(rd, tp), Slot(5))
         /\ Reg(Run(m, getshamt(rd, rs1)), rd) = Reg(m, rs1) % 32
<1> DEFINE x == Reg(m, rs1)
           b == ByteOf(x, 0)
           k == x % 32
           t == And8 + 31 * B
           a == And8 + (b + B * 31)
           R == Two(rd, tp)
           S == Slot(5)
           c0 == <<>>
           i1 == sb(rs1, -20, sp)
           c1 == c0 \o i1
           m1 == Run(m, c1)
           i2 == lbu(rd, -20, sp)
           c2 == c1 \o i2
           m2 == Run(m, c2)
           i3 == la(tp, t)
           c3 == c2 \o i3
           m3 == Run(m, c3)
           i4 == add(rd, rd, tp)
           c4 == c3 \o i4
           m4 == Run(m, c4)
           i5 == lbu(rd, 0, rd)
           c5 == c4 \o i5
           m5 == Run(m, c5)
<1>s. S \subseteq Ram
  <2>1. Slot(5) \subseteq Ram
    BY SlotRam
  <2> QED BY <2>1
<1>a. 236 \in S
  <2>1. 236 \in Slot(5)
    BY SlotRam
  <2> QED BY <2>1 DEF Block
<1>p. Spot(-20, 236)
  BY Spots
<1>r. R \subseteq Regs \ {zero}
  BY RegNames DEF Two
<1>b. Ready(m) /\ sp \notin R /\ rd \in R /\ tp \in R /\ rd \in Regs /\ tp \in Regs /\ sp \in Regs
      /\ rs1 \in Regs /\ rd # tp
  BY RegNames DEF Two
<1>x. x \in Word /\ x \in Int
  BY RegWord DEF Ready
<1>y. b \in Byte /\ 31 \in Byte
  BY <1>x, ByteRange, ByteNat, WidthBounds
<1>t. a \in Tables /\ Ro(a) = k
  <2> HIDE DEF b
  <2>1. a \in Tables /\ Ro(a) = And(31, b)
    BY <1>y, LogicEntry
  <2>2. And(31, b) = k
    BY <1>x, ShamtIs DEF b
  <2> QED BY <2>1, <2>2
<1>u. Add(b, t) = a /\ Linked(t)
  <2>1. b \in Nat /\ b < B /\ B \in Nat /\ B >= 32 /\ And8 \in Nat
    BY <1>y, ByteNat, WidthBounds, TablePlaces
  <2> HIDE DEF b
  <2>2. t \in Nat /\ t + b = a /\ t <= a
    BY <2>1
  <2> HIDE DEF t, a
  <2>3. Add(b, t) = t + b
    BY <1>t, <2>1, <2>2, EntryAdd
  <2>4. a < RodataEnd
    BY <1>t, Places
  <2>5. RodataEnd \in Nat /\ Modulus \in Nat /\ a \in Nat
    BY TablePlaces, WidthBounds, <2>1, <2>2
  <2>6. t + 4096 <= Modulus
    BY <2>2, <2>4, <2>5, TablesFit
  <2> QED BY <2>2, <2>3, <2>6 DEF Linked
<1>c. getshamt(rd, rs1) = i1 \o i2 \o i3 \o i4 \o i5
  BY DEF getshamt, Var, VAR_B, t
<1> HIDE DEF R, S, c0, c1, c2, c3, c4, c5, m1, m2, m3, m4, m5, x, b, k, t, a
<1>d. i1 \in Code /\ c0 \o i1 = i1
  BY <1>b, RegNames, Coded, ConcatEmptySeq DEF Code, mv, li, c0
<1>0. Does(m, c0, m, R, S) /\ Reg(m, rs1) = x
  BY <1>s, <1>r, <1>b, DoesNothing DEF Ready, c0, x
<1>1. Does(m, c1, m1, R, S) /\ Mem(m1, 236) = b
  <2>1. Does(m, c1, m1, R, S) /\ Puts(m, m1, 236, ByteOf(Reg(m, rs1), 0))
    BY <1>0, <1>b, <1>a, <1>p, SbStack DEF c1, m1
  <2>2. ByteOf(Reg(m, rs1), 0) = b
    BY <1>0 DEF b
  <2> QED BY <2>1, <2>2, <1>0, <1>b DEF Puts, Holds
<1>2. Does(m, c2, m2, R, S) /\ Reg(m2, rd) = b
  <2>1. Does(m, c2, m2, R, S) /\ Sets(m1, m2, rd, Mem(m1, 236))
    BY <1>1, <1>b, <1>a, <1>p, LbuStack DEF c2, m2
  <2> QED BY <2>1, <1>1, <1>b DEF Sets, Holds
<1>3. Does(m, c3, m3, R, S) /\ Reg(m3, rd) = b /\ Reg(m3, tp) = t
  <2>1. Ready(m2) /\ Live(m2)
    BY <1>2, <1>b, StaysReady DEF Ready
  <2>2. Does(m2, i3, Run(m2, i3), One(tp), {}) /\ Reg(Run(m2, i3), tp) = t
    BY <2>1, <1>2, <1>b, <1>u, LaDoes
  <2> DEFINE R2 == One(tp)
             S2 == {}
  <2>3. R2 \subseteq R /\ S2 \subseteq S
    BY <1>b DEF One
  <2> HIDE DEF R2, S2
  <2>4. Does(m, c3, m3, R, S) /\ m3 = Run(m2, i3) /\ Keeps(m2, m3, R2, S2)
    BY <1>2, <2>2, <2>3, DoesNext DEF c3, m3, R2, S2
  <2> QED BY <2>2, <2>4, <1>2, <1>b DEF Keeps, Holds, R2, S2, One
<1>4. Does(m, c4, m4, R, S) /\ Reg(m4, rd) = a
  <2>1. Does(m, c4, m4, R, S) /\ Sets(m3, m4, rd, Add(Reg(m3, rd), Reg(m3, tp)))
    BY <1>3, <1>b, AddRuns DEF c4, m4
  <2>2. Add(Reg(m3, rd), Reg(m3, tp)) = a
    BY <1>3, <1>u
  <2> QED BY <2>1, <2>2, <1>3, <1>b DEF Sets, Holds
<1>5. Does(m, c5, m5, R, S) /\ Reg(m5, rd) = k
  <2>1. Does(m, c5, m5, R, S) /\ Sets(m4, m5, rd, Ro(a))
    BY <1>4, <1>b, TableLbu, <1>t DEF c5, m5
  <2>2. Ro(a) = k
    BY <1>4, <1>t
  <2> QED BY <2>1, <2>2, <1>4, <1>b DEF Sets, Holds
<1>e. c5 = getshamt(rd, rs1)
  BY <1>c, <1>d DEF c1, c2, c3, c4, c5
<1> QED BY <1>5, <1>e DEF m5, R, S, x, k

\* The row of a shift amount.
LEMMA ShiftRowDoes ==
  ASSUME NEW m, NEW rs2, NEW lut,
         Ready(m),
         rs2 \in Regs,
         Shift(lut)
  PROVE  /\ Does(m, ShiftRow(rs2, lut), Run(m, ShiftRow(rs2, lut)), Two(s0, tp), Slot(5))
         /\ Reg(Run(m, ShiftRow(rs2, lut)), s0) = RowAt(lut, Reg(m, rs2) % 32)
<1> DEFINE x == Reg(m, rs2)
           k == x % 32
           w == B * k
           w4 == 4 * w
           e == RowAt(lut, k)
           R == Two(s0, tp)
           S == Slot(5)
           c0 == <<>>
           i1 == getshamt(s0, rs2)
           c1 == c0 \o i1
           m1 == Run(m, c1)
           i2 == sw(zero, -20, sp)
           c2 == c1 \o i2
           m2 == Run(m, c2)
           i3 == sb(s0, -19, sp)
           c3 == c2 \o i3
           m3 == Run(m, c3)
           i4 == lw(s0, -20, sp)
           c4 == c3 \o i4
           m4 == Run(m, c4)
           i5 == slli(s0, s0, 2)
           c5 == c4 \o i5
           m5 == Run(m, c5)
           i6 == la(tp, lut)
           c6 == c5 \o i6
           m6 == Run(m, c6)
           i7 == add(s0, s0, tp)
           c7 == c6 \o i7
           m7 == Run(m, c7)
<1>s. S \subseteq Ram
  <2>1. Slot(5) \subseteq Ram
    BY SlotRam
  <2> QED BY <2>1
<1>a. Block(236, S) /\ 237 \in S
  <2>1. 236 \in Slot(5) /\ 237 \in Slot(5) /\ 238 \in Slot(5) /\ 239 \in Slot(5)
    BY SlotRam
  <2> QED BY <2>1 DEF Block
<1>p. Spot(-20, 236) /\ Spot(-19, 237) /\ WordSpot(-20, 236)
  BY Spots
<1>r. R \subseteq Regs \ {zero}
  BY RegNames DEF Two
<1>b. Ready(m) /\ sp \notin R /\ s0 \in R /\ tp \in R /\ s0 \in Regs /\ tp \in Regs /\ sp \in Regs
      /\ rs2 \in Regs /\ zero \in Regs
  BY RegNames DEF Two
<1>x. x \in Word
  BY RegWord DEF Ready
<1>k. k \in Byte /\ Shamt(k) /\ Linked(lut)
  BY <1>x, ShamtIs, TablesLinked DEF Shift
<1>w. Wd(0, k, 0, 0) = w /\ Shl(w, 2) = w4 /\ Add(w4, lut) = e
  <2> DEFINE u == w * 4
  <2> HIDE DEF k
  <2>1. k \in Nat /\ k < 32 /\ B \in Nat /\ B <= 256 /\ Modulus \in Nat /\ Modulus >= 1048576
    BY <1>k, WidthBounds DEF Shamt
  <2>2. Wd(0, k, 0, 0) = w
    BY <2>1 DEF Wd
  <2>3. w \in Nat /\ w <= 256 * 32
    BY <2>1
  <2> HIDE DEF w
  <2>4. u \in Nat /\ u < Modulus /\ u = w4
    BY <2>1, <2>3
  <2>5. Pow2[2] = 4
    BY Pow2Def
  <2>6. Shl(w, 2) = u % Modulus
    BY <2>3, <2>5, ShlMod
  <2> HIDE DEF u, w4
  <2>7. u \in Word
    BY <2>1, <2>4 DEF Word
  <2>8. Shl(w, 2) = w4
    BY <2>4, <2>6, <2>7, SmallWord
  <2>9. 0 \in Byte
    BY ZeroBytes
  <2>10. RowAt(lut, k) + 0 \in Tables /\ RowAt(lut, k) = lut + w4 /\ lut \in Nat
    <3>1. EntryAt(lut, 0, k) \in Tables
      BY <1>k, <2>9, ShiftPlace DEF EntryIn
    <3>2. EntryAt(lut, 0, k) = lut + 4 * w /\ RowAt(lut, k) = lut + 4 * w
      BY <2>1, <2>3 DEF EntryAt, RowAt, w
    <3>3. lut \in Nat
      BY <1>k DEF Linked
    <3> QED BY <2>3, <3>1, <3>2, <3>3 DEF w4
  <2>11. w4 \in Nat /\ lut + w4 \in Tables
    BY <2>4, <2>10
  <2>12. Add(w4, lut) = lut + w4
    BY <2>10, <2>11, EntryAdd
  <2> QED BY <2>2, <2>8, <2>10, <2>12
<1>c. ShiftRow(rs2, lut) = i1 \o i2 \o i3 \o i4 \o i5 \o i6 \o i7
  BY DEF ShiftRow, Var, VAR_B
<1> HIDE DEF R, S, c0, c1, c2, c3, c4, c5, c6, c7, m1, m2, m3, m4, m5, m6, m7, x, k, w, w4, e
<1>0. Does(m, c0, m, R, S) /\ Reg(m, rs2) = x
  BY <1>s, <1>r, <1>b, DoesNothing DEF Ready, c0, x
<1>1. Does(m, c1, m1, R, S) /\ Reg(m1, s0) = k
  <2>1. Ready(m) /\ Live(m)
    BY <1>b DEF Ready
  <2>2. Does(m, i1, Run(m, i1), Two(s0, tp), Slot(5)) /\ Reg(Run(m, i1), s0) = Reg(m, rs2) % 32
    BY <2>1, <1>0, <1>b, ShamtDoes
  <2> DEFINE R2 == Two(s0, tp)
             S2 == Slot(5)
  <2>3. R2 \subseteq R /\ S2 \subseteq S
    BY <1>b DEF Two, S
  <2> HIDE DEF R2, S2
  <2>4. Does(m, c1, m1, R, S) /\ m1 = Run(m, i1) /\ Keeps(m, m1, R2, S2)
    BY <1>0, <2>2, <2>3, DoesNext DEF c1, m1, R2, S2
  <2>5. Reg(m, rs2) % 32 = k
    BY <1>0 DEF k
  <2> QED BY <2>2, <2>4, <2>5, <1>0, <1>b DEF Keeps, Holds, R2, S2, Two, Slot
<1>d. i1 \in Code /\ c0 \o i1 = i1
  <2>1. Ready(m) /\ Live(m)
    BY <1>b DEF Ready
  <2>2. Does(m, i1, Run(m, i1), Two(s0, tp), Slot(5))
    BY <2>1, <1>b, ShamtDoes
  <2>3. i1 \in Code
    BY <2>2 DEF Does
  <2> QED BY <2>3, ConcatEmptySeq DEF Code, c0
<1>2. Does(m, c2, m2, R, S) /\ Reg(m2, s0) = k /\ Mem(m2, 236) = ByteOf(0, 0) /\ Mem(m2, 238) = ByteOf(0, 2)
      /\ Mem(m2, 239) = ByteOf(0, 3)
  <2>1. Does(m, c2, m2, R, S) /\ Saves(m1, m2, 236, Reg(m1, zero))
    BY <1>1, <1>b, <1>a, <1>p, SwStack DEF c2, m2
  <2>2. Reg(m1, zero) = 0
    BY <1>1, ZeroStays
  <2> QED BY <2>1, <2>2, <1>1, <1>b DEF Saves, Holds
<1>3. Does(m, c3, m3, R, S) /\ Mem(m3, 236) = ByteOf(0, 0) /\ Mem(m3, 237) = k /\ Mem(m3, 238) = ByteOf(0, 2)
      /\ Mem(m3, 239) = ByteOf(0, 3)
  <2>1. Does(m, c3, m3, R, S) /\ Puts(m2, m3, 237, ByteOf(Reg(m2, s0), 0))
    <3>1. Does(m, c2, m2, R, S) /\ s0 \in Regs /\ Spot(-19, 237) /\ 237 \in S
      BY <1>2, <1>b, <1>a, <1>p
    <3>2. Ready(m) /\ sp \notin R
      BY <1>b
    <3> QED BY <3>1, <3>2, SbStack DEF c3, m3
  <2>2. ByteOf(Reg(m2, s0), 0) = k
    BY <1>2, <1>k, ByteWord
  <2> QED BY <2>1, <2>2, <1>2, <1>b DEF Puts, Holds
<1>4. Does(m, c4, m4, R, S) /\ Reg(m4, s0) = w
  <2>1. Does(m, c4, m4, R, S) /\ Sets(m3, m4, s0, Loaded(m3, 236))
    <3>1. Does(m, c3, m3, R, S) /\ Ready(m) /\ sp \notin R /\ s0 \in R /\ WordSpot(-20, 236)
      BY <1>3, <1>b, <1>a, <1>p
    <3> QED BY <3>1, LwStack DEF c4, m4
  <2>2. Loaded(m3, 236) = w
    BY <1>3, <1>w, ZeroBytes DEF Holds, Loaded
  <2> QED BY <2>1, <2>2, <1>3, <1>b DEF Sets, Holds
<1>5. Does(m, c5, m5, R, S) /\ Reg(m5, s0) = w4
  <2>1. Ready(m4) /\ Live(m4)
    BY <1>4, <1>b, StaysReady DEF Ready
  <2>2. Does(m4, i5, Run(m4, i5), One(s0), {}) /\ Reg(Run(m4, i5), s0) = Shl(Reg(m4, s0), 2)
    BY <2>1, <1>4, <1>b, Shorts, SlliShort
  <2> DEFINE R2 == One(s0)
             S2 == {}
  <2>3. R2 \subseteq R /\ S2 \subseteq S
    BY <1>b DEF One
  <2> HIDE DEF R2, S2
  <2>4. Does(m, c5, m5, R, S) /\ m5 = Run(m4, i5) /\ Keeps(m4, m5, R2, S2)
    BY <1>4, <2>2, <2>3, DoesNext DEF c5, m5, R2, S2
  <2>5. Shl(Reg(m4, s0), 2) = w4
    BY <1>4, <1>w
  <2> QED BY <2>2, <2>4, <2>5, <1>4, <1>b DEF Keeps, Holds, R2, S2, One
<1>6. Does(m, c6, m6, R, S) /\ Reg(m6, s0) = w4 /\ Reg(m6, tp) = lut
  <2>1. Ready(m5) /\ Live(m5)
    BY <1>5, <1>b, StaysReady DEF Ready
  <2>2. Does(m5, i6, Run(m5, i6), One(tp), {}) /\ Reg(Run(m5, i6), tp) = lut
    BY <2>1, <1>5, <1>b, <1>k, LaDoes
  <2> DEFINE R2 == One(tp)
             S2 == {}
  <2>3. R2 \subseteq R /\ S2 \subseteq S
    BY <1>b DEF One
  <2> HIDE DEF R2, S2
  <2>4. Does(m, c6, m6, R, S) /\ m6 = Run(m5, i6) /\ Keeps(m5, m6, R2, S2)
    BY <1>5, <2>2, <2>3, DoesNext DEF c6, m6, R2, S2
  <2> QED BY <2>2, <2>4, <1>5, <1>b DEF Keeps, Holds, R2, S2, One
<1>7. Does(m, c7, m7, R, S) /\ Reg(m7, s0) = e
  <2>1. Does(m, c7, m7, R, S) /\ Sets(m6, m7, s0, Add(Reg(m6, s0), Reg(m6, tp)))
    BY <1>6, <1>b, AddRuns DEF c7, m7
  <2>2. Add(Reg(m6, s0), Reg(m6, tp)) = e
    BY <1>6, <1>w
  <2> QED BY <2>1, <2>2, <1>6, <1>b DEF Sets, Holds
<1>e. c7 = ShiftRow(rs2, lut)
  BY <1>c, <1>d DEF c1, c2, c3, c4, c5, c6, c7
<1> QED BY <1>7, <1>e DEF m7, R, S, x, k, e

\* The entry of a byte.
LEMMA GetShiftDoes ==
  ASSUME NEW m, NEW base, NEW n, NEW lut, NEW k, NEW q,
         Ready(m),
         base \in Regs \ {tp},
         Reg(m, base) = RowAt(lut, k),
         Shift(lut),
         Shamt(k),
         At(4, n, q)
  PROVE  /\ Does(m, get_shift_byte_in_tp(base, n), Run(m, get_shift_byte_in_tp(base, n)), One(tp), {})
         /\ Reg(Run(m, get_shift_byte_in_tp(base, n)), tp) = ShiftWord(lut, Mem(m, q), k)
<1> DEFINE y == Mem(m, q)
           y4 == 4 * y
           t == RowAt(lut, k)
           a == EntryAt(lut, y, k)
           off == Var(4) + n
           v == ShiftWord(lut, y, k)
           R == One(tp)
           S == {}
           c0 == <<>>
           i1 == lbu(tp, off, sp)
           c1 == c0 \o i1
           m1 == Run(m, c1)
           i2 == slli(tp, tp, 2)
           c2 == c1 \o i2
           m2 == Run(m, c2)
           i3 == add(tp, base, tp)
           c3 == c2 \o i3
           m3 == Run(m, c3)
           i4 == lw(tp, 0, tp)
           c4 == c3 \o i4
           m4 == Run(m, c4)
<1>s. S \subseteq Ram
  OBVIOUS
<1>r. R \subseteq Regs \ {zero}
  BY RegNames DEF One
<1>b. Ready(m) /\ sp \notin R /\ tp \in R /\ tp \in Regs /\ sp \in Regs /\ base \in Regs /\ Spot(off, q)
      /\ base # tp
  BY RegNames, AtSpot DEF One
<1>o. off \in Int
  BY <1>b DEF Spot
<1>y. y \in Byte
  BY MemByte DEF Ready
<1>t. /\ Shl(y, 2) = y4 /\ Add(t, y4) = a /\ a \in Tables /\ a + 1 \in Tables /\ a + 2 \in Tables /\ a + 3 \in Tables
      /\ Wd(Ro(a), Ro(a + 1), Ro(a + 2), Ro(a + 3)) = v
  <2> HIDE DEF y
  <2> QED BY <1>y, ShiftPlace DEF EntryIn, ShiftWord
<1>c. get_shift_byte_in_tp(base, n) = i1 \o i2 \o i3 \o i4
  BY DEF get_shift_byte_in_tp, VAR_A
<1> HIDE DEF R, S, c0, c1, c2, c3, c4, m1, m2, m3, m4, y, y4, t, a, off, v
<1>d. i1 \in Code /\ c0 \o i1 = i1
  BY <1>o, <1>b, RegNames, Coded, ConcatEmptySeq DEF Code, mv, li, c0
<1>0. Does(m, c0, m, R, S) /\ Reg(m, base) = t /\ Mem(m, q) = y
  BY <1>s, <1>r, <1>b, DoesNothing DEF Ready, c0, y, t
<1>1. Does(m, c1, m1, R, S) /\ Reg(m1, base) = t /\ Reg(m1, tp) = y
  <2>1. Does(m, c1, m1, R, S) /\ Sets(m, m1, tp, Mem(m, q))
    BY <1>0, <1>b, LbuStack DEF c1, m1
  <2> QED BY <2>1, <1>0, <1>b DEF Sets, Holds
<1>2. Does(m, c2, m2, R, S) /\ Reg(m2, base) = t /\ Reg(m2, tp) = y4
  <2>1. Ready(m1) /\ Live(m1)
    BY <1>1, <1>b, StaysReady DEF Ready
  <2>2. Does(m1, i2, Run(m1, i2), One(tp), {}) /\ Reg(Run(m1, i2), tp) = Shl(Reg(m1, tp), 2)
    BY <2>1, <1>1, <1>b, Shorts, SlliShort
  <2> DEFINE R2 == One(tp)
             S2 == {}
  <2>3. R2 \subseteq R /\ S2 \subseteq S
    BY <1>b DEF One
  <2> HIDE DEF R2, S2
  <2>4. Does(m, c2, m2, R, S) /\ m2 = Run(m1, i2) /\ Keeps(m1, m2, R2, S2)
    BY <1>1, <2>2, <2>3, DoesNext DEF c2, m2, R2, S2
  <2>5. Shl(Reg(m1, tp), 2) = y4
    BY <1>1, <1>t
  <2> QED BY <2>2, <2>4, <2>5, <1>1, <1>b DEF Keeps, Holds, R2, S2, One
<1>3. Does(m, c3, m3, R, S) /\ Reg(m3, tp) = a
  <2>1. Does(m, c3, m3, R, S) /\ Sets(m2, m3, tp, Add(Reg(m2, base), Reg(m2, tp)))
    BY <1>2, <1>b, AddRuns DEF c3, m3
  <2>2. Add(Reg(m2, base), Reg(m2, tp)) = a
    BY <1>2, <1>t
  <2> QED BY <2>1, <2>2, <1>2, <1>b DEF Sets, Holds
<1>4. Does(m, c4, m4, R, S) /\ Reg(m4, tp) = v
  <2>1. Does(m, c4, m4, R, S) /\ Sets(m3, m4, tp, Wd(Ro(a), Ro(a + 1), Ro(a + 2), Ro(a + 3)))
    BY <1>3, <1>b, TableLw, <1>t DEF c4, m4
  <2>2. Wd(Ro(a), Ro(a + 1), Ro(a + 2), Ro(a + 3)) = v
    BY <1>3, <1>t
  <2> QED BY <2>1, <2>2, <1>3, <1>b DEF Sets, Holds
<1>e. c4 = get_shift_byte_in_tp(base, n)
  BY <1>c, <1>d DEF c1, c2, c3, c4
<1> QED BY <1>4, <1>e DEF m4, R, S, y, v

\* Shifting twice, and the low bytes of a word as the high ones.
LEMMA ShlTwice ==
  ASSUME NEW x, NEW k, NEW n, x \in Nat, k \in Nat, n \in Nat
  PROVE  Shl(Shl(x, k), n) = (x * (Pow2[k] * Pow2[n])) % Modulus
<1> DEFINE P == Pow2[k]
           Q == Pow2[n]
           y == x * P
           r == y % Modulus
           z == r * Q
<1>1. P \in Nat /\ Q \in Nat
  BY Pow2Positive
<1>2. Shl(x, k) = r
  BY ShlMod
<1> HIDE DEF P, Q
<1>3. y \in Nat
  BY <1>1
<1>4. PICK q \in Int : y = Modulus * q + r /\ r \in Word
  <2> HIDE DEF y
  <2> QED BY <1>3, ModApart
<1>5. r \in Nat /\ Modulus \in Nat
  <2> HIDE DEF r
  <2> QED BY <1>4, WordNat
<1>6. Shl(r, n) = z % Modulus
  <2> HIDE DEF r
  <2>1. Shl(r, n) = (r * Pow2[n]) % Modulus
    BY <1>5, ShlMod
  <2> QED BY <2>1 DEF Q
<1> DEFINE v == x * (P * Q)
           t == q * Q
<1>7. t \in Int /\ v = y * Q /\ v \in Int
  BY <1>1
<1> HIDE DEF y, r
<1>8. v = Modulus * t + z /\ z \in Int
  BY <1>1, <1>3, <1>4, <1>5, <1>7
<1>9. v % Modulus = z % Modulus
  <2> HIDE DEF v, t, z
  <2> QED BY <1>7, <1>8, ModSame
<1> QED BY <1>2, <1>6, <1>9 DEF P, Q

\* The low bytes of a word as the high ones are the word shifted left.
LEMMA Lifted ==
  ASSUME NEW x, x \in Word
  PROVE  /\ Wd(0, 0, 0, ByteOf(x, 0)) = Shl(x, 3 * ByteWidth)
         /\ Wd(0, 0, ByteOf(x, 0), ByteOf(x, 1)) = Shl(x, 2 * ByteWidth)
<1> DEFINE u == Wd(0, 0, 0, ByteOf(x, 0))
           v == Wd(0, 0, ByteOf(x, 0), ByteOf(x, 1))
           z == 0
           n3 == 3 * ByteWidth
           n2 == 2 * ByteWidth
<1>1. x \in Int /\ 0 \in Byte /\ ByteOf(x, 0) \in Byte /\ ByteOf(x, 1) \in Byte
  BY WordNat, ZeroBytes, ByteRange DEF Word
<1>2. u \in Word /\ v \in Word
  BY <1>1, WdWord
<1>3. u \in Int /\ v \in Int
  <2> HIDE DEF u, v
  <2> QED BY <1>2, WordNat
<1>4. Pow2[z] = 1 /\ z \in Nat
  BY Pow2Def
<1>5. z + n3 = n3 /\ z + n2 = n2
  BY WidthAssumption
<1>6. (u * Pow2[z]) % Modulus = Shl(x, z + n3) /\ (v * Pow2[z]) % Modulus = Shl(x, z + n2)
  <2> HIDE DEF z
  <2> QED BY <1>4, ShlBytes
<1> HIDE DEF u, v, z, n3, n2
<1>7. u * Pow2[z] = u /\ v * Pow2[z] = v
  BY <1>3, <1>4
<1>8. u % Modulus = u /\ v % Modulus = v
  BY <1>2, SmallWord
<1> QED BY <1>5, <1>6, <1>7, <1>8 DEF u, v, n3, n2

\* The shifted bytes add up to the shifted word.
LEMMA SllSum ==
  ASSUME NEW x, NEW k, x \in Word, Shamt(k)
  PROVE  Add(Add(Add(Shl(Shl(ByteOf(x, 3), k), 3 * ByteWidth), Shl(Shl(ByteOf(x, 2), k), 2 * ByteWidth)),
                 Shl(Shl(ByteOf(x, 1), k), ByteWidth)),
             Shl(ByteOf(x, 0), k)) = Shl(x, k)
<1> DEFINE a == ByteOf(x, 0)
           b == ByteOf(x, 1)
           c == ByteOf(x, 2)
           d == ByteOf(x, 3)
           P == Pow2[k]
           n2 == 2 * ByteWidth
           n3 == 3 * ByteWidth
           B2 == B * B
           B3 == B * B * B
           y0 == a * P
           y1 == b * (P * B)
           y2 == c * (P * B2)
           y3 == d * (P * B3)
<1>1. x \in Int /\ x \in Nat /\ k \in Nat /\ x = Wd(a, b, c, d)
  BY WordNat, WordIsBytes DEF Shamt
<1>2. a \in Nat /\ b \in Nat /\ c \in Nat /\ d \in Nat
  BY <1>1, ByteRange, ByteNat
<1>3. P \in Nat /\ B \in Nat /\ B2 \in Nat /\ B3 \in Nat
  <2>1. P \in Nat
    BY <1>1, Pow2Positive
  <2>2. B2 \in Nat /\ B3 \in Nat /\ B \in Nat
    BY Sizes
  <2> QED BY <2>1, <2>2
<1>4. n2 \in Nat /\ n3 \in Nat /\ ByteWidth \in Nat /\ Pow2[n2] = B2 /\ Pow2[n3] = B3 /\ Pow2[ByteWidth] = B
  BY Widths, WidthAssumption
<1>5. x = a + B * b + B2 * c + B3 * d
  <2> HIDE DEF a, b, c, d
  <2>1. x = a + B * b + (B * B) * c + (B * B * B) * d
    BY <1>1 DEF Wd
  <2> QED BY <2>1
<1> HIDE DEF a, b, c, d, P, n2, n3, B2, B3
<1>6. y0 \in Int /\ y1 \in Int /\ y2 \in Int /\ y3 \in Int
  BY <1>2, <1>3
<1>7. /\ Shl(a, k) = y0 % Modulus /\ Shl(Shl(b, k), ByteWidth) = y1 % Modulus
      /\ Shl(Shl(c, k), n2) = y2 % Modulus /\ Shl(Shl(d, k), n3) = y3 % Modulus
  BY <1>1, <1>2, <1>4, ShlMod, ShlTwice DEF P
<1> DEFINE s == y3 + y2
           t == s + y1
           u == t + y0
<1>8. u = x * P
  <2>1. y1 = P * (B * b) /\ y2 = P * (B2 * c) /\ y3 = P * (B3 * d) /\ y0 = P * a
    BY <1>2, <1>3
  <2>2. x * P = P * a + P * (B * b) + P * (B2 * c) + P * (B3 * d)
    <3> DEFINE b1 == B * b
               c1 == B2 * c
               d1 == B3 * d
    <3>1. b1 \in Nat /\ c1 \in Nat /\ d1 \in Nat
      BY <1>2, <1>3
    <3>2. x = a + b1 + c1 + d1
      BY <1>5
    <3> HIDE DEF b1, c1, d1
    <3>3. x * P = P * a + P * b1 + P * c1 + P * d1
      BY <1>2, <1>3, <3>1, <3>2
    <3> QED BY <3>3 DEF b1, c1, d1
  <2> HIDE DEF y0, y1, y2, y3
  <2> QED BY <2>1, <2>2, <1>6
<1>9. s \in Int /\ t \in Int
  BY <1>6
<1> HIDE DEF y0, y1, y2, y3
<1>10. Add(y3 % Modulus, y2 % Modulus) = s % Modulus
  BY <1>6, ModSum
<1> HIDE DEF s
<1>11. Add(s % Modulus, y1 % Modulus) = t % Modulus
  BY <1>6, <1>9, ModSum
<1> HIDE DEF t
<1>12. Add(t % Modulus, y0 % Modulus) = u % Modulus
  BY <1>6, <1>9, ModSum
<1>13. Shl(x, k) = u % Modulus
  <2>1. Shl(x, k) = (x * Pow2[k]) % Modulus
    BY <1>1, ShlMod
  <2> QED BY <2>1, <1>8 DEF P
<1> QED BY <1>7, <1>10, <1>11, <1>12, <1>13 DEF a, b, c, d, n2, n3

\* What sh changes on the stack is scratch.
LEMMA HalfScratch == HalfB \subseteq Scratch /\ Slot(5) \subseteq Scratch
<1>1. Slot(6) \subseteq Scratch /\ 238 \in Scratch /\ 239 \in Scratch
  BY ScratchPlaces
<1>2. 236 \in Scratch /\ 237 \in Scratch
  BY ScratchPlaces
<1>3. Slot(5) = {236, 237, 238, 239}
  BY DEF Slot, StackTop
<1> QED BY <1>1, <1>2, <1>3 DEF HalfB, Two

\* sll: the shifted bytes, added.
LEMMA SllDoes ==
  ASSUME NEW m, NEW rd, NEW rs1, NEW rs2,
         Ready(m),
         rd \in Regs \ {zero, sp, gp, tp},
         rs1 \in Regs,
         rs2 \in Regs
  PROVE  /\ Does(m, sll(rd, rs1, rs2), Run(m, sll(rd, rs1, rs2)), Three(rd, gp, tp), Scratch)
         /\ Reg(Run(m, sll(rd, rs1, rs2)), rd) = Shl(Reg(m, rs1), Reg(m, rs2) % 32)
<1> DEFINE x == Reg(m, rs1)
           y == Reg(m, rs2)
           u == Reg(m, s0)
           k == y % 32
           t0 == Shl(ByteOf(x, 0), k)
           t1 == Shl(ByteOf(x, 1), k)
           t2 == Shl(ByteOf(x, 2), k)
           t3 == Shl(ByteOf(x, 3), k)
           u1 == Shl(t1, ByteWidth)
           u2 == Shl(t2, 2 * ByteWidth)
           u3 == Shl(t3, 3 * ByteWidth)
           v2 == Add(u3, u2)
           v1 == Add(v2, u1)
           w == Shl(x, k)
           row == RowAt(Sll8, k)
           R == Four(s0, gp, tp, rd)
           S == Scratch
           c0 == <<>>
           i1 == sw(s0, -4, sp)
           c1 == c0 \o i1
           m1 == Run(m, c1)
           i2 == sw(rs1, -16, sp)
           c2 == c1 \o i2
           m2 == Run(m, c2)
           i3 == ShiftRow(rs2, Sll8)
           c3 == c2 \o i3
           m3 == Run(m, c3)
           i4 == sw(zero, -20, sp)
           c4 == c3 \o i4
           m4 == Run(m, c4)
           i5 == get_shift_byte_in_tp(s0, 3)
           c5 == c4 \o i5
           m5 == Run(m, c5)
           i6 == sb(tp, -17, sp)
           c6 == c5 \o i6
           m6 == Run(m, c6)
           i7 == lw(gp, -20, sp)
           c7 == c6 \o i7
           m7 == Run(m, c7)
           i8 == get_shift_byte_in_tp(s0, 2)
           c8 == c7 \o i8
           m8 == Run(m, c8)
           i9 == sh(tp, -18, sp)
           c9 == c8 \o i9
           m9 == Run(m, c9)
           i10 == lw(tp, -20, sp)
           c10 == c9 \o i10
           m10 == Run(m, c10)
           i11 == add(gp, gp, tp)
           c11 == c10 \o i11
           m11 == Run(m, c11)
           i12 == get_shift_byte_in_tp(s0, 1)
           c12 == c11 \o i12
           m12 == Run(m, c12)
           i13 == slli(tp, tp, ByteWidth)
           c13 == c12 \o i13
           m13 == Run(m, c13)
           i14 == add(gp, gp, tp)
           c14 == c13 \o i14
           m14 == Run(m, c14)
           i15 == get_shift_byte_in_tp(s0, 0)
           c15 == c14 \o i15
           m15 == Run(m, c15)
           i16 == lw(s0, -4, sp)
           c16 == c15 \o i16
           m16 == Run(m, c16)
           i17 == add(rd, gp, tp)
           c17 == c16 \o i17
           m17 == Run(m, c17)
<1>s. S \subseteq Ram
  BY DEF Ram
<1>a. Block(252, S) /\ Block(240, S) /\ Block(236, S) /\ 239 \in S /\ 238 \in S /\ Slot(5) \subseteq S
      /\ HalfB \subseteq S
  BY ScratchPlaces, HalfScratch
<1>p. Spot(-4, 252) /\ Spot(-16, 240) /\ Spot(-20, 236) /\ Spot(-17, 239) /\ WordSpot(-20, 236)
      /\ WordSpot(-4, 252)
  BY Spots
<1>r. R \subseteq Regs \ {zero}
  BY RegNames DEF Four
<1>b. Ready(m) /\ sp \notin R /\ s0 \in R /\ gp \in R /\ tp \in R /\ rd \in R /\ s0 \in Regs /\ gp \in Regs
      /\ tp \in Regs /\ rd \in Regs /\ sp \in Regs /\ rs1 \in Regs /\ rs2 \in Regs /\ zero \in Regs /\ rd # tp
      /\ rd # gp
  BY RegNames DEF Four
<1>x. x \in Word /\ u \in Word /\ x \in Int /\ y \in Word
  BY RegWord, RegNames DEF Ready
<1>k. Shamt(k) /\ Shift(Sll8)
  BY <1>x, ShamtIs DEF Shift
<1> HIDE DEF x, y, u, k
<1>t. /\ ShiftWord(Sll8, ByteOf(x, 0), k) = t0 /\ ShiftWord(Sll8, ByteOf(x, 1), k) = t1
      /\ ShiftWord(Sll8, ByteOf(x, 2), k) = t2 /\ ShiftWord(Sll8, ByteOf(x, 3), k) = t3
      /\ t0 \in Word /\ t1 \in Word /\ t2 \in Word /\ t3 \in Word
  BY <1>x, <1>k, ByteRange, ShiftMeans
<1>u. Wd(0, 0, 0, ByteOf(t3, 0)) = u3 /\ Wd(0, 0, ByteOf(t2, 0), ByteOf(t2, 1)) = u2
  <2> HIDE DEF t2, t3
  <2> QED BY <1>t, Lifted
<1>w. Add(v1, t0) = w
  BY <1>x, <1>k, SllSum
<1>z. ByteOf(0, 0) = 0 /\ ByteOf(0, 1) = 0 /\ ByteOf(0, 2) = 0 /\ ByteOf(0, 3) = 0
  BY ZeroBytes
<1>c. sll(rd, rs1, rs2)
        = i1 \o i2 \o i3 \o i4 \o i5 \o i6 \o i7 \o i8 \o i9 \o i10 \o i11 \o i12 \o i13 \o i14 \o i15
          \o i16 \o i17
  BY DEF sll, Push, Pop, Var, VAR_A, VAR_B
<1> HIDE DEF R, S, c0, c1, c2, c3, c4, c5, c6, c7, c8, c9, c10, c11, c12, c13, c14, c15, c16, c17, m1, m2,
        m3, m4, m5, m6, m7, m8, m9, m10, m11, m12, m13, m14, m15, m16, m17, x, y, u, k, t0, t1, t2, t3, u1,
        u2, u3, v1, v2, w, row
<1>d. i1 \in Code /\ c0 \o i1 = i1
  BY <1>b, RegNames, Coded, ConcatEmptySeq DEF Code, mv, li, c0
<1>0. Does(m, c0, m, R, S) /\ Reg(m, rs1) = x /\ Reg(m, rs2) = y /\ Reg(m, s0) = u
  BY <1>s, <1>r, <1>b, DoesNothing DEF Ready, c0, x, y, u
<1>1. Does(m, c1, m1, R, S) /\ Reg(m1, rs1) = x /\ Reg(m1, rs2) = y /\ Holds(m1, 252, u)
  <2>1. Does(m, c1, m1, R, S) /\ Saves(m, m1, 252, Reg(m, s0))
    BY <1>0, <1>b, <1>a, <1>p, SwStack DEF c1, m1
  <2> QED BY <2>1, <1>0, <1>b DEF Saves, Holds
<1>2. Does(m, c2, m2, R, S) /\ Reg(m2, rs2) = y /\ Holds(m2, 240, x) /\ Holds(m2, 252, u)
  <2>1. Does(m, c2, m2, R, S) /\ Saves(m1, m2, 240, Reg(m1, rs1))
    BY <1>1, <1>b, <1>a, <1>p, SwStack DEF c2, m2
  <2> QED BY <2>1, <1>1, <1>b DEF Saves, Holds
<1>3. Does(m, c3, m3, R, S) /\ Reg(m3, s0) = row /\ Holds(m3, 240, x) /\ Holds(m3, 252, u)
  <2>1. Ready(m2) /\ Live(m2)
    BY <1>2, <1>b, StaysReady DEF Ready
  <2>2. Does(m2, i3, Run(m2, i3), Two(s0, tp), Slot(5))
        /\ Reg(Run(m2, i3), s0) = RowAt(Sll8, Reg(m2, rs2) % 32)
    BY <2>1, <1>2, <1>b, <1>k, ShiftRowDoes
  <2> DEFINE R2 == Two(s0, tp)
             S2 == Slot(5)
  <2>3. R2 \subseteq R /\ S2 \subseteq S
    BY <1>b, <1>a DEF Two
  <2> HIDE DEF R2, S2
  <2>4. Does(m, c3, m3, R, S) /\ m3 = Run(m2, i3) /\ Keeps(m2, m3, R2, S2)
    BY <1>2, <2>2, <2>3, DoesNext DEF c3, m3, R2, S2
  <2>5. RowAt(Sll8, Reg(m2, rs2) % 32) = row
    BY <1>2 DEF row, k
  <2> QED BY <2>2, <2>4, <2>5, <1>2, <1>b DEF Keeps, Holds, R2, S2, Two, Slot
<1>4. Does(m, c4, m4, R, S) /\ Reg(m4, s0) = row /\ Mem(m4, 236) = ByteOf(0, 0) /\ Mem(m4, 237) = ByteOf(0, 1)
      /\ Mem(m4, 238) = ByteOf(0, 2) /\ Holds(m4, 240, x) /\ Holds(m4, 252, u)
  <2>1. Does(m, c4, m4, R, S) /\ Saves(m3, m4, 236, Reg(m3, zero))
    BY <1>3, <1>b, <1>a, <1>p, SwStack DEF c4, m4
  <2>2. Reg(m3, zero) = 0
    BY <1>3, ZeroStays
  <2> QED BY <2>1, <2>2, <1>3, <1>b DEF Saves, Holds
<1>5. Does(m, c5, m5, R, S) /\ Reg(m5, s0) = row /\ Reg(m5, tp) = t3 /\ Mem(m5, 236) = ByteOf(0, 0)
      /\ Mem(m5, 237) = ByteOf(0, 1) /\ Mem(m5, 238) = ByteOf(0, 2) /\ Mem(m5, 240) = ByteOf(x, 0)
      /\ Mem(m5, 241) = ByteOf(x, 1) /\ Mem(m5, 242) = ByteOf(x, 2) /\ Holds(m5, 252, u)
  <2>1. Ready(m4) /\ Live(m4)
    BY <1>4, <1>b, StaysReady DEF Ready
  <2>2. Does(m4, i5, Run(m4, i5), One(tp), {}) /\ Reg(Run(m4, i5), tp) = ShiftWord(Sll8, Mem(m4, 243), k)
    BY <2>1, <1>4, <1>b, <1>k, Ats, GetShiftDoes DEF row
  <2> DEFINE R2 == One(tp)
             S2 == {}
  <2>3. R2 \subseteq R /\ S2 \subseteq S
    BY <1>b DEF One
  <2> HIDE DEF R2, S2
  <2>4. Does(m, c5, m5, R, S) /\ m5 = Run(m4, i5) /\ Keeps(m4, m5, R2, S2)
    BY <1>4, <2>2, <2>3, DoesNext DEF c5, m5, R2, S2
  <2>5. ShiftWord(Sll8, Mem(m4, 243), k) = t3
    BY <1>4, <1>t DEF Holds
  <2> QED BY <2>2, <2>4, <2>5, <1>4, <1>b DEF Keeps, Holds, R2, S2, One
<1>6. Does(m, c6, m6, R, S) /\ Reg(m6, s0) = row /\ Mem(m6, 236) = ByteOf(0, 0) /\ Mem(m6, 237) = ByteOf(0, 1)
      /\ Mem(m6, 238) = ByteOf(0, 2) /\ Mem(m6, 239) = ByteOf(t3, 0) /\ Mem(m6, 240) = ByteOf(x, 0)
      /\ Mem(m6, 241) = ByteOf(x, 1) /\ Mem(m6, 242) = ByteOf(x, 2) /\ Holds(m6, 252, u)
  <2>1. Does(m, c6, m6, R, S) /\ Puts(m5, m6, 239, ByteOf(Reg(m5, tp), 0))
    <3>1. Does(m, c5, m5, R, S) /\ Ready(m) /\ sp \notin R /\ tp \in Regs /\ Spot(-17, 239) /\ 239 \in S
      BY <1>5, <1>b, <1>a, <1>p
    <3> QED BY <3>1, SbStack DEF c6, m6
  <2> QED BY <2>1, <1>5, <1>b DEF Puts, Holds
<1>7. Does(m, c7, m7, R, S) /\ Reg(m7, s0) = row /\ Reg(m7, gp) = u3 /\ Mem(m7, 236) = ByteOf(0, 0)
      /\ Mem(m7, 237) = ByteOf(0, 1) /\ Mem(m7, 240) = ByteOf(x, 0) /\ Mem(m7, 241) = ByteOf(x, 1)
      /\ Mem(m7, 242) = ByteOf(x, 2) /\ Holds(m7, 252, u)
  <2>1. Does(m, c7, m7, R, S) /\ Sets(m6, m7, gp, Loaded(m6, 236))
    BY <1>6, <1>b, <1>a, <1>p, LwStack DEF c7, m7
  <2>2. Loaded(m6, 236) = u3
    BY <1>6, <1>u, <1>z DEF Holds, Loaded
  <2> QED BY <2>1, <2>2, <1>6, <1>b DEF Sets, Holds
<1>8. Does(m, c8, m8, R, S) /\ Reg(m8, s0) = row /\ Reg(m8, gp) = u3 /\ Reg(m8, tp) = t2
      /\ Mem(m8, 236) = ByteOf(0, 0) /\ Mem(m8, 237) = ByteOf(0, 1) /\ Mem(m8, 240) = ByteOf(x, 0)
      /\ Mem(m8, 241) = ByteOf(x, 1) /\ Holds(m8, 252, u)
  <2>1. Ready(m7) /\ Live(m7)
    BY <1>7, <1>b, StaysReady DEF Ready
  <2>2. Does(m7, i8, Run(m7, i8), One(tp), {}) /\ Reg(Run(m7, i8), tp) = ShiftWord(Sll8, Mem(m7, 242), k)
    BY <2>1, <1>7, <1>b, <1>k, Ats, GetShiftDoes DEF row
  <2> DEFINE R2 == One(tp)
             S2 == {}
  <2>3. R2 \subseteq R /\ S2 \subseteq S
    BY <1>b DEF One
  <2> HIDE DEF R2, S2
  <2>4. Does(m, c8, m8, R, S) /\ m8 = Run(m7, i8) /\ Keeps(m7, m8, R2, S2)
    BY <1>7, <2>2, <2>3, DoesNext DEF c8, m8, R2, S2
  <2>5. ShiftWord(Sll8, Mem(m7, 242), k) = t2
    BY <1>7, <1>t DEF Holds
  <2> QED BY <2>2, <2>4, <2>5, <1>7, <1>b DEF Keeps, Holds, R2, S2, One
<1>9. Does(m, c9, m9, R, S) /\ Reg(m9, s0) = row /\ Reg(m9, gp) = u3 /\ Mem(m9, 236) = ByteOf(0, 0)
      /\ Mem(m9, 237) = ByteOf(0, 1) /\ Mem(m9, 238) = ByteOf(t2, 0) /\ Mem(m9, 239) = ByteOf(t2, 1)
      /\ Mem(m9, 240) = ByteOf(x, 0) /\ Mem(m9, 241) = ByteOf(x, 1) /\ Holds(m9, 252, u)
  <2>1. Ready(m8) /\ Live(m8)
    BY <1>8, <1>b, StaysReady DEF Ready
  <2>2. Does(m8, i9, Run(m8, i9), One(tp), HalfB) /\ Mem(Run(m8, i9), 238) = ByteOf(Reg(m8, tp), 0)
        /\ Mem(Run(m8, i9), 239) = ByteOf(Reg(m8, tp), 1)
    BY <2>1, <1>8, <1>b, ShBDoes
  <2> DEFINE R2 == One(tp)
             S2 == HalfB
  <2>3. R2 \subseteq R /\ S2 \subseteq S
    BY <1>b, <1>a DEF One, One, HalfB, Two
  <2> HIDE DEF R2, S2
  <2>4. Does(m, c9, m9, R, S) /\ m9 = Run(m8, i9) /\ Keeps(m8, m9, R2, S2)
    BY <1>8, <2>2, <2>3, DoesNext DEF c9, m9, R2, S2
  <2>5. ByteOf(Reg(m8, tp), 0) = ByteOf(t2, 0)
    BY <1>8
  <2>6. ByteOf(Reg(m8, tp), 1) = ByteOf(t2, 1)
    BY <1>8
  <2> QED BY <2>2, <2>4, <2>5, <2>6, <1>8, <1>b DEF Keeps, Holds, R2, S2, One, HalfB, Two, Slot
<1>10. Does(m, c10, m10, R, S) /\ Reg(m10, s0) = row /\ Reg(m10, gp) = u3 /\ Reg(m10, tp) = u2
      /\ Mem(m10, 240) = ByteOf(x, 0) /\ Mem(m10, 241) = ByteOf(x, 1) /\ Holds(m10, 252, u)
  <2>1. Does(m, c10, m10, R, S) /\ Sets(m9, m10, tp, Loaded(m9, 236))
    BY <1>9, <1>b, <1>a, <1>p, LwStack DEF c10, m10
  <2>2. Loaded(m9, 236) = u2
    BY <1>9, <1>u, <1>z DEF Holds, Loaded
  <2> QED BY <2>1, <2>2, <1>9, <1>b DEF Sets, Holds
<1>11. Does(m, c11, m11, R, S) /\ Reg(m11, s0) = row /\ Reg(m11, gp) = v2 /\ Mem(m11, 240) = ByteOf(x, 0)
      /\ Mem(m11, 241) = ByteOf(x, 1) /\ Holds(m11, 252, u)
  <2>1. Does(m, c11, m11, R, S) /\ Sets(m10, m11, gp, Add(Reg(m10, gp), Reg(m10, tp)))
    BY <1>10, <1>b, AddRuns DEF c11, m11
  <2>2. Add(Reg(m10, gp), Reg(m10, tp)) = v2
    BY <1>10 DEF v2
  <2> QED BY <2>1, <2>2, <1>10, <1>b DEF Sets, Holds
<1>12. Does(m, c12, m12, R, S) /\ Reg(m12, s0) = row /\ Reg(m12, gp) = v2 /\ Reg(m12, tp) = t1
      /\ Mem(m12, 240) = ByteOf(x, 0) /\ Holds(m12, 252, u)
  <2>1. Ready(m11) /\ Live(m11)
    BY <1>11, <1>b, StaysReady DEF Ready
  <2>2. Does(m11, i12, Run(m11, i12), One(tp), {})
        /\ Reg(Run(m11, i12), tp) = ShiftWord(Sll8, Mem(m11, 241), k)
    BY <2>1, <1>11, <1>b, <1>k, Ats, GetShiftDoes DEF row
  <2> DEFINE R2 == One(tp)
             S2 == {}
  <2>3. R2 \subseteq R /\ S2 \subseteq S
    BY <1>b DEF One
  <2> HIDE DEF R2, S2
  <2>4. Does(m, c12, m12, R, S) /\ m12 = Run(m11, i12) /\ Keeps(m11, m12, R2, S2)
    BY <1>11, <2>2, <2>3, DoesNext DEF c12, m12, R2, S2
  <2>5. ShiftWord(Sll8, Mem(m11, 241), k) = t1
    BY <1>11, <1>t DEF Holds
  <2> QED BY <2>2, <2>4, <2>5, <1>11, <1>b DEF Keeps, Holds, R2, S2, One
<1>13. Does(m, c13, m13, R, S) /\ Reg(m13, s0) = row /\ Reg(m13, gp) = v2 /\ Reg(m13, tp) = u1
      /\ Mem(m13, 240) = ByteOf(x, 0) /\ Holds(m13, 252, u)
  <2>1. Ready(m12) /\ Live(m12)
    BY <1>12, <1>b, StaysReady DEF Ready
  <2>2. Does(m12, i13, Run(m12, i13), One(tp), {}) /\ Reg(Run(m12, i13), tp) = Shl(Reg(m12, tp), ByteWidth)
    BY <2>1, <1>12, <1>b, Shorts, SlliShort
  <2> DEFINE R2 == One(tp)
             S2 == {}
  <2>3. R2 \subseteq R /\ S2 \subseteq S
    BY <1>b DEF One
  <2> HIDE DEF R2, S2
  <2>4. Does(m, c13, m13, R, S) /\ m13 = Run(m12, i13) /\ Keeps(m12, m13, R2, S2)
    BY <1>12, <2>2, <2>3, DoesNext DEF c13, m13, R2, S2
  <2>5. Shl(Reg(m12, tp), ByteWidth) = u1
    BY <1>12 DEF u1
  <2> QED BY <2>2, <2>4, <2>5, <1>12, <1>b DEF Keeps, Holds, R2, S2, One
<1>14. Does(m, c14, m14, R, S) /\ Reg(m14, s0) = row /\ Reg(m14, gp) = v1 /\ Mem(m14, 240) = ByteOf(x, 0)
      /\ Holds(m14, 252, u)
  <2>1. Does(m, c14, m14, R, S) /\ Sets(m13, m14, gp, Add(Reg(m13, gp), Reg(m13, tp)))
    BY <1>13, <1>b, AddRuns DEF c14, m14
  <2>2. Add(Reg(m13, gp), Reg(m13, tp)) = v1
    BY <1>13 DEF v1
  <2> QED BY <2>1, <2>2, <1>13, <1>b DEF Sets, Holds
<1>15. Does(m, c15, m15, R, S) /\ Reg(m15, gp) = v1 /\ Reg(m15, tp) = t0 /\ Holds(m15, 252, u)
  <2>1. Ready(m14) /\ Live(m14)
    BY <1>14, <1>b, StaysReady DEF Ready
  <2>2. Does(m14, i15, Run(m14, i15), One(tp), {})
        /\ Reg(Run(m14, i15), tp) = ShiftWord(Sll8, Mem(m14, 240), k)
    BY <2>1, <1>14, <1>b, <1>k, Ats, GetShiftDoes DEF row
  <2> DEFINE R2 == One(tp)
             S2 == {}
  <2>3. R2 \subseteq R /\ S2 \subseteq S
    BY <1>b DEF One
  <2> HIDE DEF R2, S2
  <2>4. Does(m, c15, m15, R, S) /\ m15 = Run(m14, i15) /\ Keeps(m14, m15, R2, S2)
    BY <1>14, <2>2, <2>3, DoesNext DEF c15, m15, R2, S2
  <2>5. ShiftWord(Sll8, Mem(m14, 240), k) = t0
    BY <1>14, <1>t DEF Holds
  <2> QED BY <2>2, <2>4, <2>5, <1>14, <1>b DEF Keeps, Holds, R2, S2, One
<1>16. Does(m, c16, m16, R, S) /\ Reg(m16, gp) = v1 /\ Reg(m16, tp) = t0 /\ Reg(m16, s0) = u
  <2>1. Does(m, c16, m16, R, S) /\ Sets(m15, m16, s0, u)
    BY <1>15, <1>b, <1>a, <1>p, LwBack, <1>x DEF c16, m16
  <2> QED BY <2>1, <1>15, <1>b DEF Sets, Holds
<1>17. Does(m, c17, m17, R, S) /\ (rd # s0 => Reg(m17, s0) = u) /\ Reg(m17, rd) = w
  <2>1. Does(m, c17, m17, R, S) /\ Sets(m16, m17, rd, Add(Reg(m16, gp), Reg(m16, tp)))
    BY <1>16, <1>b, AddRuns DEF c17, m17
  <2>2. Add(Reg(m16, gp), Reg(m16, tp)) = w
    BY <1>16, <1>w
  <2> QED BY <2>1, <2>2, <1>16, <1>b DEF Sets, Holds
<1>e. c17 = sll(rd, rs1, rs2)
  BY <1>c, <1>d DEF c1, c2, c3, c4, c5, c6, c7, c8, c9, c10, c11, c12, c13, c14, c15, c16, c17
<1> DEFINE Q == Three(rd, gp, tp)
           T == Scratch
<1>f. /\ Q \subseteq R /\ \A r : r \in R /\ r \notin Q => Reg(m17, r) = Reg(m, r)
      /\ T \subseteq S /\ \A a : a \in S /\ a \notin T => Mem(m17, a) = Mem(m, a)
  BY <1>17, <1>b DEF R, S, Four, Three, x, y, u
<1> HIDE DEF Q, T
<1>g. Does(m, c17, m17, Q, T)
  BY <1>17, <1>f, DoesRestores
<1> QED BY <1>17, <1>e, <1>g DEF m17, Q, T, w, x, y, k

-----------------------------------------------------------------------------
(* 18. A word shifted right is the sum of its shifted bytes *)

\* Shifting right: a word shifted is the sum of its shifted bytes.
LEMMA FloorIs ==
  ASSUME NEW x, NEW d, NEW q, NEW r, x \in Int, d \in Nat, q \in Int, r \in Nat, r < d, x = d * q + r
  PROVE  x \div d = q
<1>1. d \in Nat \ {0} /\ r \in 0 .. d - 1
  OBVIOUS
<1> QED BY <1>1, DivisionUnique

\* The floor of a quotient, and what is left.
LEMMA FloorOf ==
  ASSUME NEW x, NEW d, x \in Int, d \in Nat \ {0}
  PROVE  \E q \in Int, r \in Nat : r < d /\ x = d * q + r /\ x \div d = q /\ x % d = r
<1>1. /\ x \div d \in Int /\ x % d \in 0 .. d - 1
      /\ x = d * (x \div d) + (x % d)
  BY Division
<1> DEFINE q == x \div d
           r == x % d
<1>2. q \in Int /\ r \in 0 .. d - 1 /\ x = d * q + r
  BY <1>1
<1> HIDE DEF q, r
<1>3. r \in Nat /\ r < d
  BY <1>2
<1> QED BY <1>2, <1>3 DEF q, r

\* A quotient is no more than what is divided.
LEMMA FloorBelow ==
  ASSUME NEW x, NEW d, x \in Nat, d \in Nat \ {0}
  PROVE  x \div d \in Nat /\ x \div d <= x
<1>1. PICK q \in Int, r \in Nat : r < d /\ x = d * q + r /\ x \div d = q
  <2>1. x \in Int
    OBVIOUS
  <2> QED BY <2>1, FloorOf
<1>2. q >= 0
  <2>1. q < 0 => d * q <= -d
    BY <1>1, SMT
  <2> QED BY <1>1, <2>1
<1>3. d * q >= q
  BY <1>1, <1>2, SMT
<1> QED BY <1>1, <1>2, <1>3

\* The shifts without the bound on the amount.
LEMMA ShrPlain ==
  ASSUME NEW x, NEW n, x \in Word, n \in Nat
  PROVE  Shr(x, n) = x \div Pow2[n] /\ Shr(x, n) \in Word
<1> DEFINE W == DATA_WIDTH
           P == Pow2[n]
<1>1. x \in Nat /\ x < Modulus /\ Modulus \in Nat
  BY WordNat
<1>2. P \in Nat \ {0} /\ W \in Nat
  BY Pow2Positive, ByteWidthAssumption DEF DATA_WIDTH
<1>3. CASE n < W
  <2>1. Shr(x, n) = x \div P
    BY <1>2, <1>3 DEF Shr
  <2> HIDE DEF P
  <2>2. x \div P \in Nat /\ x \div P <= x
    BY <1>1, <1>2, FloorBelow
  <2> QED BY <1>1, <2>1, <2>2 DEF Word, P
<1>4. CASE n >= W
  <2> DEFINE k == n - W
             p == Pow2[k]
             z == 0
  <2>1. k \in Nat /\ n = W + k
    BY <1>2, <1>4
  <2>2. p \in Nat \ {0} /\ P = Modulus * p
    <3> HIDE DEF k, W
    <3>1. Pow2[W + k] = Pow2[W] * Pow2[k]
      BY <1>2, <2>1, Pow2Sum
    <3> QED BY <2>1, <3>1, Pow2Positive DEF Modulus, W
  <2> HIDE DEF p, P
  <2>3. Modulus * p >= Modulus
    BY <1>1, <2>2
  <2>4. x < P /\ x = P * z + x /\ z \in Int /\ x \in Int /\ P \in Nat
    BY <1>1, <1>2, <2>2, <2>3
  <2> HIDE DEF z
  <2>5. x \div P = z
    BY <1>1, <2>4, FloorIs
  <2>6. Shr(x, n) = 0
    BY <1>2, <1>4 DEF Shr
  <2> QED BY <1>1, <2>5, <2>6 DEF z, P, Word
<1> QED BY <1>2, <1>3, <1>4

\* Sar divides the signed number, rounding down.
LEMMA SarPlain ==
  ASSUME NEW x, NEW n, x \in Word, n \in Nat
  PROVE  Sar(x, n) = (Signed(x) \div Pow2[n]) % Modulus /\ Signed(x) \in Int
<1> DEFINE W == DATA_WIDTH
           P == Pow2[n]
           s == Signed(x)
<1>1. x \in Nat /\ x < Modulus /\ Modulus \in Nat
  BY WordNat
<1>2. P \in Nat \ {0} /\ W \in Nat /\ Pow2[W] = Modulus
  BY Pow2Positive, ByteWidthAssumption DEF DATA_WIDTH, Modulus
<1>3. s \in Int /\ s < Modulus /\ s >= 0 - Modulus
  BY <1>1 DEF Signed
<1>4. CASE n < W
  BY <1>2, <1>3, <1>4 DEF Sar
<1>5. CASE n >= W
  <2> DEFINE k == n - W
             p == Pow2[k]
             q == IF s < 0 THEN -1 ELSE 0
             r == s - Modulus * q
             t == s - P * q
  <2>1. k \in Nat /\ n = W + k
    BY <1>2, <1>5
  <2>2. p \in Nat \ {0} /\ P = Modulus * p
    <3> HIDE DEF k, W
    <3>1. Pow2[W + k] = Pow2[W] * Pow2[k]
      BY <1>2, <2>1, Pow2Sum
    <3> QED BY <2>1, <3>1, Pow2Positive DEF Modulus, W
  <2> HIDE DEF p, P, s
  <2>3. Modulus * p >= Modulus
    BY <1>1, <2>2
  <2>4. P >= Modulus /\ P \in Nat
    BY <1>2, <2>2, <2>3
  <2>5. q \in Int /\ r \in Nat /\ r < Modulus /\ t \in Nat /\ t < P
    BY <1>1, <1>3, <2>4
  <2>6. s = Modulus * q + r /\ s = P * q + t
    <3> HIDE DEF q
    <3> QED BY <1>1, <1>3, <2>4, <2>5
  <2> HIDE DEF q, r, t
  <2>7. s \div Modulus = q /\ s \div P = q
    BY <1>1, <1>3, <2>4, <2>5, <2>6, FloorIs
  <2>8. Sar(x, n) = (s \div Modulus) % Modulus
    <3>1. Sar(x, n) = (Signed(x) \div Pow2[W]) % Modulus
      <4>1. (IF n >= W THEN W ELSE n) = W
        BY <1>5
      <4> QED BY <4>1 DEF Sar
    <3> QED BY <1>2, <3>1 DEF s
  <2> QED BY <1>3, <2>7, <2>8 DEF s, P
<1> QED BY <1>2, <1>3, <1>4, <1>5

\* The power of two of a shift amount cuts a byte, or is beyond three of them.
Cut0(P, q, s) == q \in Nat \ {0} /\ s \in Nat \ {0} /\ B = q * s /\ P = q
Cut1(P, q, s) == q \in Nat \ {0} /\ s \in Nat \ {0} /\ B = q * s /\ P = B * q
Cut2(P, q, s) == q \in Nat \ {0} /\ s \in Nat \ {0} /\ B = q * s /\ P = (B * B) * q
Cut3(P, s)    == s \in Nat \ {0} /\ P = (B * B * B) * s

\* A power of two cuts a byte at some bit and drops up to three bytes, or it is more than three bytes.
LEMMA Cuts ==
  ASSUME NEW k, k \in Nat
  PROVE  \/ \E q, s : Cut0(Pow2[k], q, s) \/ Cut1(Pow2[k], q, s) \/ Cut2(Pow2[k], q, s)
         \/ \E s : Cut3(Pow2[k], s)
<1> DEFINE W == ByteWidth
<1>1. W \in Nat /\ W >= 1
  BY WidthAssumption
<1> HIDE DEF W
<1>2. ASSUME NEW i, i \in Nat, k >= i, k < i + W
      PROVE  \E q, s : q \in Nat \ {0} /\ s \in Nat \ {0} /\ B = q * s /\ Pow2[k] = Pow2[i] * q
  <2> DEFINE a == k - i
             b == i + W - k
  <2>1. a \in Nat /\ b \in Nat /\ i + a = k /\ a + b = W
    BY <1>1, <1>2
  <2> HIDE DEF a, b
  <2>2. Pow2[i + a] = Pow2[i] * Pow2[a] /\ Pow2[a + b] = Pow2[a] * Pow2[b]
    BY <1>2, <2>1, Pow2Sum
  <2>3. Pow2[a] \in Nat \ {0} /\ Pow2[b] \in Nat \ {0}
    BY <2>1, Pow2Positive
  <2> QED BY <2>1, <2>2, <2>3 DEF B, W
<1> DEFINE z == 0
           W2 == 2 * W
           W3 == 3 * W
<1>3. /\ z \in Nat /\ W2 \in Nat /\ W3 \in Nat /\ Pow2[z] = 1 /\ Pow2[W] = B /\ Pow2[W2] = B * B /\ Pow2[W3] = B * B * B
      /\ z + W = W /\ W + W = W2 /\ W2 + W = W3
  BY <1>1, Widths, Pow2Def DEF W
<1> HIDE DEF z, W2, W3
<1>4. CASE k < W
  <2>1. k >= z /\ k < z + W
    BY <1>3, <1>4 DEF z
  <2>2. PICK q, s : q \in Nat \ {0} /\ s \in Nat \ {0} /\ B = q * s /\ Pow2[k] = Pow2[z] * q
    BY <1>2, <1>3, <2>1
  <2>3. Pow2[k] = q
    BY <1>3, <2>2
  <2> QED BY <2>2, <2>3 DEF Cut0
<1>5. CASE k >= W /\ k < W2
  <2>1. PICK q, s : q \in Nat \ {0} /\ s \in Nat \ {0} /\ B = q * s /\ Pow2[k] = Pow2[W] * q
    BY <1>1, <1>2, <1>3, <1>5
  <2> QED BY <1>3, <2>1 DEF Cut1
<1>6. CASE k >= W2 /\ k < W3
  <2>1. PICK q, s : q \in Nat \ {0} /\ s \in Nat \ {0} /\ B = q * s /\ Pow2[k] = Pow2[W2] * q
    BY <1>1, <1>2, <1>3, <1>6
  <2> QED BY <1>3, <2>1 DEF Cut2
<1>7. CASE k >= W3
  <2> DEFINE a == k - W3
  <2>1. a \in Nat /\ W3 + a = k
    BY <1>3, <1>7
  <2> HIDE DEF a
  <2>2. Pow2[W3 + a] = Pow2[W3] * Pow2[a] /\ Pow2[a] \in Nat \ {0}
    BY <1>3, <2>1, Pow2Sum, Pow2Positive
  <2> QED BY <1>3, <2>1, <2>2 DEF Cut3
<1>8. k < W \/ (k >= W /\ k < W2) \/ (k >= W2 /\ k < W3) \/ k >= W3
  BY <1>1, <1>3
<1> QED BY <1>4, <1>5, <1>6, <1>7, <1>8

\* The top byte, signed or not, shifts by itself.
LEMMA TopApart ==
  ASSUME NEW P, NEW y, NEW c, NEW D, NEW s, D \in Nat \ {0}, P \in Nat \ {0}, s \in Nat \ {0},
         y \in Nat, y < D, c \in Int, D = P * s \/ P = D * s
  PROVE  /\ (y + D * c) \div P = (y \div P) + ((D * c) \div P)
         /\ y \div P \in Int /\ (D * c) \div P \in Int
<1> DEFINE e == D * c
           u == y + e
<1>1. e \in Int /\ u \in Int /\ y \in Int /\ P \in Nat
  OBVIOUS
<1>2. PICK q \in Int, r \in Nat : r < P /\ y = P * q + r /\ y \div P = q
  BY <1>1, FloorOf
<1>3. CASE D = P * s
  <2> DEFINE t == s * c
             v == q + t
             z == 0
  <2>1. t \in Int /\ v \in Int /\ z \in Nat /\ z < P
    BY <1>2
  <2>2. e = P * t + z
    BY <1>3
  <2>3. P * v = P * q + P * t
    <3> HIDE DEF t
    <3> QED BY <1>2, <2>1
  <2> HIDE DEF e, t, z
  <2>4. u = P * v + r
    <3> DEFINE a == P * q
               b == P * t
               d == P * v
    <3>1. a \in Int /\ b \in Int /\ d \in Int /\ d = a + b /\ y = a + r /\ e = b
      BY <1>2, <2>1, <2>2, <2>3 DEF z
    <3> HIDE DEF a, b, d
    <3>2. u = d + r
      BY <1>1, <1>2, <3>1
    <3> QED BY <3>2 DEF d
  <2> HIDE DEF u, v
  <2>5. u \div P = v /\ e \div P = t
    BY <1>1, <1>2, <2>1, <2>2, <2>4, FloorIs
  <2> QED BY <1>2, <2>1, <2>5 DEF v, u, e
<1>4. CASE P = D * s
  <2>1. PICK d \in Int, f \in Nat : f < s /\ c = s * d + f /\ c \div s = d
    <3>1. \E d \in Int, f \in Nat : f < s /\ c = s * d + f /\ c \div s = d /\ c % s = f
      BY FloorOf
    <3> QED BY <3>1
  <2> DEFINE g == D * f
             h == y + g
             z == 0
  <2>2. g \in Nat /\ g <= P - D
    <3>1. g \in Nat /\ g <= D * (s - 1)
      BY <2>1
    <3>2. D * (s - 1) = D * s - D
      OBVIOUS
    <3> QED BY <1>4, <3>1, <3>2
  <2>3. e = P * d + g
    <3>1. D * (s * d + f) = (D * s) * d + D * f
      BY <2>1
    <3> QED BY <1>4, <2>1, <3>1
  <2>4. h \in Nat /\ h < P /\ g < P /\ D <= P
    <3> HIDE DEF g
    <3> QED BY <2>2
  <2>5. u = P * d + h
    <3> DEFINE a == P * d
    <3>1. a \in Int
      BY <2>1
    <3> HIDE DEF e, g, a
    <3>2. e = a + g
      BY <2>3 DEF a
    <3>3. u = a + h
      BY <2>2, <3>1, <3>2
    <3> QED BY <3>3 DEF a
  <2> HIDE DEF u, e, h, g
  <2>6. u \div P = d /\ e \div P = d
    BY <1>1, <2>1, <2>2, <2>3, <2>4, <2>5, FloorIs
  <2>7. y \div P = z
    <3>1. y < P /\ y = P * z + y /\ z \in Int
      BY <2>4
    <3> HIDE DEF z
    <3> QED BY <1>1, <3>1, FloorIs
  <2> QED BY <2>1, <2>6, <2>7 DEF z, u, e
<1> QED BY <1>3, <1>4

\* The parts of a byte on the two sides of a cut.
Lo(b, q)    == b \div q
Hi(b, q, s) == s * (b % q)

Factors(q, s) == q \in Nat \ {0} /\ s \in Nat \ {0} /\ B = q * s

Parted(b, q) == \E r \in Nat : r < q /\ b = q * Lo(b, q) + r

\* A byte cut in two: the low part goes up to the byte below.
LEMMA Parts ==
  ASSUME NEW b, NEW q, NEW s, b \in Byte, Factors(q, s)
  PROVE  /\ Lo(b, q) \in Nat /\ Lo(b, q) < s /\ Lo(b, q) \in Byte
         /\ Hi(b, q, s) \in Nat /\ Hi(b, q, s) <= B - s /\ Hi(b, q, s) \in Byte
         /\ s * b = B * Lo(b, q) + Hi(b, q, s)
         /\ Parted(b, q)
<1>1. /\ b \in Nat /\ b < B /\ B \in Nat /\ b \in Int
      /\ q \in Nat \ {0} /\ s \in Nat \ {0} /\ B = q * s
  BY ByteNat, WidthBounds DEF Factors
<1>2. PICK l \in Int, r \in Nat : r < q /\ b = q * l + r /\ b \div q = l /\ b % q = r
  BY <1>1, FloorOf
<1> DEFINE h == s * r
<1>3. l \in Nat /\ l <= b
  BY <1>1, <1>2, FloorBelow
<1>4. l < s
  <2>1. l >= s => q * l >= q * s
    BY <1>1, <1>2
  <2> QED BY <1>1, <1>2, <1>3, <2>1
<1>5. h \in Nat /\ h <= B - s
  <2>1. h <= s * (q - 1) /\ h \in Nat
    BY <1>1, <1>2
  <2>2. s * (q - 1) = q * s - s
    BY <1>1
  <2> HIDE DEF h
  <2> QED BY <1>1, <2>1, <2>2
<1>6. s * b = B * l + h
  <2>1. s * (q * l + r) = (q * s) * l + s * r
    BY <1>1, <1>2
  <2> QED BY <1>1, <1>2, <2>1
<1>7. Lo(b, q) = l /\ Hi(b, q, s) = h
  BY <1>2 DEF Lo, Hi
<1> HIDE DEF h
<1>8. l \in Byte /\ h \in Byte
  <2>1. h < B /\ l < B
    BY <1>1, <1>3, <1>5
  <2> QED BY <1>3, <1>5, <2>1, ByteNat
<1>9. Parted(b, q)
  BY <1>2, <1>7 DEF Parted
<1> QED BY <1>3, <1>4, <1>5, <1>6, <1>7, <1>8, <1>9

\* A row of the srl table: where the parts of the byte are.
LEMMA RowOf ==
  ASSUME NEW b, NEW k, b \in Byte, k \in Nat
  PROVE  SrlRow(b, k) = (b * (B * B * B)) \div Pow2[k] /\ b * (B * B * B) \in Word
<1> DEFINE B3 == B * B * B
           x == b * B3
<1>1. b \in Nat /\ b < B /\ B \in Nat /\ B3 \in Nat /\ Modulus = B * B3
  BY ByteNat, Sizes
<1>2. b * B * B * B = x
  BY <1>1
<1> HIDE DEF B3
<1>3. x \in Nat /\ x <= (B - 1) * B3
  BY <1>1
<1>4. (B - 1) * B3 = B * B3 - B3 /\ B3 >= 1
  BY <1>1, Sizes DEF B3
<1>5. x \in Word
  <2> HIDE DEF x
  <2> QED BY <1>1, <1>3, <1>4, WordNat DEF Word
<1> HIDE DEF x
<1>6. Shr(x, k) = x \div Pow2[k]
  BY <1>5, ShrPlain
<1>7. SrlRow(b, k) = Shr(x, k)
  BY <1>2 DEF SrlRow
<1> QED BY <1>5, <1>6, <1>7 DEF x, B3

\* The two parts of a byte, where the shift amount puts them.
LEMMA RowCut ==
  ASSUME NEW b, NEW k, NEW q, NEW s, b \in Byte, k \in Nat
  PROVE  /\ Cut0(Pow2[k], q, s) => SrlRow(b, k) = Wd(0, 0, Hi(b, q, s), Lo(b, q))
         /\ Cut1(Pow2[k], q, s) => SrlRow(b, k) = Wd(0, Hi(b, q, s), Lo(b, q), 0)
         /\ Cut2(Pow2[k], q, s) => SrlRow(b, k) = Wd(Hi(b, q, s), Lo(b, q), 0, 0)
<1> DEFINE P == Pow2[k]
           l == Lo(b, q)
           h == Hi(b, q, s)
           B3 == B * B * B
           x == b * B3
           t == s * b
           z == 0
<1>1. P \in Nat \ {0} /\ B \in Nat /\ b \in Nat
  BY Pow2Positive, WidthBounds, ByteNat
<1>2. SrlRow(b, k) = x \div P /\ x \in Nat
  BY RowOf, WordNat
<1>3. ASSUME Factors(q, s)
      PROVE  l \in Nat /\ h \in Nat /\ t = B * l + h /\ x = q * (t * (B * B)) /\ t \in Nat
  <2>1. l \in Nat /\ h \in Nat /\ t = B * l + h
    BY <1>3, Parts
  <2> USE <1>3 DEF Factors
  <2>2. x = q * (t * (B * B))
    <3> DEFINE C == B * B
    <3>1. C \in Nat /\ x = b * (B * C)
      BY <1>1
    <3> HIDE DEF C
    <3>2. b * ((q * s) * C) = q * ((s * b) * C)
      BY <1>1, <1>3, <3>1
    <3> QED BY <1>3, <3>1, <3>2 DEF C
  <2> QED BY <1>1, <1>3, <2>1, <2>2
<1> HIDE DEF P, l, h, x, t
<1>4. ASSUME Cut0(P, q, s) PROVE SrlRow(b, k) = Wd(0, 0, h, l)
  <2>1. q \in Nat \ {0} /\ s \in Nat \ {0} /\ B = q * s /\ P = q /\ Factors(q, s)
    BY <1>4 DEF Cut0, Factors
  <2> DEFINE v == t * (B * B)
  <2>2. x = P * v + z /\ v \in Int /\ z \in Nat /\ z < P /\ P \in Nat
    BY <1>1, <1>3, <2>1
  <2>3. v = Wd(0, 0, h, l)
    <3> DEFINE C == B * B
               u == B * l
    <3>1. C \in Nat /\ u \in Nat /\ B * B * B = B * C
      BY <1>1, <1>3, <2>1
    <3>2. Wd(0, 0, h, l) = C * h + (B * C) * l
      <4>1. C * h \in Nat /\ (B * C) * l \in Nat
        <5> HIDE DEF C
        <5> QED BY <1>1, <1>3, <2>1, <3>1
      <4> QED BY <1>1, <3>1, <4>1 DEF Wd
    <3>3. v = (u + h) * C
      BY <1>3, <2>1
    <3> HIDE DEF v, C
    <3>4. (u + h) * C = u * C + h * C
      <4> HIDE DEF u
      <4> QED BY <1>3, <2>1, <3>1
    <3>5. u * C = (B * C) * l
      BY <1>1, <1>3, <2>1, <3>1
    <3> HIDE DEF u
    <3> QED BY <1>1, <1>3, <2>1, <3>1, <3>2, <3>3, <3>4, <3>5
  <2> HIDE DEF v, z
  <2>4. x \div P = v
    BY <1>2, <2>2, FloorIs
  <2> QED BY <1>2, <2>3, <2>4
<1>5. ASSUME Cut1(P, q, s) PROVE SrlRow(b, k) = Wd(0, h, l, 0)
  <2>1. q \in Nat \ {0} /\ s \in Nat \ {0} /\ B = q * s /\ P = B * q /\ Factors(q, s)
    BY <1>5 DEF Cut1, Factors
  <2> DEFINE v == t * B
  <2>2. x = P * v + z /\ v \in Int /\ z \in Nat /\ z < P /\ P \in Nat
    <3>1. q * (t * (B * B)) = (B * q) * (t * B)
      BY <1>1, <1>3, <2>1
    <3> QED BY <1>1, <1>3, <2>1, <3>1
  <2>3. v = Wd(0, h, l, 0)
    BY <1>1, <1>3, <2>1 DEF Wd
  <2> HIDE DEF v, z
  <2>4. x \div P = v
    BY <1>2, <2>2, FloorIs
  <2> QED BY <1>2, <2>3, <2>4
<1>6. ASSUME Cut2(P, q, s) PROVE SrlRow(b, k) = Wd(h, l, 0, 0)
  <2>1. q \in Nat \ {0} /\ s \in Nat \ {0} /\ B = q * s /\ P = (B * B) * q /\ Factors(q, s)
    BY <1>6 DEF Cut2, Factors
  <2>2. x = P * t + z /\ t \in Int /\ z \in Nat /\ z < P /\ P \in Nat
    <3>1. q * (t * (B * B)) = ((B * B) * q) * t
      BY <1>1, <1>3, <2>1
    <3> QED BY <1>1, <1>3, <2>1, <3>1
  <2>3. t = Wd(h, l, 0, 0)
    BY <1>1, <1>3, <2>1 DEF Wd
  <2> HIDE DEF z
  <2>4. x \div P = t
    BY <1>2, <2>2, FloorIs
  <2> QED BY <1>2, <2>3, <2>4
<1> QED BY <1>4, <1>5, <1>6 DEF P, l, h

\* A shift by three bytes or more leaves the lowest byte only.
LEMMA RowBeyond ==
  ASSUME NEW b, NEW k, NEW s, b \in Byte, k \in Nat, Cut3(Pow2[k], s)
  PROVE  \E c \in Byte : SrlRow(b, k) = Wd(c, 0, 0, 0)
<1> DEFINE P == Pow2[k]
           D == B * B * B
           x == b * D
           e == s * D
<1>1. P \in Nat \ {0} /\ B \in Nat /\ b \in Nat /\ b < B /\ D \in Nat \ {0} /\ s \in Nat \ {0} /\ P = D * s
  BY Pow2Positive, Sizes, ByteNat DEF Cut3
<1>2. SrlRow(b, k) = x \div P
  BY RowOf
<1>3. PICK q \in Int, r \in Nat : r < s /\ b = s * q + r /\ b \div s = q
  <2>1. b \in Int
    BY <1>1
  <2>2. \E q \in Int, r \in Nat : r < s /\ b = s * q + r /\ b \div s = q /\ b % s = r
    BY <1>1, <2>1, FloorOf
  <2> QED BY <2>2
<1>4. q \in Nat /\ q <= b
  BY <1>1, <1>3, FloorBelow
<1> HIDE DEF P, D
<1> DEFINE u == D * r
<1>5. u \in Nat /\ u < P
  <2>1. u <= D * (s - 1) /\ u \in Nat
    BY <1>1, <1>3
  <2>2. D * (s - 1) = D * s - D
    BY <1>1
  <2> HIDE DEF u
  <2> QED BY <1>1, <2>1, <2>2
<1>6. x = P * q + u /\ x \in Int
  <2>1. (s * q + r) * D = (D * s) * q + D * r
    BY <1>1, <1>3
  <2> QED BY <1>1, <1>3, <2>1
<1> HIDE DEF x, u
<1>7. x \div P = q
  BY <1>1, <1>3, <1>5, <1>6, FloorIs
<1>8. q \in Byte
  BY <1>1, <1>4, ByteNat
<1> QED BY <1>2, <1>7, <1>8, ByteWord

\* What the three low bytes of a word give to the bytes of the result.
Share0(a, b, c, k) == ByteOf(SrlRow(c, k), 1) + ByteOf(SrlRow(b, k), 2) + ByteOf(SrlRow(a, k), 3)
Share1(b, c, k)    == ByteOf(SrlRow(c, k), 2) + ByteOf(SrlRow(b, k), 3)
Share2(c, k)       == ByteOf(SrlRow(c, k), 3)

Shares(a, b, c, k, u, v, w) == Share0(a, b, c, k) = u /\ Share1(b, c, k) = v /\ Share2(c, k) = w

\* The shares of three bytes, by where the cut is.
LEMMA SharesOf ==
  ASSUME NEW a, NEW b, NEW c, NEW k, NEW q, NEW s, NEW P, a \in Byte, b \in Byte, c \in Byte, k \in Nat,
         Factors(q, s), P = Pow2[k]
  PROVE  /\ Cut0(P, q, s) =>
              Shares(a, b, c, k, 0 + Hi(b, q, s) + Lo(a, q), Hi(c, q, s) + Lo(b, q), Lo(c, q))
         /\ Cut1(P, q, s) => Shares(a, b, c, k, Hi(c, q, s) + Lo(b, q) + 0, Lo(c, q) + 0, 0)
         /\ Cut2(P, q, s) => Shares(a, b, c, k, Lo(c, q) + 0 + 0, 0 + 0, 0)
<1>1. 0 \in Byte /\ Lo(a, q) \in Byte /\ Lo(b, q) \in Byte /\ Lo(c, q) \in Byte
  BY ZeroBytes, Parts
<1>2. Hi(a, q, s) \in Byte /\ Hi(b, q, s) \in Byte /\ Hi(c, q, s) \in Byte
  BY Parts
<1>3. ASSUME Cut0(P, q, s) PROVE Shares(a, b, c, k, 0 + Hi(b, q, s) + Lo(a, q), Hi(c, q, s) + Lo(b, q), Lo(c, q))
  <2>1. /\ SrlRow(a, k) = Wd(0, 0, Hi(a, q, s), Lo(a, q)) /\ SrlRow(b, k) = Wd(0, 0, Hi(b, q, s), Lo(b, q))
        /\ SrlRow(c, k) = Wd(0, 0, Hi(c, q, s), Lo(c, q))
    BY <1>3, RowCut
  <2>2. /\ ByteOf(SrlRow(c, k), 1) = 0 /\ ByteOf(SrlRow(b, k), 2) = Hi(b, q, s) /\ ByteOf(SrlRow(a, k), 3) = Lo(a, q)
        /\ ByteOf(SrlRow(c, k), 2) = Hi(c, q, s) /\ ByteOf(SrlRow(b, k), 3) = Lo(b, q)
        /\ ByteOf(SrlRow(c, k), 3) = Lo(c, q)
    BY <1>1, <1>2, <2>1, ByteOfWd
  <2> QED BY <2>2 DEF Shares, Share0, Share1, Share2
<1>4. ASSUME Cut1(P, q, s) PROVE Shares(a, b, c, k, Hi(c, q, s) + Lo(b, q) + 0, Lo(c, q) + 0, 0)
  <2>1. /\ SrlRow(a, k) = Wd(0, Hi(a, q, s), Lo(a, q), 0) /\ SrlRow(b, k) = Wd(0, Hi(b, q, s), Lo(b, q), 0)
        /\ SrlRow(c, k) = Wd(0, Hi(c, q, s), Lo(c, q), 0)
    BY <1>4, RowCut
  <2>2. /\ ByteOf(SrlRow(c, k), 1) = Hi(c, q, s) /\ ByteOf(SrlRow(b, k), 2) = Lo(b, q) /\ ByteOf(SrlRow(a, k), 3) = 0
        /\ ByteOf(SrlRow(c, k), 2) = Lo(c, q) /\ ByteOf(SrlRow(b, k), 3) = 0 /\ ByteOf(SrlRow(c, k), 3) = 0
    BY <1>1, <1>2, <2>1, ByteOfWd
  <2> QED BY <2>2 DEF Shares, Share0, Share1, Share2
<1>5. ASSUME Cut2(P, q, s) PROVE Shares(a, b, c, k, Lo(c, q) + 0 + 0, 0 + 0, 0)
  <2>1. /\ SrlRow(a, k) = Wd(Hi(a, q, s), Lo(a, q), 0, 0) /\ SrlRow(b, k) = Wd(Hi(b, q, s), Lo(b, q), 0, 0)
        /\ SrlRow(c, k) = Wd(Hi(c, q, s), Lo(c, q), 0, 0)
    BY <1>5, RowCut
  <2>2. /\ ByteOf(SrlRow(c, k), 1) = Lo(c, q) /\ ByteOf(SrlRow(b, k), 2) = 0 /\ ByteOf(SrlRow(a, k), 3) = 0
        /\ ByteOf(SrlRow(c, k), 2) = 0 /\ ByteOf(SrlRow(b, k), 3) = 0 /\ ByteOf(SrlRow(c, k), 3) = 0
    BY <1>1, <1>2, <2>1, ByteOfWd
  <2> QED BY <2>2 DEF Shares, Share0, Share1, Share2
<1> QED BY <1>3, <1>4, <1>5

\* The quotient of three bytes by a cut.
Quot(P, y, v) == \E r \in Nat : r < P /\ y = P * v + r

\* A quotient that is bounded on both sides.
LEMMA QuotOf ==
  ASSUME NEW P, NEW y, NEW v, y \in Nat, v \in Nat, P \in Nat, Quot(P, y, v)
  PROVE  y \div P = v
<1>1. PICK r \in Nat : r < P /\ y = P * v + r
  BY DEF Quot
<1>2. y \in Int /\ v \in Int
  OBVIOUS
<1> QED BY <1>1, <1>2, FloorIs

\* The quotient of three bytes when the cut is in the first.
LEMMA QuotCut0 ==
  ASSUME NEW a, NEW b, NEW c, NEW P, NEW q, NEW s, a \in Byte, b \in Byte, c \in Byte, Cut0(P, q, s)
  PROVE  Quot(P, a + B * b + (B * B) * c, (Lo(a, q) + Hi(b, q, s)) + B * (Lo(b, q) + Hi(c, q, s)) + (B * B) * Lo(c, q))
<1> DEFINE fa == Lo(a, q)
           fb == Lo(b, q)
           fc == Lo(c, q)
           gb == Hi(b, q, s)
           gc == Hi(c, q, s)
           v == (fa + gb) + B * (fb + gc) + (B * B) * fc
           y == a + B * b + (B * B) * c
<1>1. q \in Nat \ {0} /\ s \in Nat \ {0} /\ B = q * s /\ P = q /\ Factors(q, s)
  BY DEF Cut0, Factors
<1>2. /\ fa \in Nat /\ fb \in Nat /\ fc \in Nat /\ gb \in Nat /\ gc \in Nat /\ s * b = B * fb + gb
      /\ s * c = B * fc + gc
  <2>1. Factors(q, s)
    BY <1>1
  <2>2. Lo(a, q) \in Nat /\ Lo(b, q) \in Nat /\ Lo(c, q) \in Nat /\ Hi(b, q, s) \in Nat /\ Hi(c, q, s) \in Nat
    BY <2>1, Parts
  <2>3. s * b = B * Lo(b, q) + Hi(b, q, s)
    BY <2>1, Parts
  <2>4. s * c = B * Lo(c, q) + Hi(c, q, s)
    BY <2>1, Parts
  <2> QED BY <2>2, <2>3, <2>4
<1>3. PICK r \in Nat : r < q /\ a = q * fa + r
  <2>1. Factors(q, s)
    BY <1>1
  <2>2. Parted(a, q)
    BY <2>1, Parts
  <2> QED BY <2>2 DEF Parted
<1>4. a \in Nat /\ b \in Nat /\ c \in Nat /\ B \in Nat
  BY ByteNat, WidthBounds
<1> HIDE DEF fa, fb, fc, gb, gc
<1>5. B * b = q * (B * fb) + q * gb
  <2> DEFINE u == B * fb
  <2>1. u \in Nat
    BY <1>2, <1>4
  <2>2. (q * s) * b = q * (s * b)
    BY <1>1, <1>4
  <2>3. s * b = u + gb
    BY <1>2
  <2> HIDE DEF u
  <2>4. q * (u + gb) = q * u + q * gb
    BY <1>1, <1>2, <2>1
  <2>5. B * b = q * (s * b)
    BY <1>1, <2>2
  <2>6. B * b = q * u + q * gb
    BY <2>3, <2>4, <2>5
  <2> QED BY <2>6 DEF u
<1>6. (B * B) * c = q * ((B * B) * fc) + q * (B * gc)
  <2> DEFINE u == (B * B) * fc
             w == B * gc
  <2>1. u \in Nat /\ w \in Nat
    BY <1>2, <1>4
  <2>2. (B * B) * c = q * (B * (s * c))
    <3>1. ((q * s) * B) * c = q * (B * (s * c))
      BY <1>1, <1>4
    <3> QED BY <1>1, <3>1
  <2>3. B * (s * c) = u + w
    <3>1. B * (B * fc + gc) = (B * B) * fc + B * gc
      BY <1>2, <1>4
    <3> QED BY <1>2, <3>1
  <2> HIDE DEF u, w
  <2>4. q * (u + w) = q * u + q * w
    BY <1>1, <2>1
  <2>5. (B * B) * c = q * u + q * w
    BY <2>2, <2>3, <2>4
  <2> QED BY <2>5 DEF u, w
<1>7. y = q * v + r
  <2> DEFINE e == B * fb
             f == B * gc
             g == (B * B) * fc
             z == B * b
             x == (B * B) * c
  <2>1. e \in Nat /\ f \in Nat /\ g \in Nat /\ z \in Nat /\ x \in Nat
    <3> DEFINE C == B * B
    <3>1. C \in Nat
      BY <1>4
    <3> HIDE DEF C
    <3>2. C * fc \in Nat /\ C * c \in Nat /\ e \in Nat /\ f \in Nat /\ z \in Nat
      BY <1>2, <1>4, <3>1
    <3> QED BY <3>2 DEF C
  <2>2. v = fa + gb + e + f + g
    <3>1. B * (fb + gc) = B * fb + B * gc
      BY <1>2, <1>4
    <3> HIDE DEF g
    <3>2. (fa + gb) + (e + f) + g = fa + gb + e + f + g
      <4> HIDE DEF e, f
      <4> QED BY <1>2, <2>1
    <3> QED BY <3>1, <3>2 DEF g
  <2>3. z = q * e + q * gb /\ x = q * g + q * f
    BY <1>5, <1>6
  <2>4. y = a + z + x
    OBVIOUS
  <2> HIDE DEF e, f, g, z, x, v, y
  <2>5. q * (fa + gb + e + f + g) = q * fa + q * gb + q * e + q * f + q * g
    BY <1>1, <1>2, <2>1
  <2> DEFINE u1 == q * fa
             u2 == q * gb
             u3 == q * e
             u4 == q * f
             u5 == q * g
  <2>6. u1 \in Nat /\ u2 \in Nat /\ u3 \in Nat /\ u4 \in Nat /\ u5 \in Nat
    BY <1>1, <1>2, <2>1
  <2>7. q * v = u1 + u2 + u3 + u4 + u5 /\ y = (u1 + r) + (u3 + u2) + (u5 + u4)
    BY <1>3, <2>2, <2>3, <2>4, <2>5
  <2> HIDE DEF u1, u2, u3, u4, u5
  <2> QED BY <1>3, <2>6, <2>7
<1> QED BY <1>1, <1>3, <1>7 DEF Quot, fa, fb, fc, gb, gc

\* The quotient of three bytes when the cut is in the second.
LEMMA QuotCut1 ==
  ASSUME NEW a, NEW b, NEW c, NEW P, NEW q, NEW s, a \in Byte, b \in Byte, c \in Byte, Cut1(P, q, s)
  PROVE  Quot(P, a + B * b + (B * B) * c, (Lo(b, q) + Hi(c, q, s)) + B * Lo(c, q))
<1> DEFINE fb == Lo(b, q)
           fc == Lo(c, q)
           gc == Hi(c, q, s)
           v == (fb + gc) + B * fc
           y == a + B * b + (B * B) * c
<1>1. q \in Nat \ {0} /\ s \in Nat \ {0} /\ B = q * s /\ P = B * q /\ Factors(q, s)
  BY DEF Cut1, Factors
<1>2. fb \in Nat /\ fc \in Nat /\ gc \in Nat /\ s * c = B * fc + gc
  <2>1. Factors(q, s)
    BY <1>1
  <2>2. Lo(a, q) \in Nat /\ Lo(b, q) \in Nat /\ Lo(c, q) \in Nat /\ Hi(b, q, s) \in Nat /\ Hi(c, q, s) \in Nat
    BY <2>1, Parts
  <2>3. s * b = B * Lo(b, q) + Hi(b, q, s)
    BY <2>1, Parts
  <2>4. s * c = B * Lo(c, q) + Hi(c, q, s)
    BY <2>1, Parts
  <2> QED BY <2>2, <2>3, <2>4
<1>3. PICK r \in Nat : r < q /\ b = q * fb + r
  <2>1. Factors(q, s)
    BY <1>1
  <2>2. Parted(b, q)
    BY <2>1, Parts
  <2> QED BY <2>2 DEF Parted
<1>4. a \in Nat /\ a < B /\ b \in Nat /\ c \in Nat /\ B \in Nat
  BY ByteNat, WidthBounds
<1> HIDE DEF fb, fc, gc
<1> DEFINE t == a + B * r
<1>5. t \in Nat /\ t < P
  <2>1. B * r <= B * (q - 1) /\ B * r \in Nat
    BY <1>1, <1>3, <1>4
  <2>2. B * (q - 1) = B * q - B /\ B * q \in Nat
    BY <1>1, <1>4
  <2> DEFINE u == B * r
             w == B * q
  <2>3. u \in Nat /\ u <= w - B /\ w \in Nat /\ P = w
    BY <1>1, <2>1, <2>2
  <2> HIDE DEF u, w
  <2>4. a + u \in Nat /\ a + u < P
    BY <1>4, <2>3
  <2> QED BY <2>4 DEF u
<1>6. y = P * v + t
  <2> DEFINE w == B * fc
             Q == B * q
             u1 == Q * fb
             u2 == Q * w
             u3 == Q * gc
             u4 == B * r
  <2>1. w \in Nat /\ Q \in Nat
    BY <1>1, <1>2, <1>4
  <2>2. B * b = u1 + u4
    <3>1. B * (q * fb + r) = (B * q) * fb + B * r
      BY <1>1, <1>2, <1>3, <1>4
    <3> QED BY <1>3, <3>1
  <2>3. (B * B) * c = u2 + u3
    <3>1. (B * (q * s)) * c = (B * q) * (s * c)
      BY <1>1, <1>4
    <3>2. (B * B) * c = Q * (s * c)
      BY <1>1, <3>1
    <3>3. s * c = w + gc
      BY <1>2
    <3> HIDE DEF Q, w
    <3>4. Q * (w + gc) = Q * w + Q * gc
      BY <1>2, <2>1
    <3> QED BY <3>2, <3>3, <3>4
  <2>4. P * v = u1 + u3 + u2
    <3>1. P = Q /\ v = fb + gc + w
      BY <1>1
    <3> HIDE DEF Q, w
    <3>2. Q * (fb + gc + w) = Q * fb + Q * gc + Q * w
      BY <1>2, <2>1
    <3> QED BY <3>1, <3>2
  <2> HIDE DEF Q, w
  <2>5. u1 \in Nat /\ u2 \in Nat /\ u3 \in Nat /\ u4 \in Nat
    BY <1>2, <1>3, <1>4, <2>1
  <2> HIDE DEF u1, u2, u3, v
  <2>6. y = a + (u1 + u4) + (u2 + u3)
    BY <2>2, <2>3
  <2>7. t = a + u4
    OBVIOUS
  <2> HIDE DEF u4, t, y
  <2> QED BY <1>4, <2>4, <2>5, <2>6, <2>7
<1> QED BY <1>5, <1>6 DEF Quot, fb, fc, gc

\* The quotient of three bytes when the cut is in the third.
LEMMA QuotCut2 ==
  ASSUME NEW a, NEW b, NEW c, NEW P, NEW q, NEW s, a \in Byte, b \in Byte, c \in Byte, Cut2(P, q, s)
  PROVE  Quot(P, a + B * b + (B * B) * c, Lo(c, q))
<1> DEFINE fc == Lo(c, q)
           y == a + B * b + (B * B) * c
           D == B * B
<1>1. q \in Nat \ {0} /\ s \in Nat \ {0} /\ B = q * s /\ P = D * q /\ Factors(q, s)
  BY DEF Cut2, Factors
<1>2. fc \in Nat
  BY <1>1, Parts
<1>3. PICK r \in Nat : r < q /\ c = q * fc + r
  <2>1. Factors(q, s)
    BY <1>1
  <2>2. Parted(c, q)
    BY <2>1, Parts
  <2> QED BY <2>2 DEF Parted
<1>4. a \in Nat /\ a < B /\ b \in Nat /\ b < B /\ c \in Nat /\ B \in Nat /\ D \in Nat
  BY ByteNat, WidthBounds
<1> HIDE DEF fc
<1> DEFINE e == B * b
           u == D * r
           w == D * q
           t == a + e + u
<1>5. e \in Nat /\ a + e < D
  <2>1. e <= B * (B - 1) /\ e \in Nat
    BY <1>4
  <2>2. B * (B - 1) = B * B - B
    BY <1>4
  <2> HIDE DEF e
  <2>3. e <= D - B
    BY <2>1, <2>2
  <2> HIDE DEF D
  <2> QED BY <1>4, <2>1, <2>3
<1> HIDE DEF e
<1>6. t \in Nat /\ t < P
  <2> HIDE DEF D
  <2>1. u <= D * (q - 1) /\ u \in Nat
    BY <1>1, <1>3, <1>4
  <2>2. D * (q - 1) = D * q - D /\ w \in Nat
    BY <1>1, <1>4
  <2>3. u <= w - D /\ P = w
    BY <1>1, <2>1, <2>2
  <2> HIDE DEF u, w
  <2> QED BY <1>4, <1>5, <2>1, <2>2, <2>3
<1>7. y = P * fc + t
  <2>1. y = a + e + D * c
    BY DEF e
  <2> HIDE DEF D, y
  <2>2. D * (q * fc + r) = (D * q) * fc + D * r
    BY <1>1, <1>2, <1>3, <1>4
  <2> DEFINE x == P * fc
  <2>3. D * c = x + u /\ x \in Nat /\ u \in Nat
    BY <1>1, <1>2, <1>3, <1>4, <2>2
  <2> HIDE DEF x, u
  <2>4. y = x + t
    BY <1>4, <1>5, <2>1, <2>3
  <2> QED BY <2>4 DEF x
<1> QED BY <1>6, <1>7 DEF Quot, fc, y

\* The low part of a byte and the high part of the next fit in a byte: the additions of shift_right do not carry.
LEMMA SumByte ==
  ASSUME NEW b, NEW c, NEW q, NEW s, b \in Byte, c \in Byte, Factors(q, s)
  PROVE  /\ Lo(b, q) + Hi(c, q, s) \in Byte /\ Hi(c, q, s) + Lo(b, q) = Lo(b, q) + Hi(c, q, s)
<1>1. s \in Nat \ {0} /\ B \in Nat
  BY WidthBounds DEF Factors
<1>2. Lo(b, q) \in Nat /\ Lo(b, q) < s /\ Hi(c, q, s) \in Nat /\ Hi(c, q, s) <= B - s
  BY Parts
<1> DEFINE l == Lo(b, q)
           h == Hi(c, q, s)
<1>3. l \in Nat /\ l < s /\ h \in Nat /\ h <= B - s
  BY <1>2
<1> HIDE DEF l, h
<1>4. l + h \in Nat /\ l + h < B /\ h + l = l + h
  BY <1>1, <1>3
<1> QED BY <1>4, ByteNat DEF l, h

\* The three low bytes, shifted.
LEMMA LowThree ==
  ASSUME NEW a, NEW b, NEW c, NEW k, a \in Byte, b \in Byte, c \in Byte, k \in Nat
  PROVE  /\ Share0(a, b, c, k) \in Byte /\ Share1(b, c, k) \in Byte /\ Share2(c, k) \in Byte
         /\ (a + B * b + (B * B) * c) \div Pow2[k] = Wd(Share0(a, b, c, k), Share1(b, c, k), Share2(c, k), 0)
<1> DEFINE P == Pow2[k]
           C == B * B
           y == a + B * b + C * c
           u0 == Share0(a, b, c, k)
           u1 == Share1(b, c, k)
           u2 == Share2(c, k)
           w == Wd(u0, u1, u2, 0)
<1>1. /\ P \in Nat \ {0} /\ P \in Nat /\ B \in Nat /\ C \in Nat /\ a \in Nat /\ b \in Nat /\ c \in Nat
      /\ 0 \in Byte
  BY Pow2Positive, WidthBounds, ByteNat
<1>p. P = Pow2[k]
  OBVIOUS
<1> HIDE DEF P
<1>2. y \in Nat
  <2> HIDE DEF C
  <2> QED BY <1>1
<1>3. SUFFICES u0 \in Byte /\ u1 \in Byte /\ u2 \in Byte /\ Quot(P, y, w)
  <2>1. ASSUME u0 \in Byte, u1 \in Byte, u2 \in Byte, Quot(P, y, w) PROVE y \div P = w
    <3>1. w \in Nat
      BY <1>1, <2>1, WdWord, WordNat
    <3> HIDE DEF y, w
    <3> QED BY <1>1, <1>2, <2>1, <3>1, QuotOf
  <2> QED BY <1>3, <1>p, <2>1
<1>4. w = u0 + B * u1 + C * u2 + (B * B * B) * 0
  BY DEF Wd
<1>5. ASSUME u0 \in Nat, u1 \in Nat, u2 \in Nat PROVE w = u0 + B * u1 + C * u2
  <2> DEFINE D == B * B * B
  <2>1. D \in Nat
    BY Sizes
  <2> HIDE DEF u0, u1, u2, D, C
  <2>2. C * u2 \in Nat /\ B * u1 \in Nat /\ D * 0 = 0
    BY <1>1, <1>5, <2>1
  <2> QED BY <1>4, <1>5, <2>2 DEF D
<1>6. ASSUME NEW q, NEW s, Cut0(P, q, s) PROVE u0 \in Byte /\ u1 \in Byte /\ u2 \in Byte /\ Quot(P, y, w)
  <2>1. Factors(q, s)
    BY <1>6 DEF Cut0, Factors
  <2>2. u0 = 0 + Hi(b, q, s) + Lo(a, q) /\ u1 = Hi(c, q, s) + Lo(b, q) /\ u2 = Lo(c, q)
    <3>1. Shares(a, b, c, k, 0 + Hi(b, q, s) + Lo(a, q), Hi(c, q, s) + Lo(b, q), Lo(c, q))
      BY <1>p, <1>6, <2>1, SharesOf
    <3> QED BY <3>1 DEF Shares
  <2>3. Hi(b, q, s) \in Nat /\ Lo(c, q) \in Byte
    BY <2>1, Parts
  <2>4. u0 = Lo(a, q) + Hi(b, q, s) /\ u1 = Lo(b, q) + Hi(c, q, s)
    <3>1. Hi(b, q, s) + Lo(a, q) = Lo(a, q) + Hi(b, q, s) /\ Hi(c, q, s) + Lo(b, q) = Lo(b, q) + Hi(c, q, s)
      BY <2>1, SumByte
    <3>2. 0 + Hi(b, q, s) = Hi(b, q, s)
      BY <2>3
    <3> QED BY <2>2, <3>1, <3>2
  <2>5. u0 \in Byte /\ u1 \in Byte /\ u2 \in Byte
    BY <2>1, <2>2, <2>3, <2>4, SumByte
  <2>6. w = u0 + B * u1 + C * u2
    <3>1. u0 \in Nat /\ u1 \in Nat /\ u2 \in Nat
      BY <2>5, ByteNat
    <3> QED BY <1>5, <3>1
  <2>7. Quot(P, y, (Lo(a, q) + Hi(b, q, s)) + B * (Lo(b, q) + Hi(c, q, s)) + C * Lo(c, q))
    BY <1>6, QuotCut0
  <2> QED BY <2>2, <2>4, <2>5, <2>6, <2>7
<1>7. ASSUME NEW q, NEW s, Cut1(P, q, s) PROVE u0 \in Byte /\ u1 \in Byte /\ u2 \in Byte /\ Quot(P, y, w)
  <2>1. Factors(q, s)
    BY <1>7 DEF Cut1, Factors
  <2>2. u0 = Hi(c, q, s) + Lo(b, q) + 0 /\ u1 = Lo(c, q) + 0 /\ u2 = 0
    <3>1. Shares(a, b, c, k, Hi(c, q, s) + Lo(b, q) + 0, Lo(c, q) + 0, 0)
      BY <1>p, <1>7, <2>1, SharesOf
    <3> QED BY <3>1 DEF Shares
  <2>3. Lo(c, q) \in Byte /\ Lo(c, q) \in Nat /\ Lo(b, q) + Hi(c, q, s) \in Byte
        /\ Hi(c, q, s) + Lo(b, q) = Lo(b, q) + Hi(c, q, s)
    <3>1. Lo(c, q) \in Byte /\ Lo(c, q) \in Nat
      BY <2>1, Parts
    <3>2. Lo(b, q) + Hi(c, q, s) \in Byte /\ Hi(c, q, s) + Lo(b, q) = Lo(b, q) + Hi(c, q, s)
      BY <2>1, SumByte
    <3> QED BY <3>1, <3>2
  <2>4. u0 = Lo(b, q) + Hi(c, q, s) /\ u1 = Lo(c, q)
    <3>1. Hi(c, q, s) + Lo(b, q) \in Nat
      BY <2>3, ByteNat
    <3> DEFINE z == Hi(c, q, s) + Lo(b, q)
    <3>2. z + 0 = z
      <4>1. z \in Nat
        BY <3>1
      <4> HIDE DEF z
      <4> QED BY <4>1
    <3> QED BY <2>2, <2>3, <3>2
  <2>5. u0 \in Byte /\ u1 \in Byte /\ u2 \in Byte
    BY <1>1, <2>2, <2>3, <2>4
  <2>6. w = u0 + B * u1
    <3>1. u0 \in Nat /\ u1 \in Nat /\ u2 \in Nat /\ u2 = 0
      BY <2>2, <2>5, ByteNat
    <3>2. w = u0 + B * u1 + C * u2
      BY <1>5, <3>1
    <3> HIDE DEF u0, u1, u2, w, C
    <3> QED BY <1>1, <3>1, <3>2
  <2>7. Quot(P, y, (Lo(b, q) + Hi(c, q, s)) + B * Lo(c, q))
    BY <1>7, QuotCut1
  <2> QED BY <2>2, <2>4, <2>5, <2>6, <2>7
<1>8. ASSUME NEW q, NEW s, Cut2(P, q, s) PROVE u0 \in Byte /\ u1 \in Byte /\ u2 \in Byte /\ Quot(P, y, w)
  <2>1. Factors(q, s)
    BY <1>8 DEF Cut2, Factors
  <2>2. u0 = Lo(c, q) + 0 + 0 /\ u1 = 0 + 0 /\ u2 = 0
    <3>1. Shares(a, b, c, k, Lo(c, q) + 0 + 0, 0 + 0, 0)
      BY <1>p, <1>8, <2>1, SharesOf
    <3> QED BY <3>1 DEF Shares
  <2>3. Lo(c, q) \in Byte /\ Lo(c, q) \in Nat
    BY <2>1, Parts
  <2>4. u0 = Lo(c, q) /\ u1 = 0
    BY <2>2, <2>3
  <2>5. u0 \in Byte /\ u1 \in Byte /\ u2 \in Byte
    BY <1>1, <2>2, <2>3, <2>4
  <2>6. w = u0
    <3>1. u0 \in Nat /\ u1 = 0 /\ u2 = 0
      BY <2>2, <2>4, <2>5, ByteNat
    <3>2. w = u0 + B * u1 + C * u2
      BY <1>5, <3>1
    <3> HIDE DEF u0, u1, u2, w, C
    <3> QED BY <1>1, <3>1, <3>2
  <2>7. Quot(P, y, Lo(c, q))
    BY <1>8, QuotCut2
  <2> QED BY <2>4, <2>5, <2>6, <2>7
<1>9. ASSUME NEW s, Cut3(P, s) PROVE u0 \in Byte /\ u1 \in Byte /\ u2 \in Byte /\ Quot(P, y, w)
  <2>1. PICK ra \in Byte : SrlRow(a, k) = Wd(ra, 0, 0, 0)
    BY <1>9, <1>p, RowBeyond
  <2>2. PICK rb \in Byte : SrlRow(b, k) = Wd(rb, 0, 0, 0)
    BY <1>9, <1>p, RowBeyond
  <2>3. PICK rc \in Byte : SrlRow(c, k) = Wd(rc, 0, 0, 0)
    BY <1>9, <1>p, RowBeyond
  <2>4. /\ ByteOf(SrlRow(c, k), 1) = 0 /\ ByteOf(SrlRow(b, k), 2) = 0 /\ ByteOf(SrlRow(a, k), 3) = 0
        /\ ByteOf(SrlRow(c, k), 2) = 0 /\ ByteOf(SrlRow(b, k), 3) = 0 /\ ByteOf(SrlRow(c, k), 3) = 0
    BY <1>1, <2>1, <2>2, <2>3, ByteOfWd
  <2>5. u0 = 0 /\ u1 = 0 /\ u2 = 0
    BY <2>4 DEF Share0, Share1, Share2
  <2>6. w = 0
    <3>1. w = u0 + B * u1 + C * u2
      BY <1>5, <2>5
    <3> HIDE DEF u0, u1, u2, w, C
    <3> QED BY <1>1, <2>5, <3>1
  <2>7. Quot(P, y, 0)
    <3> DEFINE D == B * B * B
    <3>1. s \in Nat \ {0} /\ P = D * s /\ D \in Nat
      BY <1>9, Sizes DEF Cut3
    <3>2. D * s >= D
      <4> HIDE DEF D
      <4> QED BY <3>1
    <3>3. y < D
      <4>1. a < B /\ b < B /\ c < B
        BY ByteNat
      <4>2. B * b <= B * (B - 1) /\ C * c <= C * (B - 1)
        <5> HIDE DEF C
        <5> QED BY <1>1, <4>1
      <4>3. B * (B - 1) = C - B /\ C * (B - 1) = D - C
        <5>1. B * (B - 1) = B * B - B
          BY <1>1
        <5>2. C * (B - 1) = C * B - C /\ D = C * B
          <6>1. D = C * B
            BY <1>1
          <6> HIDE DEF C
          <6> QED BY <1>1, <6>1
        <5> QED BY <5>1, <5>2
      <4> DEFINE e == B * b
                 f == C * c
      <4>4. e <= C - B /\ f <= D - C /\ e \in Nat /\ f \in Nat
        <5>1. e \in Nat /\ f \in Nat
          <6> HIDE DEF C
          <6> QED BY <1>1
        <5> HIDE DEF C, D
        <5> QED BY <4>2, <4>3, <5>1
      <4> HIDE DEF e, f, C, D
      <4>5. a + e + f < D
        BY <1>1, <3>1, <4>1, <4>4
      <4> QED BY <4>5 DEF e, f
    <3> HIDE DEF P, y, D
    <3>4. y < P /\ y = P * 0 + y
      BY <1>1, <1>2, <3>1, <3>2, <3>3
    <3> QED BY <1>2, <3>4 DEF Quot
  <2> QED BY <1>1, <2>5, <2>6, <2>7
<1>10. \/ \E q, s : Cut0(P, q, s) \/ Cut1(P, q, s) \/ Cut2(P, q, s)
       \/ \E s : Cut3(P, s)
  BY Cuts DEF P
<1> QED BY <1>6, <1>7, <1>8, <1>9, <1>10

\* Three bytes make a number below B^3.
LEMMA ThreeBytesBelow ==
  ASSUME NEW a, NEW b, NEW c, a \in Byte, b \in Byte, c \in Byte
  PROVE  a + B * b + (B * B) * c \in Nat /\ a + B * b + (B * B) * c < B * B * B
<1> DEFINE C == B * B
           D == B * B * B
           e == B * b
           f == C * c
<1>1. /\ a \in Nat /\ a < B /\ b \in Nat /\ b < B /\ c \in Nat /\ c < B /\ B \in Nat /\ C \in Nat
      /\ D \in Nat /\ D = C * B
  BY ByteNat, Sizes
<1>2. e <= B * (B - 1) /\ f <= C * (B - 1) /\ e \in Nat /\ f \in Nat
  <2> HIDE DEF C, D
  <2> QED BY <1>1
<1>3. B * (B - 1) = C - B
  BY <1>1
<1>4. C * (B - 1) = D - C
  <2> HIDE DEF C, D
  <2>1. C * (B - 1) = C * B - C
    BY <1>1
  <2> QED BY <1>1, <2>1
<1> HIDE DEF e, f, C, D
<1>5. a + e + f \in Nat /\ a + e + f < D
  BY <1>1, <1>2, <1>3, <1>4
<1> QED BY <1>5 DEF e, f, C, D

\* The power of two of a shift amount divides that of three bytes, or the other way round.
Apart(P, D) == \E s \in Nat \ {0} : D = P * s \/ P = D * s

\* A power of two divides B^3 or is a multiple of it.
LEMMA PowersApart == ASSUME NEW k, k \in Nat PROVE Apart(Pow2[k], B * B * B)
<1> DEFINE P == Pow2[k]
           D == B * B * B
<1>1. B \in Nat \ {0}
  BY WidthBounds
<1>2. ASSUME NEW q, NEW s, Cut0(P, q, s) PROVE Apart(P, D)
  <2> DEFINE t == s * (B * B)
  <2>1. q \in Nat \ {0} /\ s \in Nat \ {0} /\ B = q * s /\ P = q
    BY <1>2 DEF Cut0
  <2>2. t \in Nat \ {0}
    BY <1>1, <2>1
  <2>3. (q * s) * B * B = q * (s * (B * B))
    BY <1>1, <2>1
  <2>4. D = P * t
    BY <2>1, <2>3
  <2> HIDE DEF t, P, D
  <2> QED BY <2>2, <2>4 DEF Apart
<1>3. ASSUME NEW q, NEW s, Cut1(P, q, s) PROVE Apart(P, D)
  <2> DEFINE t == s * B
  <2>1. q \in Nat \ {0} /\ s \in Nat \ {0} /\ B = q * s /\ P = B * q
    BY <1>3 DEF Cut1
  <2>2. t \in Nat \ {0}
    BY <1>1, <2>1
  <2>3. B * (q * s) * B = (B * q) * (s * B)
    BY <1>1, <2>1
  <2>4. D = P * t
    BY <2>1, <2>3
  <2> HIDE DEF t, P, D
  <2> QED BY <2>2, <2>4 DEF Apart
<1>4. ASSUME NEW q, NEW s, Cut2(P, q, s) PROVE Apart(P, D)
  <2>1. q \in Nat \ {0} /\ s \in Nat \ {0} /\ B = q * s /\ P = (B * B) * q
    BY <1>4 DEF Cut2
  <2>2. B * B * (q * s) = ((B * B) * q) * s
    BY <1>1, <2>1
  <2>3. D = P * s
    BY <2>1, <2>2
  <2> HIDE DEF P, D
  <2> QED BY <2>1, <2>3 DEF Apart
<1>5. ASSUME NEW s, Cut3(P, s) PROVE Apart(P, D)
  BY <1>5 DEF Cut3, Apart
<1>6. \/ \E q, s : Cut0(P, q, s) \/ Cut1(P, q, s) \/ Cut2(P, q, s)
      \/ \E s : Cut3(P, s)
  BY Cuts
<1> QED BY <1>2, <1>3, <1>4, <1>5, <1>6

\* The signed value of a word and of its top byte alone.
LEMMA SignedTop ==
  ASSUME NEW y, NEW d, NEW x, y \in Nat, y < B * B * B, d \in Byte, x = y + (B * B * B) * d
  PROVE  \E c \in Int : Signed(x) = y + (B * B * B) * c /\ Signed(d * (B * B * B)) = (B * B * B) * c
<1> DEFINE D == B * B * B
           h == B \div 2
           u == D * d
           v == D * h
           M == Modulus
           w == d * D
<1>1. B \in Nat /\ D \in Nat \ {0} /\ d \in Nat /\ d < B /\ M = B * D /\ B = 2 * h /\ h \in Nat
  <2>1. B = 2 * h /\ h \in Nat /\ B \in Nat
    BY Widths
  <2>2. D \in Nat \ {0} /\ M = B * D
    BY Sizes
  <2> QED BY <2>1, <2>2, ByteNat
<1> HIDE DEF D, h
<1>2. u \in Nat /\ v \in Nat /\ w = u
  BY <1>1
<1>3. M = 2 * v /\ M = D * B
  <2>1. (2 * h) * D = 2 * (D * h) /\ B * D = D * B
    BY <1>1
  <2> QED BY <1>1, <2>1
<1>4. M \div 2 = v
  <2> HIDE DEF v
  <2> QED BY <1>2, <1>3
<1>5. x = y + u /\ x \in Nat
  BY <1>1 DEF D
<1> HIDE DEF w
<1>6. CASE d >= h
  <2>1. u >= v
    BY <1>1, <1>6
  <2>2. D * (d - B) = D * d - D * B /\ d - B \in Int
    BY <1>1
  <2>3. D * (d - B) = u - M
    BY <1>3, <2>2
  <2> DEFINE c == d - B
             e == D * c
  <2>4. e = u - M
    BY <2>3
  <2> HIDE DEF u, v, e, M
  <2>5. x >= v /\ Signed(x) = x - Modulus /\ Signed(w) = w - Modulus
    BY <1>2, <1>4, <1>5, <2>1 DEF Signed, M
  <2>6. Signed(x) = y + e /\ Signed(w) = e
    <3>1. M \in Int
      BY <1>2, <1>3
    <3> QED BY <1>2, <1>5, <2>4, <2>5, <3>1 DEF M
  <2> QED BY <2>2, <2>6 DEF e, D, w
<1>7. CASE d < h
  <2>1. u <= v - D
    <3>1. u <= D * (h - 1)
      BY <1>1, <1>7
    <3>2. D * (h - 1) = D * h - D
      BY <1>1
    <3> QED BY <3>1, <3>2
  <2> HIDE DEF u, v, M
  <2>2. y < D
    BY DEF D
  <2>3. x < v /\ u < v
    BY <1>1, <1>2, <1>5, <2>1, <2>2
  <2>4. Signed(x) = x /\ Signed(w) = w
    BY <1>2, <1>4, <1>5, <2>3 DEF Signed, M
  <2>5. Signed(x) = y + D * d /\ Signed(w) = D * d /\ d \in Int
    BY <1>1, <1>2, <1>5, <2>4 DEF u
  <2> QED BY <2>5 DEF D, w
<1> QED BY <1>1, <1>6, <1>7

\* The parts of a word shifted to the right.
LowPart(x, k) ==
  Wd(Share0(ByteOf(x, 0), ByteOf(x, 1), ByteOf(x, 2), k), Share1(ByteOf(x, 1), ByteOf(x, 2), k), Share2(ByteOf(x, 2), k), 0)

\* The sum of the shifted low bytes and the shifted top byte is the shifted word.
LEMMA ShiftSum ==
  ASSUME NEW x, NEW k, x \in Word, k \in Nat
  PROVE  /\ Add(LowPart(x, k), SrlRow(ByteOf(x, 3), k)) = Shr(x, k)
         /\ Add(LowPart(x, k), SraRow(ByteOf(x, 3), k)) = Sar(x, k)
         /\ LowPart(x, k) \in Word
<1> DEFINE a == ByteOf(x, 0)
           b == ByteOf(x, 1)
           c == ByteOf(x, 2)
           d == ByteOf(x, 3)
           y == a + B * b + (B * B) * c
           D == B * B * B
           P == Pow2[k]
           V == LowPart(x, k)
           f == D * d
           g == d * D
<1>1. x \in Int /\ x \in Nat /\ x = Wd(a, b, c, d)
  BY WordNat, WordIsBytes
<1>2. a \in Byte /\ b \in Byte /\ c \in Byte /\ d \in Byte
  BY <1>1, ByteRange
<1>3. y \in Nat /\ y < D
  BY <1>2, ThreeBytesBelow
<1>4. V = y \div P /\ V \in Word
  <2>1. 0 \in Byte
    BY ZeroBytes
  <2> QED BY <1>2, <2>1, LowThree, WdWord DEF LowPart
<1>5. D \in Nat \ {0} /\ P \in Nat \ {0} /\ d \in Nat
  BY <1>2, Sizes, Pow2Positive, ByteNat
<1>6. x = y + f
  BY <1>1 DEF Wd
<1>7. SrlRow(d, k) = g \div P /\ g \in Word
  BY <1>2, RowOf
<1>8. SraRow(d, k) = Sar(g, k)
  <2>1. d * B * B * B = g
    <3>1. B \in Nat
      BY WidthBounds
    <3> HIDE DEF d
    <3> QED BY <1>5, <3>1
  <2> QED BY <2>1 DEF SraRow
<1>9. PICK s \in Nat \ {0} : D = P * s \/ P = D * s
  BY PowersApart DEF Apart
<1>10. PICK e \in Int : Signed(x) = y + D * e /\ Signed(g) = D * e
  <2> HIDE DEF y, d
  <2> QED BY <1>2, <1>3, <1>6, SignedTop
<1>11. V \in Int /\ g = f
  <2>1. g = f
    <3> HIDE DEF d, D
    <3> QED BY <1>5
  <2> HIDE DEF V
  <2> QED BY <1>4, <2>1, WordNat
<1> HIDE DEF a, b, c, d, y, D, P, V, g
<1>12. ASSUME NEW i, i \in Int
       PROVE  /\ (y + D * i) \div P = V + ((D * i) \div P)
              /\ (D * i) \div P \in Int
  BY <1>3, <1>4, <1>5, <1>9, <1>12, TopApart
<1>13. Add(V, SrlRow(d, k)) = Shr(x, k)
  <2>1. d \in Int
    BY <1>5
  <2>2. x \div P = V + (f \div P) /\ f \div P \in Int
    BY <1>6, <1>12, <2>1
  <2>3. Shr(x, k) = x \div P /\ Shr(x, k) \in Word
    BY ShrPlain DEF P
  <2> HIDE DEF f
  <2>4. SrlRow(d, k) = f \div P
    BY <1>7, <1>11
  <2>5. Add(V, SrlRow(d, k)) = Shr(x, k) % Modulus
    BY <2>2, <2>3, <2>4 DEF Add
  <2> QED BY <2>3, <2>5, SmallWord
<1>14. Add(V, SraRow(d, k)) = Sar(x, k)
  <2> DEFINE z == (D * e) \div P
  <2>1. (y + D * e) \div P = V + z /\ z \in Int
    BY <1>12
  <2>2. Sar(x, k) = (Signed(x) \div P) % Modulus /\ Sar(g, k) = (Signed(g) \div P) % Modulus
    BY <1>7, SarPlain DEF P
  <2>3. Sar(x, k) = (V + z) % Modulus /\ SraRow(d, k) = z % Modulus
    BY <1>8, <1>10, <2>1, <2>2
  <2> HIDE DEF z
  <2>4. Add(V, z % Modulus) = (V + z) % Modulus
    BY <1>11, <2>1, ModSum
  <2> QED BY <2>3, <2>4
<1> QED BY <1>4, <1>13, <1>14 DEF V, d

-----------------------------------------------------------------------------
(* 19. srl, sra, srli and srai *)

\* The table of the top byte's share.
Chosen(is_arith) == IF is_arith THEN Sra8 ELSE Srl8

ChooseRow(is_arith) == IF is_arith THEN la(tp, Sra8 - Srl8) \o add(s0, s0, tp) ELSE <<>>

Shifted(is_arith, x, k) == IF is_arith THEN Sar(x, k) ELSE Shr(x, k)

\* The share of the top byte.
TopShare(is_arith, b, k) == IF is_arith THEN SraRow(b, k) ELSE SrlRow(b, k)

\* Which table the top byte uses, and what the sum is then.
LEMMA ChosenIs ==
  ASSUME NEW is_arith, is_arith \in BOOLEAN
  PROVE  /\ Shift(Chosen(is_arith))
         /\ \A b, k : b \in Byte /\ Shamt(k) => ShiftWord(Chosen(is_arith), b, k) = TopShare(is_arith, b, k)
         /\ \A x, k : x \in Word /\ Shamt(k) =>
              /\ Add(LowPart(x, k), TopShare(is_arith, ByteOf(x, 3), k)) = Shifted(is_arith, x, k)
              /\ Shifted(is_arith, x, k) \in Word
<1>1. ASSUME NEW x, NEW k, x \in Word, Shamt(k)
      PROVE  /\ Add(LowPart(x, k), SrlRow(ByteOf(x, 3), k)) = Shr(x, k)
             /\ Add(LowPart(x, k), SraRow(ByteOf(x, 3), k)) = Sar(x, k)
             /\ Shr(x, k) \in Word /\ Sar(x, k) \in Word
  <2>1. k \in Nat
    BY <1>1 DEF Shamt
  <2>2. /\ Add(LowPart(x, k), SrlRow(ByteOf(x, 3), k)) = Shr(x, k)
        /\ Add(LowPart(x, k), SraRow(ByteOf(x, 3), k)) = Sar(x, k)
        /\ LowPart(x, k) \in Word
    BY <1>1, <2>1, ShiftSum
  <2>3. ByteOf(x, 3) \in Byte
    BY <1>1, ByteRange, WordNat
  <2>4. SrlRow(ByteOf(x, 3), k) \in Word /\ SraRow(ByteOf(x, 3), k) \in Word
    BY <1>1, <2>3, ShiftMeans
  <2>5. \A y, z : y \in Word /\ z \in Word => Add(y, z) \in Word
    <3>1. \A y : y \in Word => y \in Int
      BY WordNat
    <3> QED BY <3>1, AddWord
  <2> QED BY <2>2, <2>4, <2>5
<1>2. CASE is_arith = TRUE
  <2>1. Chosen(is_arith) = Sra8
    BY <1>2, Zenon DEF Chosen
  <2>2. ASSUME NEW b, NEW k PROVE TopShare(is_arith, b, k) = SraRow(b, k)
    BY <1>2, Zenon DEF TopShare
  <2>3. ASSUME NEW x, NEW k PROVE Shifted(is_arith, x, k) = Sar(x, k)
    BY <1>2, Zenon DEF Shifted
  <2> QED BY <1>1, <2>1, <2>2, <2>3, ShiftMeans DEF Shift
<1>3. CASE is_arith = FALSE
  <2>1. Chosen(is_arith) = Srl8
    BY <1>3, Zenon DEF Chosen
  <2>2. ASSUME NEW b, NEW k PROVE TopShare(is_arith, b, k) = SrlRow(b, k)
    BY <1>3, Zenon DEF TopShare
  <2>3. ASSUME NEW x, NEW k PROVE Shifted(is_arith, x, k) = Shr(x, k)
    BY <1>3, Zenon DEF Shifted
  <2> QED BY <1>1, <2>1, <2>2, <2>3, ShiftMeans DEF Shift
<1> QED BY <1>2, <1>3

\* From the srl row to the sra row.
LEMMA AddRowDoes ==
  ASSUME NEW m, NEW k,
         Ready(m),
         Reg(m, s0) = RowAt(Srl8, k),
         Shamt(k)
  PROVE  /\ Does(m, la(tp, Sra8 - Srl8) \o add(s0, s0, tp),
                 Run(m, la(tp, Sra8 - Srl8) \o add(s0, s0, tp)), Two(s0, tp), {})
         /\ Reg(Run(m, la(tp, Sra8 - Srl8) \o add(s0, s0, tp)), s0) = RowAt(Sra8, k)
<1> DEFINE t == RowAt(Srl8, k)
           d == Sra8 - Srl8
           e == RowAt(Sra8, k)
           R == Two(s0, tp)
           S == {}
           c0 == <<>>
           i1 == la(tp, d)
           c1 == c0 \o i1
           m1 == Run(m, c1)
           i2 == add(s0, s0, tp)
           c2 == c1 \o i2
           m2 == Run(m, c2)
<1>s. S \subseteq Ram
  OBVIOUS
<1>r. R \subseteq Regs \ {zero}
  BY RegNames DEF Two
<1>b. Ready(m) /\ sp \notin R /\ s0 \in R /\ tp \in R /\ s0 \in Regs /\ tp \in Regs /\ sp \in Regs
  BY RegNames DEF Two
<1>t. Linked(d) /\ Add(t, d) = e
  <2>1. /\ Srl8 \in Nat /\ Sra8 \in Nat /\ Srl8 < Sra8 /\ Sra8 < RodataEnd /\ RodataEnd \in Nat
        /\ RodataEnd + 4096 <= Modulus /\ Modulus \in Nat
    BY TablePlaces, TablesFit, WordNat
  <2>2. d \in Nat /\ d + 4096 <= Modulus
    BY <2>1
  <2>3. k \in Nat /\ B \in Nat /\ B * k \in Nat
    BY WidthBounds DEF Shamt
  <2>4. RowAt(Sra8, k) + 0 = RowAt(Sra8, k) /\ t \in Nat /\ e \in Nat /\ t + d = e
    BY <2>1, <2>3 DEF RowAt
  <2>5. e \in Tables
    <3> DEFINE z == 0
    <3>1. z \in Byte /\ Shift(Sra8)
      BY ZeroBytes DEF Shift
    <3>2. EntryAt(Sra8, z, k) \in Tables
      BY <3>1, ShiftPlace DEF EntryIn
    <3>3. EntryAt(Sra8, z, k) = e
      BY <2>3 DEF EntryAt, RowAt
    <3> QED BY <3>2, <3>3
  <2> HIDE DEF t, d, e
  <2>6. Add(t, d) = t + d
    BY <2>2, <2>4, <2>5, EntryAdd
  <2>7. Linked(d)
    BY <2>2 DEF Linked
  <2> QED BY <2>4, <2>6, <2>7
<1>c. la(tp, Sra8 - Srl8) \o add(s0, s0, tp) = i1 \o i2
  BY DEF d
<1> HIDE DEF R, S, c0, c1, c2, m1, m2, t, d, e
<1>0. Does(m, c0, m, R, S) /\ Reg(m, s0) = t
  BY <1>s, <1>r, <1>b, DoesNothing DEF Ready, c0, t
<1>1. Does(m, c1, m1, R, S) /\ Reg(m1, s0) = t /\ Reg(m1, tp) = d
  <2>1. Ready(m) /\ Live(m)
    BY <1>b DEF Ready
  <2>2. Does(m, i1, Run(m, i1), One(tp), {}) /\ Reg(Run(m, i1), tp) = d
    BY <2>1, <1>0, <1>b, <1>t, LaDoes
  <2> DEFINE R2 == One(tp)
             S2 == {}
  <2>3. R2 \subseteq R /\ S2 \subseteq S
    BY <1>b DEF One
  <2> HIDE DEF R2, S2
  <2>4. Does(m, c1, m1, R, S) /\ m1 = Run(m, i1) /\ Keeps(m, m1, R2, S2)
    BY <1>0, <2>2, <2>3, DoesNext DEF c1, m1, R2, S2
  <2> QED BY <2>2, <2>4, <1>0, <1>b DEF Keeps, Holds, R2, S2, One
<1>d. i1 \in Code /\ c0 \o i1 = i1
  <2>1. Ready(m) /\ Live(m)
    BY <1>b DEF Ready
  <2>2. Does(m, i1, Run(m, i1), One(tp), {})
    BY <2>1, <1>b, <1>t, LaDoes
  <2>3. i1 \in Code
    BY <2>2 DEF Does
  <2> QED BY <2>3, ConcatEmptySeq DEF Code, c0
<1>2. Does(m, c2, m2, R, S) /\ Reg(m2, s0) = e
  <2>1. Does(m, c2, m2, R, S) /\ Sets(m1, m2, s0, Add(Reg(m1, s0), Reg(m1, tp)))
    BY <1>1, <1>b, AddRuns DEF c2, m2
  <2>2. Add(Reg(m1, s0), Reg(m1, tp)) = e
    BY <1>1, <1>t
  <2> QED BY <2>1, <2>2, <1>1, <1>b DEF Sets, Holds
<1>e. c2 = la(tp, Sra8 - Srl8) \o add(s0, s0, tp)
  BY <1>c, <1>d DEF c1, c2
<1> QED BY <1>2, <1>e DEF m2, R, S, e

\* The step from the row of srl8 to that of sra8.
LEMMA ChooseRowDoes ==
  ASSUME NEW m, NEW k, NEW is_arith, Ready(m), Reg(m, s0) = RowAt(Srl8, k), Shamt(k), is_arith \in BOOLEAN
  PROVE  /\ Does(m, ChooseRow(is_arith), Run(m, ChooseRow(is_arith)), Two(s0, tp), {})
         /\ Reg(Run(m, ChooseRow(is_arith)), s0) = RowAt(Chosen(is_arith), k)
<1>1. CASE is_arith = TRUE
  <2>1. ChooseRow(is_arith) = la(tp, Sra8 - Srl8) \o add(s0, s0, tp) /\ Chosen(is_arith) = Sra8
    BY <1>1, Zenon DEF ChooseRow, Chosen
  <2> QED BY <2>1, AddRowDoes
<1>2. CASE is_arith = FALSE
  <2> DEFINE e == <<>>
  <2>1. ChooseRow(is_arith) = e /\ Chosen(is_arith) = Srl8
    BY <1>2, Zenon DEF ChooseRow, Chosen
  <2>2. Run(m, e) = m
    BY RunNone
  <2>3. Live(m) /\ Two(s0, tp) \subseteq Regs \ {zero}
    BY RegNames DEF Ready, Two
  <2>4. Does(m, e, m, Two(s0, tp), {})
    <3> DEFINE R == Two(s0, tp)
               S == {}
    <3>1. S \subseteq Ram /\ R \subseteq Regs \ {zero}
      BY <2>3
    <3> HIDE DEF R, S
    <3>2. Does(m, e, m, R, S)
      BY <2>3, <3>1, DoesNothing
    <3> QED BY <3>2 DEF R, S
  <2> HIDE DEF e
  <2> QED BY <2>1, <2>2, <2>4
<1> QED BY <1>1, <1>2

\* The stack variables of the shifts are scratch.
LEMMA ShiftScratch == Slot(5) \subseteq Scratch /\ Slot(7) \subseteq Scratch /\ Slots3(5, 6, 7) \subseteq Scratch
<1>1. Slot(6) \subseteq Scratch /\ Slot(5) \subseteq Scratch
  BY ScratchPlaces, HalfScratch
<1>2. 228 \in Scratch /\ 229 \in Scratch /\ 230 \in Scratch /\ 231 \in Scratch
  BY ScratchPlaces
<1>3. Slot(7) = {228, 229, 230, 231}
  BY DEF Slot, StackTop
<1>4. Slot(7) \subseteq Scratch
  BY <1>2, <1>3
<1> QED BY <1>1, <1>4 DEF Slots3, Slots2

\* srl and sra, from the row of the shift amount.
LEMMA ShiftRightDoes ==
  ASSUME NEW m, NEW rd, NEW is_arith, NEW x, NEW u, NEW k,
         Ready(m),
         rd \in Regs \ {zero, sp},
         is_arith \in BOOLEAN,
         Reg(m, s0) = RowAt(Srl8, k),
         Shamt(k),
         x \in Word,
         u \in Word,
         Holds(m, 240, x),
         Holds(m, 252, u)
  PROVE  /\ Does(m, ShiftRight(rd, is_arith), Run(m, ShiftRight(rd, is_arith)), Four(s0, gp, tp, rd), Scratch)
         /\ Reg(Run(m, ShiftRight(rd, is_arith)), rd) = Shifted(is_arith, x, k)
         /\ (rd # s0 => Reg(Run(m, ShiftRight(rd, is_arith)), s0) = u)
<1> DEFINE row == RowAt(Srl8, k)
           lut == Chosen(is_arith)
           row3 == RowAt(lut, k)
           t0 == SrlRow(ByteOf(x, 0), k)
           t1 == SrlRow(ByteOf(x, 1), k)
           t2 == SrlRow(ByteOf(x, 2), k)
           t3 == TopShare(is_arith, ByteOf(x, 3), k)
           y1 == ByteOf(t2, 1) + ByteOf(t1, 2)
           y2 == y1 + ByteOf(t0, 3)
           z1 == ByteOf(t2, 2) + ByteOf(t1, 3)
           z2 == ByteOf(t2, 3)
           v == LowPart(x, k)
           w == Shifted(is_arith, x, k)
           R == Four(s0, gp, tp, rd)
           S == Scratch
           c0 == <<>>
           i1 == get_shift_byte_in_tp(s0, 2)
           c1 == c0 \o i1
           m1 == Run(m, c1)
           i2 == sw(tp, -20, sp)
           c2 == c1 \o i2
           m2 == Run(m, c2)
           i3 == get_shift_byte_in_tp(s0, 1)
           c3 == c2 \o i3
           m3 == Run(m, c3)
           i4 == sw(tp, -24, sp)
           c4 == c3 \o i4
           m4 == Run(m, c4)
           i5 == get_shift_byte_in_tp(s0, 0)
           c5 == c4 \o i5
           m5 == Run(m, c5)
           i6 == sw(tp, -28, sp)
           c6 == c5 \o i6
           m6 == Run(m, c6)
           i7 == lbu(gp, -19, sp)
           c7 == c6 \o i7
           m7 == Run(m, c7)
           i8 == lbu(tp, -22, sp)
           c8 == c7 \o i8
           m8 == Run(m, c8)
           i9 == add(gp, gp, tp)
           c9 == c8 \o i9
           m9 == Run(m, c9)
           i10 == lbu(tp, -25, sp)
           c10 == c9 \o i10
           m10 == Run(m, c10)
           i11 == add(gp, gp, tp)
           c11 == c10 \o i11
           m11 == Run(m, c11)
           i12 == sw(gp, -28, sp)
           c12 == c11 \o i12
           m12 == Run(m, c12)
           i13 == lbu(gp, -18, sp)
           c13 == c12 \o i13
           m13 == Run(m, c13)
           i14 == lbu(tp, -21, sp)
           c14 == c13 \o i14
           m14 == Run(m, c14)
           i15 == add(gp, gp, tp)
           c15 == c14 \o i15
           m15 == Run(m, c15)
           i16 == sb(gp, -27, sp)
           c16 == c15 \o i16
           m16 == Run(m, c16)
           i17 == lbu(gp, -17, sp)
           c17 == c16 \o i17
           m17 == Run(m, c17)
           i18 == sb(gp, -26, sp)
           c18 == c17 \o i18
           m18 == Run(m, c18)
           i19 == lw(gp, -28, sp)
           c19 == c18 \o i19
           m19 == Run(m, c19)
           i20 == ChooseRow(is_arith)
           c20 == c19 \o i20
           m20 == Run(m, c20)
           i21 == get_shift_byte_in_tp(s0, 3)
           c21 == c20 \o i21
           m21 == Run(m, c21)
           i22 == lw(s0, -4, sp)
           c22 == c21 \o i22
           m22 == Run(m, c22)
           i23 == add(rd, gp, tp)
           c23 == c22 \o i23
           m23 == Run(m, c23)
<1>s. S \subseteq Ram
  BY DEF Ram
<1>a. Block(236, S) /\ Block(232, S) /\ Block(228, S) /\ 229 \in S /\ 230 \in S
  BY ScratchPlaces, ShiftScratch
<1>p. Spot(-20, 236) /\ Spot(-24, 232) /\ Spot(-28, 228) /\ Spot(-19, 237) /\ Spot(-22, 234) /\ Spot(-25, 231)
      /\ Spot(-18, 238) /\ Spot(-21, 235) /\ Spot(-27, 229) /\ Spot(-17, 239) /\ Spot(-26, 230)
      /\ WordSpot(-28, 228) /\ WordSpot(-4, 252)
  BY Spots
<1>r. R \subseteq Regs \ {zero}
  BY RegNames DEF Four
<1>b. Ready(m) /\ sp \notin R /\ s0 \in R /\ gp \in R /\ tp \in R /\ rd \in R /\ s0 \in Regs /\ gp \in Regs
      /\ tp \in Regs /\ rd \in Regs /\ sp \in Regs
  BY RegNames DEF Four
<1>x. x \in Int /\ Shift(Srl8) /\ Shift(lut)
  BY WordNat, ChosenIs DEF Shift
<1>t. /\ ShiftWord(Srl8, ByteOf(x, 0), k) = t0 /\ ShiftWord(Srl8, ByteOf(x, 1), k) = t1
      /\ ShiftWord(Srl8, ByteOf(x, 2), k) = t2 /\ ShiftWord(lut, ByteOf(x, 3), k) = t3
      /\ t0 \in Word /\ t1 \in Word /\ t2 \in Word
  <2>1. ByteOf(x, 0) \in Byte /\ ByteOf(x, 1) \in Byte /\ ByteOf(x, 2) \in Byte /\ ByteOf(x, 3) \in Byte
    BY <1>x, ByteRange
  <2>2. ShiftWord(lut, ByteOf(x, 3), k) = t3
    BY <2>1, ChosenIs
  <2> QED BY <2>1, <2>2, ShiftMeans
<1>z. /\ y2 \in Byte /\ z1 \in Byte /\ z2 \in Byte /\ v = Wd(y2, z1, z2, 0)
      /\ Add(ByteOf(t2, 1), ByteOf(t1, 2)) = y1 /\ Add(y1, ByteOf(t0, 3)) = y2 /\ Add(ByteOf(t2, 2), ByteOf(t1, 3)) = z1
  <2> DEFINE a1 == ByteOf(t2, 1)
             a2 == ByteOf(t1, 2)
             a3 == ByteOf(t0, 3)
             b1 == ByteOf(t2, 2)
             b2 == ByteOf(t1, 3)
  <2>1. t0 \in Int /\ t1 \in Int /\ t2 \in Int
    <3> HIDE DEF t0, t1, t2
    <3> QED BY <1>t, WordNat
  <2>2. /\ a1 \in Byte /\ a2 \in Byte /\ a3 \in Byte /\ b1 \in Byte /\ b2 \in Byte /\ z2 \in Byte
    <3> HIDE DEF t0, t1, t2
    <3> QED BY <2>1, ByteRange
  <2>3. /\ a1 \in Nat /\ a1 < B /\ a2 \in Nat /\ a2 < B /\ a3 \in Nat /\ a3 < B
        /\ b1 \in Nat /\ b1 < B /\ b2 \in Nat /\ b2 < B /\ B <= 256 /\ B \in Nat /\ Modulus >= 1048576 /\ Modulus \in Nat
    <3> HIDE DEF a1, a2, a3, b1, b2
    <3> QED BY <2>2, ByteNat, WidthBounds
  <2>4. /\ Share0(ByteOf(x, 0), ByteOf(x, 1), ByteOf(x, 2), k) = a1 + a2 + a3
        /\ Share1(ByteOf(x, 1), ByteOf(x, 2), k) = b1 + b2
        /\ Share2(ByteOf(x, 2), k) = z2
    BY DEF Share0, Share1, Share2
  <2>5. k \in Nat /\ ByteOf(x, 0) \in Byte /\ ByteOf(x, 1) \in Byte /\ ByteOf(x, 2) \in Byte
    BY <1>x, ByteRange DEF Shamt
  <2>6. a1 + a2 + a3 \in Byte /\ b1 + b2 \in Byte /\ v = Wd(a1 + a2 + a3, b1 + b2, z2, 0)
    <3>1. /\ Share0(ByteOf(x, 0), ByteOf(x, 1), ByteOf(x, 2), k) \in Byte
          /\ Share1(ByteOf(x, 1), ByteOf(x, 2), k) \in Byte
      BY <2>5, LowThree
    <3> QED BY <2>4, <3>1 DEF LowPart
  <2> HIDE DEF a1, a2, a3, b1, b2
  <2>7. Add(a1, a2) = a1 + a2
    BY <2>3, AddSmall
  <2> DEFINE a12 == a1 + a2
  <2>8. a12 \in Int /\ a12 + a3 >= 0 /\ a12 + a3 < Modulus /\ a3 \in Int
    BY <2>3
  <2> HIDE DEF a12
  <2>9. Add(a12, a3) = a12 + a3
    BY <2>8, AddSmall
  <2>10. Add(b1, b2) = b1 + b2
    BY <2>3, AddSmall
  <2> QED BY <2>2, <2>6, <2>7, <2>9, <2>10 DEF a1, a2, a3, b1, b2, a12
<1>w. Add(v, t3) = w
  BY ChosenIs
<1>c. ShiftRight(rd, is_arith)
        = i1 \o i2 \o i3 \o i4 \o i5 \o i6 \o i7 \o i8 \o i9 \o i10 \o i11 \o i12 \o i13 \o i14 \o i15
          \o i16 \o i17 \o i18 \o i19 \o i20 \o i21 \o i22 \o i23
  BY DEF ShiftRight, Pop, Var, VAR_A, VAR_B, VAR_C, VAR_D, ChooseRow
<1> HIDE DEF R, S, c0, c1, c2, c3, c4, c5, c6, c7, c8, c9, c10, c11, c12, c13, c14, c15, c16, c17, c18,
        c19, c20, c21, c22, c23, m1, m2, m3, m4, m5, m6, m7, m8, m9, m10, m11, m12, m13, m14, m15, m16,
        m17, m18, m19, m20, m21, m22, m23, row, lut, row3, t0, t1, t2, t3, y1, y2, z1, z2, v, w
<1>0. Does(m, c0, m, R, S) /\ Reg(m, s0) = row /\ Holds(m, 240, x) /\ Holds(m, 252, u)
  BY <1>s, <1>r, <1>b, DoesNothing DEF Ready, c0, row
<1>1. Does(m, c1, m1, R, S) /\ Reg(m1, s0) = row /\ Reg(m1, tp) = t2 /\ Mem(m1, 240) = ByteOf(x, 0)
      /\ Mem(m1, 241) = ByteOf(x, 1) /\ Mem(m1, 243) = ByteOf(x, 3) /\ Holds(m1, 252, u)
  <2>1. Ready(m) /\ Live(m)
    BY <1>b DEF Ready
  <2>2. Does(m, i1, Run(m, i1), One(tp), {}) /\ Reg(Run(m, i1), tp) = ShiftWord(Srl8, Mem(m, 242), k)
    BY <2>1, <1>0, <1>b, <1>x, Ats, GetShiftDoes DEF row
  <2> DEFINE R2 == One(tp)
             S2 == {}
  <2>3. R2 \subseteq R /\ S2 \subseteq S
    BY <1>b DEF One
  <2> HIDE DEF R2, S2
  <2>4. Does(m, c1, m1, R, S) /\ m1 = Run(m, i1) /\ Keeps(m, m1, R2, S2)
    BY <1>0, <2>2, <2>3, DoesNext DEF c1, m1, R2, S2
  <2>5. ShiftWord(Srl8, Mem(m, 242), k) = t2
    BY <1>0, <1>t DEF Holds
  <2> QED BY <2>2, <2>4, <2>5, <1>0, <1>b DEF Keeps, Holds, R2, S2, One
<1>d. i1 \in Code /\ c0 \o i1 = i1
  <2>1. Ready(m) /\ Live(m)
    BY <1>b DEF Ready
  <2>2. Does(m, i1, Run(m, i1), One(tp), {})
    BY <2>1, <1>b, <1>x, Ats, GetShiftDoes
  <2>3. i1 \in Code
    BY <2>2 DEF Does
  <2> QED BY <2>3, ConcatEmptySeq DEF Code, c0
<1>2. Does(m, c2, m2, R, S) /\ Reg(m2, s0) = row /\ Mem(m2, 237) = ByteOf(t2, 1)
      /\ Mem(m2, 238) = ByteOf(t2, 2) /\ Mem(m2, 239) = ByteOf(t2, 3) /\ Mem(m2, 240) = ByteOf(x, 0)
      /\ Mem(m2, 241) = ByteOf(x, 1) /\ Mem(m2, 243) = ByteOf(x, 3) /\ Holds(m2, 252, u)
  <2>1. Does(m, c2, m2, R, S) /\ Saves(m1, m2, 236, Reg(m1, tp))
    BY <1>1, <1>b, <1>a, <1>p, SwStack DEF c2, m2
  <2> QED BY <2>1, <1>1, <1>b DEF Saves, Holds
<1>3. Does(m, c3, m3, R, S) /\ Reg(m3, s0) = row /\ Reg(m3, tp) = t1 /\ Mem(m3, 237) = ByteOf(t2, 1)
      /\ Mem(m3, 238) = ByteOf(t2, 2) /\ Mem(m3, 239) = ByteOf(t2, 3) /\ Mem(m3, 240) = ByteOf(x, 0)
      /\ Mem(m3, 243) = ByteOf(x, 3) /\ Holds(m3, 252, u)
  <2>1. Ready(m2) /\ Live(m2)
    BY <1>2, <1>b, StaysReady DEF Ready
  <2>2. Does(m2, i3, Run(m2, i3), One(tp), {}) /\ Reg(Run(m2, i3), tp) = ShiftWord(Srl8, Mem(m2, 241), k)
    BY <2>1, <1>2, <1>b, <1>x, Ats, GetShiftDoes DEF row
  <2> DEFINE R2 == One(tp)
             S2 == {}
  <2>3. R2 \subseteq R /\ S2 \subseteq S
    BY <1>b DEF One
  <2> HIDE DEF R2, S2
  <2>4. Does(m, c3, m3, R, S) /\ m3 = Run(m2, i3) /\ Keeps(m2, m3, R2, S2)
    BY <1>2, <2>2, <2>3, DoesNext DEF c3, m3, R2, S2
  <2>5. ShiftWord(Srl8, Mem(m2, 241), k) = t1
    BY <1>2, <1>t DEF Holds
  <2> QED BY <2>2, <2>4, <2>5, <1>2, <1>b DEF Keeps, Holds, R2, S2, One
<1>4. Does(m, c4, m4, R, S) /\ Reg(m4, s0) = row /\ Mem(m4, 234) = ByteOf(t1, 2)
      /\ Mem(m4, 235) = ByteOf(t1, 3) /\ Mem(m4, 237) = ByteOf(t2, 1) /\ Mem(m4, 238) = ByteOf(t2, 2)
      /\ Mem(m4, 239) = ByteOf(t2, 3) /\ Mem(m4, 240) = ByteOf(x, 0) /\ Mem(m4, 243) = ByteOf(x, 3)
      /\ Holds(m4, 252, u)
  <2>1. Does(m, c4, m4, R, S) /\ Saves(m3, m4, 232, Reg(m3, tp))
    BY <1>3, <1>b, <1>a, <1>p, SwStack DEF c4, m4
  <2> QED BY <2>1, <1>3, <1>b DEF Saves, Holds
<1>5. Does(m, c5, m5, R, S) /\ Reg(m5, s0) = row /\ Reg(m5, tp) = t0 /\ Mem(m5, 234) = ByteOf(t1, 2)
      /\ Mem(m5, 235) = ByteOf(t1, 3) /\ Mem(m5, 237) = ByteOf(t2, 1) /\ Mem(m5, 238) = ByteOf(t2, 2)
      /\ Mem(m5, 239) = ByteOf(t2, 3) /\ Mem(m5, 243) = ByteOf(x, 3) /\ Holds(m5, 252, u)
  <2>1. Ready(m4) /\ Live(m4)
    BY <1>4, <1>b, StaysReady DEF Ready
  <2>2. Does(m4, i5, Run(m4, i5), One(tp), {}) /\ Reg(Run(m4, i5), tp) = ShiftWord(Srl8, Mem(m4, 240), k)
    BY <2>1, <1>4, <1>b, <1>x, Ats, GetShiftDoes DEF row
  <2> DEFINE R2 == One(tp)
             S2 == {}
  <2>3. R2 \subseteq R /\ S2 \subseteq S
    BY <1>b DEF One
  <2> HIDE DEF R2, S2
  <2>4. Does(m, c5, m5, R, S) /\ m5 = Run(m4, i5) /\ Keeps(m4, m5, R2, S2)
    BY <1>4, <2>2, <2>3, DoesNext DEF c5, m5, R2, S2
  <2>5. ShiftWord(Srl8, Mem(m4, 240), k) = t0
    BY <1>4, <1>t DEF Holds
  <2> QED BY <2>2, <2>4, <2>5, <1>4, <1>b DEF Keeps, Holds, R2, S2, One
<1>6. Does(m, c6, m6, R, S) /\ Reg(m6, s0) = row /\ Mem(m6, 231) = ByteOf(t0, 3)
      /\ Mem(m6, 234) = ByteOf(t1, 2) /\ Mem(m6, 235) = ByteOf(t1, 3) /\ Mem(m6, 237) = ByteOf(t2, 1)
      /\ Mem(m6, 238) = ByteOf(t2, 2) /\ Mem(m6, 239) = ByteOf(t2, 3) /\ Mem(m6, 243) = ByteOf(x, 3)
      /\ Holds(m6, 252, u)
  <2>1. Does(m, c6, m6, R, S) /\ Saves(m5, m6, 228, Reg(m5, tp))
    BY <1>5, <1>b, <1>a, <1>p, SwStack DEF c6, m6
  <2> QED BY <2>1, <1>5, <1>b DEF Saves, Holds
<1>7. Does(m, c7, m7, R, S) /\ Reg(m7, s0) = row /\ Reg(m7, gp) = ByteOf(t2, 1)
      /\ Mem(m7, 231) = ByteOf(t0, 3) /\ Mem(m7, 234) = ByteOf(t1, 2) /\ Mem(m7, 235) = ByteOf(t1, 3)
      /\ Mem(m7, 238) = ByteOf(t2, 2) /\ Mem(m7, 239) = ByteOf(t2, 3) /\ Mem(m7, 243) = ByteOf(x, 3)
      /\ Holds(m7, 252, u)
  <2>1. Does(m, c7, m7, R, S) /\ Sets(m6, m7, gp, Mem(m6, 237))
    BY <1>6, <1>b, <1>a, <1>p, LbuStack DEF c7, m7
  <2> QED BY <2>1, <1>6, <1>b DEF Sets, Holds
<1>8. Does(m, c8, m8, R, S) /\ Reg(m8, s0) = row /\ Reg(m8, gp) = ByteOf(t2, 1) /\ Reg(m8, tp) = ByteOf(t1, 2)
      /\ Mem(m8, 231) = ByteOf(t0, 3) /\ Mem(m8, 235) = ByteOf(t1, 3) /\ Mem(m8, 238) = ByteOf(t2, 2)
      /\ Mem(m8, 239) = ByteOf(t2, 3) /\ Mem(m8, 243) = ByteOf(x, 3) /\ Holds(m8, 252, u)
  <2>1. Does(m, c8, m8, R, S) /\ Sets(m7, m8, tp, Mem(m7, 234))
    BY <1>7, <1>b, <1>a, <1>p, LbuStack DEF c8, m8
  <2> QED BY <2>1, <1>7, <1>b DEF Sets, Holds
<1>9. Does(m, c9, m9, R, S) /\ Reg(m9, s0) = row /\ Reg(m9, gp) = y1 /\ Mem(m9, 231) = ByteOf(t0, 3)
      /\ Mem(m9, 235) = ByteOf(t1, 3) /\ Mem(m9, 238) = ByteOf(t2, 2) /\ Mem(m9, 239) = ByteOf(t2, 3)
      /\ Mem(m9, 243) = ByteOf(x, 3) /\ Holds(m9, 252, u)
  <2>1. Does(m, c9, m9, R, S) /\ Sets(m8, m9, gp, Add(Reg(m8, gp), Reg(m8, tp)))
    BY <1>8, <1>b, AddRuns DEF c9, m9
  <2>2. Add(Reg(m8, gp), Reg(m8, tp)) = y1
    BY <1>8, <1>z
  <2> QED BY <2>1, <2>2, <1>8, <1>b DEF Sets, Holds
<1>10. Does(m, c10, m10, R, S) /\ Reg(m10, s0) = row /\ Reg(m10, gp) = y1 /\ Reg(m10, tp) = ByteOf(t0, 3)
      /\ Mem(m10, 235) = ByteOf(t1, 3) /\ Mem(m10, 238) = ByteOf(t2, 2) /\ Mem(m10, 239) = ByteOf(t2, 3)
      /\ Mem(m10, 243) = ByteOf(x, 3) /\ Holds(m10, 252, u)
  <2>1. Does(m, c10, m10, R, S) /\ Sets(m9, m10, tp, Mem(m9, 231))
    BY <1>9, <1>b, <1>a, <1>p, LbuStack DEF c10, m10
  <2> QED BY <2>1, <1>9, <1>b DEF Sets, Holds
<1>11. Does(m, c11, m11, R, S) /\ Reg(m11, s0) = row /\ Reg(m11, gp) = y2 /\ Mem(m11, 235) = ByteOf(t1, 3)
      /\ Mem(m11, 238) = ByteOf(t2, 2) /\ Mem(m11, 239) = ByteOf(t2, 3) /\ Mem(m11, 243) = ByteOf(x, 3)
      /\ Holds(m11, 252, u)
  <2>1. Does(m, c11, m11, R, S) /\ Sets(m10, m11, gp, Add(Reg(m10, gp), Reg(m10, tp)))
    BY <1>10, <1>b, AddRuns DEF c11, m11
  <2>2. Add(Reg(m10, gp), Reg(m10, tp)) = y2
    BY <1>10, <1>z
  <2> QED BY <2>1, <2>2, <1>10, <1>b DEF Sets, Holds
<1>12. Does(m, c12, m12, R, S) /\ Reg(m12, s0) = row /\ Mem(m12, 228) = ByteOf(y2, 0)
      /\ Mem(m12, 231) = ByteOf(y2, 3) /\ Mem(m12, 235) = ByteOf(t1, 3) /\ Mem(m12, 238) = ByteOf(t2, 2)
      /\ Mem(m12, 239) = ByteOf(t2, 3) /\ Mem(m12, 243) = ByteOf(x, 3) /\ Holds(m12, 252, u)
  <2>1. Does(m, c12, m12, R, S) /\ Saves(m11, m12, 228, Reg(m11, gp))
    BY <1>11, <1>b, <1>a, <1>p, SwStack DEF c12, m12
  <2> QED BY <2>1, <1>11, <1>b DEF Saves, Holds
<1>13. Does(m, c13, m13, R, S) /\ Reg(m13, s0) = row /\ Reg(m13, gp) = ByteOf(t2, 2)
      /\ Mem(m13, 228) = ByteOf(y2, 0) /\ Mem(m13, 231) = ByteOf(y2, 3) /\ Mem(m13, 235) = ByteOf(t1, 3)
      /\ Mem(m13, 239) = ByteOf(t2, 3) /\ Mem(m13, 243) = ByteOf(x, 3) /\ Holds(m13, 252, u)
  <2>1. Does(m, c13, m13, R, S) /\ Sets(m12, m13, gp, Mem(m12, 238))
    BY <1>12, <1>b, <1>a, <1>p, LbuStack DEF c13, m13
  <2> QED BY <2>1, <1>12, <1>b DEF Sets, Holds
<1>14. Does(m, c14, m14, R, S) /\ Reg(m14, s0) = row /\ Reg(m14, gp) = ByteOf(t2, 2)
      /\ Reg(m14, tp) = ByteOf(t1, 3) /\ Mem(m14, 228) = ByteOf(y2, 0) /\ Mem(m14, 231) = ByteOf(y2, 3)
      /\ Mem(m14, 239) = ByteOf(t2, 3) /\ Mem(m14, 243) = ByteOf(x, 3) /\ Holds(m14, 252, u)
  <2>1. Does(m, c14, m14, R, S) /\ Sets(m13, m14, tp, Mem(m13, 235))
    BY <1>13, <1>b, <1>a, <1>p, LbuStack DEF c14, m14
  <2> QED BY <2>1, <1>13, <1>b DEF Sets, Holds
<1>15. Does(m, c15, m15, R, S) /\ Reg(m15, s0) = row /\ Reg(m15, gp) = z1 /\ Mem(m15, 228) = ByteOf(y2, 0)
      /\ Mem(m15, 231) = ByteOf(y2, 3) /\ Mem(m15, 239) = ByteOf(t2, 3) /\ Mem(m15, 243) = ByteOf(x, 3)
      /\ Holds(m15, 252, u)
  <2>1. Does(m, c15, m15, R, S) /\ Sets(m14, m15, gp, Add(Reg(m14, gp), Reg(m14, tp)))
    BY <1>14, <1>b, AddRuns DEF c15, m15
  <2>2. Add(Reg(m14, gp), Reg(m14, tp)) = z1
    BY <1>14, <1>z
  <2> QED BY <2>1, <2>2, <1>14, <1>b DEF Sets, Holds
<1>16. Does(m, c16, m16, R, S) /\ Reg(m16, s0) = row /\ Mem(m16, 228) = ByteOf(y2, 0) /\ Mem(m16, 229) = z1
      /\ Mem(m16, 231) = ByteOf(y2, 3) /\ Mem(m16, 239) = ByteOf(t2, 3) /\ Mem(m16, 243) = ByteOf(x, 3)
      /\ Holds(m16, 252, u)
  <2>1. Does(m, c16, m16, R, S) /\ Puts(m15, m16, 229, ByteOf(Reg(m15, gp), 0))
    BY <1>15, <1>b, <1>a, <1>p, SbStack DEF c16, m16
  <2>2. ByteOf(Reg(m15, gp), 0) = z1
    BY <1>15, <1>z, ByteWord
  <2> QED BY <2>1, <2>2, <1>15, <1>b DEF Puts, Holds
<1>17. Does(m, c17, m17, R, S) /\ Reg(m17, s0) = row /\ Reg(m17, gp) = ByteOf(t2, 3)
      /\ Mem(m17, 228) = ByteOf(y2, 0) /\ Mem(m17, 229) = z1 /\ Mem(m17, 231) = ByteOf(y2, 3)
      /\ Mem(m17, 243) = ByteOf(x, 3) /\ Holds(m17, 252, u)
  <2>1. Does(m, c17, m17, R, S) /\ Sets(m16, m17, gp, Mem(m16, 239))
    BY <1>16, <1>b, <1>a, <1>p, LbuStack DEF c17, m17
  <2> QED BY <2>1, <1>16, <1>b DEF Sets, Holds
<1>18. Does(m, c18, m18, R, S) /\ Reg(m18, s0) = row /\ Mem(m18, 228) = ByteOf(y2, 0) /\ Mem(m18, 229) = z1
      /\ Mem(m18, 230) = z2 /\ Mem(m18, 231) = ByteOf(y2, 3) /\ Mem(m18, 243) = ByteOf(x, 3)
      /\ Holds(m18, 252, u)
  <2>1. Does(m, c18, m18, R, S) /\ Puts(m17, m18, 230, ByteOf(Reg(m17, gp), 0))
    BY <1>17, <1>b, <1>a, <1>p, SbStack DEF c18, m18
  <2>2. ByteOf(Reg(m17, gp), 0) = z2
    BY <1>17, <1>z, ByteWord DEF z2
  <2> QED BY <2>1, <2>2, <1>17, <1>b DEF Puts, Holds
<1>19. Does(m, c19, m19, R, S) /\ Reg(m19, s0) = row /\ Reg(m19, gp) = v /\ Mem(m19, 243) = ByteOf(x, 3)
      /\ Holds(m19, 252, u)
  <2>1. Does(m, c19, m19, R, S) /\ Sets(m18, m19, gp, Loaded(m18, 228))
    BY <1>18, <1>b, <1>a, <1>p, LwStack DEF c19, m19
  <2>2. Loaded(m18, 228) = v
    BY <1>18, <1>z, ByteWord DEF Holds, Loaded
  <2> QED BY <2>1, <2>2, <1>18, <1>b DEF Sets, Holds
<1>20. Does(m, c20, m20, R, S) /\ Reg(m20, gp) = v /\ Reg(m20, s0) = row3 /\ Mem(m20, 243) = ByteOf(x, 3)
      /\ Holds(m20, 252, u)
  <2>1. Ready(m19) /\ Live(m19)
    BY <1>19, <1>b, StaysReady DEF Ready
  <2>2. Does(m19, i20, Run(m19, i20), Two(s0, tp), {}) /\ Reg(Run(m19, i20), s0) = RowAt(Chosen(is_arith), k)
    BY <2>1, <1>19, <1>b, ChooseRowDoes DEF row
  <2> DEFINE R2 == Two(s0, tp)
             S2 == {}
  <2>3. R2 \subseteq R /\ S2 \subseteq S
    BY <1>b DEF Two
  <2> HIDE DEF R2, S2
  <2>4. Does(m, c20, m20, R, S) /\ m20 = Run(m19, i20) /\ Keeps(m19, m20, R2, S2)
    BY <1>19, <2>2, <2>3, DoesNext DEF c20, m20, R2, S2
  <2>5. RowAt(Chosen(is_arith), k) = row3
    BY <1>19 DEF row3, lut
  <2> QED BY <2>2, <2>4, <2>5, <1>19, <1>b DEF Keeps, Holds, R2, S2, Two
<1>21. Does(m, c21, m21, R, S) /\ Reg(m21, gp) = v /\ Reg(m21, tp) = t3 /\ Holds(m21, 252, u)
  <2>1. Ready(m20) /\ Live(m20)
    BY <1>20, <1>b, StaysReady DEF Ready
  <2>2. Does(m20, i21, Run(m20, i21), One(tp), {})
        /\ Reg(Run(m20, i21), tp) = ShiftWord(lut, Mem(m20, 243), k)
    BY <2>1, <1>20, <1>b, <1>x, Ats, GetShiftDoes DEF row3
  <2> DEFINE R2 == One(tp)
             S2 == {}
  <2>3. R2 \subseteq R /\ S2 \subseteq S
    BY <1>b DEF One
  <2> HIDE DEF R2, S2
  <2>4. Does(m, c21, m21, R, S) /\ m21 = Run(m20, i21) /\ Keeps(m20, m21, R2, S2)
    BY <1>20, <2>2, <2>3, DoesNext DEF c21, m21, R2, S2
  <2>5. ShiftWord(lut, Mem(m20, 243), k) = t3
    BY <1>20, <1>t DEF Holds
  <2> QED BY <2>2, <2>4, <2>5, <1>20, <1>b DEF Keeps, Holds, R2, S2, One
<1>22. Does(m, c22, m22, R, S) /\ Reg(m22, gp) = v /\ Reg(m22, tp) = t3 /\ Reg(m22, s0) = u
  <2>1. Does(m, c22, m22, R, S) /\ Sets(m21, m22, s0, u)
    BY <1>21, <1>b, <1>a, <1>p, LwBack, <1>b DEF c22, m22
  <2> QED BY <2>1, <1>21, <1>b DEF Sets, Holds
<1>23. Does(m, c23, m23, R, S) /\ (rd # s0 => Reg(m23, s0) = u) /\ Reg(m23, rd) = w
  <2>1. Does(m, c23, m23, R, S) /\ Sets(m22, m23, rd, Add(Reg(m22, gp), Reg(m22, tp)))
    BY <1>22, <1>b, AddRuns DEF c23, m23
  <2>2. Add(Reg(m22, gp), Reg(m22, tp)) = w
    BY <1>22, <1>w
  <2> QED BY <2>1, <2>2, <1>22, <1>b DEF Sets, Holds
<1>e. c23 = ShiftRight(rd, is_arith)
  BY <1>c, <1>d DEF c1, c2, c3, c4, c5, c6, c7, c8, c9, c10, c11, c12, c13, c14, c15, c16, c17, c18, c19,
      c20, c21, c22, c23
<1> QED BY <1>23, <1>e DEF m23, R, S, w

\* srl and sra.
LEMMA ShiftRegDoes ==
  ASSUME NEW m, NEW rd, NEW rs1, NEW rs2, NEW is_arith,
         Ready(m),
         rd \in Regs \ {zero, sp},
         rs1 \in Regs,
         rs2 \in Regs,
         is_arith \in BOOLEAN
  PROVE  /\ Does(m, shift_right(rd, rs1, rs2, is_arith),
                 Run(m, shift_right(rd, rs1, rs2, is_arith)), Three(rd, gp, tp), Scratch)
         /\ Reg(Run(m, shift_right(rd, rs1, rs2, is_arith)), rd) = Shifted(is_arith, Reg(m, rs1), Reg(m, rs2) % 32)
<1> DEFINE x == Reg(m, rs1)
           y == Reg(m, rs2)
           u == Reg(m, s0)
           k == y % 32
           row == RowAt(Srl8, k)
           w == Shifted(is_arith, x, k)
           R == Four(s0, gp, tp, rd)
           S == Scratch
           c0 == <<>>
           i1 == sw(s0, -4, sp)
           c1 == c0 \o i1
           m1 == Run(m, c1)
           i2 == sw(rs1, -16, sp)
           c2 == c1 \o i2
           m2 == Run(m, c2)
           i3 == ShiftRow(rs2, Srl8)
           c3 == c2 \o i3
           m3 == Run(m, c3)
           i4 == ShiftRight(rd, is_arith)
           c4 == c3 \o i4
           m4 == Run(m, c4)
<1>s. S \subseteq Ram
  BY DEF Ram
<1>a. Block(252, S) /\ Block(240, S) /\ Slot(5) \subseteq S /\ Scratch \subseteq S
  BY ScratchPlaces, HalfScratch
<1>p. Spot(-4, 252) /\ Spot(-16, 240)
  BY Spots
<1>r. R \subseteq Regs \ {zero}
  BY RegNames DEF Four
<1>b. Ready(m) /\ sp \notin R /\ s0 \in R /\ gp \in R /\ tp \in R /\ rd \in R /\ s0 \in Regs /\ gp \in Regs
      /\ tp \in Regs /\ rd \in Regs /\ sp \in Regs /\ rs1 \in Regs /\ rs2 \in Regs
  BY RegNames DEF Four
<1>x. x \in Word /\ u \in Word /\ y \in Word
  BY RegWord, RegNames DEF Ready
<1>k. Shamt(k) /\ Shift(Srl8)
  BY <1>x, ShamtIs DEF Shift
<1>c. shift_right(rd, rs1, rs2, is_arith) = i1 \o i2 \o i3 \o i4
  BY DEF shift_right, Push, Var, VAR_A
<1> HIDE DEF R, S, c0, c1, c2, c3, c4, m1, m2, m3, m4, x, y, u, k, row, w
<1>d. i1 \in Code /\ c0 \o i1 = i1
  BY <1>b, RegNames, Coded, ConcatEmptySeq DEF Code, mv, li, c0
<1>0. Does(m, c0, m, R, S) /\ Reg(m, rs1) = x /\ Reg(m, rs2) = y /\ Reg(m, s0) = u
  BY <1>s, <1>r, <1>b, DoesNothing DEF Ready, c0, x, y, u
<1>1. Does(m, c1, m1, R, S) /\ Reg(m1, rs1) = x /\ Reg(m1, rs2) = y /\ Holds(m1, 252, u)
  <2>1. Does(m, c1, m1, R, S) /\ Saves(m, m1, 252, Reg(m, s0))
    BY <1>0, <1>b, <1>a, <1>p, SwStack DEF c1, m1
  <2> QED BY <2>1, <1>0, <1>b DEF Saves, Holds
<1>2. Does(m, c2, m2, R, S) /\ Reg(m2, rs2) = y /\ Holds(m2, 240, x) /\ Holds(m2, 252, u)
  <2>1. Does(m, c2, m2, R, S) /\ Saves(m1, m2, 240, Reg(m1, rs1))
    BY <1>1, <1>b, <1>a, <1>p, SwStack DEF c2, m2
  <2> QED BY <2>1, <1>1, <1>b DEF Saves, Holds
<1>3. Does(m, c3, m3, R, S) /\ Reg(m3, s0) = row /\ Holds(m3, 240, x) /\ Holds(m3, 252, u)
  <2>1. Ready(m2) /\ Live(m2)
    BY <1>2, <1>b, StaysReady DEF Ready
  <2>2. Does(m2, i3, Run(m2, i3), Two(s0, tp), Slot(5))
        /\ Reg(Run(m2, i3), s0) = RowAt(Srl8, Reg(m2, rs2) % 32)
    BY <2>1, <1>2, <1>b, <1>k, ShiftRowDoes
  <2> DEFINE R2 == Two(s0, tp)
             S2 == Slot(5)
  <2>3. R2 \subseteq R /\ S2 \subseteq S
    BY <1>b, <1>a DEF Two
  <2> HIDE DEF R2, S2
  <2>4. Does(m, c3, m3, R, S) /\ m3 = Run(m2, i3) /\ Keeps(m2, m3, R2, S2)
    BY <1>2, <2>2, <2>3, DoesNext DEF c3, m3, R2, S2
  <2>5. RowAt(Srl8, Reg(m2, rs2) % 32) = row
    BY <1>2 DEF row, k
  <2> QED BY <2>2, <2>4, <2>5, <1>2, <1>b DEF Keeps, Holds, R2, S2, Two, Slot
<1>4. Does(m, c4, m4, R, S) /\ Reg(m4, rd) = w /\ (rd # s0 => Reg(m4, s0) = u)
  <2>1. Ready(m3) /\ Live(m3)
    BY <1>3, <1>b, StaysReady DEF Ready
  <2>2. Does(m3, i4, Run(m3, i4), Four(s0, gp, tp, rd), Scratch) /\ Reg(Run(m3, i4), rd) = w
        /\ (rd # s0 => Reg(Run(m3, i4), s0) = u)
    BY <2>1, <1>3, <1>b, <1>k, <1>x, ShiftRightDoes DEF row, w
  <2> DEFINE R2 == Four(s0, gp, tp, rd)
             S2 == Scratch
  <2>3. R2 \subseteq R /\ S2 \subseteq S
    BY <1>b, <1>a DEF Four
  <2> HIDE DEF R2, S2
  <2>4. Does(m, c4, m4, R, S) /\ m4 = Run(m3, i4) /\ Keeps(m3, m4, R2, S2)
    BY <1>3, <2>2, <2>3, DoesNext DEF c4, m4, R2, S2
  <2> QED BY <2>2, <2>4, <1>3, <1>b DEF Keeps, Holds, R2, S2, Four, Slots3, Slots2, Slot
<1>e. c4 = shift_right(rd, rs1, rs2, is_arith)
  BY <1>c, <1>d DEF c1, c2, c3, c4
<1> DEFINE Q == Three(rd, gp, tp)
           T == Scratch
<1>f. /\ Q \subseteq R /\ \A r : r \in R /\ r \notin Q => Reg(m4, r) = Reg(m, r)
      /\ T \subseteq S /\ \A a : a \in S /\ a \notin T => Mem(m4, a) = Mem(m, a)
  BY <1>4, <1>b DEF R, S, Four, Three, x, y, u
<1> HIDE DEF Q, T
<1>g. Does(m, c4, m4, Q, T)
  BY <1>4, <1>f, DoesRestores
<1> QED BY <1>4, <1>e, <1>g DEF m4, Q, T, w, x, y, k

\* The row of a shift by a constant is where the code says, and linked.
LEMMA RowLinked ==
  ASSUME NEW lut, NEW k, Shift(lut), Shamt(k)
  PROVE  lut + k * B * 4 = RowAt(lut, k) /\ Linked(RowAt(lut, k))
<1> DEFINE z == 0
           e == RowAt(lut, k)
<1>1. z \in Byte
  BY ZeroBytes
<1>2. EntryAt(lut, z, k) \in Tables
  BY <1>1, ShiftPlace DEF EntryIn
<1>3. k \in Nat /\ B \in Nat /\ B * k \in Nat /\ lut \in Nat /\ B * k = k * B
  BY WidthBounds, TablePlaces DEF Shamt, Shift
<1>4. lut + k * B * 4 = e /\ EntryAt(lut, z, k) = e /\ e \in Nat
  <2> DEFINE w == B * k
  <2>1. w \in Nat /\ k * B = w
    BY <1>3
  <2> HIDE DEF w
  <2>2. lut + k * B * 4 = lut + 4 * w
    BY <1>3, <2>1
  <2>3. 4 * (z + w) = 4 * w
    BY <2>1
  <2> QED BY <1>3, <2>1, <2>2, <2>3 DEF EntryAt, RowAt, w
<1>5. RodataEnd \in Nat /\ RodataEnd + 4096 <= Modulus /\ Modulus \in Nat
  BY TablePlaces, TablesFit, WordNat
<1>6. e < RodataEnd
  <2>1. e \in Tables
    BY <1>2, <1>4
  <2> HIDE DEF e
  <2> QED BY <2>1, <1>4, <1>5, TablePlaces DEF Tables
<1>7. e + 4096 <= Modulus
  <2> HIDE DEF e
  <2> QED BY <1>4, <1>5, <1>6
<1> QED BY <1>4, <1>7 DEF Linked

\* A shift by three bytes leaves the share of the top byte.
LEMMA TopShift ==
  ASSUME NEW x, x \in Word
  PROVE  /\ SraRow(ByteOf(x, 3), 3 * ByteWidth) = Sar(x, 3 * ByteWidth)
         /\ ByteOf(x, 3) = Shr(x, 3 * ByteWidth)
<1> DEFINE a == ByteOf(x, 0)
           b == ByteOf(x, 1)
           c == ByteOf(x, 2)
           d == ByteOf(x, 3)
           y == a + B * b + (B * B) * c
           D == B * B * B
           n == 3 * ByteWidth
<1>1. x \in Int /\ x \in Nat /\ x = Wd(a, b, c, d)
  BY WordNat, WordIsBytes
<1>2. a \in Byte /\ b \in Byte /\ c \in Byte /\ d \in Byte
  BY <1>1, ByteRange
<1> HIDE DEF a, b, c, d
<1>3. n \in Nat /\ Pow2[n] = D /\ D \in Nat \ {0} /\ B \in Nat /\ Modulus \in Nat /\ Modulus = B * D
  <2>1. n \in Nat
    BY WidthAssumption
  <2>2. Pow2[n] = D /\ Modulus = B * B * B * B /\ B \in Nat /\ B >= 32
    BY Widths
  <2>3. D \in Nat \ {0} /\ Modulus = B * D
    <3> DEFINE E == B * B
    <3>1. E \in Nat \ {0} /\ B \in Nat \ {0}
      BY <2>2
    <3>2. D = B * E /\ Modulus = B * (B * E)
      BY <2>2
    <3> HIDE DEF E
    <3> QED BY <3>1, <3>2
  <2> QED BY <2>1, <2>2, <2>3, WordNat
<1>4. y \in Nat /\ y < D
  BY <1>2, ThreeBytesBelow
<1>5. x = y + D * d
  BY <1>1 DEF Wd
<1>6. d \in Nat /\ d < B
  BY <1>2, ByteNat
<1>7. PICK e \in Int : Signed(x) = y + D * e /\ Signed(d * D) = D * e
  BY <1>2, <1>4, <1>5, SignedTop
<1> HIDE DEF y, D
<1>8. Signed(x) = D * e + y /\ Signed(d * D) = D * e + 0
  BY <1>3, <1>4, <1>7
<1> DEFINE s == Signed(x)
           t == Signed(d * D)
           z == 0
<1>9. s \in Int /\ t \in Int /\ z \in Nat /\ z < D
  BY <1>3, <1>4, <1>7
<1>10. d * D \in Word
  <2>1. d * D = D * d /\ D * d \in Nat
    BY <1>3, <1>6
  <2>2. x < Modulus
    BY WordNat
  <2> DEFINE v == D * d
  <2> HIDE DEF v
  <2>3. v \in Nat /\ v < Modulus
    BY <1>1, <1>3, <1>4, <1>5, <2>1, <2>2 DEF v
  <2>4. v \in Word
    BY <1>3, <2>3 DEF Word
  <2>5. d * D = v
    BY <2>1 DEF v
  <2> QED BY <2>4, <2>5
<1>11. d * (B * B * B) = d * B * B * B
  BY <1>3, <1>6
<1> HIDE DEF s, t, z, n
<1>12. s \div D = e
  BY <1>3, <1>4, <1>8, <1>9, FloorIs DEF s
<1>13. t = D * e + z
  BY <1>8 DEF t, z
<1>14. t \div D = e
  BY <1>3, <1>9, <1>13, FloorIs
<1>15. Sar(x, n) = e % Modulus /\ Sar(d * D, n) = e % Modulus
  BY <1>3, <1>10, <1>12, <1>14, SarPlain DEF s, t
<1>16. Shr(x, n) = d
  <2>1. x \div D = d
    <3>1. x = D * d + y
      BY <1>1, <1>3, <1>4, <1>5, <1>6
    <3> QED BY <1>1, <1>3, <1>4, <1>6, <3>1, FloorIs
  <2> QED BY <2>1, <1>3, ShrPlain
<1>17. SraRow(d, n) = Sar(d * D, n)
  BY <1>11 DEF SraRow, D
<1> QED BY <1>15, <1>16, <1>17 DEF d, n

\* srai by three bytes.
TopRight(rd, rs1, k) ==
  sw(rs1, Var(VAR_A), sp) \o la(tp, RowAt(Sra8, k))
    \o lbu(rd, Var(VAR_A) + 3, sp) \o slli(rd, rd, 2) \o add(tp, tp, rd) \o lw(rd, 0, tp)

\* srai by three bytes takes the top byte.
LEMMA TopRightDoes ==
  ASSUME NEW m, NEW rd, NEW rs1, NEW k,
         Ready(m),
         rd \in Regs \ {zero, sp, tp},
         rs1 \in Regs,
         k = 3 * ByteWidth,
         Shamt(k)
  PROVE  /\ Does(m, TopRight(rd, rs1, k), Run(m, TopRight(rd, rs1, k)), Two(rd, tp), Slot(4))
         /\ Reg(Run(m, TopRight(rd, rs1, k)), rd) = Sar(Reg(m, rs1), 3 * ByteWidth)
<1> DEFINE x == Reg(m, rs1)
           b == ByteOf(x, 3)
           y4 == 4 * b
           t == RowAt(Sra8, k)
           a == EntryAt(Sra8, b, k)
           v == Sar(x, 3 * ByteWidth)
           R == Two(rd, tp)
           S == Slot(4)
           c0 == <<>>
           i1 == sw(rs1, -16, sp)
           c1 == c0 \o i1
           m1 == Run(m, c1)
           i2 == la(tp, t)
           c2 == c1 \o i2
           m2 == Run(m, c2)
           i3 == lbu(rd, -13, sp)
           c3 == c2 \o i3
           m3 == Run(m, c3)
           i4 == slli(rd, rd, 2)
           c4 == c3 \o i4
           m4 == Run(m, c4)
           i5 == add(tp, tp, rd)
           c5 == c4 \o i5
           m5 == Run(m, c5)
           i6 == lw(rd, 0, tp)
           c6 == c5 \o i6
           m6 == Run(m, c6)
<1>s. S \subseteq Ram
  <2>1. Slot(4) \subseteq Ram
    BY SlotRam
  <2> QED BY <2>1
<1>a. Block(240, S)
  <2>1. 240 \in Slot(4) /\ 241 \in Slot(4) /\ 242 \in Slot(4) /\ 243 \in Slot(4)
    BY SlotRam
  <2> QED BY <2>1 DEF Block
<1>p. Spot(-16, 240) /\ Spot(-13, 243)
  BY Spots
<1>r. R \subseteq Regs \ {zero}
  BY RegNames DEF Two
<1>b. Ready(m) /\ sp \notin R /\ rd \in R /\ tp \in R /\ rd \in Regs /\ tp \in Regs /\ sp \in Regs
      /\ rs1 \in Regs /\ rd # tp
  BY RegNames DEF Two
<1>x. x \in Word /\ x \in Int
  BY RegWord, WordNat, RegNames DEF Ready
<1>y. b \in Byte /\ Shift(Sra8) /\ Linked(t)
  BY <1>x, ByteRange, RowLinked DEF Shift
<1>t. /\ Shl(b, 2) = y4 /\ Add(t, y4) = a /\ a \in Tables /\ a + 1 \in Tables /\ a + 2 \in Tables /\ a + 3 \in Tables
      /\ Wd(Ro(a), Ro(a + 1), Ro(a + 2), Ro(a + 3)) = v
  <2>1. v = ShiftWord(Sra8, b, k)
    <3>1. v = SraRow(b, k)
      BY <1>x, TopShift
    <3> HIDE DEF b, v
    <3> QED BY <1>y, <3>1, ShiftMeans
  <2> HIDE DEF b, v
  <2> QED BY <1>y, <2>1, ShiftPlace DEF EntryIn, ShiftWord
<1>c. TopRight(rd, rs1, k) = i1 \o i2 \o i3 \o i4 \o i5 \o i6
  BY DEF TopRight, Var, VAR_A, t
<1> HIDE DEF R, S, c0, c1, c2, c3, c4, c5, c6, m1, m2, m3, m4, m5, m6, x, b, y4, t, a, v
<1>d. i1 \in Code /\ c0 \o i1 = i1
  BY <1>b, RegNames, Coded, ConcatEmptySeq DEF Code, mv, li, c0
<1>0. Does(m, c0, m, R, S) /\ Reg(m, rs1) = x
  BY <1>s, <1>r, <1>b, DoesNothing DEF Ready, c0, x
<1>1. Does(m, c1, m1, R, S) /\ Mem(m1, 243) = ByteOf(x, 3)
  <2>1. Does(m, c1, m1, R, S) /\ Saves(m, m1, 240, Reg(m, rs1))
    BY <1>0, <1>b, <1>a, <1>p, SwStack DEF c1, m1
  <2> QED BY <2>1, <1>0, <1>b DEF Saves, Holds
<1>2. Does(m, c2, m2, R, S) /\ Reg(m2, tp) = t /\ Mem(m2, 243) = ByteOf(x, 3)
  <2>1. Ready(m1) /\ Live(m1)
    BY <1>1, <1>b, StaysReady DEF Ready
  <2>2. Does(m1, i2, Run(m1, i2), One(tp), {}) /\ Reg(Run(m1, i2), tp) = t
    BY <2>1, <1>1, <1>b, <1>y, LaDoes
  <2> DEFINE R2 == One(tp)
             S2 == {}
  <2>3. R2 \subseteq R /\ S2 \subseteq S
    BY <1>b DEF One
  <2> HIDE DEF R2, S2
  <2>4. Does(m, c2, m2, R, S) /\ m2 = Run(m1, i2) /\ Keeps(m1, m2, R2, S2)
    BY <1>1, <2>2, <2>3, DoesNext DEF c2, m2, R2, S2
  <2> QED BY <2>2, <2>4, <1>1, <1>b DEF Keeps, Holds, R2, S2, One
<1>3. Does(m, c3, m3, R, S) /\ Reg(m3, tp) = t /\ Reg(m3, rd) = ByteOf(x, 3)
  <2>1. Does(m, c3, m3, R, S) /\ Sets(m2, m3, rd, Mem(m2, 243))
    <3>1. Does(m, c2, m2, R, S) /\ Ready(m) /\ sp \notin R /\ rd \in R /\ Spot(-13, 243)
      BY <1>2, <1>b, <1>a, <1>p
    <3> QED BY <3>1, LbuStack DEF c3, m3
  <2> QED BY <2>1, <1>2, <1>b DEF Sets, Holds
<1>4. Does(m, c4, m4, R, S) /\ Reg(m4, tp) = t /\ Reg(m4, rd) = y4
  <2>1. Ready(m3) /\ Live(m3)
    BY <1>3, <1>b, StaysReady DEF Ready
  <2>2. Does(m3, i4, Run(m3, i4), One(rd), {}) /\ Reg(Run(m3, i4), rd) = Shl(Reg(m3, rd), 2)
    BY <2>1, <1>3, <1>b, Shorts, SlliShort
  <2> DEFINE R2 == One(rd)
             S2 == {}
  <2>3. R2 \subseteq R /\ S2 \subseteq S
    BY <1>b DEF One
  <2> HIDE DEF R2, S2
  <2>4. Does(m, c4, m4, R, S) /\ m4 = Run(m3, i4) /\ Keeps(m3, m4, R2, S2)
    BY <1>3, <2>2, <2>3, DoesNext DEF c4, m4, R2, S2
  <2>5. Shl(Reg(m3, rd), 2) = y4
    BY <1>3, <1>t DEF b
  <2> QED BY <2>2, <2>4, <2>5, <1>3, <1>b DEF Keeps, Holds, R2, S2, One
<1>5. Does(m, c5, m5, R, S) /\ Reg(m5, tp) = a
  <2>1. Does(m, c5, m5, R, S) /\ Sets(m4, m5, tp, Add(Reg(m4, tp), Reg(m4, rd)))
    BY <1>4, <1>b, AddRuns DEF c5, m5
  <2>2. Add(Reg(m4, tp), Reg(m4, rd)) = a
    BY <1>4, <1>t
  <2> QED BY <2>1, <2>2, <1>4, <1>b DEF Sets, Holds
<1>6. Does(m, c6, m6, R, S) /\ Reg(m6, rd) = v
  <2>1. Does(m, c6, m6, R, S) /\ Sets(m5, m6, rd, Wd(Ro(a), Ro(a + 1), Ro(a + 2), Ro(a + 3)))
    BY <1>5, <1>b, TableLw, <1>t DEF c6, m6
  <2>2. Wd(Ro(a), Ro(a + 1), Ro(a + 2), Ro(a + 3)) = v
    BY <1>5, <1>t
  <2> QED BY <2>1, <2>2, <1>5, <1>b DEF Sets, Holds
<1>e. c6 = TopRight(rd, rs1, k)
  BY <1>c, <1>d DEF c1, c2, c3, c4, c5, c6
<1> QED BY <1>6, <1>e DEF m6, R, S, v, x

\* srli and srai the long way.
LongRight(rd, rs1, k, is_arith) ==
  Push(s0, 1) \o sw(rs1, Var(VAR_A), sp) \o la(s0, RowAt(Srl8, k)) \o ShiftRight(rd, is_arith)

\* srli and srai by any other amount load the amount and use the macro on registers.
LEMMA LongRightDoes ==
  ASSUME NEW m, NEW rd, NEW rs1, NEW k, NEW is_arith,
         Ready(m),
         rd \in Regs \ {zero, sp},
         rs1 \in Regs,
         Shamt(k),
         is_arith \in BOOLEAN
  PROVE  /\ Does(m, LongRight(rd, rs1, k, is_arith), Run(m, LongRight(rd, rs1, k, is_arith)),
                 Three(rd, gp, tp), Scratch)
         /\ Reg(Run(m, LongRight(rd, rs1, k, is_arith)), rd) = Shifted(is_arith, Reg(m, rs1), k)
<1> DEFINE x == Reg(m, rs1)
           u == Reg(m, s0)
           row == RowAt(Srl8, k)
           w == Shifted(is_arith, x, k)
           R == Four(s0, gp, tp, rd)
           S == Scratch
           c0 == <<>>
           i1 == sw(s0, -4, sp)
           c1 == c0 \o i1
           m1 == Run(m, c1)
           i2 == sw(rs1, -16, sp)
           c2 == c1 \o i2
           m2 == Run(m, c2)
           i3 == la(s0, row)
           c3 == c2 \o i3
           m3 == Run(m, c3)
           i4 == ShiftRight(rd, is_arith)
           c4 == c3 \o i4
           m4 == Run(m, c4)
<1>s. S \subseteq Ram
  BY DEF Ram
<1>a. Block(252, S) /\ Block(240, S) /\ Scratch \subseteq S
  BY ScratchPlaces
<1>p. Spot(-4, 252) /\ Spot(-16, 240)
  BY Spots
<1>r. R \subseteq Regs \ {zero}
  BY RegNames DEF Four
<1>b. Ready(m) /\ sp \notin R /\ s0 \in R /\ gp \in R /\ tp \in R /\ rd \in R /\ s0 \in Regs /\ gp \in Regs
      /\ tp \in Regs /\ rd \in Regs /\ sp \in Regs /\ rs1 \in Regs
  BY RegNames DEF Four
<1>x. x \in Word /\ u \in Word
  BY RegWord, RegNames DEF Ready
<1>k. Shift(Srl8) /\ Linked(row)
  BY RowLinked DEF Shift
<1>c. LongRight(rd, rs1, k, is_arith) = i1 \o i2 \o i3 \o i4
  BY DEF LongRight, Push, Var, VAR_A, row
<1> HIDE DEF R, S, c0, c1, c2, c3, c4, m1, m2, m3, m4, x, u, row, w
<1>d. i1 \in Code /\ c0 \o i1 = i1
  BY <1>b, RegNames, Coded, ConcatEmptySeq DEF Code, mv, li, c0
<1>0. Does(m, c0, m, R, S) /\ Reg(m, rs1) = x /\ Reg(m, s0) = u
  BY <1>s, <1>r, <1>b, DoesNothing DEF Ready, c0, x, u
<1>1. Does(m, c1, m1, R, S) /\ Reg(m1, rs1) = x /\ Holds(m1, 252, u)
  <2>1. Does(m, c1, m1, R, S) /\ Saves(m, m1, 252, Reg(m, s0))
    BY <1>0, <1>b, <1>a, <1>p, SwStack DEF c1, m1
  <2> QED BY <2>1, <1>0, <1>b DEF Saves, Holds
<1>2. Does(m, c2, m2, R, S) /\ Holds(m2, 240, x) /\ Holds(m2, 252, u)
  <2>1. Does(m, c2, m2, R, S) /\ Saves(m1, m2, 240, Reg(m1, rs1))
    BY <1>1, <1>b, <1>a, <1>p, SwStack DEF c2, m2
  <2> QED BY <2>1, <1>1, <1>b DEF Saves, Holds
<1>3. Does(m, c3, m3, R, S) /\ Reg(m3, s0) = row /\ Holds(m3, 240, x) /\ Holds(m3, 252, u)
  <2>1. Ready(m2) /\ Live(m2)
    BY <1>2, <1>b, StaysReady DEF Ready
  <2>2. Does(m2, i3, Run(m2, i3), One(s0), {}) /\ Reg(Run(m2, i3), s0) = row
    BY <2>1, <1>2, <1>b, <1>k, LaDoes
  <2> DEFINE R2 == One(s0)
             S2 == {}
  <2>3. R2 \subseteq R /\ S2 \subseteq S
    BY <1>b DEF One
  <2> HIDE DEF R2, S2
  <2>4. Does(m, c3, m3, R, S) /\ m3 = Run(m2, i3) /\ Keeps(m2, m3, R2, S2)
    BY <1>2, <2>2, <2>3, DoesNext DEF c3, m3, R2, S2
  <2> QED BY <2>2, <2>4, <1>2, <1>b DEF Keeps, Holds, R2, S2, One
<1>4. Does(m, c4, m4, R, S) /\ Reg(m4, rd) = w /\ (rd # s0 => Reg(m4, s0) = u)
  <2>1. Ready(m3) /\ Live(m3)
    BY <1>3, <1>b, StaysReady DEF Ready
  <2>2. Does(m3, i4, Run(m3, i4), Four(s0, gp, tp, rd), Scratch) /\ Reg(Run(m3, i4), rd) = w
        /\ (rd # s0 => Reg(Run(m3, i4), s0) = u)
    BY <2>1, <1>3, <1>b, <1>k, <1>x, ShiftRightDoes DEF row, w
  <2> DEFINE R2 == Four(s0, gp, tp, rd)
             S2 == Scratch
  <2>3. R2 \subseteq R /\ S2 \subseteq S
    BY <1>b, <1>a DEF Four
  <2> HIDE DEF R2, S2
  <2>4. Does(m, c4, m4, R, S) /\ m4 = Run(m3, i4) /\ Keeps(m3, m4, R2, S2)
    BY <1>3, <2>2, <2>3, DoesNext DEF c4, m4, R2, S2
  <2> QED BY <2>2, <2>4, <1>3, <1>b DEF Keeps, Holds, R2, S2, Four, Slots3, Slots2, Slot
<1>e. c4 = LongRight(rd, rs1, k, is_arith)
  BY <1>c, <1>d DEF c1, c2, c3, c4
<1> DEFINE Q == Three(rd, gp, tp)
           T == Scratch
<1>f. /\ Q \subseteq R /\ \A r : r \in R /\ r \notin Q => Reg(m4, r) = Reg(m, r)
      /\ T \subseteq S /\ \A a : a \in S /\ a \notin T => Mem(m4, a) = Mem(m, a)
  BY <1>4, <1>b DEF R, S, Four, Three, x, u
<1> HIDE DEF Q, T
<1>g. Does(m, c4, m4, Q, T)
  BY <1>4, <1>f, DoesRestores
<1> QED BY <1>4, <1>e, <1>g DEF m4, Q, T, w, x

\* srli and srai.
LEMMA ShiftImmDoes ==
  ASSUME NEW m, NEW rd, NEW rs1, NEW k, NEW is_arith, Ready(m), rd \in Regs \ {zero, sp, tp}, rs1 \in Regs,
         Shamt(k), is_arith \in BOOLEAN
  PROVE  /\ Does(m, shift_right_imm(rd, rs1, k, is_arith),
                 Run(m, shift_right_imm(rd, rs1, k, is_arith)), Three(rd, gp, tp), Scratch)
         /\ Reg(Run(m, shift_right_imm(rd, rs1, k, is_arith)), rd) = Shifted(is_arith, Reg(m, rs1), k)
<1> DEFINE Q == Three(rd, gp, tp)
<1>1. Q \subseteq Regs \ {zero} /\ Two(rd, tp) \subseteq Q /\ One(rd) \subseteq Q
  BY RegNames DEF One, Two, Three
<1>2. Slot(4) \subseteq Scratch /\ Slot(6) \subseteq Scratch /\ Scratch \subseteq Ram
  BY ScratchPlaces DEF Ram
<1>3. Srl8 + k * B * 4 = RowAt(Srl8, k) /\ Sra8 + k * B * 4 = RowAt(Sra8, k)
  BY RowLinked DEF Shift
<1>4. CASE k # 3 * ByteWidth
  <2>1. shift_right_imm(rd, rs1, k, is_arith) = LongRight(rd, rs1, k, is_arith)
    BY <1>3, <1>4 DEF shift_right_imm, LongRight
  <2> QED BY <2>1, LongRightDoes
<1>5. CASE k = 3 * ByteWidth /\ is_arith = TRUE
  <2>1. shift_right_imm(rd, rs1, k, is_arith) = TopRight(rd, rs1, k)
    BY <1>3, <1>5 DEF shift_right_imm, TopRight
  <2>2. Shifted(is_arith, Reg(m, rs1), k) = Sar(Reg(m, rs1), k)
    BY <1>5, Zenon DEF Shifted
  <2>3. /\ Does(m, TopRight(rd, rs1, k), Run(m, TopRight(rd, rs1, k)), Two(rd, tp), Slot(4))
        /\ Reg(Run(m, TopRight(rd, rs1, k)), rd) = Sar(Reg(m, rs1), k)
    BY <1>5, TopRightDoes
  <2>4. Does(m, TopRight(rd, rs1, k), Run(m, TopRight(rd, rs1, k)), Q, Scratch)
    <3> HIDE DEF Q
    <3> QED BY <1>1, <1>2, <2>3, DoesMore
  <2> QED BY <2>1, <2>2, <2>3, <2>4
<1>6. CASE k = 3 * ByteWidth /\ is_arith = FALSE
  <2>1. shift_right_imm(rd, rs1, k, is_arith) = Getbyte(rd, rs1, 3)
    BY <1>6 DEF shift_right_imm
  <2>2. Shifted(is_arith, Reg(m, rs1), k) = Shr(Reg(m, rs1), k)
    BY <1>6, Zenon DEF Shifted
  <2>3. /\ Does(m, Getbyte(rd, rs1, 3), Run(m, Getbyte(rd, rs1, 3)), One(rd), Slot(6))
        /\ Reg(Run(m, Getbyte(rd, rs1, 3)), rd) = ByteOf(Reg(m, rs1), 3)
    BY GetbyteDoes
  <2>4. Does(m, Getbyte(rd, rs1, 3), Run(m, Getbyte(rd, rs1, 3)), Q, Scratch)
    <3> HIDE DEF Q
    <3> QED BY <1>1, <1>2, <2>3, DoesMore
  <2>5. Reg(m, rs1) \in Word
    BY RegWord DEF Ready
  <2>6. ByteOf(Reg(m, rs1), 3) = Shr(Reg(m, rs1), k)
    BY <1>6, <2>5, TopShift
  <2> QED BY <2>1, <2>2, <2>3, <2>4, <2>6
<1> QED BY <1>4, <1>5, <1>6

-----------------------------------------------------------------------------
(* 20. The program's own loads and stores *)

\* Neither memory nor a table.
Outside(a) == a \notin Ram /\ a \notin Tables

\* Memory and tables are away from 0 and from the end of the addresses.
LEMMA FarAway == /\ \A a : a \in Ram \/ a \in Tables => a \in Nat /\ a < Modulus /\ a # 0
                 /\ Outside(0) /\ Outside(Modulus)
<1>1. \A a : a \in Ram => a \in Nat /\ a < Modulus /\ a # 0
  <2>1. 0 \notin Ram
    BY WidthBounds DEF Ram, Scratch, Owned, SameArray
  <2> QED BY <2>1, Places
<1>2. \A a : a \in Tables => a \in Nat /\ a < Modulus /\ a # 0
  <2>1. \A a : a \in Tables => a >= 4096
    BY Places DEF Rodata
  <2> QED BY <2>1, Places
<1>3. \A a : a \in Ram \/ a \in Tables => a \in Nat /\ a < Modulus /\ a # 0
  BY <1>1, <1>2
<1>4. Modulus \in Nat
  BY WordNat
<1>5. Outside(0)
  BY <1>3 DEF Outside
<1>6. Outside(Modulus)
  <2> DEFINE M == Modulus
  <2>1. M \notin Ram /\ M \notin Tables
    <3>1. \A a : a \in Ram \/ a \in Tables => a < M /\ a \in Nat
      BY <1>3
    <3>2. M \in Nat
      BY <1>4
    <3> HIDE DEF M
    <3> QED BY <3>1, <3>2
  <2> QED BY <2>1 DEF Outside
<1> QED BY <1>3, <1>5, <1>6

\* The byte after an address and the address after it part only at the end of the word.
LEMMA NextPlace ==
  ASSUME NEW x, NEW off, x \in Word, off \in Int
  PROVE  \/ Add(x, off + 1) = Add(x, off) + 1
         \/ Outside(Add(x, off + 1)) /\ Outside(Add(x, off) + 1)
<1> DEFINE y == x + off
           a == y % Modulus
           z == x + (off + 1)
           M == Modulus
<1>1. x \in Int /\ y \in Int /\ M \in Nat /\ M > 1
  BY WordNat, WidthBounds
<1>2. PICK q \in Int : y = Modulus * q + a /\ a \in Word
  <2> HIDE DEF y
  <2> QED BY <1>1, ModApart
<1>3. z = y + 1 /\ z \in Int
  BY <1>1
<1> HIDE DEF y, a
<1>4. a \in Nat /\ a < M
  BY <1>2, WordNat
<1> DEFINE b == a + 1
           t == Modulus * q
<1>5. t \in Int /\ z = t + b /\ b \in Int
  BY <1>1, <1>2, <1>3, <1>4
<1> HIDE DEF b, t, z, M
<1>6. z % Modulus = b % Modulus
  BY <1>3, <1>5, ModSame DEF t
<1>7. Add(x, off) = a /\ Add(x, off + 1) = z % Modulus
  BY DEF Add, a, y, z
<1>8. CASE b < M
  <2>1. b \in Word
    BY <1>1, <1>4, <1>8 DEF Word, M, b
  <2> QED BY <1>6, <1>7, <2>1, SmallWord DEF b
<1>9. CASE ~ (b < M)
  <2>1. b = M
    BY <1>1, <1>4, <1>9 DEF b
  <2>2. b % Modulus = 0
    <3> DEFINE one == 1
               zr == 0
    <3>1. b = Modulus * one + zr /\ one \in Int /\ zr \in Int /\ zr \in Word
      BY <1>1, <2>1, WordNat DEF Word, M
    <3> HIDE DEF one, zr
    <3>2. b % Modulus = zr % Modulus
      BY <1>5, <3>1, ModSame
    <3>3. zr % Modulus = zr
      BY <3>1, SmallWord
    <3> QED BY <3>2, <3>3 DEF zr
  <2>3. Outside(z % Modulus) /\ Outside(b)
    BY <1>6, <2>1, <2>2, FarAway DEF M
  <2> QED BY <1>7, <2>3 DEF b
<1> QED BY <1>8, <1>9

\* A load, wherever it goes.
LEMMA ReadDoes ==
  ASSUME NEW m, NEW rd, NEW addr, NEW len, NEW v, Live(m), rd \in Regs \ {zero}, v \in Word,
         v = FromBytes([n \in 0 .. len - 1 |-> ByteIn(m, addr + n)], len)
  PROVE  /\ Live(Read(m, rd, addr, len)) /\ Sets(m, Read(m, rd, addr, len), rd, v)
         /\ Read(m, rd, addr, len).pc = m.pc
         /\ Read(m, rd, addr, len).stray = (m.stray \/ \E n \in 0 .. len - 1 : Outside(addr + n))
<1> DEFINE out == \E n \in 0 .. len - 1 : addr + n \notin Ram /\ addr + n \notin Tables
           m1 == Set(m, rd, v)
           m2 == Read(m, rd, addr, len)
<1>1. m2 = [m1 EXCEPT !.stray = @ \/ out]
  BY DEF Read
<1>2. out = \E n \in 0 .. len - 1 : Outside(addr + n)
  BY DEF Outside
<1>3. Live(m1) /\ Sets(m, m1, rd, v) /\ m1.pc = m.pc /\ m1.stray = m.stray
  BY SetRuns
<1>4. out \in BOOLEAN
  OBVIOUS
<1> HIDE DEF m1, m2, out
<1>5. m1 \in Machine
  BY <1>3 DEF Live
<1>6. /\ m2 \in Machine /\ m2.pc = m1.pc /\ m2.stray = (m1.stray \/ out) /\ m2.jumped = m1.jumped
      /\ m2.ram = m1.ram /\ m2.regs = m1.regs
  BY <1>1, <1>4, <1>5 DEF Machine
<1>7. (\A r : Reg(m2, r) = Reg(m1, r)) /\ (\A a : Mem(m2, a) = Mem(m1, a))
  BY <1>6 DEF Reg, Mem
<1>8. Live(m2)
  BY <1>3, <1>6, <1>7 DEF Live
<1>9. Sets(m, m2, rd, v)
  BY <1>3, <1>7 DEF Sets
<1> QED BY <1>2, <1>3, <1>6, <1>8, <1>9 DEF m2

\* Read of a byte, and when it strays.
LEMMA ReadByteDoes ==
  ASSUME NEW m, NEW rd, NEW addr, Live(m), rd \in Regs \ {zero}, addr \in Int
  PROVE  /\ Live(Read(m, rd, addr, 1)) /\ Sets(m, Read(m, rd, addr, 1), rd, ByteIn(m, addr))
         /\ Read(m, rd, addr, 1).pc = m.pc
         /\ Read(m, rd, addr, 1).stray = (m.stray \/ Outside(addr))
<1> DEFINE len == 1
           v == ByteIn(m, addr)
           f == [n \in 0 .. len - 1 |-> ByteIn(m, addr + n)]
           out == \E n \in 0 .. len - 1 : Outside(addr + n)
           m2 == Read(m, rd, addr, len)
<1>1. v = FromBytes(f, len)
  <2>1. len - 1 = 0 /\ FromBytes([n \in 0 .. 0 |-> ByteIn(m, addr + n)], 1) = v
    BY ByteLoaded
  <2> QED BY <2>1
<1>2. v \in Word
  BY Cells, ByteWord
<1>3. out = Outside(addr)
  <2>1. 0 .. len - 1 = {0} /\ addr + 0 = addr
    OBVIOUS
  <2> HIDE DEF len
  <2>2. out <=> Outside(addr)
    BY <2>1
  <2> QED BY <2>2 DEF Outside
<1> HIDE DEF v, len
<1>4. Live(m2) /\ Sets(m, m2, rd, v) /\ m2.pc = m.pc /\ m2.stray = (m.stray \/ out)
  BY <1>1, <1>2, ReadDoes
<1> HIDE DEF out, m2, f
<1> QED BY <1>3, <1>4 DEF v, m2, len

\* Read of a half word, and when it strays.
LEMMA ReadHalfDoes ==
  ASSUME NEW m, NEW rd, NEW addr, Live(m), rd \in Regs \ {zero}, addr \in Int
  PROVE  /\ Live(Read(m, rd, addr, 2))
         /\ Sets(m, Read(m, rd, addr, 2), rd, ByteIn(m, addr) + B * ByteIn(m, addr + 1))
         /\ Read(m, rd, addr, 2).pc = m.pc
         /\ Read(m, rd, addr, 2).stray = (m.stray \/ Outside(addr) \/ Outside(addr + 1))
<1> DEFINE len == 2
           a == ByteIn(m, addr)
           b == ByteIn(m, addr + 1)
           v == a + B * b
           f == [n \in 0 .. 1 |-> ByteIn(m, addr + n)]
           g == [n \in 0 .. len - 1 |-> ByteIn(m, addr + n)]
           out == \E n \in 0 .. len - 1 : Outside(addr + n)
           m2 == Read(m, rd, addr, len)
<1>0. a \in Byte /\ b \in Byte /\ a \in Nat /\ b \in Nat /\ f \in [0 .. 1 -> Nat]
  <2>1. \A n : ByteIn(m, n) \in Byte /\ ByteIn(m, n) \in Nat
    BY Cells, ByteNat
  <2> QED BY <2>1
<1>1. FromBytes(f, 2) = v
  <2>1. f[0] = a /\ f[1] = b
    BY SMT
  <2> HIDE DEF f
  <2>2. FromBytes(f, 2) = f[0] + B * f[1]
    BY <1>0, FromTwoBytes
  <2> QED BY <2>1, <2>2
<1>2. v = FromBytes(g, len)
  <2>1. len - 1 = 1 /\ len = 2
    OBVIOUS
  <2>2. g = f
    BY <2>1
  <2> HIDE DEF g, f, v
  <2> QED BY <1>1, <2>1, <2>2
<1>3. v \in Word
  <2>1. Wd(a, b, 0, 0) \in Word
    BY <1>0, ZeroBytes, WdWord
  <2>2. Wd(a, b, 0, 0) = v
    <3> HIDE DEF a, b
    <3>1. B \in Nat /\ B * B \in Nat /\ B * B * B \in Nat /\ B * b \in Nat
      BY <1>0, Sizes
    <3> QED BY <1>0, <3>1 DEF Wd
  <2> QED BY <2>1, <2>2
<1>4. out = (Outside(addr) \/ Outside(addr + 1))
  <2>1. 0 .. len - 1 = {0, 1} /\ addr + 0 = addr
    OBVIOUS
  <2> HIDE DEF len
  <2>2. out <=> Outside(addr) \/ Outside(addr + 1)
    BY <2>1
  <2> QED BY <2>2 DEF Outside
<1> HIDE DEF v, len
<1>5. Live(m2) /\ Sets(m, m2, rd, v) /\ m2.pc = m.pc /\ m2.stray = (m.stray \/ out)
  BY <1>2, <1>3, ReadDoes
<1> HIDE DEF out, m2
<1>6. m2.stray = (m.stray \/ Outside(addr) \/ Outside(addr + 1))
  BY <1>4, <1>5, Zenon
<1> QED BY <1>5, <1>6 DEF v, m2, len

\* Like Does, for code that may leave the memory when o holds.
Reaches(m0, c, m, R, S, o) ==
  /\ c \in Code /\ m = Run(m0, c)
  /\ Live(m) /\ m.pc = m0.pc /\ (m.stray => m0.stray \/ o)
  /\ R \subseteq Regs \ {zero} /\ S \subseteq Ram
  /\ \A r : r \notin R => Reg(m, r) = Reg(m0, r)
  /\ \A a : a \notin S => Mem(m, a) = Mem(m0, a)

\* No code reaches nothing.
LEMMA ReachesNothing ==
  ASSUME NEW m, NEW R, NEW S, NEW o, Live(m), R \subseteq Regs \ {zero}, S \subseteq Ram
  PROVE  Reaches(m, <<>>, m, R, S, o)
BY RunNone DEF Reaches

\* Code that leaves sp alone leaves the stack in place.
LEMMA ReachesReady ==
  ASSUME NEW m0, NEW c, NEW m, NEW R, NEW S, NEW o, Reaches(m0, c, m, R, S, o), Ready(m0), sp \notin R
  PROVE  Ready(m)
BY DEF Ready, Reaches

\* Code leaves zero alone.
LEMMA ReachesZero ==
  ASSUME NEW m0, NEW c, NEW m, NEW R, NEW S, NEW o, Reaches(m0, c, m, R, S, o)
  PROVE  Reg(m, zero) = 0
BY DEF Reaches, Live

\* Code that does not stray after code that may.
LEMMA ReachesNext ==
  ASSUME NEW m0, NEW c, NEW m, NEW R, NEW S, NEW d, NEW R2, NEW S2, NEW o,
         Reaches(m0, c, m, R, S, o), Does(m, d, Run(m, d), R2, S2), R2 \subseteq R, S2 \subseteq S
  PROVE  /\ Reaches(m0, c \o d, Run(m0, c \o d), R, S, o) /\ Run(m0, c \o d) = Run(m, d)
         /\ Keeps(m, Run(m0, c \o d), R2, S2)
<1>1. c \o d \in Code /\ Run(m0, c \o d) = Run(m, d)
  BY RunBoth DEF Does, Reaches
<1>2. Reaches(m0, c \o d, Run(m, d), R, S, o)
  BY <1>1 DEF Does, Reaches
<1>3. Keeps(m, Run(m, d), R2, S2)
  BY DEF Does, Keeps
<1> QED BY <1>1, <1>2, <1>3

\* The same, when both change the same.
LEMMA ReachesOne ==
  ASSUME NEW m0, NEW c, NEW m, NEW R, NEW S, NEW d, NEW o,
         Reaches(m0, c, m, R, S, o), Does(m, d, Run(m, d), R, S)
  PROVE  Reaches(m0, c \o d, Run(m0, c \o d), R, S, o) /\ Run(m0, c \o d) = Run(m, d)
<1>1. c \o d \in Code /\ Run(m0, c \o d) = Run(m, d)
  BY RunBoth DEF Does, Reaches
<1>2. Reaches(m0, c \o d, Run(m, d), R, S, o)
  BY <1>1 DEF Does, Reaches
<1> QED BY <1>1, <1>2

\* A byte the expansion has not changed.
LEMMA SameByte ==
  ASSUME NEW m0, NEW c, NEW m, NEW R, NEW S, NEW o, NEW a, Reaches(m0, c, m, R, S, o), a \notin S
  PROVE  ByteIn(m, a) = ByteIn(m0, a)
<1>1. Mem(m, a) = Mem(m0, a)
  BY DEF Reaches
<1> QED BY <1>1 DEF ByteIn, Mem

\* lbu of the program's own address, which strays where the address is outside.
LEMMA ReachesLbu ==
  ASSUME NEW m0, NEW c, NEW m, NEW R, NEW S, NEW rd, NEW off, NEW base, NEW a, NEW x, NEW o,
         Reaches(m0, c, m, R, S, o), rd \in R, base \in Regs, off \in Int, Reg(m, base) = x,
         a = Add(x, off), a \in Int, a \notin S, Outside(a) => o
  PROVE  /\ Reaches(m0, c \o lbu(rd, off, base), Run(m0, c \o lbu(rd, off, base)), R, S, o)
         /\ Sets(m, Run(m0, c \o lbu(rd, off, base)), rd, ByteIn(m0, a))
<1> DEFINE i == [op |-> "lbu", a |-> rd, b |-> off, c |-> base]
           d == <<i>>
           v == ByteIn(m, a)
           m2 == Read(m, rd, a, 1)
<1>1. Live(m) /\ rd \in Regs \ {zero} /\ rd \in Int /\ base \in Int /\ c \in Code
  BY RegNames DEF Reaches
<1>2. i \in Op
  BY <1>1 DEF Op
<1>3. Exec(m, i) = m2
  BY <1>1 DEF Exec, Live, Reg
<1>4. Live(m2) /\ Sets(m, m2, rd, v) /\ m2.pc = m.pc /\ m2.stray = (m.stray \/ Outside(a))
  BY <1>1, ReadByteDoes
<1>5. v = ByteIn(m0, a)
  BY SameByte
<1>6. lbu(rd, off, base) = d
  BY DEF lbu, Base
<1>7. d \in Code /\ Run(m, d) = Exec(m, i)
  BY <1>2, RunOne
<1> HIDE DEF i, d, m2, v
<1>8. c \o d \in Code /\ Run(m0, c \o d) = m2
  BY <1>1, <1>3, <1>7, RunBoth DEF Reaches
<1>9. Reaches(m0, c \o d, m2, R, S, o)
  BY <1>4, <1>8 DEF Reaches, Sets
<1> QED BY <1>4, <1>5, <1>6, <1>8, <1>9

\* sw to the stack.
LEMMA ReachesSw ==
  ASSUME NEW m0, NEW c, NEW m, NEW R, NEW S, NEW o, NEW rs2, NEW off, NEW a,
         Reaches(m0, c, m, R, S, o), Ready(m0), sp \notin R, rs2 \in Regs, Spot(off, a), Block(a, S)
  PROVE  /\ Reaches(m0, c \o sw(rs2, off, sp), Run(m0, c \o sw(rs2, off, sp)), R, S, o)
         /\ Saves(m, Run(m0, c \o sw(rs2, off, sp)), a, Reg(m, rs2))
<1> DEFINE e == <<>>
           d == sw(rs2, off, sp)
<1>1. Ready(m) /\ Live(m) /\ R \subseteq Regs \ {zero} /\ S \subseteq Ram
  BY ReachesReady DEF Reaches
<1>2. Does(m, e, m, R, S)
  BY <1>1, DoesNothing
<1>3. d \in Code
  BY <1>1, Coded, RegNames DEF Spot, WordSpot
<1> HIDE DEF e
<1>4. Does(m, e \o d, Run(m, e \o d), R, S) /\ Saves(m, Run(m, e \o d), a, Reg(m, rs2))
  BY <1>1, <1>2, SwStack
<1>5. e \o d = d
  BY <1>3, ConcatEmptySeq DEF Code, e
<1> HIDE DEF d
<1>6. Does(m, d, Run(m, d), R, S)
  BY <1>4, <1>5
<1>7. Reaches(m0, c \o d, Run(m0, c \o d), R, S, o) /\ Run(m0, c \o d) = Run(m, d)
  BY <1>6, ReachesOne
<1> QED BY <1>4, <1>5, <1>7 DEF d

\* sb to the stack.
LEMMA ReachesSb ==
  ASSUME NEW m0, NEW c, NEW m, NEW R, NEW S, NEW o, NEW rs2, NEW off, NEW a,
         Reaches(m0, c, m, R, S, o), Ready(m0), sp \notin R, rs2 \in Regs, Spot(off, a), a \in S
  PROVE  /\ Reaches(m0, c \o sb(rs2, off, sp), Run(m0, c \o sb(rs2, off, sp)), R, S, o)
         /\ Puts(m, Run(m0, c \o sb(rs2, off, sp)), a, ByteOf(Reg(m, rs2), 0))
<1> DEFINE e == <<>>
           d == sb(rs2, off, sp)
<1>1. Ready(m) /\ Live(m) /\ R \subseteq Regs \ {zero} /\ S \subseteq Ram
  BY ReachesReady DEF Reaches
<1>2. Does(m, e, m, R, S)
  BY <1>1, DoesNothing
<1>3. d \in Code
  BY <1>1, Coded, RegNames DEF Spot, WordSpot
<1> HIDE DEF e
<1>4. Does(m, e \o d, Run(m, e \o d), R, S) /\ Puts(m, Run(m, e \o d), a, ByteOf(Reg(m, rs2), 0))
  BY <1>1, <1>2, SbStack
<1>5. e \o d = d
  BY <1>3, ConcatEmptySeq DEF Code, e
<1> HIDE DEF d
<1>6. Does(m, d, Run(m, d), R, S)
  BY <1>4, <1>5
<1>7. Reaches(m0, c \o d, Run(m0, c \o d), R, S, o) /\ Run(m0, c \o d) = Run(m, d)
  BY <1>6, ReachesOne
<1> QED BY <1>4, <1>5, <1>7 DEF d

\* lw from the stack.
LEMMA ReachesLw ==
  ASSUME NEW m0, NEW c, NEW m, NEW R, NEW S, NEW o, NEW rd, NEW off, NEW a,
         Reaches(m0, c, m, R, S, o), Ready(m0), sp \notin R, rd \in R, WordSpot(off, a)
  PROVE  /\ Reaches(m0, c \o lw(rd, off, sp), Run(m0, c \o lw(rd, off, sp)), R, S, o)
         /\ Sets(m, Run(m0, c \o lw(rd, off, sp)), rd, Loaded(m, a))
<1> DEFINE e == <<>>
           d == lw(rd, off, sp)
<1>1. Ready(m) /\ Live(m) /\ R \subseteq Regs \ {zero} /\ S \subseteq Ram
  BY ReachesReady DEF Reaches
<1>2. Does(m, e, m, R, S)
  BY <1>1, DoesNothing
<1>3. d \in Code
  BY <1>1, Coded, RegNames DEF Spot, WordSpot
<1> HIDE DEF e
<1>4. Does(m, e \o d, Run(m, e \o d), R, S) /\ Sets(m, Run(m, e \o d), rd, Loaded(m, a))
  BY <1>1, <1>2, LwStack
<1>5. e \o d = d
  BY <1>3, ConcatEmptySeq DEF Code, e
<1> HIDE DEF d
<1>6. Does(m, d, Run(m, d), R, S)
  BY <1>4, <1>5
<1>7. Reaches(m0, c \o d, Run(m0, c \o d), R, S, o) /\ Run(m0, c \o d) = Run(m, d)
  BY <1>6, ReachesOne
<1> QED BY <1>4, <1>5, <1>7 DEF d

\* One more add.
LEMMA ReachesAdd ==
  ASSUME NEW m0, NEW c, NEW m, NEW R, NEW S, NEW o, NEW rd, NEW rs1, NEW rs2,
         Reaches(m0, c, m, R, S, o), Ready(m0), sp \notin R, rd \in R, rs1 \in Regs, rs2 \in Regs
  PROVE  /\ Reaches(m0, c \o add(rd, rs1, rs2), Run(m0, c \o add(rd, rs1, rs2)), R, S, o)
         /\ Sets(m, Run(m0, c \o add(rd, rs1, rs2)), rd, Add(Reg(m, rs1), Reg(m, rs2)))
<1> DEFINE e == <<>>
           d == add(rd, rs1, rs2)
<1>1. Ready(m) /\ Live(m) /\ R \subseteq Regs \ {zero} /\ S \subseteq Ram
  BY ReachesReady DEF Reaches
<1>2. Does(m, e, m, R, S)
  BY <1>1, DoesNothing
<1>3. d \in Code
  BY <1>1, Coded, RegNames DEF Spot, WordSpot
<1> HIDE DEF e
<1>4. Does(m, e \o d, Run(m, e \o d), R, S) /\ Sets(m, Run(m, e \o d), rd, Add(Reg(m, rs1), Reg(m, rs2)))
  BY <1>1, <1>2, AddRuns
<1>5. e \o d = d
  BY <1>3, ConcatEmptySeq DEF Code, e
<1> HIDE DEF d
<1>6. Does(m, d, Run(m, d), R, S)
  BY <1>4, <1>5
<1>7. Reaches(m0, c \o d, Run(m0, c \o d), R, S, o) /\ Run(m0, c \o d) = Run(m, d)
  BY <1>6, ReachesOne
<1> QED BY <1>4, <1>5, <1>7 DEF d

\* The signed byte at the top of a word.
LEMMA TopByte ==
  ASSUME NEW b, b \in Byte
  PROVE  /\ Wd(0, 0, 0, b) \in Word /\ Sext(b, B) \in Int
         /\ Signed(Wd(0, 0, 0, b)) = (B * B * B) * Sext(b, B)
<1> DEFINE D == B * B * B
           h == B \div 2
           w == Wd(0, 0, 0, b)
           u == D * b
           v == D * h
<1>1. B \in Nat /\ B = 2 * h /\ h \in Nat /\ D \in Nat \ {0} /\ b \in Nat /\ b < B
  <2>1. D \in Nat \ {0}
    <3> DEFINE E == B * B
    <3>1. E \in Nat \ {0} /\ B \in Nat \ {0}
      BY WidthBounds
    <3>2. D = E * B
      OBVIOUS
    <3> HIDE DEF E
    <3> QED BY <3>1, <3>2
  <2> QED BY <2>1, Widths, ByteNat
<1>2. w \in Word
  BY ZeroBytes, WdWord
<1>3. w = u /\ u \in Nat /\ v \in Nat
  <2>1. w = 0 + B * 0 + (B * B) * 0 + D * b
    BY DEF Wd
  <2>2. B * B \in Nat
    BY WidthBounds
  <2> HIDE DEF D
  <2> QED BY <1>1, <2>1, <2>2
<1>4. Modulus = 2 * v
  <2>1. Modulus = B * B * B * B
    BY Widths
  <2>2. Modulus = D * B
    BY <2>1
  <2> HIDE DEF D, h
  <2> QED BY <1>1, <2>2
<1>5. v \in Int /\ Modulus \div 2 = v
  <2> HIDE DEF v
  <2> QED BY <1>3, <1>4
<1> HIDE DEF w
<1>6. Signed(w) = IF u >= v THEN u - 2 * v ELSE u
  <2> HIDE DEF u, v
  <2> QED BY <1>3, <1>4, <1>5 DEF Signed
<1> HIDE DEF h, D
<1>7. Sext(b, B) = IF b >= h THEN b - 2 * h ELSE b
  BY <1>1 DEF Sext, h
<1>8. CASE b >= h
  <2>1. u >= v
    <3> DEFINE i == b - h
    <3>1. i \in Nat /\ b = h + i
      BY <1>1, <1>8
    <3> HIDE DEF i
    <3>2. u = v + D * i /\ D * i \in Nat
      BY <1>1, <3>1
    <3> QED BY <1>3, <3>2
  <2>2. D * (b - 2 * h) = u - 2 * v
    BY <1>1
  <2>3. Signed(w) = u - 2 * v
    <3> HIDE DEF u, v
    <3> QED BY <1>6, <2>1
  <2>4. Sext(b, B) = b - 2 * h
    BY <1>7, <1>8
  <2> QED BY <1>1, <1>2, <2>2, <2>3, <2>4 DEF w, D
<1>9. CASE ~ (b >= h)
  <2>1. ~ (u >= v)
    <3> DEFINE i == h - b
    <3>1. i \in Nat \ {0} /\ h = b + i
      BY <1>1, <1>9
    <3> HIDE DEF i
    <3>2. v = u + D * i /\ D * i \in Nat \ {0}
      BY <1>1, <3>1
    <3> DEFINE k == D * i
    <3> HIDE DEF k, u, v
    <3>3. v = u + k /\ k \in Nat /\ k > 0
      BY <3>2 DEF k
    <3> QED BY <1>3, <3>3
  <2>2. Signed(w) = u
    <3> HIDE DEF u, v
    <3> QED BY <1>6, <2>1
  <2>3. Sext(b, B) = b
    BY <1>7, <1>9
  <2> QED BY <1>1, <1>2, <2>2, <2>3 DEF w, D
<1> QED BY <1>8, <1>9

\* What lb, lh and lhu make of the bytes.
LEMMA LbValue ==
  ASSUME NEW b, b \in Byte
  PROVE  Shifted(TRUE, Wd(0, 0, 0, b), 3 * ByteWidth) = Sext(b, B) % Modulus
<1> DEFINE w == Wd(0, 0, 0, b)
           e == Sext(b, B)
           D == B * B * B
           n == 3 * ByteWidth
           s == Signed(w)
           z == 0
<1>1. w \in Word /\ e \in Int /\ s = D * e
  BY TopByte
<1>2. n \in Nat /\ Pow2[n] = D
  BY Widths, WidthAssumption
<1>3. D \in Nat \ {0}
  <2>1. Pow2[n] \in Nat \ {0}
    BY <1>2, Pow2Positive
  <2> QED BY <1>2, <2>1
<1> HIDE DEF w, e, D, n
<1>4. s \in Int /\ z \in Nat /\ z < D /\ s = D * e + z
  BY <1>1, <1>3
<1> HIDE DEF s, z
<1>5. s \div D = e
  BY <1>1, <1>3, <1>4, FloorIs
<1>6. Sar(w, n) = e % Modulus
  BY <1>1, <1>2, <1>5, SarPlain DEF s
<1>7. Shifted(TRUE, w, n) = Sar(w, n)
  BY DEF Shifted
<1> QED BY <1>6, <1>7 DEF w, e, n

\* A byte plus the arithmetic shift of the byte above it is the half word with its sign.
LEMMA LhValue ==
  ASSUME NEW a, NEW b, a \in Byte, b \in Byte
  PROVE  Add(a, Shifted(TRUE, Wd(0, 0, 0, b), 2 * ByteWidth)) = Sext(a + B * b, B * B) % Modulus
<1> DEFINE w == Wd(0, 0, 0, b)
           e == Sext(b, B)
           E == B * B
           D == B * B * B
           n == 2 * ByteWidth
           s == Signed(w)
           z == 0
           q == B * e
           h == B \div 2
           g == E \div 2
           x == a + B * b
<1>1. w \in Word /\ e \in Int /\ s = D * e
  BY TopByte
<1>2. n \in Nat /\ Pow2[n] = E /\ B \in Nat /\ E \in Nat \ {0}
  BY Widths, WidthBounds, WidthAssumption
<1>3. a \in Nat /\ a < B /\ b \in Nat /\ b < B /\ B = 2 * h /\ h \in Nat /\ h > 0
  BY Widths, ByteNat
<1> HIDE DEF w, e
<1>4. D * e = E * q /\ q \in Int
  BY <1>1, <1>2
<1> HIDE DEF D, n, q, E
<1>5. s \in Int /\ z \in Nat /\ z < E /\ s = E * q + z
  BY <1>1, <1>2, <1>4
<1> HIDE DEF s, z
<1>6. s \div E = q
  BY <1>2, <1>4, <1>5, FloorIs
<1>7. Sar(w, n) = q % Modulus
  BY <1>1, <1>2, <1>6, SarPlain DEF s
<1>8. Shifted(TRUE, w, n) = q % Modulus
  BY <1>7 DEF Shifted
<1>9. Add(a, q % Modulus) = (a + q) % Modulus
  <2>1. a \in Int /\ q \in Int
    BY <1>3, <1>4
  <2> QED BY <2>1, ModSum
<1>10. E = 2 * (B * h) /\ B * h \in Nat
  BY <1>2, <1>3 DEF E
<1>11. g = B * h
  <2> DEFINE k == B * h
  <2> HIDE DEF k
  <2>1. E = 2 * k /\ k \in Nat
    BY <1>10 DEF k
  <2>2. E \div 2 = k
    BY <2>1
  <2> QED BY <2>2 DEF k
<1>12. Sext(x, E) = a + q
  <2>1. e = IF b >= h THEN b - B ELSE b
    BY DEF e, Sext
  <2>2. Sext(x, E) = IF x >= g THEN x - E ELSE x
    BY DEF Sext
  <2> HIDE DEF h, g, x
  <2>3. CASE b >= h
    <3> DEFINE i == b - h
    <3>1. i \in Nat /\ b = h + i
      BY <1>3, <2>3
    <3> HIDE DEF i
    <3>2. B * b = B * h + B * i /\ B * i \in Nat
      BY <1>2, <1>3, <3>1
    <3> DEFINE k == B * i
               l == B * h
    <3>3. k \in Nat /\ l \in Nat /\ x = a + (l + k) /\ g = l
      BY <1>10, <1>11, <3>2 DEF x
    <3> HIDE DEF k, l
    <3>4. x >= g
      BY <1>3, <3>3
    <3>5. q = B * b - E
      <4>1. e = b - B
        BY <2>1, <2>3
      <4>2. B * (b - B) = B * b - B * B
        BY <1>2, <1>3
      <4> QED BY <4>1, <4>2 DEF q, E
    <3>6. x - E = a + q
      <4> DEFINE y == B * b
      <4>1. y \in Nat /\ x = a + y /\ q = y - E
        BY <1>2, <1>3, <3>5 DEF x
      <4> HIDE DEF y
      <4> QED BY <1>2, <1>3, <4>1
    <3> QED BY <2>2, <3>4, <3>6
  <2>4. CASE ~ (b >= h)
    <3> DEFINE i == h - 1 - b
    <3>1. i \in Nat /\ h = b + i + 1
      BY <1>3, <2>4
    <3> HIDE DEF i
    <3>2. B * h = B * b + B * i + B /\ B * i \in Nat /\ B * b \in Nat
      BY <1>2, <1>3, <3>1
    <3> DEFINE k == B * i
               y == B * b
    <3>3. k \in Nat /\ y \in Nat /\ x = a + y /\ g = y + k + B
      BY <1>11, <3>2 DEF x
    <3> HIDE DEF k, y
    <3>4. ~ (x >= g)
      BY <1>2, <1>3, <3>3
    <3>5. q = y
      BY <2>1, <2>4 DEF q, y
    <3> QED BY <2>2, <3>3, <3>4, <3>5
  <2> QED BY <2>3, <2>4
<1> QED BY <1>8, <1>9, <1>12 DEF w, n, E, x

\* A byte plus the byte above it, one place up, is the half word.
LEMMA LhuValue ==
  ASSUME NEW a, NEW b, a \in Byte, b \in Byte
  PROVE  Add(a, Wd(0, b, 0, 0)) = a + B * b /\ a + B * b \in Word
<1> DEFINE u == B * b
<1>1. a \in Nat /\ u \in Nat /\ B * B \in Nat /\ B * B * B \in Nat
  BY ByteNat, Sizes
<1>2. Wd(0, b, 0, 0) = u /\ Wd(a, b, 0, 0) = a + u
  <2>1. /\ Wd(0, b, 0, 0) = 0 + u + (B * B) * 0 + (B * B * B) * 0
        /\ Wd(a, b, 0, 0) = a + u + (B * B) * 0 + (B * B * B) * 0
    BY DEF Wd
  <2> HIDE DEF u
  <2> QED BY <1>1, <2>1
<1>3. a + u \in Word
  <2>1. Wd(a, b, 0, 0) \in Word
    BY ZeroBytes, WdWord
  <2> QED BY <1>2, <2>1
<1> HIDE DEF u
<1>4. Add(a, u) = a + u
  <2>1. a + u >= 0 /\ a + u < Modulus
    BY <1>1, <1>3, WordNat
  <2> QED BY <1>1, <2>1, AddSmall
<1> QED BY <1>2, <1>3, <1>4 DEF u

\* lb.
LEMMA LbDoes ==
  ASSUME NEW m, NEW rd, NEW off, NEW base, NEW o,
         Ready(m),
         rd \in Regs \ {zero, sp, gp, tp},
         base \in Regs \ {gp, tp},
         off \in Int,
         Add(Reg(m, base), off) \notin Scratch,
         (Outside(Add(Reg(m, base), off)) => o)
  PROVE  /\ Reaches(m, lb(rd, off, base), Run(m, lb(rd, off, base)), Three(rd, gp, tp), Scratch, o)
         /\ Reg(Run(m, lb(rd, off, base)), rd) = Sext(ByteIn(m, Add(Reg(m, base), off)), B) % Modulus
<1> DEFINE x == Reg(m, base)
           zr == 0
           pl == Add(x, off)
           u == ByteIn(m, pl)
           bits == 3 * ByteWidth
           ar == TRUE
           w == Wd(0, 0, 0, u)
           v == Sext(u, B) % Modulus
           R == Three(rd, gp, tp)
           S == Scratch
           c0 == <<>>
           i1 == sw(zero, -16, sp)
           c1 == c0 \o i1
           m1 == Run(m, c1)
           i2 == lbu(rd, off, base)
           c2 == c1 \o i2
           m2 == Run(m, c2)
           i3 == sb(rd, -13, sp)
           c3 == c2 \o i3
           m3 == Run(m, c3)
           i4 == lw(rd, -16, sp)
           c4 == c3 \o i4
           m4 == Run(m, c4)
           i5 == shift_right_imm(rd, rd, bits, ar)
           c5 == c4 \o i5
           m5 == Run(m, c5)
<1>s. S \subseteq Ram
  BY DEF Ram
<1>a. Block(240, S) /\ 243 \in S /\ Scratch \subseteq S
  BY ScratchPlaces
<1>p. Spot(-16, 240) /\ Spot(-13, 243) /\ WordSpot(-16, 240)
  BY Spots
<1>r. R \subseteq Regs \ {zero}
  BY RegNames DEF Three
<1>b. Ready(m) /\ sp \notin R /\ rd \in R /\ gp \in R /\ tp \in R /\ rd \in Regs /\ gp \in Regs /\ tp \in Regs
      /\ base \in Regs /\ zero \in Regs /\ sp \in Regs /\ base # gp /\ base # tp /\ rd # gp /\ rd # tp
      /\ pl \notin S /\ (Outside(pl) => o)
  BY RegNames DEF Three
<1>x. x \in Int /\ off \in Int /\ pl \in Int /\ pl = Add(x, off)
  <2>1. x \in Int
    BY <1>b, RegWord DEF Ready
  <2> HIDE DEF x
  <2>2. off \in Int
    OBVIOUS
  <2>3. pl \in Word
    BY <2>1, <2>2, AddWord
  <2> HIDE DEF pl
  <2>4. pl \in Int
    BY <2>3, WordNat
  <2> QED BY <2>1, <2>2, <2>4 DEF pl
<1>u. u \in Byte
  BY Cells DEF Ready
<1>t. u \in Word /\ ByteOf(u, 0) = u /\ Shifted(ar, w, bits) = v /\ Shamt(bits) /\ ar \in BOOLEAN
  <2> HIDE DEF u
  <2>1. u \in Word /\ ByteOf(u, 0) = u /\ Shifted(ar, w, bits) = v
    BY <1>u, ByteWord, LbValue
  <2>2. Shamt(bits)
    BY WidthAssumption DEF Shamt
  <2> QED BY <2>1, <2>2
<1>c. lb(rd, off, base) = i1 \o i2 \o i3 \o i4 \o i5
  BY DEF lb, Var, VAR_A, bits, ar
<1> HIDE DEF R, S, c0, c1, c2, c3, c4, c5, m1, m2, m3, m4, m5, x, pl, u, w, v, bits, ar
<1>d. i1 \in Code /\ c0 \o i1 = i1
  BY <1>b, RegNames, Coded, ConcatEmptySeq DEF Code, mv, li, c0
<1>0. Reaches(m, c0, m, R, S, o) /\ Reg(m, base) = x
  BY <1>s, <1>r, <1>b, ReachesNothing DEF Ready, c0, x
<1>1. /\ Reaches(m, c1, m1, R, S, o) /\ Reg(m1, base) = x /\ Mem(m1, 240) = ByteOf(0, 0)
      /\ Mem(m1, 241) = ByteOf(0, 1)
      /\ Mem(m1, 242) = ByteOf(0, 2)
  <2>1. Reaches(m, c1, m1, R, S, o) /\ Saves(m, m1, 240, Reg(m, zero))
    BY <1>0, <1>b, <1>a, <1>p, ReachesSw DEF c1, m1
  <2>2. Reg(m, zero) = 0
    BY <1>0, ReachesZero
  <2> QED BY <2>1, <2>2, <1>0, <1>b DEF Saves, Holds
<1>2. /\ Reaches(m, c2, m2, R, S, o) /\ Reg(m2, rd) = u /\ Mem(m2, 240) = ByteOf(0, 0)
      /\ Mem(m2, 241) = ByteOf(0, 1)
      /\ Mem(m2, 242) = ByteOf(0, 2)
  <2>1. Reaches(m, c2, m2, R, S, o) /\ Sets(m1, m2, rd, ByteIn(m, pl))
    BY <1>1, <1>b, ReachesLbu, <1>x DEF c2, m2
  <2>2. ByteIn(m, pl) = u
    BY <1>1 DEF u
  <2> QED BY <2>1, <2>2, <1>1, <1>b DEF Sets, Holds
<1>3. Reaches(m, c3, m3, R, S, o) /\ Mem(m3, 240) = ByteOf(0, 0) /\ Mem(m3, 241) = ByteOf(0, 1)
      /\ Mem(m3, 242) = ByteOf(0, 2) /\ Mem(m3, 243) = u
  <2>1. Reaches(m, c3, m3, R, S, o) /\ Puts(m2, m3, 243, ByteOf(Reg(m2, rd), 0))
    <3>1. Reaches(m, c2, m2, R, S, o) /\ Ready(m) /\ sp \notin R /\ rd \in Regs /\ Spot(-13, 243) /\ 243 \in S
      BY <1>2, <1>b, <1>a, <1>p
    <3> QED BY <3>1, ReachesSb DEF c3, m3
  <2>2. ByteOf(Reg(m2, rd), 0) = u
    BY <1>2, <1>t
  <2> QED BY <2>1, <2>2, <1>2, <1>b DEF Puts, Holds
<1>4. Reaches(m, c4, m4, R, S, o) /\ Reg(m4, rd) = w
  <2>1. Reaches(m, c4, m4, R, S, o) /\ Sets(m3, m4, rd, Loaded(m3, 240))
    <3>1. Reaches(m, c3, m3, R, S, o) /\ Ready(m) /\ sp \notin R /\ rd \in R /\ WordSpot(-16, 240)
      BY <1>3, <1>b, <1>a, <1>p
    <3> QED BY <3>1, ReachesLw DEF c4, m4
  <2>2. Loaded(m3, 240) = w
    BY <1>3, ZeroBytes DEF Holds, Loaded, w
  <2> QED BY <2>1, <2>2, <1>3, <1>b DEF Sets, Holds
<1>5. Reaches(m, c5, m5, R, S, o) /\ Reg(m5, rd) = v
  <2>1. Ready(m4) /\ Live(m4)
    BY <1>4, <1>b, ReachesReady DEF Ready
  <2>2. Does(m4, i5, Run(m4, i5), Three(rd, gp, tp), Scratch)
        /\ Reg(Run(m4, i5), rd) = Shifted(ar, Reg(m4, rd), bits)
    BY <2>1, <1>4, <1>b, <1>t, ShiftImmDoes
  <2> DEFINE R2 == Three(rd, gp, tp)
             S2 == Scratch
  <2>3. R2 \subseteq R /\ S2 \subseteq S
    BY <1>b, <1>a DEF Three
  <2> HIDE DEF R2, S2
  <2>4. Reaches(m, c5, m5, R, S, o) /\ m5 = Run(m4, i5) /\ Keeps(m4, m5, R2, S2)
    BY <1>4, <2>2, <2>3, ReachesNext DEF c5, m5, R2, S2
  <2>5. Shifted(ar, Reg(m4, rd), bits) = v
    BY <1>4, <1>t
  <2> QED BY <2>2, <2>4, <2>5, <1>4, <1>b DEF Keeps, Holds, R2, S2, Three, Slot
<1>e. c5 = lb(rd, off, base)
  BY <1>c, <1>d DEF c1, c2, c3, c4, c5
<1> QED BY <1>5, <1>e DEF m5, R, S, x, pl, u, v

\* The halfword at off from x.
HalfAt(m, x, off) == ByteIn(m, Add(x, off)) + B * ByteIn(m, Add(x, off + 1))

\* lhu.
LEMMA LhuDoes ==
  ASSUME NEW m, NEW rd, NEW off, NEW base, NEW o,
         Ready(m),
         rd \in Regs \ {zero, sp, gp, tp},
         base \in Regs \ {gp, tp},
         off \in Int,
         Add(Reg(m, base), off) \notin Scratch,
         Add(Reg(m, base), off + 1) \notin Scratch,
         (Outside(Add(Reg(m, base), off)) => o),
         (Outside(Add(Reg(m, base), off + 1)) => o)
  PROVE  /\ Reaches(m, lhu(rd, off, base), Run(m, lhu(rd, off, base)), Three(rd, gp, tp), Scratch, o)
         /\ Reg(Run(m, lhu(rd, off, base)), rd) = HalfAt(m, Reg(m, base), off)
<1> DEFINE x == Reg(m, base)
           zr == 0
           pl == Add(x, off)
           u == ByteIn(m, pl)
           off2 == off + 1
           pl2 == Add(x, off2)
           t == ByteIn(m, pl2)
           w == Wd(0, t, 0, 0)
           v == u + B * t
           R == Three(rd, gp, tp)
           S == Scratch
           c0 == <<>>
           i1 == sw(zero, -16, sp)
           c1 == c0 \o i1
           m1 == Run(m, c1)
           i2 == lbu(tp, off2, base)
           c2 == c1 \o i2
           m2 == Run(m, c2)
           i3 == sb(tp, -15, sp)
           c3 == c2 \o i3
           m3 == Run(m, c3)
           i4 == lw(tp, -16, sp)
           c4 == c3 \o i4
           m4 == Run(m, c4)
           i5 == lbu(rd, off, base)
           c5 == c4 \o i5
           m5 == Run(m, c5)
           i6 == add(rd, rd, tp)
           c6 == c5 \o i6
           m6 == Run(m, c6)
<1>s. S \subseteq Ram
  BY DEF Ram
<1>a. Block(240, S) /\ 241 \in S
  BY ScratchPlaces
<1>p. Spot(-16, 240) /\ Spot(-15, 241) /\ WordSpot(-16, 240)
  BY Spots
<1>r. R \subseteq Regs \ {zero}
  BY RegNames DEF Three
<1>b. Ready(m) /\ sp \notin R /\ rd \in R /\ gp \in R /\ tp \in R /\ rd \in Regs /\ gp \in Regs /\ tp \in Regs
      /\ base \in Regs /\ zero \in Regs /\ sp \in Regs /\ base # gp /\ base # tp /\ rd # gp /\ rd # tp
      /\ pl \notin S /\ (Outside(pl) => o) /\ off2 \in Int /\ pl2 \notin S /\ (Outside(pl2) => o)
  BY RegNames DEF Three
<1>x. /\ x \in Int /\ off \in Int /\ pl \in Int /\ pl = Add(x, off) /\ off2 \in Int /\ pl2 \in Int
      /\ pl2 = Add(x, off2)
  <2>1. x \in Int
    BY <1>b, RegWord DEF Ready
  <2> HIDE DEF x
  <2>2. off \in Int /\ off2 \in Int
    OBVIOUS
  <2> HIDE DEF off2
  <2>3. pl \in Word /\ pl2 \in Word
    BY <2>1, <2>2, AddWord
  <2> HIDE DEF pl, pl2
  <2>4. pl \in Int /\ pl2 \in Int
    BY <2>3, WordNat
  <2> QED BY <2>1, <2>2, <2>4 DEF pl, pl2
<1>u. u \in Byte /\ t \in Byte
  BY Cells DEF Ready
<1>t. t \in Word /\ ByteOf(t, 0) = t /\ Add(u, w) = v
  <2> HIDE DEF u, t
  <2> QED BY <1>u, ByteWord, LhuValue
<1>c. lhu(rd, off, base) = i1 \o i2 \o i3 \o i4 \o i5 \o i6
  BY DEF lhu, Var, VAR_A, off2
<1> HIDE DEF R, S, c0, c1, c2, c3, c4, c5, c6, m1, m2, m3, m4, m5, m6, x, pl, u, off2, pl2, t, w, v
<1>d. i1 \in Code /\ c0 \o i1 = i1
  BY <1>b, RegNames, Coded, ConcatEmptySeq DEF Code, mv, li, c0
<1>0. Reaches(m, c0, m, R, S, o) /\ Reg(m, base) = x
  BY <1>s, <1>r, <1>b, ReachesNothing DEF Ready, c0, x
<1>1. /\ Reaches(m, c1, m1, R, S, o) /\ Reg(m1, base) = x /\ Mem(m1, 240) = ByteOf(0, 0)
      /\ Mem(m1, 242) = ByteOf(0, 2)
      /\ Mem(m1, 243) = ByteOf(0, 3)
  <2>1. Reaches(m, c1, m1, R, S, o) /\ Saves(m, m1, 240, Reg(m, zero))
    BY <1>0, <1>b, <1>a, <1>p, ReachesSw DEF c1, m1
  <2>2. Reg(m, zero) = 0
    BY <1>0, ReachesZero
  <2> QED BY <2>1, <2>2, <1>0, <1>b DEF Saves, Holds
<1>2. Reaches(m, c2, m2, R, S, o) /\ Reg(m2, base) = x /\ Reg(m2, tp) = t /\ Mem(m2, 240) = ByteOf(0, 0)
      /\ Mem(m2, 242) = ByteOf(0, 2) /\ Mem(m2, 243) = ByteOf(0, 3)
  <2>1. Reaches(m, c2, m2, R, S, o) /\ Sets(m1, m2, tp, ByteIn(m, pl2))
    BY <1>1, <1>b, ReachesLbu, <1>x DEF c2, m2
  <2>2. ByteIn(m, pl2) = t
    BY <1>1 DEF t
  <2> QED BY <2>1, <2>2, <1>1, <1>b DEF Sets, Holds
<1>3. Reaches(m, c3, m3, R, S, o) /\ Reg(m3, base) = x /\ Mem(m3, 240) = ByteOf(0, 0) /\ Mem(m3, 241) = t
      /\ Mem(m3, 242) = ByteOf(0, 2) /\ Mem(m3, 243) = ByteOf(0, 3)
  <2>1. Reaches(m, c3, m3, R, S, o) /\ Puts(m2, m3, 241, ByteOf(Reg(m2, tp), 0))
    <3>1. Reaches(m, c2, m2, R, S, o) /\ Ready(m) /\ sp \notin R /\ tp \in Regs /\ Spot(-15, 241) /\ 241 \in S
      BY <1>2, <1>b, <1>a, <1>p
    <3> QED BY <3>1, ReachesSb DEF c3, m3
  <2>2. ByteOf(Reg(m2, tp), 0) = t
    BY <1>2, <1>t
  <2> QED BY <2>1, <2>2, <1>2, <1>b DEF Puts, Holds
<1>4. Reaches(m, c4, m4, R, S, o) /\ Reg(m4, base) = x /\ Reg(m4, tp) = w
  <2>1. Reaches(m, c4, m4, R, S, o) /\ Sets(m3, m4, tp, Loaded(m3, 240))
    BY <1>3, <1>b, <1>a, <1>p, ReachesLw DEF c4, m4
  <2>2. Loaded(m3, 240) = w
    BY <1>3, ZeroBytes DEF Holds, Loaded, w
  <2> QED BY <2>1, <2>2, <1>3, <1>b DEF Sets, Holds
<1>5. Reaches(m, c5, m5, R, S, o) /\ Reg(m5, tp) = w /\ Reg(m5, rd) = u
  <2>1. Reaches(m, c5, m5, R, S, o) /\ Sets(m4, m5, rd, ByteIn(m, pl))
    BY <1>4, <1>b, ReachesLbu, <1>x DEF c5, m5
  <2>2. ByteIn(m, pl) = u
    BY <1>4 DEF u
  <2> QED BY <2>1, <2>2, <1>4, <1>b DEF Sets, Holds
<1>6. Reaches(m, c6, m6, R, S, o) /\ Reg(m6, rd) = v
  <2>1. Reaches(m, c6, m6, R, S, o) /\ Sets(m5, m6, rd, Add(Reg(m5, rd), Reg(m5, tp)))
    BY <1>5, <1>b, ReachesAdd DEF c6, m6
  <2>2. Add(Reg(m5, rd), Reg(m5, tp)) = v
    BY <1>5, <1>t
  <2> QED BY <2>1, <2>2, <1>5, <1>b DEF Sets, Holds
<1>e. c6 = lhu(rd, off, base)
  BY <1>c, <1>d DEF c1, c2, c3, c4, c5, c6
<1> QED BY <1>6, <1>e DEF m6, R, S, x, pl, u, off2, pl2, t, v, HalfAt

\* lh.
LEMMA LhDoes ==
  ASSUME NEW m, NEW rd, NEW off, NEW base, NEW o,
         Ready(m),
         rd \in Regs \ {zero, sp, gp, tp},
         base \in Regs \ {gp, tp},
         off \in Int,
         Add(Reg(m, base), off) \notin Scratch,
         Add(Reg(m, base), off + 1) \notin Scratch,
         (Outside(Add(Reg(m, base), off)) => o),
         (Outside(Add(Reg(m, base), off + 1)) => o)
  PROVE  /\ Reaches(m, lh(rd, off, base), Run(m, lh(rd, off, base)), Three(rd, gp, tp), Scratch, o)
         /\ Reg(Run(m, lh(rd, off, base)), rd) = Sext(ByteIn(m, Add(Reg(m, base), off)) + B * ByteIn(m, Add(Reg(m, base), off + 1)), B * B) % Modulus
<1> DEFINE x == Reg(m, base)
           zr == 0
           pl == Add(x, off)
           u == ByteIn(m, pl)
           off2 == off + 1
           pl2 == Add(x, off2)
           t == ByteIn(m, pl2)
           bits == 2 * ByteWidth
           ar == TRUE
           w == Wd(0, 0, 0, t)
           y == Shifted(ar, w, bits)
           v == Sext(u + B * t, B * B) % Modulus
           R == Three(rd, gp, tp)
           S == Scratch
           c0 == <<>>
           i1 == sw(zero, -16, sp)
           c1 == c0 \o i1
           m1 == Run(m, c1)
           i2 == lbu(gp, off2, base)
           c2 == c1 \o i2
           m2 == Run(m, c2)
           i3 == sb(gp, -13, sp)
           c3 == c2 \o i3
           m3 == Run(m, c3)
           i4 == lw(gp, -16, sp)
           c4 == c3 \o i4
           m4 == Run(m, c4)
           i5 == shift_right_imm(gp, gp, bits, ar)
           c5 == c4 \o i5
           m5 == Run(m, c5)
           i6 == lbu(rd, off, base)
           c6 == c5 \o i6
           m6 == Run(m, c6)
           i7 == add(rd, rd, gp)
           c7 == c6 \o i7
           m7 == Run(m, c7)
<1>s. S \subseteq Ram
  BY DEF Ram
<1>a. Block(240, S) /\ 243 \in S /\ Scratch \subseteq S
  BY ScratchPlaces
<1>p. Spot(-16, 240) /\ Spot(-13, 243) /\ WordSpot(-16, 240)
  BY Spots
<1>r. R \subseteq Regs \ {zero}
  BY RegNames DEF Three
<1>b. Ready(m) /\ sp \notin R /\ rd \in R /\ gp \in R /\ tp \in R /\ rd \in Regs /\ gp \in Regs /\ tp \in Regs
      /\ base \in Regs /\ zero \in Regs /\ sp \in Regs /\ base # gp /\ base # tp /\ rd # gp /\ rd # tp
      /\ pl \notin S /\ (Outside(pl) => o) /\ off2 \in Int /\ pl2 \notin S /\ (Outside(pl2) => o)
  BY RegNames DEF Three
<1>x. /\ x \in Int /\ off \in Int /\ pl \in Int /\ pl = Add(x, off) /\ off2 \in Int /\ pl2 \in Int
      /\ pl2 = Add(x, off2)
  <2>1. x \in Int
    BY <1>b, RegWord DEF Ready
  <2> HIDE DEF x
  <2>2. off \in Int /\ off2 \in Int
    OBVIOUS
  <2> HIDE DEF off2
  <2>3. pl \in Word /\ pl2 \in Word
    BY <2>1, <2>2, AddWord
  <2> HIDE DEF pl, pl2
  <2>4. pl \in Int /\ pl2 \in Int
    BY <2>3, WordNat
  <2> QED BY <2>1, <2>2, <2>4 DEF pl, pl2
<1>u. u \in Byte /\ t \in Byte
  BY Cells DEF Ready
<1>t. t \in Word /\ ByteOf(t, 0) = t /\ Add(u, y) = v /\ Shamt(bits) /\ ar \in BOOLEAN
  <2> HIDE DEF u, t
  <2>1. t \in Word /\ ByteOf(t, 0) = t /\ Add(u, y) = v
    BY <1>u, ByteWord, LhValue
  <2>2. Shamt(bits)
    BY WidthAssumption DEF Shamt
  <2> QED BY <2>1, <2>2
<1>c. lh(rd, off, base) = i1 \o i2 \o i3 \o i4 \o i5 \o i6 \o i7
  BY DEF lh, Var, VAR_A, off2, bits, ar
<1> HIDE DEF R, S, c0, c1, c2, c3, c4, c5, c6, c7, m1, m2, m3, m4, m5, m6, m7, x, pl, u, off2, pl2, t, w,
        y, v, bits, ar
<1>d. i1 \in Code /\ c0 \o i1 = i1
  BY <1>b, RegNames, Coded, ConcatEmptySeq DEF Code, mv, li, c0
<1>0. Reaches(m, c0, m, R, S, o) /\ Reg(m, base) = x
  BY <1>s, <1>r, <1>b, ReachesNothing DEF Ready, c0, x
<1>1. /\ Reaches(m, c1, m1, R, S, o) /\ Reg(m1, base) = x /\ Mem(m1, 240) = ByteOf(0, 0)
      /\ Mem(m1, 241) = ByteOf(0, 1)
      /\ Mem(m1, 242) = ByteOf(0, 2)
  <2>1. Reaches(m, c1, m1, R, S, o) /\ Saves(m, m1, 240, Reg(m, zero))
    BY <1>0, <1>b, <1>a, <1>p, ReachesSw DEF c1, m1
  <2>2. Reg(m, zero) = 0
    BY <1>0, ReachesZero
  <2> QED BY <2>1, <2>2, <1>0, <1>b DEF Saves, Holds
<1>2. Reaches(m, c2, m2, R, S, o) /\ Reg(m2, base) = x /\ Reg(m2, gp) = t /\ Mem(m2, 240) = ByteOf(0, 0)
      /\ Mem(m2, 241) = ByteOf(0, 1) /\ Mem(m2, 242) = ByteOf(0, 2)
  <2>1. Reaches(m, c2, m2, R, S, o) /\ Sets(m1, m2, gp, ByteIn(m, pl2))
    BY <1>1, <1>b, ReachesLbu, <1>x DEF c2, m2
  <2>2. ByteIn(m, pl2) = t
    BY <1>1 DEF t
  <2> QED BY <2>1, <2>2, <1>1, <1>b DEF Sets, Holds
<1>3. /\ Reaches(m, c3, m3, R, S, o) /\ Reg(m3, base) = x /\ Mem(m3, 240) = ByteOf(0, 0)
      /\ Mem(m3, 241) = ByteOf(0, 1)
      /\ Mem(m3, 242) = ByteOf(0, 2) /\ Mem(m3, 243) = t
  <2>1. Reaches(m, c3, m3, R, S, o) /\ Puts(m2, m3, 243, ByteOf(Reg(m2, gp), 0))
    <3>1. Reaches(m, c2, m2, R, S, o) /\ Ready(m) /\ sp \notin R /\ gp \in Regs /\ Spot(-13, 243) /\ 243 \in S
      BY <1>2, <1>b, <1>a, <1>p
    <3> QED BY <3>1, ReachesSb DEF c3, m3
  <2>2. ByteOf(Reg(m2, gp), 0) = t
    BY <1>2, <1>t
  <2> QED BY <2>1, <2>2, <1>2, <1>b DEF Puts, Holds
<1>4. Reaches(m, c4, m4, R, S, o) /\ Reg(m4, base) = x /\ Reg(m4, gp) = w
  <2>1. Reaches(m, c4, m4, R, S, o) /\ Sets(m3, m4, gp, Loaded(m3, 240))
    <3>1. Reaches(m, c3, m3, R, S, o) /\ Ready(m) /\ sp \notin R /\ gp \in R /\ WordSpot(-16, 240)
      BY <1>3, <1>b, <1>a, <1>p
    <3> QED BY <3>1, ReachesLw DEF c4, m4
  <2>2. Loaded(m3, 240) = w
    BY <1>3, ZeroBytes DEF Holds, Loaded, w
  <2> QED BY <2>1, <2>2, <1>3, <1>b DEF Sets, Holds
<1>5. Reaches(m, c5, m5, R, S, o) /\ Reg(m5, base) = x /\ Reg(m5, gp) = y
  <2>1. Ready(m4) /\ Live(m4)
    BY <1>4, <1>b, ReachesReady DEF Ready
  <2>2. Does(m4, i5, Run(m4, i5), Three(gp, gp, tp), Scratch)
        /\ Reg(Run(m4, i5), gp) = Shifted(ar, Reg(m4, gp), bits)
    BY <2>1, <1>4, <1>b, <1>t, ShiftImmDoes
  <2> DEFINE R2 == Three(gp, gp, tp)
             S2 == Scratch
  <2>3. R2 \subseteq R /\ S2 \subseteq S
    BY <1>b, <1>a DEF Three
  <2> HIDE DEF R2, S2
  <2>4. Reaches(m, c5, m5, R, S, o) /\ m5 = Run(m4, i5) /\ Keeps(m4, m5, R2, S2)
    BY <1>4, <2>2, <2>3, ReachesNext DEF c5, m5, R2, S2
  <2>5. Shifted(ar, Reg(m4, gp), bits) = y
    BY <1>4 DEF y
  <2> QED BY <2>2, <2>4, <2>5, <1>4, <1>b DEF Keeps, Holds, R2, S2, Three, Slot
<1>6. Reaches(m, c6, m6, R, S, o) /\ Reg(m6, gp) = y /\ Reg(m6, rd) = u
  <2>1. Reaches(m, c6, m6, R, S, o) /\ Sets(m5, m6, rd, ByteIn(m, pl))
    BY <1>5, <1>b, ReachesLbu, <1>x DEF c6, m6
  <2>2. ByteIn(m, pl) = u
    BY <1>5 DEF u
  <2> QED BY <2>1, <2>2, <1>5, <1>b DEF Sets, Holds
<1>7. Reaches(m, c7, m7, R, S, o) /\ Reg(m7, rd) = v
  <2>1. Reaches(m, c7, m7, R, S, o) /\ Sets(m6, m7, rd, Add(Reg(m6, rd), Reg(m6, gp)))
    BY <1>6, <1>b, ReachesAdd DEF c7, m7
  <2>2. Add(Reg(m6, rd), Reg(m6, gp)) = v
    BY <1>6, <1>t
  <2> QED BY <2>1, <2>2, <1>6, <1>b DEF Sets, Holds
<1>e. c7 = lh(rd, off, base)
  BY <1>c, <1>d DEF c1, c2, c3, c4, c5, c6, c7
<1> QED BY <1>7, <1>e DEF m7, R, S, x, pl, u, off2, pl2, t, v

-----------------------------------------------------------------------------
(* 21. The program's own stores *)

\* A byte is put at a, wherever that is; outside memory the machine has strayed.
Stored(m, m2, a, v) ==
  /\ Live(m2) /\ m2.pc = m.pc /\ (m2.stray <=> m.stray \/ a \notin Ram)
  /\ \A r : Reg(m2, r) = Reg(m, r)
  /\ a \in Ram => Mem(m2, a) = v
  /\ \A b : b # a \/ a \notin Ram => Mem(m2, b) = Mem(m, b)

\* A word is an integer.
LEMMA WordInt == ASSUME NEW x, x \in Word PROVE x \in Int
BY WordNat

\* StoreByte writes, or strays.
LEMMA StoreByteDoes ==
  ASSUME NEW m, NEW a, NEW v, Live(m), v \in Byte
  PROVE  Stored(m, StoreByte(m, a, v), a, v)
<1>1. CASE a \in Ram
  <2> DEFINE m2 == StoreByte(m, a, v)
  <2>1. Live(m2) /\ Puts(m, m2, a, v) /\ m2.pc = m.pc /\ m2.stray = m.stray
    BY <1>1, StoreByteRuns
  <2> HIDE DEF m2
  <2>2. Stored(m, m2, a, v)
    BY <1>1, <2>1 DEF Stored, Puts
  <2> QED BY <2>2 DEF m2
<1>2. CASE a \notin Ram
  <2> DEFINE m2 == StoreByte(m, a, v)
  <2>1. m2 = [m EXCEPT !.stray = TRUE]
    BY <1>2 DEF StoreByte
  <2>2. m \in Machine
    BY DEF Live
  <2> HIDE DEF m2
  <2>3. /\ m2 \in Machine /\ m2.pc = m.pc /\ m2.stray = TRUE /\ m2.jumped = m.jumped
        /\ m2.ram = m.ram /\ m2.regs = m.regs
    BY <2>1, <2>2 DEF Machine
  <2>4. (\A r : Reg(m2, r) = Reg(m, r)) /\ (\A b : Mem(m2, b) = Mem(m, b))
    BY <2>3 DEF Reg, Mem
  <2>5. Live(m2)
    BY <2>3, <2>4 DEF Live
  <2>6. Stored(m, m2, a, v)
    BY <1>2, <2>3, <2>4, <2>5 DEF Stored
  <2> QED BY <2>6 DEF m2
<1> QED BY <1>1, <1>2

\* The sb of the program.
LEMMA SbDoes ==
  ASSUME NEW m, NEW rs2, NEW off, NEW base, NEW a, Live(m), rs2 \in Regs, base \in Regs, off \in Int,
         a = Add(Reg(m, base), off)
  PROVE  /\ sb(rs2, off, base) \in Code
         /\ Stored(m, Run(m, sb(rs2, off, base)), a, ByteOf(Reg(m, rs2), 0))
<1> DEFINE i == [op |-> "sb", a |-> rs2, b |-> off, c |-> base]
           v == ByteOf(Reg(m, rs2), 0)
           d == <<i>>
<1>1. rs2 \in Int /\ base \in Int
  BY RegNames
<1>2. i \in Op
  BY <1>1 DEF Op
<1>3. v \in Byte
  BY RegWord, ByteRange
<1>4. Exec(m, i) = Store(m, rs2, a, 1)
  BY DEF Exec, Live, Reg
<1>5. sb(rs2, off, base) = d
  BY DEF sb, Base
<1>6. d \in Code /\ Run(m, d) = Exec(m, i)
  BY <1>2, RunOne
<1>7. Store(m, rs2, a, 1) = StoreByte(m, a, v)
  <2> DEFINE len == 1
  <2>1. len \in Nat
    OBVIOUS
  <2> HIDE DEF len
  <2>2. PICK f : /\ Store(m, rs2, a, len) = f[len] /\ f[0] = m
                 /\ \A n \in 1 .. len : f[n] = StoreByte(f[n - 1], a + n - 1, ByteOf(m.regs[rs2], n - 1))
    BY <2>1, StoreSteps
  <2>3. Store(m, rs2, a, 1) = f[1]
    BY <2>2 DEF len
  <2>4. f[1] = StoreByte(f[0], a + 1 - 1, ByteOf(m.regs[rs2], 1 - 1))
    <3>1. 1 \in 1 .. len
      BY DEF len
    <3> QED BY <2>2, <3>1
  <2>5. a \in Int
    <3>1. Reg(m, base) \in Int
      BY RegWord
    <3>2. Add(Reg(m, base), off) \in Word
      BY <3>1, AddWord
    <3> QED BY <3>2, WordInt
  <2>6. a + 1 - 1 = a /\ 1 - 1 = 0
    BY <2>5
  <2>7. ByteOf(m.regs[rs2], 0) = v
    BY DEF Reg
  <2> HIDE DEF v
  <2>8. f[1] = StoreByte(f[0], a, v)
    BY <2>4, <2>6, <2>7
  <2> QED BY <2>2, <2>3, <2>8
<1> HIDE DEF i, d, v
<1>8. Stored(m, StoreByte(m, a, v), a, v)
  BY <1>3, StoreByteDoes
<1> QED BY <1>4, <1>5, <1>6, <1>7, <1>8 DEF v

\* The halfword store of the ISA.
LEMMA StoreTwo ==
  ASSUME NEW m, NEW rs2, NEW a, Live(m), rs2 \in Regs, a \in Int
  PROVE  \E m1 : /\ Stored(m, m1, a, ByteOf(Reg(m, rs2), 0))
                 /\ Stored(m1, Store(m, rs2, a, 2), a + 1, ByteOf(Reg(m, rs2), 1))
<1> DEFINE len == 2
           x == Reg(m, rs2)
           e == ByteOf(x, 0)
           g == ByteOf(x, 1)
<1>1. len \in Nat /\ 1 \in 1 .. len /\ 2 \in 1 .. len /\ len = 2
  OBVIOUS
<1> HIDE DEF len
<1>2. PICK f : /\ Store(m, rs2, a, len) = f[len] /\ f[0] = m
               /\ \A n \in 1 .. len : f[n] = StoreByte(f[n - 1], a + n - 1, ByteOf(m.regs[rs2], n - 1))
  BY <1>1, StoreSteps
<1>3. x = m.regs[rs2] /\ e \in Byte /\ g \in Byte
  <2>1. x \in Int /\ x = m.regs[rs2]
    BY RegWord DEF Reg
  <2> HIDE DEF x
  <2> QED BY <2>1, ByteRange
<1>4. f[1] = StoreByte(m, a, e)
  <2>1. f[1] = StoreByte(f[1 - 1], a + 1 - 1, ByteOf(m.regs[rs2], 1 - 1))
    BY <1>1, <1>2
  <2>2. 1 - 1 = 0 /\ a + 1 - 1 = a
    OBVIOUS
  <2> QED BY <1>2, <1>3, <2>1, <2>2
<1>5. f[2] = StoreByte(f[1], a + 1, g)
  <2>1. f[2] = StoreByte(f[2 - 1], a + 2 - 1, ByteOf(m.regs[rs2], 2 - 1))
    BY <1>1, <1>2
  <2>2. 2 - 1 = 1 /\ a + 2 - 1 = a + 1
    OBVIOUS
  <2> QED BY <1>3, <2>1, <2>2
<1>6. Store(m, rs2, a, 2) = f[2]
  BY <1>1, <1>2
<1> DEFINE m1 == StoreByte(m, a, e)
           b == a + 1
<1> HIDE DEF x, e, g, b
<1>7. Stored(m, m1, a, e)
  BY <1>3, StoreByteDoes
<1> HIDE DEF m1
<1>8. Live(m1)
  BY <1>7 DEF Stored
<1>9. Stored(m1, StoreByte(m1, b, g), b, g)
  BY <1>3, <1>8, StoreByteDoes
<1> QED BY <1>4, <1>5, <1>6, <1>7, <1>9 DEF b, m1, e, g, x

\* One machine stands for another: all but tp, gp and the scratch memory.
Agrees(m, r) ==
  /\ \A k : k # tp /\ k # gp => Reg(m, k) = Reg(r, k)
  /\ \A a : a \notin Scratch => Mem(m, a) = Mem(r, a)
  /\ m.pc = r.pc
  /\ m.stray => r.stray

\* Two bytes are stored, with a byte taken from the register between, in both machines.
LEMMA TwoStores ==
  ASSUME NEW m, NEW m1, NEW m2, NEW m3, NEW r1, NEW r2, NEW p, NEW q, NEW s, NEW u, NEW v,
         Stored(m, m1, p, u), m2.pc = m1.pc, m2.stray = m1.stray, Keeps(m1, m2, One(tp), Scratch),
         Stored(m2, m3, q, v), Stored(m, r1, p, u), Stored(r1, r2, s, v),
         q = s \/ (Outside(q) /\ Outside(s))
  PROVE  Agrees(m3, r2)
<1>1. \A k : k # tp /\ k # gp => Reg(m3, k) = Reg(r2, k)
  <2> TAKE k
  <2> HAVE k # tp /\ k # gp
  <2>1. Reg(m2, k) = Reg(m1, k)
    BY DEF Keeps, One
  <2> QED BY <2>1 DEF Stored
<1>2. \A a : a \notin Scratch => Mem(m3, a) = Mem(r2, a)
  <2> TAKE a
  <2> HAVE a \notin Scratch
  <2>1. Mem(m2, a) = Mem(m1, a)
    BY DEF Keeps
  <2>2. Mem(m1, a) = Mem(r1, a)
    BY DEF Stored
  <2>3. CASE q = s /\ a = q /\ q \in Ram
    BY <2>3 DEF Stored
  <2>4. CASE q = s /\ (a # q \/ q \notin Ram)
    <3>1. Mem(m3, a) = Mem(m2, a) /\ Mem(r2, a) = Mem(r1, a)
      BY <2>4 DEF Stored
    <3> QED BY <2>1, <2>2, <3>1
  <2>5. CASE q # s
    <3>1. q \notin Ram /\ s \notin Ram
      BY <2>5 DEF Outside
    <3>2. Mem(m3, a) = Mem(m2, a) /\ Mem(r2, a) = Mem(r1, a)
      BY <3>1 DEF Stored
    <3> QED BY <2>1, <2>2, <3>2
  <2> QED BY <2>3, <2>4, <2>5
<1>3. m3.pc = r2.pc
  BY DEF Stored
<1>4. m3.stray => r2.stray
  <2>1. q \notin Ram => s \notin Ram
    BY DEF Outside
  <2> QED BY <2>1 DEF Stored
<1> QED BY <1>1, <1>2, <1>3, <1>4 DEF Agrees

\* sh is the halfword store.
LEMMA ShDoes ==
  ASSUME NEW m, NEW rs, NEW off, NEW base, Ready(m), rs \in Regs, base \in Regs \ {tp}, off \in Int
  PROVE  Agrees(Run(m, sh(rs, off, base)), Store(m, rs, Add(Reg(m, base), off), 2))
<1> DEFINE x == Reg(m, base)
           w == Reg(m, rs)
           p == Add(x, off)
           off2 == off + 1
           q == Add(x, off2)
           u == ByteOf(w, 0)
           v == ByteOf(w, 1)
           one == 1
           i1 == sb(rs, off, base)
           i2 == Getbyte(tp, rs, one)
           i3 == sb(tp, off2, base)
           m1 == Run(m, i1)
           m2 == Run(m1, i2)
           m3 == Run(m2, i3)
           r2 == Store(m, rs, p, 2)
<1>1. /\ Live(m) /\ base \in Regs /\ base # tp /\ tp \in Regs /\ tp \in Regs \ {zero, sp} /\ off2 \in Int
      /\ one \in 0 .. 3
  BY RegNames DEF Ready
<1>2. x \in Word /\ x \in Int /\ w \in Word /\ w \in Int
  BY <1>1, RegWord
<1>3. sh(rs, off, base) = i1 \o i2 \o i3
  BY DEF sh
<1> HIDE DEF off2, one, m1, m2, m3, r2, i2, x, w
<1>4. i1 \in Code /\ Stored(m, m1, p, u)
  BY <1>1, SbDoes DEF m1, p, u, x, w
<1>5. Ready(m1) /\ Live(m1) /\ Reg(m1, rs) = w /\ Reg(m1, base) = x
  BY <1>4 DEF Stored, Ready, x, w
<1>6. /\ Does(m1, i2, m2, One(tp), Slot(6))
      /\ Reg(m2, tp) = ByteOf(Reg(m1, rs), one)
  BY <1>1, <1>5, GetbyteDoes DEF i2, m2
<1>7. Live(m2) /\ i2 \in Code /\ m2.pc = m1.pc /\ m2.stray = m1.stray /\ Reg(m2, base) = x
  BY <1>1, <1>5, <1>6 DEF Does, One
<1>8. Keeps(m1, m2, One(tp), Scratch)
  <2>1. Slot(6) \subseteq Scratch
    BY ScratchPlaces
  <2> QED BY <1>6, <2>1 DEF Does, Keeps
<1>9. v \in Byte /\ v \in Word /\ Reg(m2, tp) = v /\ ByteOf(v, 0) = v
  <2>1. v \in Byte
    BY <1>2, ByteRange
  <2>2. Reg(m2, tp) = v
    BY <1>5, <1>6 DEF one
  <2> HIDE DEF v
  <2> QED BY <2>1, <2>2, ByteWord
<1> HIDE DEF u, v
<1>10. i3 \in Code /\ Stored(m2, m3, q, v)
  <2>1. i3 \in Code /\ Stored(m2, m3, q, ByteOf(Reg(m2, tp), 0))
    BY <1>1, <1>7, SbDoes DEF m3, q
  <2> QED BY <1>9, <2>1
<1>11. Run(m, sh(rs, off, base)) = m3
  <2> HIDE DEF i1, i3
  <2>1. i1 \o i2 \in Code /\ Run(m, i1 \o i2) = m2
    BY <1>4, <1>7, RunBoth DEF m1, m2
  <2>2. Run(m, i1 \o i2 \o i3) = m3
    BY <1>10, <2>1, RunBoth DEF m3
  <2> QED BY <1>3, <2>2
<1>12. p \in Int
  <2>1. p \in Word
    BY <1>2, AddWord
  <2> QED BY <2>1, WordInt
<1> DEFINE s == p + 1
<1>13. q = s \/ (Outside(q) /\ Outside(s))
  <2>1. \/ Add(x, off + 1) = Add(x, off) + 1
        \/ Outside(Add(x, off + 1)) /\ Outside(Add(x, off) + 1)
    BY <1>2, NextPlace
  <2> QED BY <2>1 DEF off2
<1> HIDE DEF p, q, s
<1>14. PICK r1 : Stored(m, r1, p, u) /\ Stored(r1, r2, s, v)
  <2>1. \E r1 : /\ Stored(m, r1, p, ByteOf(Reg(m, rs), 0))
                /\ Stored(r1, Store(m, rs, p, 2), p + 1, ByteOf(Reg(m, rs), 1))
    BY <1>1, <1>12, StoreTwo
  <2> QED BY <2>1 DEF r2, s, u, v, w
<1>15. Agrees(m3, r2)
  BY <1>4, <1>7, <1>8, <1>10, <1>13, <1>14, TwoStores
<1> QED BY <1>11, <1>15 DEF r2, p, x

-----------------------------------------------------------------------------
(* 22. An instruction of the program *)

\* What a result in rd may cost.
Below(R, rd) == R \subseteq Three(rd, gp, tp)
Low(S)       == S \subseteq Scratch

\* What the macros may change is below what an instruction of the program owns.
LEMMA Costs ==
  /\ \A rd : Below(One(rd), rd) /\ Below(Two(rd, tp), rd) /\ Below(Three(rd, gp, tp), rd)
  /\ Low({}) /\ Low(Slot(6)) /\ Low(Slots2(4, 6)) /\ Low(Slots3(3, 6, 7)) /\ Low(Scratch)
<1>1. \A rd : Below(One(rd), rd) /\ Below(Two(rd, tp), rd) /\ Below(Three(rd, gp, tp), rd)
  BY DEF Below, One, Two, Three
<1>2. Low({}) /\ Low(Scratch)
  BY DEF Low
<1>3. Low(Slot(6)) /\ Low(Slots2(4, 6)) /\ Low(Slots3(3, 6, 7))
  BY ScratchPlaces DEF Low
<1> QED BY <1>1, <1>2, <1>3

\* Code that computes v in rd does what writing v to rd does.
LEMMA ResultAgrees ==
  ASSUME NEW m, NEW c, NEW m2, NEW R, NEW S, NEW rd, NEW v, Live(m), Does(m, c, m2, R, S),
         Below(R, rd), Low(S), rd \in Regs \ {zero}, Reg(m2, rd) = v
  PROVE  Agrees(m2, Set(m, rd, v))
<1> DEFINE r == Set(m, rd, v)
<1>1. v \in Word
  BY RegWord DEF Does
<1>2. Sets(m, r, rd, v) /\ r.pc = m.pc /\ r.stray = m.stray
  BY <1>1, SetRuns
<1> HIDE DEF r
<1>3. \A k : k # tp /\ k # gp => Reg(m2, k) = Reg(r, k)
  <2> TAKE k
  <2> HAVE k # tp /\ k # gp
  <2>1. CASE k = rd
    BY <1>2, <2>1 DEF Sets
  <2>2. CASE k # rd
    <3>1. k \notin R
      BY <2>2 DEF Below, Three
    <3> QED BY <1>2, <2>2, <3>1 DEF Sets, Does
  <2> QED BY <2>1, <2>2
<1>4. \A a : a \notin Scratch => Mem(m2, a) = Mem(r, a)
  BY <1>2 DEF Sets, Does, Low
<1>5. m2.pc = r.pc /\ m2.stray = r.stray
  BY <1>2 DEF Does
<1> QED BY <1>3, <1>4, <1>5 DEF Agrees, r

\* The same with an immediate put in tp first.
LEMMA LiDoes ==
  ASSUME NEW m, NEW n, Live(m), n \in Int
  PROVE  /\ Does(m, li(tp, n), Run(m, li(tp, n)), One(tp), {})
         /\ Reg(Run(m, li(tp, n)), tp) = ToWord(n)
<1> DEFINE d == li(tp, n)
           e == <<>>
           R == One(tp)
           S == {}
<1>1. d \in Code
  BY Coded, RegNames DEF li
<1>2. tp \in R /\ R \subseteq Regs \ {zero} /\ S \subseteq Ram
  BY RegNames DEF One
<1> HIDE DEF R, S, e
<1>3. Does(m, e, m, R, S)
  BY <1>2, DoesNothing DEF e
<1>4. Does(m, e \o d, Run(m, e \o d), R, S) /\ Sets(m, Run(m, e \o d), tp, ToWord(n))
  BY <1>2, <1>3, LiRuns
<1>5. e \o d = d
  BY <1>1, ConcatEmptySeq DEF Code, e
<1> HIDE DEF d
<1>6. Does(m, d, Run(m, d), R, S) /\ Sets(m, Run(m, d), tp, ToWord(n))
  BY <1>4, <1>5
<1> QED BY <1>6 DEF Sets, R, S, d

\* A macro with an immediate: li to tp, then the macro on registers.
LEMMA ImmAgrees ==
  ASSUME NEW m, NEW n, NEW c, NEW m1, NEW R, NEW S, NEW rd, NEW v, Ready(m), n \in Int, m1 = Run(m, li(tp, n)),
         Does(m1, c, Run(m1, c), R, S), Below(R, rd), Low(S), rd \in Regs \ {zero}, Reg(Run(m1, c), rd) = v
  PROVE  Agrees(Run(m, li(tp, n) \o c), Set(m, rd, v))
<1> DEFINE d == li(tp, n)
           m2 == Run(m1, c)
           R2 == Three(rd, gp, tp)
           S2 == Scratch
           e == d \o c
<1>1. Live(m) /\ Does(m, d, m1, One(tp), {})
  BY LiDoes DEF Ready
<1>2. /\ One(tp) \subseteq R2 /\ {} \subseteq S2 /\ R2 \subseteq Regs \ {zero} /\ S2 \subseteq Ram
      /\ R \subseteq R2 /\ S \subseteq S2
  BY RegNames DEF One, Three, Ram, Below, Low
<1> HIDE DEF d, m2, R2, S2
<1>3. Does(m, d, m1, R2, S2)
  BY <1>1, <1>2, DoesMore
<1>4. Does(m, e, m2, R2, S2)
  BY <1>2, <1>3, DoesBoth DEF m2
<1>5. m2 = Run(m, e)
  BY <1>4 DEF Does
<1>6. Below(R2, rd) /\ Low(S2)
  BY Costs DEF R2, S2
<1> HIDE DEF e
<1>7. Agrees(m2, Set(m, rd, v))
  BY <1>1, <1>4, <1>6, ResultAgrees DEF m2
<1> QED BY <1>5, <1>7 DEF e, d

\* What li leaves to the macro after it.
LEMMA AfterLi ==
  ASSUME NEW m, NEW n, NEW m1, Ready(m), n \in Int, m1 = Run(m, li(tp, n))
  PROVE  Ready(m1) /\ Reg(m1, tp) = ToWord(n) /\ \A r : r # tp => Reg(m1, r) = Reg(m, r)
<1>1. Does(m, li(tp, n), m1, One(tp), {}) /\ Reg(m1, tp) = ToWord(n)
  BY LiDoes DEF Ready
<1> HIDE DEF li
<1>2. \A r : r # tp => Reg(m1, r) = Reg(m, r)
  BY <1>1 DEF Does, One
<1>3. Ready(m1)
  BY <1>1, <1>2 DEF Ready, Does
<1> QED BY <1>1, <1>2, <1>3

\* What RV32I computes, by funct7 and funct3.
LEMMA RegOpIs ==
  ASSUME NEW x, NEW y
  PROVE  /\ RegOp(32, 0, x, y) = Sub(x, y)
         /\ RegOp(0, 2, x, y) = Less(x, y) /\ RegOp(0, 3, x, y) = LessUnsigned(x, y)
         /\ RegOp(0, 7, x, y) = And(x, y) /\ RegOp(0, 6, x, y) = Or(x, y) /\ RegOp(0, 4, x, y) = Xor(x, y)
         /\ RegOp(0, 1, x, y) = Shl(x, y % 32)
         /\ RegOp(0, 5, x, y) = Shr(x, y % 32) /\ RegOp(32, 5, x, y) = Sar(x, y % 32)
<1>1. RegOp(32, 0, x, y) = Sub(x, y)
  BY DEF RegOp
<1>2. RegOp(0, 2, x, y) = Less(x, y)
  BY DEF RegOp, Less
<1>3. RegOp(0, 3, x, y) = LessUnsigned(x, y)
  BY DEF RegOp, LessUnsigned
<1>4. RegOp(0, 7, x, y) = And(x, y)
  BY DEF RegOp
<1>5. RegOp(0, 6, x, y) = Or(x, y)
  BY DEF RegOp
<1>6. RegOp(0, 4, x, y) = Xor(x, y)
  BY DEF RegOp
<1>7. RegOp(0, 1, x, y) = Shl(x, y % 32)
  BY DEF RegOp
<1>8. RegOp(0, 5, x, y) = Shr(x, y % 32)
  BY DEF RegOp
<1>9. RegOp(32, 5, x, y) = Sar(x, y % 32)
  BY DEF RegOp
<1> QED BY <1>1, <1>2, <1>3, <1>4, <1>5, <1>6, <1>7, <1>8, <1>9

-----------------------------------------------------------------------------
(* 23. What each name expands to and what it means *)

\* The instructions that the tables of funct codes name.
LEMMA Names ==
  /\ DOMAIN Funct = {"sub", "slt", "sltu", "and", "or", "xor", "sll", "srl", "sra"}
  /\ DOMAIN ImmFunct3 = {"slti", "sltiu", "andi", "ori", "xori", "slli", "srli", "srai"}
  /\ DOMAIN BranchFunct = {"beq", "bne", "blt", "bge", "bltu", "bgeu"}
<1>1. DOMAIN Funct = {"sub", "slt", "sltu", "and", "or", "xor", "sll", "srl", "sra"}
  BY DEF Funct
<1>2. DOMAIN ImmFunct3 = {"slti", "sltiu", "andi", "ori", "xori", "slli", "srli", "srai"}
  BY DEF ImmFunct3
<1>3. DOMAIN BranchFunct = {"beq", "bne", "blt", "bge", "bltu", "bgeu"}
  BY DEF BranchFunct
<1> QED BY <1>1, <1>2, <1>3

\* The funct fields of the record of names.
LEMMA Fields ==
  /\ Funct["sub"] = <<32, 0>> /\ Funct["slt"] = <<0, 2>> /\ Funct["sltu"] = <<0, 3>>
  /\ Funct["and"] = <<0, 7>> /\ Funct["or"] = <<0, 6>> /\ Funct["xor"] = <<0, 4>>
  /\ Funct["sll"] = <<0, 1>> /\ Funct["srl"] = <<0, 5>> /\ Funct["sra"] = <<32, 5>>
  /\ ImmFunct3["slti"] = <<0, 2>> /\ ImmFunct3["sltiu"] = <<0, 3>> /\ ImmFunct3["andi"] = <<0, 7>>
  /\ ImmFunct3["ori"] = <<0, 6>> /\ ImmFunct3["xori"] = <<0, 4>> /\ ImmFunct3["slli"] = <<0, 1>>
  /\ ImmFunct3["srli"] = <<0, 5>> /\ ImmFunct3["srai"] = <<32, 5>>
  /\ BranchFunct["beq"] = 0 /\ BranchFunct["bne"] = 1 /\ BranchFunct["blt"] = 4
  /\ BranchFunct["bge"] = 5 /\ BranchFunct["bltu"] = 6 /\ BranchFunct["bgeu"] = 7
BY DEF Funct, ImmFunct3, BranchFunct

-----------------------------------------------------------------------------
(* 24. The expansions agree with the meanings: registers *)

\* The registers of a program's instruction.
LEMMA Operands ==
  /\ \A d : d \in Dest => d \in Regs /\ d # zero /\ d # sp /\ d # gp /\ d # tp
  /\ \A a : a \in Named => a \in Regs /\ a # gp /\ a # tp
  /\ zero \in Named /\ sp \in Named
BY RegNames DEF Dest, Named

\* Reg is the register file.
LEMMA RegIs == ASSUME NEW m, NEW a, Live(m), a \in Regs PROVE m.regs[a] = Reg(m, a) /\ Reg(m, a) \in Word
BY RegWord DEF Reg

\* slt agrees with its meaning.
LEMMA SltAgrees ==
  ASSUME NEW m, NEW d, NEW a, NEW b, Ready(m), d \in Dest, a \in Named, b \in Named
  PROVE  Agrees(Run(m, slt(d, a, b)), RegMeaning(0, 2, m, d, m.regs[a], m.regs[b]))
<1> DEFINE x == Reg(m, a)
           y == Reg(m, b)
           c == slt(d, a, b)
           R == Three(d, gp, tp)
           S == Scratch
           v == Less(x, y)
<1>1. /\ Live(m) /\ d \in Regs \ {zero, sp, gp, tp} /\ a \in Regs \ {gp, tp} /\ b \in Regs \ {gp, tp}
      /\ d \in Regs \ {zero}
  BY Operands, RegNames DEF Ready
<1>2. x \in Word /\ y \in Word /\ m.regs[a] = x /\ m.regs[b] = y
  BY <1>1, RegIs
<1>3. Does(m, c, Run(m, c), R, S) /\ Reg(Run(m, c), d) = Less(x, y)
  BY <1>1, SltDoes
<1>4. Below(R, d) /\ Low(S)
  BY Costs
<1> HIDE DEF x, y, c, R, S
<1>5. Less(x, y) = v
  OBVIOUS
<1>6. RegMeaning(0, 2, m, d, x, y) = Set(m, d, v)
  BY RegOpIs DEF RegMeaning, v
<1> HIDE DEF v
<1>7. Agrees(Run(m, c), Set(m, d, v))
  BY <1>1, <1>3, <1>4, <1>5, ResultAgrees
<1> QED BY <1>2, <1>6, <1>7 DEF c

\* sltu agrees with its meaning.
LEMMA SltuAgrees ==
  ASSUME NEW m, NEW d, NEW a, NEW b, Ready(m), d \in Dest, a \in Named, b \in Named
  PROVE  Agrees(Run(m, sltu(d, a, b)), RegMeaning(0, 3, m, d, m.regs[a], m.regs[b]))
<1> DEFINE x == Reg(m, a)
           y == Reg(m, b)
           c == sltu(d, a, b)
           R == Three(d, gp, tp)
           S == Scratch
           v == LessUnsigned(x, y)
<1>1. /\ Live(m) /\ d \in Regs \ {zero, sp, gp, tp} /\ a \in Regs \ {gp, tp} /\ b \in Regs \ {gp, tp}
      /\ d \in Regs \ {zero}
  BY Operands, RegNames DEF Ready
<1>2. x \in Word /\ y \in Word /\ m.regs[a] = x /\ m.regs[b] = y
  BY <1>1, RegIs
<1>3. Does(m, c, Run(m, c), R, S) /\ Reg(Run(m, c), d) = LessUnsigned(x, y)
  BY <1>1, SltuDoes
<1>4. Below(R, d) /\ Low(S)
  BY Costs
<1> HIDE DEF x, y, c, R, S
<1>5. LessUnsigned(x, y) = v
  OBVIOUS
<1>6. RegMeaning(0, 3, m, d, x, y) = Set(m, d, v)
  BY RegOpIs DEF RegMeaning, v
<1> HIDE DEF v
<1>7. Agrees(Run(m, c), Set(m, d, v))
  BY <1>1, <1>3, <1>4, <1>5, ResultAgrees
<1> QED BY <1>2, <1>6, <1>7 DEF c

\* sub agrees with its meaning.
LEMMA SubAgrees ==
  ASSUME NEW m, NEW d, NEW a, NEW b, Ready(m), d \in Dest \cup {sp}, a \in Named, b \in Named
  PROVE  Agrees(Run(m, sub(d, a, b)), RegMeaning(32, 0, m, d, m.regs[a], m.regs[b]))
<1> DEFINE x == Reg(m, a)
           y == Reg(m, b)
           c == sub(d, a, b)
           R == Two(d, tp)
           S == Slots3(3, 6, 7)
           v == Sub(x, y)
<1>1. Live(m) /\ sp # zero /\ a \in Regs \ {gp, tp} /\ b \in Regs \ {gp, tp} /\ d \in Regs \ {zero}
  BY Operands, RegNames DEF Ready
<1>2. x \in Word /\ y \in Word /\ m.regs[a] = x /\ m.regs[b] = y
  BY <1>1, RegIs
<1>3. Does(m, c, Run(m, c), R, S) /\ Reg(Run(m, c), d) = Sub(x, y)
  BY <1>1, SubDoes
<1>4. Below(R, d) /\ Low(S)
  BY Costs
<1> HIDE DEF x, y, c, R, S
<1>5. Sub(x, y) = v
  OBVIOUS
<1>6. RegMeaning(32, 0, m, d, x, y) = Set(m, d, v)
  BY RegOpIs DEF RegMeaning, v
<1> HIDE DEF v
<1>7. Agrees(Run(m, c), Set(m, d, v))
  BY <1>1, <1>3, <1>4, <1>5, ResultAgrees
<1> QED BY <1>2, <1>6, <1>7 DEF c

\* and agrees with its meaning.
LEMMA AndAgrees ==
  ASSUME NEW m, NEW d, NEW a, NEW b, Ready(m), d \in Dest, a \in Named, b \in Named
  PROVE  Agrees(Run(m, logic(And8, d, a, b)), RegMeaning(0, 7, m, d, m.regs[a], m.regs[b]))
<1> DEFINE x == Reg(m, a)
           y == Reg(m, b)
           c == logic(And8, d, a, b)
           R == Two(d, tp)
           S == Scratch
           v == And(x, y)
<1>1. /\ Live(m) /\ d \in Regs \ {zero, sp, gp, tp} /\ a \in Regs \ {gp, tp} /\ b \in Regs \ {gp, tp}
      /\ d \in Regs \ {zero}
  BY Operands, RegNames DEF Ready
<1>2. x \in Word /\ y \in Word /\ m.regs[a] = x /\ m.regs[b] = y
  BY <1>1, RegIs
<1>3. Does(m, c, Run(m, c), R, S) /\ Reg(Run(m, c), d) = LogicWord(And8, x, y)
  BY <1>1, LogicDoes DEF Logic
<1>4. Below(R, d) /\ Low(S)
  BY Costs
<1> HIDE DEF x, y, c, R, S
<1>5. LogicWord(And8, x, y) = v
  BY <1>2, LogicMeans
<1>6. RegMeaning(0, 7, m, d, x, y) = Set(m, d, v)
  BY RegOpIs DEF RegMeaning, v
<1> HIDE DEF v
<1>7. Agrees(Run(m, c), Set(m, d, v))
  BY <1>1, <1>3, <1>4, <1>5, ResultAgrees
<1> QED BY <1>2, <1>6, <1>7 DEF c

\* or agrees with its meaning.
LEMMA OrAgrees ==
  ASSUME NEW m, NEW d, NEW a, NEW b, Ready(m), d \in Dest, a \in Named, b \in Named
  PROVE  Agrees(Run(m, logic(Or8, d, a, b)), RegMeaning(0, 6, m, d, m.regs[a], m.regs[b]))
<1> DEFINE x == Reg(m, a)
           y == Reg(m, b)
           c == logic(Or8, d, a, b)
           R == Two(d, tp)
           S == Scratch
           v == Or(x, y)
<1>1. /\ Live(m) /\ d \in Regs \ {zero, sp, gp, tp} /\ a \in Regs \ {gp, tp} /\ b \in Regs \ {gp, tp}
      /\ d \in Regs \ {zero}
  BY Operands, RegNames DEF Ready
<1>2. x \in Word /\ y \in Word /\ m.regs[a] = x /\ m.regs[b] = y
  BY <1>1, RegIs
<1>3. Does(m, c, Run(m, c), R, S) /\ Reg(Run(m, c), d) = LogicWord(Or8, x, y)
  BY <1>1, LogicDoes DEF Logic
<1>4. Below(R, d) /\ Low(S)
  BY Costs
<1> HIDE DEF x, y, c, R, S
<1>5. LogicWord(Or8, x, y) = v
  BY <1>2, LogicMeans
<1>6. RegMeaning(0, 6, m, d, x, y) = Set(m, d, v)
  BY RegOpIs DEF RegMeaning, v
<1> HIDE DEF v
<1>7. Agrees(Run(m, c), Set(m, d, v))
  BY <1>1, <1>3, <1>4, <1>5, ResultAgrees
<1> QED BY <1>2, <1>6, <1>7 DEF c

\* xor agrees with its meaning.
LEMMA XorAgrees ==
  ASSUME NEW m, NEW d, NEW a, NEW b, Ready(m), d \in Dest, a \in Named, b \in Named
  PROVE  Agrees(Run(m, logic(Xor8, d, a, b)), RegMeaning(0, 4, m, d, m.regs[a], m.regs[b]))
<1> DEFINE x == Reg(m, a)
           y == Reg(m, b)
           c == logic(Xor8, d, a, b)
           R == Two(d, tp)
           S == Scratch
           v == Xor(x, y)
<1>1. /\ Live(m) /\ d \in Regs \ {zero, sp, gp, tp} /\ a \in Regs \ {gp, tp} /\ b \in Regs \ {gp, tp}
      /\ d \in Regs \ {zero}
  BY Operands, RegNames DEF Ready
<1>2. x \in Word /\ y \in Word /\ m.regs[a] = x /\ m.regs[b] = y
  BY <1>1, RegIs
<1>3. Does(m, c, Run(m, c), R, S) /\ Reg(Run(m, c), d) = LogicWord(Xor8, x, y)
  BY <1>1, LogicDoes DEF Logic
<1>4. Below(R, d) /\ Low(S)
  BY Costs
<1> HIDE DEF x, y, c, R, S
<1>5. LogicWord(Xor8, x, y) = v
  BY <1>2, LogicMeans
<1>6. RegMeaning(0, 4, m, d, x, y) = Set(m, d, v)
  BY RegOpIs DEF RegMeaning, v
<1> HIDE DEF v
<1>7. Agrees(Run(m, c), Set(m, d, v))
  BY <1>1, <1>3, <1>4, <1>5, ResultAgrees
<1> QED BY <1>2, <1>6, <1>7 DEF c

\* sll agrees with its meaning.
LEMMA SllAgrees ==
  ASSUME NEW m, NEW d, NEW a, NEW b, Ready(m), d \in Dest, a \in Named, b \in Named
  PROVE  Agrees(Run(m, sll(d, a, b)), RegMeaning(0, 1, m, d, m.regs[a], m.regs[b]))
<1> DEFINE x == Reg(m, a)
           y == Reg(m, b)
           c == sll(d, a, b)
           R == Three(d, gp, tp)
           S == Scratch
           v == Shl(x, y % 32)
<1>1. /\ Live(m) /\ d \in Regs \ {zero, sp, gp, tp} /\ a \in Regs \ {gp, tp} /\ b \in Regs \ {gp, tp}
      /\ d \in Regs \ {zero}
  BY Operands, RegNames DEF Ready
<1>2. x \in Word /\ y \in Word /\ m.regs[a] = x /\ m.regs[b] = y
  BY <1>1, RegIs
<1>3. Does(m, c, Run(m, c), R, S) /\ Reg(Run(m, c), d) = Shl(x, y % 32)
  BY <1>1, SllDoes
<1>4. Below(R, d) /\ Low(S)
  BY Costs
<1> HIDE DEF x, y, c, R, S
<1>5. Shl(x, y % 32) = v
  OBVIOUS
<1>6. RegMeaning(0, 1, m, d, x, y) = Set(m, d, v)
  BY RegOpIs DEF RegMeaning, v
<1> HIDE DEF v
<1>7. Agrees(Run(m, c), Set(m, d, v))
  BY <1>1, <1>3, <1>4, <1>5, ResultAgrees
<1> QED BY <1>2, <1>6, <1>7 DEF c

\* srl agrees with its meaning.
LEMMA SrlAgrees ==
  ASSUME NEW m, NEW d, NEW a, NEW b, Ready(m), d \in Dest, a \in Named, b \in Named
  PROVE  Agrees(Run(m, shift_right(d, a, b, FALSE)), RegMeaning(0, 5, m, d, m.regs[a], m.regs[b]))
<1> DEFINE ar == FALSE
           x == Reg(m, a)
           y == Reg(m, b)
           c == shift_right(d, a, b, ar)
           R == Three(d, gp, tp)
           S == Scratch
           v == Shr(x, y % 32)
<1>0. ar \in BOOLEAN
  OBVIOUS
<1> HIDE DEF ar
<1>1. /\ Live(m) /\ d \in Regs \ {zero, sp, gp, tp} /\ a \in Regs \ {gp, tp} /\ b \in Regs \ {gp, tp}
      /\ d \in Regs \ {zero}
  BY Operands, RegNames DEF Ready
<1>2. x \in Word /\ y \in Word /\ m.regs[a] = x /\ m.regs[b] = y
  BY <1>1, RegIs
<1>3. Does(m, c, Run(m, c), R, S) /\ Reg(Run(m, c), d) = Shifted(ar, x, y % 32)
  BY <1>1, <1>0, ShiftRegDoes
<1>4. Below(R, d) /\ Low(S)
  BY Costs
<1> HIDE DEF x, y, c, R, S
<1>5. Shifted(ar, x, y % 32) = v
  BY DEF Shifted, ar
<1>6. RegMeaning(0, 5, m, d, x, y) = Set(m, d, v)
  BY RegOpIs DEF RegMeaning, v
<1> HIDE DEF v
<1>7. Agrees(Run(m, c), Set(m, d, v))
  BY <1>1, <1>3, <1>4, <1>5, ResultAgrees
<1> QED BY <1>2, <1>6, <1>7 DEF c, ar

\* sra agrees with its meaning.
LEMMA SraAgrees ==
  ASSUME NEW m, NEW d, NEW a, NEW b, Ready(m), d \in Dest, a \in Named, b \in Named
  PROVE  Agrees(Run(m, shift_right(d, a, b, TRUE)), RegMeaning(32, 5, m, d, m.regs[a], m.regs[b]))
<1> DEFINE ar == TRUE
           x == Reg(m, a)
           y == Reg(m, b)
           c == shift_right(d, a, b, ar)
           R == Three(d, gp, tp)
           S == Scratch
           v == Sar(x, y % 32)
<1>0. ar \in BOOLEAN
  OBVIOUS
<1> HIDE DEF ar
<1>1. /\ Live(m) /\ d \in Regs \ {zero, sp, gp, tp} /\ a \in Regs \ {gp, tp} /\ b \in Regs \ {gp, tp}
      /\ d \in Regs \ {zero}
  BY Operands, RegNames DEF Ready
<1>2. x \in Word /\ y \in Word /\ m.regs[a] = x /\ m.regs[b] = y
  BY <1>1, RegIs
<1>3. Does(m, c, Run(m, c), R, S) /\ Reg(Run(m, c), d) = Shifted(ar, x, y % 32)
  BY <1>1, <1>0, ShiftRegDoes
<1>4. Below(R, d) /\ Low(S)
  BY Costs
<1> HIDE DEF x, y, c, R, S
<1>5. Shifted(ar, x, y % 32) = v
  BY DEF Shifted, ar
<1>6. RegMeaning(32, 5, m, d, x, y) = Set(m, d, v)
  BY RegOpIs DEF RegMeaning, v
<1> HIDE DEF v
<1>7. Agrees(Run(m, c), Set(m, d, v))
  BY <1>1, <1>3, <1>4, <1>5, ResultAgrees
<1> QED BY <1>2, <1>6, <1>7 DEF c, ar

\* slti agrees with its meaning.
LEMMA SltiAgrees ==
  ASSUME NEW m, NEW d, NEW a, NEW b, Ready(m), d \in Dest, a \in Named, b \in Int
  PROVE  Agrees(Run(m, li(tp, b) \o slt(d, a, tp)), RegMeaning(0, 2, m, d, m.regs[a], ToWord(b)))
<1> DEFINE x == Reg(m, a)
           y == ToWord(b)
           c == slt(d, a, tp)
           m1 == Run(m, li(tp, b))
           R == Three(d, gp, tp)
           S == Scratch
           v == Less(x, y)
<1>1. /\ Live(m) /\ d \in Regs \ {zero, sp, gp, tp} /\ a \in Regs \ {gp, tp} /\ tp \in Regs
      /\ d \in Regs \ {zero} /\ a # tp /\ a \in Regs
  BY Operands, RegNames DEF Ready
<1>2. x \in Word /\ y \in Word /\ m.regs[a] = x
  BY <1>1, RegIs, ModWord DEF ToWord
<1> HIDE DEF m1, y
<1>3. Ready(m1) /\ Reg(m1, tp) = y /\ Reg(m1, a) = x
  BY <1>1, AfterLi DEF m1, y
<1> HIDE DEF x
<1>4. Does(m1, c, Run(m1, c), R, S) /\ Reg(Run(m1, c), d) = Less(x, y)
  BY <1>1, <1>3, SltDoes
<1>5. Below(R, d) /\ Low(S)
  BY Costs
<1> HIDE DEF c, R, S
<1>6. Less(x, y) = v
  OBVIOUS
<1>7. RegMeaning(0, 2, m, d, x, y) = Set(m, d, v)
  BY RegOpIs DEF RegMeaning, v
<1> HIDE DEF v
<1>8. Agrees(Run(m, li(tp, b) \o c), Set(m, d, v))
  BY <1>1, <1>4, <1>5, <1>6, ImmAgrees DEF m1
<1> QED BY <1>2, <1>7, <1>8 DEF c, y

\* sltiu agrees with its meaning.
LEMMA SltiuAgrees ==
  ASSUME NEW m, NEW d, NEW a, NEW b, Ready(m), d \in Dest, a \in Named, b \in Int
  PROVE  Agrees(Run(m, li(tp, b) \o sltu(d, a, tp)), RegMeaning(0, 3, m, d, m.regs[a], ToWord(b)))
<1> DEFINE x == Reg(m, a)
           y == ToWord(b)
           c == sltu(d, a, tp)
           m1 == Run(m, li(tp, b))
           R == Three(d, gp, tp)
           S == Scratch
           v == LessUnsigned(x, y)
<1>1. /\ Live(m) /\ d \in Regs \ {zero, sp, gp, tp} /\ a \in Regs \ {gp, tp} /\ tp \in Regs
      /\ d \in Regs \ {zero} /\ a # tp /\ a \in Regs
  BY Operands, RegNames DEF Ready
<1>2. x \in Word /\ y \in Word /\ m.regs[a] = x
  BY <1>1, RegIs, ModWord DEF ToWord
<1> HIDE DEF m1, y
<1>3. Ready(m1) /\ Reg(m1, tp) = y /\ Reg(m1, a) = x
  BY <1>1, AfterLi DEF m1, y
<1> HIDE DEF x
<1>4. Does(m1, c, Run(m1, c), R, S) /\ Reg(Run(m1, c), d) = LessUnsigned(x, y)
  BY <1>1, <1>3, SltuDoes
<1>5. Below(R, d) /\ Low(S)
  BY Costs
<1> HIDE DEF c, R, S
<1>6. LessUnsigned(x, y) = v
  OBVIOUS
<1>7. RegMeaning(0, 3, m, d, x, y) = Set(m, d, v)
  BY RegOpIs DEF RegMeaning, v
<1> HIDE DEF v
<1>8. Agrees(Run(m, li(tp, b) \o c), Set(m, d, v))
  BY <1>1, <1>4, <1>5, <1>6, ImmAgrees DEF m1
<1> QED BY <1>2, <1>7, <1>8 DEF c, y

\* andi agrees with its meaning.
LEMMA AndiAgrees ==
  ASSUME NEW m, NEW d, NEW a, NEW b, Ready(m), d \in Dest, a \in Named, b \in Int
  PROVE  Agrees(Run(m, li(tp, b) \o logic(And8, d, a, tp)), RegMeaning(0, 7, m, d, m.regs[a], ToWord(b)))
<1> DEFINE x == Reg(m, a)
           y == ToWord(b)
           c == logic(And8, d, a, tp)
           m1 == Run(m, li(tp, b))
           R == Two(d, tp)
           S == Scratch
           v == And(x, y)
<1>1. /\ Live(m) /\ d \in Regs \ {zero, sp, gp, tp} /\ a \in Regs \ {gp, tp} /\ tp \in Regs
      /\ d \in Regs \ {zero} /\ a # tp /\ a \in Regs
  BY Operands, RegNames DEF Ready
<1>2. x \in Word /\ y \in Word /\ m.regs[a] = x
  BY <1>1, RegIs, ModWord DEF ToWord
<1> HIDE DEF m1, y
<1>3. Ready(m1) /\ Reg(m1, tp) = y /\ Reg(m1, a) = x
  BY <1>1, AfterLi DEF m1, y
<1> HIDE DEF x
<1>4. Does(m1, c, Run(m1, c), R, S) /\ Reg(Run(m1, c), d) = LogicWord(And8, x, y)
  BY <1>1, <1>3, LogicDoes DEF Logic
<1>5. Below(R, d) /\ Low(S)
  BY Costs
<1> HIDE DEF c, R, S
<1>6. LogicWord(And8, x, y) = v
  BY <1>2, LogicMeans
<1>7. RegMeaning(0, 7, m, d, x, y) = Set(m, d, v)
  BY RegOpIs DEF RegMeaning, v
<1> HIDE DEF v
<1>8. Agrees(Run(m, li(tp, b) \o c), Set(m, d, v))
  BY <1>1, <1>4, <1>5, <1>6, ImmAgrees DEF m1
<1> QED BY <1>2, <1>7, <1>8 DEF c, y

\* ori agrees with its meaning.
LEMMA OriAgrees ==
  ASSUME NEW m, NEW d, NEW a, NEW b, Ready(m), d \in Dest, a \in Named, b \in Int
  PROVE  Agrees(Run(m, li(tp, b) \o logic(Or8, d, a, tp)), RegMeaning(0, 6, m, d, m.regs[a], ToWord(b)))
<1> DEFINE x == Reg(m, a)
           y == ToWord(b)
           c == logic(Or8, d, a, tp)
           m1 == Run(m, li(tp, b))
           R == Two(d, tp)
           S == Scratch
           v == Or(x, y)
<1>1. /\ Live(m) /\ d \in Regs \ {zero, sp, gp, tp} /\ a \in Regs \ {gp, tp} /\ tp \in Regs
      /\ d \in Regs \ {zero} /\ a # tp /\ a \in Regs
  BY Operands, RegNames DEF Ready
<1>2. x \in Word /\ y \in Word /\ m.regs[a] = x
  BY <1>1, RegIs, ModWord DEF ToWord
<1> HIDE DEF m1, y
<1>3. Ready(m1) /\ Reg(m1, tp) = y /\ Reg(m1, a) = x
  BY <1>1, AfterLi DEF m1, y
<1> HIDE DEF x
<1>4. Does(m1, c, Run(m1, c), R, S) /\ Reg(Run(m1, c), d) = LogicWord(Or8, x, y)
  BY <1>1, <1>3, LogicDoes DEF Logic
<1>5. Below(R, d) /\ Low(S)
  BY Costs
<1> HIDE DEF c, R, S
<1>6. LogicWord(Or8, x, y) = v
  BY <1>2, LogicMeans
<1>7. RegMeaning(0, 6, m, d, x, y) = Set(m, d, v)
  BY RegOpIs DEF RegMeaning, v
<1> HIDE DEF v
<1>8. Agrees(Run(m, li(tp, b) \o c), Set(m, d, v))
  BY <1>1, <1>4, <1>5, <1>6, ImmAgrees DEF m1
<1> QED BY <1>2, <1>7, <1>8 DEF c, y

\* xori agrees with its meaning.
LEMMA XoriAgrees ==
  ASSUME NEW m, NEW d, NEW a, NEW b, Ready(m), d \in Dest, a \in Named, b \in Int
  PROVE  Agrees(Run(m, li(tp, b) \o logic(Xor8, d, a, tp)), RegMeaning(0, 4, m, d, m.regs[a], ToWord(b)))
<1> DEFINE x == Reg(m, a)
           y == ToWord(b)
           c == logic(Xor8, d, a, tp)
           m1 == Run(m, li(tp, b))
           R == Two(d, tp)
           S == Scratch
           v == Xor(x, y)
<1>1. /\ Live(m) /\ d \in Regs \ {zero, sp, gp, tp} /\ a \in Regs \ {gp, tp} /\ tp \in Regs
      /\ d \in Regs \ {zero} /\ a # tp /\ a \in Regs
  BY Operands, RegNames DEF Ready
<1>2. x \in Word /\ y \in Word /\ m.regs[a] = x
  BY <1>1, RegIs, ModWord DEF ToWord
<1> HIDE DEF m1, y
<1>3. Ready(m1) /\ Reg(m1, tp) = y /\ Reg(m1, a) = x
  BY <1>1, AfterLi DEF m1, y
<1> HIDE DEF x
<1>4. Does(m1, c, Run(m1, c), R, S) /\ Reg(Run(m1, c), d) = LogicWord(Xor8, x, y)
  BY <1>1, <1>3, LogicDoes DEF Logic
<1>5. Below(R, d) /\ Low(S)
  BY Costs
<1> HIDE DEF c, R, S
<1>6. LogicWord(Xor8, x, y) = v
  BY <1>2, LogicMeans
<1>7. RegMeaning(0, 4, m, d, x, y) = Set(m, d, v)
  BY RegOpIs DEF RegMeaning, v
<1> HIDE DEF v
<1>8. Agrees(Run(m, li(tp, b) \o c), Set(m, d, v))
  BY <1>1, <1>4, <1>5, <1>6, ImmAgrees DEF m1
<1> QED BY <1>2, <1>7, <1>8 DEF c, y

\* A shift amount is its own word and its own low five bits.
LEMMA ShiftAmount ==
  ASSUME NEW k, k \in Nat, k < 32
  PROVE  ToWord(k) % 32 = k /\ Shamt(k)
<1>1. k \in Word
  BY WidthBounds DEF Word
<1>2. ToWord(k) = k
  BY <1>1, SmallWord DEF ToWord
<1>3. k % 32 = k
  OBVIOUS
<1> QED BY <1>2, <1>3 DEF Shamt

\* slli agrees with its meaning.
LEMMA SlliAgrees ==
  ASSUME NEW m, NEW d, NEW a, NEW b, Ready(m), d \in Dest, a \in Named, b \in Nat, b < 32
  PROVE  Agrees(Run(m, slli(d, a, b)), RegMeaning(0, 1, m, d, m.regs[a], ToWord(b)))
<1> DEFINE x == Reg(m, a)
           y == ToWord(b)
           c == slli(d, a, b)
           R == Two(d, tp)
           S == Slots2(4, 6)
           v == Shl(x, b)
<1>1. Live(m) /\ d \in Regs \ {zero, sp, tp} /\ d \in Regs \ {zero, sp} /\ a \in Regs /\ d \in Regs \ {zero}
  BY Operands, RegNames DEF Ready
<1>2. x \in Word /\ m.regs[a] = x
  BY <1>1, RegIs
<1>3. y % 32 = b /\ Shamt(b)
  BY ShiftAmount
<1> HIDE DEF x, y
<1>4. Does(m, c, Run(m, c), R, S) /\ Reg(Run(m, c), d) = Shl(x, b)
  BY <1>1, <1>3, SlliDoes DEF x
<1>5. Below(R, d) /\ Low(S)
  BY Costs
<1> HIDE DEF c, R, S
<1>6. Shl(x, b) = v
  OBVIOUS
<1>7. RegMeaning(0, 1, m, d, x, y) = Set(m, d, v)
  BY <1>3, RegOpIs DEF RegMeaning, v
<1> HIDE DEF v
<1>8. Agrees(Run(m, c), Set(m, d, v))
  BY <1>1, <1>4, <1>5, <1>6, ResultAgrees
<1> QED BY <1>2, <1>7, <1>8 DEF c, y

\* srli agrees with its meaning.
LEMMA SrliAgrees ==
  ASSUME NEW m, NEW d, NEW a, NEW b, Ready(m), d \in Dest, a \in Named, b \in Nat, b < 32
  PROVE  Agrees(Run(m, shift_right_imm(d, a, b, FALSE)), RegMeaning(0, 5, m, d, m.regs[a], ToWord(b)))
<1> DEFINE ar == FALSE
           x == Reg(m, a)
           y == ToWord(b)
           c == shift_right_imm(d, a, b, ar)
           R == Three(d, gp, tp)
           S == Scratch
           v == Shr(x, b)
<1>0. ar \in BOOLEAN
  OBVIOUS
<1> HIDE DEF ar
<1>1. Live(m) /\ d \in Regs \ {zero, sp, tp} /\ d \in Regs \ {zero, sp} /\ a \in Regs /\ d \in Regs \ {zero}
  BY Operands, RegNames DEF Ready
<1>2. x \in Word /\ m.regs[a] = x
  BY <1>1, RegIs
<1>3. y % 32 = b /\ Shamt(b)
  BY ShiftAmount
<1> HIDE DEF x, y
<1>4. Does(m, c, Run(m, c), R, S) /\ Reg(Run(m, c), d) = Shifted(ar, x, b)
  BY <1>1, <1>3, <1>0, ShiftImmDoes DEF x
<1>5. Below(R, d) /\ Low(S)
  BY Costs
<1> HIDE DEF c, R, S
<1>6. Shifted(ar, x, b) = v
  BY DEF Shifted, ar
<1>7. RegMeaning(0, 5, m, d, x, y) = Set(m, d, v)
  BY <1>3, RegOpIs DEF RegMeaning, v
<1> HIDE DEF v
<1>8. Agrees(Run(m, c), Set(m, d, v))
  BY <1>1, <1>4, <1>5, <1>6, ResultAgrees
<1> QED BY <1>2, <1>7, <1>8 DEF c, y, ar

\* srai agrees with its meaning.
LEMMA SraiAgrees ==
  ASSUME NEW m, NEW d, NEW a, NEW b, Ready(m), d \in Dest, a \in Named, b \in Nat, b < 32
  PROVE  Agrees(Run(m, shift_right_imm(d, a, b, TRUE)), RegMeaning(32, 5, m, d, m.regs[a], ToWord(b)))
<1> DEFINE ar == TRUE
           x == Reg(m, a)
           y == ToWord(b)
           c == shift_right_imm(d, a, b, ar)
           R == Three(d, gp, tp)
           S == Scratch
           v == Sar(x, b)
<1>0. ar \in BOOLEAN
  OBVIOUS
<1> HIDE DEF ar
<1>1. Live(m) /\ d \in Regs \ {zero, sp, tp} /\ d \in Regs \ {zero, sp} /\ a \in Regs /\ d \in Regs \ {zero}
  BY Operands, RegNames DEF Ready
<1>2. x \in Word /\ m.regs[a] = x
  BY <1>1, RegIs
<1>3. y % 32 = b /\ Shamt(b)
  BY ShiftAmount
<1> HIDE DEF x, y
<1>4. Does(m, c, Run(m, c), R, S) /\ Reg(Run(m, c), d) = Shifted(ar, x, b)
  BY <1>1, <1>3, <1>0, ShiftImmDoes DEF x
<1>5. Below(R, d) /\ Low(S)
  BY Costs
<1> HIDE DEF c, R, S
<1>6. Shifted(ar, x, b) = v
  BY DEF Shifted, ar
<1>7. RegMeaning(32, 5, m, d, x, y) = Set(m, d, v)
  BY <1>3, RegOpIs DEF RegMeaning, v
<1> HIDE DEF v
<1>8. Agrees(Run(m, c), Set(m, d, v))
  BY <1>1, <1>4, <1>5, <1>6, ResultAgrees
<1> QED BY <1>2, <1>7, <1>8 DEF c, y, ar

\* neg agrees with its meaning.
LEMMA NegAgrees ==
  ASSUME NEW m, NEW d, NEW a, Ready(m), d \in Dest, a \in Named
  PROVE  Agrees(Run(m, sub(d, zero, a)), RegMeaning(32, 0, m, d, 0, m.regs[a]))
<1> DEFINE x == Reg(m, a)
           n0 == 0
           c == sub(d, zero, a)
           R == Two(d, tp)
           S == Slots3(3, 6, 7)
           v == Sub(n0, x)
<1>1. /\ Live(m) /\ d \in Regs \ {zero, sp, gp, tp} /\ a \in Regs \ {gp, tp} /\ a \in Regs
      /\ zero \in Regs \ {tp} /\ zero \in Regs /\ d \in Regs \ {zero}
  BY Operands, RegNames DEF Ready
<1>2. x \in Word /\ m.regs[a] = x /\ Reg(m, zero) = n0
  BY <1>1, RegIs, ZeroReg
<1> HIDE DEF x, n0
<1>3. Does(m, c, Run(m, c), R, S) /\ Reg(Run(m, c), d) = v
  BY <1>1, <1>2, SubDoes DEF x
<1>4. Below(R, d) /\ Low(S)
  BY Costs
<1> HIDE DEF c, R, S, v
<1>5. RegOp(32, 0, 0, x) = v
  BY RegOpIs DEF v, n0
<1>6. RegMeaning(32, 0, m, d, 0, x) = Set(m, d, v)
  BY <1>5 DEF RegMeaning
<1>7. Agrees(Run(m, c), Set(m, d, v))
  BY <1>1, <1>3, <1>4, ResultAgrees
<1> QED BY <1>2, <1>6, <1>7 DEF c

\* not agrees with its meaning.
LEMMA NotAgrees ==
  ASSUME NEW m, NEW d, NEW a, Ready(m), d \in Dest, a \in Named
  PROVE  Agrees(Run(m, Not(d, a)), RegMeaning(0, 4, m, d, m.regs[a], Modulus - 1))
<1> DEFINE x == Reg(m, a)
           n0 == 0
           c == Not(d, a)
           R == Two(d, tp)
           S == Slots3(3, 6, 7)
           v == Modulus - 1 - x
<1>1. /\ Live(m) /\ d \in Regs \ {zero, sp} /\ a \in Regs \ {gp, tp} /\ a \in Regs /\ zero \in Regs \ {tp}
      /\ zero \in Regs /\ d \in Regs \ {zero}
  BY Operands, RegNames DEF Ready
<1>2. x \in Word /\ m.regs[a] = x /\ Reg(m, zero) = n0
  BY <1>1, RegIs, ZeroReg
<1> HIDE DEF x, n0
<1>3. Does(m, c, Run(m, c), R, S) /\ Reg(Run(m, c), d) = v
  BY <1>1, <1>2, NotDoes DEF x
<1>4. Below(R, d) /\ Low(S)
  BY Costs
<1> HIDE DEF c, R, S, v
<1>5. RegOp(0, 4, x, Modulus - 1) = v
  <2>1. RegOp(0, 4, x, Modulus - 1) = Xor(x, Modulus - 1)
    BY RegOpIs
  <2>2. Xor(x, Modulus - 1) = Modulus - 1 - x
    BY <1>2, XorAllOnes
  <2> QED BY <2>1, <2>2 DEF v
<1>6. RegMeaning(0, 4, m, d, x, Modulus - 1) = Set(m, d, v)
  BY <1>5 DEF RegMeaning
<1>7. Agrees(Run(m, c), Set(m, d, v))
  BY <1>1, <1>3, <1>4, ResultAgrees
<1> QED BY <1>2, <1>6, <1>7 DEF c

\* sgtz agrees with its meaning.
LEMMA SgtzAgrees ==
  ASSUME NEW m, NEW d, NEW a, Ready(m), d \in Dest, a \in Named
  PROVE  Agrees(Run(m, slt(d, zero, a)), RegMeaning(0, 2, m, d, 0, m.regs[a]))
<1> DEFINE x == Reg(m, a)
           n0 == 0
           c == slt(d, zero, a)
           R == Three(d, gp, tp)
           S == Scratch
           v == Less(n0, x)
<1>1. /\ Live(m) /\ d \in Regs \ {zero, sp} /\ a \in Regs \ {gp, tp} /\ a \in Regs /\ zero \in Regs \ {tp}
      /\ zero \in Regs /\ d \in Regs \ {zero}
  BY Operands, RegNames DEF Ready
<1>2. x \in Word /\ m.regs[a] = x /\ Reg(m, zero) = n0
  BY <1>1, RegIs, ZeroReg
<1> HIDE DEF x, n0
<1>3. Does(m, c, Run(m, c), R, S) /\ Reg(Run(m, c), d) = v
  BY <1>1, <1>2, SltDoes DEF x
<1>4. Below(R, d) /\ Low(S)
  BY Costs
<1> HIDE DEF c, R, S, v
<1>5. RegOp(0, 2, 0, x) = v
  BY RegOpIs DEF v, n0
<1>6. RegMeaning(0, 2, m, d, 0, x) = Set(m, d, v)
  BY <1>5 DEF RegMeaning
<1>7. Agrees(Run(m, c), Set(m, d, v))
  BY <1>1, <1>3, <1>4, ResultAgrees
<1> QED BY <1>2, <1>6, <1>7 DEF c

\* snez agrees with its meaning.
LEMMA SnezAgrees ==
  ASSUME NEW m, NEW d, NEW a, Ready(m), d \in Dest, a \in Named
  PROVE  Agrees(Run(m, sltu(d, zero, a)), RegMeaning(0, 3, m, d, 0, m.regs[a]))
<1> DEFINE x == Reg(m, a)
           n0 == 0
           c == sltu(d, zero, a)
           R == Three(d, gp, tp)
           S == Scratch
           v == LessUnsigned(n0, x)
<1>1. /\ Live(m) /\ d \in Regs \ {zero, sp} /\ a \in Regs \ {gp, tp} /\ a \in Regs /\ zero \in Regs \ {tp}
      /\ zero \in Regs /\ d \in Regs \ {zero}
  BY Operands, RegNames DEF Ready
<1>2. x \in Word /\ m.regs[a] = x /\ Reg(m, zero) = n0
  BY <1>1, RegIs, ZeroReg
<1> HIDE DEF x, n0
<1>3. Does(m, c, Run(m, c), R, S) /\ Reg(Run(m, c), d) = v
  BY <1>1, <1>2, SltuDoes DEF x
<1>4. Below(R, d) /\ Low(S)
  BY Costs
<1> HIDE DEF c, R, S, v
<1>5. RegOp(0, 3, 0, x) = v
  BY RegOpIs DEF v, n0
<1>6. RegMeaning(0, 3, m, d, 0, x) = Set(m, d, v)
  BY <1>5 DEF RegMeaning
<1>7. Agrees(Run(m, c), Set(m, d, v))
  BY <1>1, <1>3, <1>4, ResultAgrees
<1> QED BY <1>2, <1>6, <1>7 DEF c

\* sltz agrees with its meaning.
LEMMA SltzAgrees ==
  ASSUME NEW m, NEW d, NEW a, Ready(m), d \in Dest, a \in Named
  PROVE  Agrees(Run(m, msb(d, a)), RegMeaning(0, 2, m, d, m.regs[a], 0))
<1> DEFINE x == Reg(m, a)
           n0 == 0
           c == msb(d, a)
           R == One(d)
           S == Slot(6)
           v == Sign(x)
<1>1. /\ Live(m) /\ d \in Regs \ {zero, sp} /\ a \in Regs \ {gp, tp} /\ a \in Regs /\ zero \in Regs \ {tp}
      /\ zero \in Regs /\ d \in Regs \ {zero}
  BY Operands, RegNames DEF Ready
<1>2. x \in Word /\ m.regs[a] = x /\ Reg(m, zero) = n0
  BY <1>1, RegIs, ZeroReg
<1> HIDE DEF x, n0
<1>3. Does(m, c, Run(m, c), R, S) /\ Reg(Run(m, c), d) = v
  BY <1>1, <1>2, MsbDoes DEF x
<1>4. Below(R, d) /\ Low(S)
  BY Costs
<1> HIDE DEF c, R, S, v
<1>5. RegOp(0, 2, x, 0) = v
  <2>1. RegOp(0, 2, x, 0) = Less(x, 0)
    BY RegOpIs
  <2>2. Sign(x) = 1 <=> Signed(x) < 0
    BY <1>2, SignedZero
  <2>3. Signed(0) = 0 /\ (Sign(x) = 0 \/ Sign(x) = 1)
    BY <1>2, SignedZero DEF Sign
  <2> QED BY <2>1, <2>2, <2>3 DEF v, Less
<1>6. RegMeaning(0, 2, m, d, x, 0) = Set(m, d, v)
  BY <1>5 DEF RegMeaning
<1>7. Agrees(Run(m, c), Set(m, d, v))
  BY <1>1, <1>3, <1>4, ResultAgrees
<1> QED BY <1>2, <1>6, <1>7 DEF c

\* seqz agrees with its meaning.
LEMMA SeqzAgrees ==
  ASSUME NEW m, NEW d, NEW a, Ready(m), d \in Dest \ {s0}, a \in Named
  PROVE  Agrees(Run(m, seqz(d, a)), RegMeaning(0, 3, m, d, m.regs[a], 1))
<1> DEFINE x == Reg(m, a)
           n0 == 0
           c == seqz(d, a)
           R == Three(d, gp, tp)
           S == Scratch
           v == Same(x, 0)
<1>1. /\ Live(m) /\ d \in Regs \ {zero, sp, s0} /\ a \in Regs \ {gp, tp} /\ a \in Regs
      /\ zero \in Regs \ {tp} /\ zero \in Regs /\ d \in Regs \ {zero}
  BY Operands, RegNames DEF Ready
<1>2. x \in Word /\ m.regs[a] = x /\ Reg(m, zero) = n0
  BY <1>1, RegIs, ZeroReg
<1> HIDE DEF x, n0
<1>3. Does(m, c, Run(m, c), R, S) /\ Reg(Run(m, c), d) = v
  BY <1>1, <1>2, SeqzDoes DEF x
<1>4. Below(R, d) /\ Low(S)
  BY Costs
<1> HIDE DEF c, R, S, v
<1>5. RegOp(0, 3, x, 1) = v
  <2>1. RegOp(0, 3, x, 1) = LessUnsigned(x, 1)
    BY RegOpIs
  <2>2. x < 1 <=> x = 0
    BY <1>2, WordNat
  <2> QED BY <2>1, <2>2 DEF v, LessUnsigned, Same
<1>6. RegMeaning(0, 3, m, d, x, 1) = Set(m, d, v)
  BY <1>5 DEF RegMeaning
<1>7. Agrees(Run(m, c), Set(m, d, v))
  BY <1>1, <1>3, <1>4, ResultAgrees
<1> QED BY <1>2, <1>6, <1>7 DEF c

-----------------------------------------------------------------------------
(* 25. The expansions agree with the meanings: loads, branches and jumps *)

\* What a load leaves alone but for its register, and that it may stray.
Follows(m, o, l) == l.pc = m.pc /\ (m.stray \/ o => l.stray)

\* A load into d, by an expansion and by a machine that then extends the value.
LEMMA LoadAgrees ==
  ASSUME NEW m, NEW c, NEW m2, NEW d, NEW l, NEW u, NEW v, NEW o, d \in Regs \ {zero},
         Reaches(m, c, m2, Three(d, gp, tp), Scratch, o), Reg(m2, d) = v,
         Live(l), Sets(m, l, d, u), Follows(m, o, l)
  PROVE  Agrees(m2, Set(l, d, v))
<1> DEFINE r == Set(l, d, v)
<1>1. v \in Word
  BY RegWord DEF Reaches
<1>2. Sets(l, r, d, v) /\ r.pc = l.pc /\ r.stray = l.stray
  BY <1>1, SetRuns
<1> HIDE DEF r
<1>3. \A k : k # tp /\ k # gp => Reg(m2, k) = Reg(r, k)
  <2> TAKE k
  <2> HAVE k # tp /\ k # gp
  <2>1. CASE k = d
    BY <1>2, <2>1 DEF Sets
  <2>2. CASE k # d
    <3>1. k \notin Three(d, gp, tp)
      BY <2>2 DEF Three
    <3>2. Reg(m2, k) = Reg(m, k)
      BY <3>1 DEF Reaches
    <3> QED BY <1>2, <2>2, <3>2 DEF Sets
  <2> QED BY <2>1, <2>2
<1>4. \A a : a \notin Scratch => Mem(m2, a) = Mem(r, a)
  BY <1>2 DEF Sets, Reaches
<1>5. m2.pc = r.pc /\ (m2.stray => r.stray)
  BY <1>2 DEF Reaches, Follows
<1> QED BY <1>3, <1>4, <1>5 DEF Agrees, r

\* lb agrees with its meaning.
LEMMA LbAgrees ==
  ASSUME NEW m, NEW d, NEW a, NEW b, Ready(m), d \in Dest, a \in Int, b \in Named,
         Add(Reg(m, b), a) \notin Scratch
  PROVE  Agrees(Run(m, lb(d, a, b)), Load(m, d, Add(m.regs[b], a), 1, 0))
<1> DEFINE x == Reg(m, b)
           p == Add(x, a)
           o == Outside(p)
           u == ByteIn(m, p)
           c == lb(d, a, b)
           m2 == Run(m, c)
           l == Read(m, d, p, 1)
           v == Sext(u, B) % Modulus
<1>1. /\ Live(m) /\ d \in Regs /\ d \in Regs \ {zero} /\ d \in Regs \ {zero, sp, gp, tp}
      /\ b \in Regs \ {gp, tp} /\ b \in Regs
  BY Operands, RegNames DEF Ready
<1>2. x \in Word /\ x \in Int /\ m.regs[b] = x
  BY <1>1, RegIs, RegWord
<1>3. Reaches(m, c, m2, Three(d, gp, tp), Scratch, o) /\ Reg(m2, d) = v
  BY <1>1, LbDoes
<1>4. p \in Int
  <2>1. p \in Word
    BY <1>2, AddWord
  <2> QED BY <2>1, WordInt
<1> HIDE DEF p, m2, x
<1>5. Live(l) /\ Sets(m, l, d, u) /\ l.pc = m.pc /\ l.stray = (m.stray \/ o)
  BY <1>1, <1>4, ReadByteDoes
<1>6. Load(m, d, p, 1, 0) = Set(l, d, ToWord(Sext(l.regs[d], B)))
  BY DEF Load
<1> HIDE DEF l, u
<1>7. l.regs[d] = u
  BY <1>1, <1>5, RegIs DEF Sets
<1>8. ToWord(Sext(l.regs[d], B)) = v
  BY <1>7 DEF ToWord
<1> HIDE DEF v, o, c
<1>9. Follows(m, o, l)
  BY <1>5 DEF Follows
<1>10. Agrees(m2, Set(l, d, v))
  BY <1>1, <1>3, <1>5, <1>9, LoadAgrees
<1> QED BY <1>2, <1>6, <1>8, <1>10 DEF p, m2, c

\* The two bytes of a halfword, as the expansion and as the ISA address them.
LEMMA HalfPlace ==
  ASSUME NEW m, NEW x, NEW off, x \in Word, off \in Int
  PROVE  /\ ByteIn(m, Add(x, off + 1)) = ByteIn(m, Add(x, off) + 1)
         /\ Outside(Add(x, off + 1)) => Outside(Add(x, off) + 1)
<1> DEFINE p == Add(x, off) + 1
           q == Add(x, off + 1)
<1>1. q = p \/ (Outside(q) /\ Outside(p))
  BY NextPlace
<1> HIDE DEF p, q
<1>2. ByteIn(m, q) = ByteIn(m, p) /\ (Outside(q) => Outside(p))
  BY <1>1 DEF ByteIn, Outside
<1> QED BY <1>2 DEF p, q

\* lh agrees with its meaning.
LEMMA LhAgrees ==
  ASSUME NEW m, NEW d, NEW a, NEW b, Ready(m), d \in Dest, a \in Int, b \in Named,
         Add(Reg(m, b), a) \notin Scratch, Add(Reg(m, b), a + 1) \notin Scratch
  PROVE  Agrees(Run(m, lh(d, a, b)), Load(m, d, Add(m.regs[b], a), 2, 1))
<1> DEFINE x == Reg(m, b)
           p == Add(x, a)
           p1 == p + 1
           q == Add(x, a + 1)
           o == Outside(p) \/ Outside(p1)
           u == ByteIn(m, p)
           t == ByteIn(m, p1)
           h == u + B * t
           c == lh(d, a, b)
           m2 == Run(m, c)
           l == Read(m, d, p, 2)
           v == Sext(h, B * B) % Modulus
<1>1. /\ Live(m) /\ d \in Regs /\ d \in Regs \ {zero} /\ d \in Regs \ {zero, sp, gp, tp}
      /\ b \in Regs \ {gp, tp} /\ b \in Regs
  BY Operands, RegNames DEF Ready
<1>2. x \in Word /\ x \in Int /\ m.regs[b] = x
  BY <1>1, RegIs, RegWord
<1>3. ByteIn(m, q) = t /\ (Outside(q) => Outside(p1))
  BY <1>2, HalfPlace
<1>4. p \in Int
  <2>1. p \in Word
    BY <1>2, AddWord
  <2> QED BY <2>1, WordInt
<1> HIDE DEF p1
<1>5. Outside(p) => o
  OBVIOUS
<1>6. Outside(q) => o
  BY <1>3
<1> HIDE DEF o
<1>7. /\ Reaches(m, c, m2, Three(d, gp, tp), Scratch, o)
      /\ Reg(m2, d) = Sext(u + B * ByteIn(m, q), B * B) % Modulus
  BY <1>1, <1>5, <1>6, LhDoes
<1> HIDE DEF q, m2, c
<1>8. Reaches(m, c, m2, Three(d, gp, tp), Scratch, o) /\ Reg(m2, d) = v
  BY <1>3, <1>7
<1> HIDE DEF p, x, t
<1>9. Live(l) /\ Sets(m, l, d, h) /\ l.pc = m.pc /\ l.stray = (m.stray \/ o)
  BY <1>1, <1>4, ReadHalfDoes DEF o, t, p1
<1>10. Load(m, d, p, 2, 1) = Set(l, d, Extended(1, l.regs[d]))
  BY DEF Load
<1> HIDE DEF l, u, h
<1>11. l.regs[d] = h
  BY <1>1, <1>9, RegIs DEF Sets
<1>12. Extended(1, h) = v
  BY Widths DEF Extended
<1> HIDE DEF v
<1>13. Follows(m, o, l)
  BY <1>9 DEF Follows
<1>14. Agrees(m2, Set(l, d, v))
  BY <1>1, <1>8, <1>9, <1>13, LoadAgrees
<1> QED BY <1>2, <1>10, <1>11, <1>12, <1>14 DEF p, m2, c

\* lhu agrees with its meaning.
LEMMA LhuAgrees ==
  ASSUME NEW m, NEW d, NEW a, NEW b, Ready(m), d \in Dest, a \in Int, b \in Named,
         Add(Reg(m, b), a) \notin Scratch, Add(Reg(m, b), a + 1) \notin Scratch
  PROVE  Agrees(Run(m, lhu(d, a, b)), Load(m, d, Add(m.regs[b], a), 2, 5))
<1> DEFINE x == Reg(m, b)
           p == Add(x, a)
           p1 == p + 1
           q == Add(x, a + 1)
           o == Outside(p) \/ Outside(p1)
           u == ByteIn(m, p)
           t == ByteIn(m, p1)
           h == u + B * t
           c == lhu(d, a, b)
           m2 == Run(m, c)
           l == Read(m, d, p, 2)
           v == h
<1>1. /\ Live(m) /\ d \in Regs /\ d \in Regs \ {zero} /\ d \in Regs \ {zero, sp, gp, tp}
      /\ b \in Regs \ {gp, tp} /\ b \in Regs
  BY Operands, RegNames DEF Ready
<1>2. x \in Word /\ x \in Int /\ m.regs[b] = x
  BY <1>1, RegIs, RegWord
<1>3. ByteIn(m, q) = t /\ (Outside(q) => Outside(p1))
  BY <1>2, HalfPlace
<1>4. p \in Int
  <2>1. p \in Word
    BY <1>2, AddWord
  <2> QED BY <2>1, WordInt
<1> HIDE DEF p1
<1>5. Outside(p) => o
  OBVIOUS
<1>6. Outside(q) => o
  BY <1>3
<1> HIDE DEF o
<1>7. Reaches(m, c, m2, Three(d, gp, tp), Scratch, o) /\ Reg(m2, d) = u + B * ByteIn(m, q)
  <2>1. p \notin Scratch /\ q \notin Scratch /\ Reaches(m, c, m2, Three(d, gp, tp), Scratch, o)
    BY <1>1, <1>5, <1>6, LhuDoes
  <2>2. Reg(m2, d) = HalfAt(m, x, a)
    BY <1>1, <1>5, <1>6, <2>1, LhuDoes
  <2> QED BY <2>1, <2>2 DEF HalfAt
<1> HIDE DEF q, m2, c
<1>8. Reaches(m, c, m2, Three(d, gp, tp), Scratch, o) /\ Reg(m2, d) = v
  BY <1>3, <1>7
<1> HIDE DEF p, x, t
<1>9. Live(l) /\ Sets(m, l, d, h) /\ l.pc = m.pc /\ l.stray = (m.stray \/ o)
  BY <1>1, <1>4, ReadHalfDoes DEF o, t, p1
<1>10. Load(m, d, p, 2, 5) = Set(l, d, Extended(5, l.regs[d]))
  BY DEF Load
<1> HIDE DEF l, u, h
<1>11. l.regs[d] = h
  BY <1>1, <1>9, RegIs DEF Sets
<1>12. Extended(5, h) = v
  BY DEF Extended
<1> HIDE DEF v
<1>13. Follows(m, o, l)
  BY <1>9 DEF Follows
<1>14. Agrees(m2, Set(l, d, v))
  BY <1>1, <1>8, <1>9, <1>13, LoadAgrees
<1> QED BY <1>2, <1>10, <1>11, <1>12, <1>14 DEF p, m2, c

\* A machine that goes on elsewhere.
LEMMA GoesOn ==
  ASSUME NEW m, NEW t, Live(m), t \in Int
  PROVE  /\ Live([m EXCEPT !.pc = t]) /\ [m EXCEPT !.pc = t].pc = t /\ [m EXCEPT !.pc = t].stray = m.stray
         /\ \A k : Reg([m EXCEPT !.pc = t], k) = Reg(m, k)
         /\ \A a : Mem([m EXCEPT !.pc = t], a) = Mem(m, a)
<1> DEFINE r == [m EXCEPT !.pc = t]
<1>1. m \in Machine
  BY DEF Live
<1>2. /\ r \in Machine /\ r.pc = t /\ r.stray = m.stray /\ r.jumped = m.jumped
      /\ r.ram = m.ram /\ r.regs = m.regs
  BY <1>1 DEF Machine
<1> HIDE DEF r
<1>3. (\A k : Reg(r, k) = Reg(m, k)) /\ (\A a : Mem(r, a) = Mem(m, a))
  BY <1>2 DEF Reg, Mem
<1>4. Live(r)
  BY <1>2, <1>3 DEF Live
<1> QED BY <1>2, <1>3, <1>4 DEF r

\* A jump to t stands for going on at t.
LEMMA JumpAgrees ==
  ASSUME NEW m, NEW c, NEW m2, NEW R, NEW S, NEW t, NEW r,
         Jumps(m, c, m2, R, S, t), R \subseteq Two(gp, tp), Low(S),
         r.pc = t, r.stray = m.stray, \A k : Reg(r, k) = Reg(m, k), \A a : Mem(r, a) = Mem(m, a)
  PROVE  Agrees(m2, r)
<1>1. \A k : k # tp /\ k # gp => Reg(m2, k) = Reg(r, k)
  BY DEF Jumps, Two
<1>2. \A a : a \notin Scratch => Mem(m2, a) = Mem(r, a)
  BY DEF Jumps, Low
<1>3. m2.pc = r.pc /\ m2.stray = r.stray
  BY DEF Jumps
<1> QED BY <1>1, <1>2, <1>3 DEF Agrees

\* A branch that is taken or not.
LEMMA BranchAgrees ==
  ASSUME NEW m, NEW c, NEW t, NEW f, Ready(m), m.pc = After, Branch(m, c, Where(t)), t \in BOOLEAN, f = t
  PROVE  Agrees(Run(m, c), IF f THEN [m EXCEPT !.pc = Target] ELSE m)
<1> DEFINE R == Two(gp, tp)
           S == Scratch
           m2 == Run(m, c)
<1>1. Jumps(m, c, m2, R, S, Where(t)) /\ Live(m) /\ Low(S)
  BY Costs DEF Branch, Ready
<1>2. CASE t = TRUE
  <2> DEFINE r == [m EXCEPT !.pc = Target]
             w == Target
  <2>1. w \in Int /\ Where(t) = w
    BY <1>2 DEF Target, Where
  <2> HIDE DEF w
  <2>2. r.pc = w /\ r.stray = m.stray /\ (\A k : Reg(r, k) = Reg(m, k)) /\ (\A a : Mem(r, a) = Mem(m, a))
    BY <1>1, <2>1, GoesOn DEF w
  <2> HIDE DEF r, m2, S
  <2>3. Agrees(m2, r)
    BY <1>1, <2>1, <2>2, JumpAgrees
  <2>4. f = TRUE
    BY <1>2
  <2> QED BY <2>3, <2>4 DEF r, m2
<1>3. CASE t = FALSE
  <2> DEFINE w == After
  <2>1. Where(t) = w /\ m.pc = w
    BY <1>3 DEF Where
  <2> HIDE DEF m2, S, w
  <2>2. Agrees(m2, m)
    <3>1. \A k : Reg(m, k) = Reg(m, k)
      OBVIOUS
    <3> QED BY <1>1, <2>1, JumpAgrees
  <2>3. f = FALSE
    BY <1>3
  <2> QED BY <2>2, <2>3 DEF m2
<1> QED BY <1>2, <1>3

\* The branches agree with their meanings.
LEMMA BranchesAgree ==
  ASSUME NEW m, NEW i, NEW a, NEW b, Ready(m), m.pc = After, a = i[3], b = i[4], a \in Named, b \in Named
  PROVE  /\ Agrees(Run(m, beq(a, b, Target)), Branches(i, m, 0))
         /\ Agrees(Run(m, bne(a, b, Target)), Branches(i, m, 1))
         /\ Agrees(Run(m, blt(a, b, Target)), Branches(i, m, 4))
         /\ Agrees(Run(m, bge(a, b, Target)), Branches(i, m, 5))
         /\ Agrees(Run(m, bltu(a, b, Target)), Branches(i, m, 6))
         /\ Agrees(Run(m, bgeu(a, b, Target)), Branches(i, m, 7))
<1> DEFINE x == Reg(m, a)
           y == Reg(m, b)
<1>1. Live(m) /\ a \in Regs /\ b \in Regs /\ b \in Regs \ {gp}
  BY Operands DEF Ready
<1>2. x \in Word /\ y \in Word /\ m.regs[a] = x /\ m.regs[b] = y
  BY <1>1, RegIs
<1>3. /\ Branch(m, beq(a, b, Target), Where(x = y)) /\ Branch(m, bne(a, b, Target), Where(x # y))
  BY <1>1, EqualBranches
<1>4. /\ Branch(m, bltu(a, b, Target), Where(x < y)) /\ Branch(m, bgeu(a, b, Target), Where(~ (x < y)))
  BY <1>1, UnsignedBranches
<1>5. /\ Branch(m, blt(a, b, Target), Where(Signed(x) < Signed(y)))
      /\ Branch(m, bge(a, b, Target), Where(~ (Signed(x) < Signed(y))))
  BY <1>1, SignedBranches
<1> HIDE DEF x, y

<1>6. Agrees(Run(m, beq(a, b, Target)), Branches(i, m, 0))
  <2> DEFINE t == x = y
             f == Taken(0, x, y)
  <2>1. f = t /\ t \in BOOLEAN
    BY DEF Taken
  <2>2. Branch(m, beq(a, b, Target), Where(t))
    BY <1>3
  <2> HIDE DEF t, f
  <2>3. Agrees(Run(m, beq(a, b, Target)), IF f THEN [m EXCEPT !.pc = Target] ELSE m)
    BY <2>1, <2>2, BranchAgrees
  <2>4. Branches(i, m, 0) = IF f THEN [m EXCEPT !.pc = Target] ELSE m
    BY <1>2 DEF Branches, f
  <2> QED BY <2>3, <2>4
<1>7. Agrees(Run(m, bne(a, b, Target)), Branches(i, m, 1))
  <2> DEFINE t == x # y
             f == Taken(1, x, y)
  <2>1. f = t /\ t \in BOOLEAN
    BY DEF Taken
  <2>2. Branch(m, bne(a, b, Target), Where(t))
    BY <1>3
  <2> HIDE DEF t, f
  <2>3. Agrees(Run(m, bne(a, b, Target)), IF f THEN [m EXCEPT !.pc = Target] ELSE m)
    BY <2>1, <2>2, BranchAgrees
  <2>4. Branches(i, m, 1) = IF f THEN [m EXCEPT !.pc = Target] ELSE m
    BY <1>2 DEF Branches, f
  <2> QED BY <2>3, <2>4
<1>8. Agrees(Run(m, blt(a, b, Target)), Branches(i, m, 4))
  <2> DEFINE t == Signed(x) < Signed(y)
             f == Taken(4, x, y)
  <2>1. f = t /\ t \in BOOLEAN
    BY DEF Taken
  <2>2. Branch(m, blt(a, b, Target), Where(t))
    BY <1>5
  <2> HIDE DEF t, f
  <2>3. Agrees(Run(m, blt(a, b, Target)), IF f THEN [m EXCEPT !.pc = Target] ELSE m)
    BY <2>1, <2>2, BranchAgrees
  <2>4. Branches(i, m, 4) = IF f THEN [m EXCEPT !.pc = Target] ELSE m
    BY <1>2 DEF Branches, f
  <2> QED BY <2>3, <2>4
<1>9. Agrees(Run(m, bge(a, b, Target)), Branches(i, m, 5))
  <2> DEFINE t == ~ (Signed(x) < Signed(y))
             f == Taken(5, x, y)
  <2>0. Signed(x) \in Int /\ Signed(y) \in Int
    BY <1>2, SignedZero
  <2>1. f = t /\ t \in BOOLEAN
    BY <2>0 DEF Taken
  <2>2. Branch(m, bge(a, b, Target), Where(t))
    BY <1>5
  <2> HIDE DEF t, f
  <2>3. Agrees(Run(m, bge(a, b, Target)), IF f THEN [m EXCEPT !.pc = Target] ELSE m)
    BY <2>1, <2>2, BranchAgrees
  <2>4. Branches(i, m, 5) = IF f THEN [m EXCEPT !.pc = Target] ELSE m
    BY <1>2 DEF Branches, f
  <2> QED BY <2>3, <2>4
<1>10. Agrees(Run(m, bltu(a, b, Target)), Branches(i, m, 6))
  <2> DEFINE t == x < y
             f == Taken(6, x, y)
  <2>1. f = t /\ t \in BOOLEAN
    BY DEF Taken
  <2>2. Branch(m, bltu(a, b, Target), Where(t))
    BY <1>4
  <2> HIDE DEF t, f
  <2>3. Agrees(Run(m, bltu(a, b, Target)), IF f THEN [m EXCEPT !.pc = Target] ELSE m)
    BY <2>1, <2>2, BranchAgrees
  <2>4. Branches(i, m, 6) = IF f THEN [m EXCEPT !.pc = Target] ELSE m
    BY <1>2 DEF Branches, f
  <2> QED BY <2>3, <2>4
<1>11. Agrees(Run(m, bgeu(a, b, Target)), Branches(i, m, 7))
  <2> DEFINE t == ~ (x < y)
             f == Taken(7, x, y)
  <2>0. x \in Int /\ y \in Int
    BY <1>2, WordInt
  <2>1. f = t /\ t \in BOOLEAN
    BY <2>0 DEF Taken
  <2>2. Branch(m, bgeu(a, b, Target), Where(t))
    BY <1>4
  <2> HIDE DEF t, f
  <2>3. Agrees(Run(m, bgeu(a, b, Target)), IF f THEN [m EXCEPT !.pc = Target] ELSE m)
    BY <2>1, <2>2, BranchAgrees
  <2>4. Branches(i, m, 7) = IF f THEN [m EXCEPT !.pc = Target] ELSE m
    BY <1>2 DEF Branches, f
  <2> QED BY <2>3, <2>4
<1> QED BY <1>6, <1>7, <1>8, <1>9, <1>10, <1>11

\* tail, and jal without a link, go to their target.
LEMMA PlainJumps ==
  ASSUME NEW m, Ready(m)
  PROVE  /\ Agrees(Run(m, tail(Target)), [m EXCEPT !.pc = Target])
         /\ Agrees(Run(m, j(Target)), [m EXCEPT !.pc = Target])
<1> DEFINE r == [m EXCEPT !.pc = Target]
           w == Target
           R == One(tp)
           S == {}
<1>1. Live(m) /\ w \in Int /\ Linked(w) /\ R \subseteq Two(gp, tp) /\ Low(S)
  BY PlacesLinked, Costs DEF Target, Ready, One, Two
<1>2. Jumps(m, tail(w), Run(m, tail(w)), R, S, w) /\ Jumps(m, j(w), Run(m, j(w)), R, S, w)
  BY <1>1, TailDoes, JumpDoes
<1>3. r.pc = w /\ r.stray = m.stray /\ (\A k : Reg(r, k) = Reg(m, k)) /\ (\A a : Mem(r, a) = Mem(m, a))
  <2> HIDE DEF w
  <2> QED BY <1>1, GoesOn DEF w
<1> HIDE DEF r, w, R, S
<1>4. Agrees(Run(m, tail(w)), r) /\ Agrees(Run(m, j(w)), r)
  BY <1>1, <1>2, <1>3, JumpAgrees
<1> QED BY <1>4 DEF r, w

\* jal agrees with its meaning.
LEMMA JalAgrees ==
  ASSUME NEW m, NEW d, Ready(m), d \in Dest \cup {zero}
  PROVE  Agrees(Run(m, jal(d, Target)), [Set(m, d, After) EXCEPT !.pc = Target])
<1>1. CASE d = zero
  <2>1. Set(m, d, After) = m /\ jal(d, Target) = j(Target)
    BY <1>1 DEF Set, jal, zero
  <2> QED BY <2>1, PlainJumps
<1>2. CASE d # zero
  <2> DEFINE w == Target
             c == call_template(d, w)
             m2 == Run(m, c)
             v == After
             l == Set(m, d, v)
             r == [l EXCEPT !.pc = w]
  <2>1. Live(m) /\ d \in Regs \ {zero} /\ w \in Int /\ Linked(w) /\ v \in Word
    <3>1. d \in Dest
      BY <1>2
    <3>2. Live(m) /\ d \in Regs \ {zero}
      BY <1>2, <3>1, Operands DEF Ready
    <3>3. w \in Int /\ Linked(w) /\ v \in Word
      BY PlacesLinked, WidthBounds DEF Target, After, Word
    <3> QED BY <3>2, <3>3
  <2>2. jal(d, Target) = c
    BY <1>2 DEF jal
  <2> HIDE DEF w, v
  <2>3. Jumps(m, c, m2, One(d), {}, w) /\ Reg(m2, d) = v
    BY <2>1, CallDoes DEF v
  <2>4. Live(l) /\ Sets(m, l, d, v) /\ l.pc = m.pc /\ l.stray = m.stray
    BY <2>1, SetRuns
  <2> HIDE DEF l, m2, c
  <2>5. r.pc = w /\ r.stray = l.stray /\ (\A k : Reg(r, k) = Reg(l, k)) /\ (\A a : Mem(r, a) = Mem(l, a))
    BY <2>1, <2>4, GoesOn
  <2> HIDE DEF r
  <2>6. \A k : Reg(m2, k) = Reg(r, k)
    <3> TAKE k
    <3>1. CASE k = d
      BY <2>3, <2>4, <2>5, <3>1 DEF Sets
    <3>2. CASE k # d
      <4>1. Reg(m2, k) = Reg(m, k)
        BY <2>3, <3>2 DEF Jumps, One
      <4> QED BY <2>4, <2>5, <3>2, <4>1 DEF Sets
    <3> QED BY <3>1, <3>2
  <2>7. \A a : Mem(m2, a) = Mem(r, a)
    BY <2>3, <2>4, <2>5 DEF Sets, Jumps
  <2>8. m2.pc = r.pc /\ m2.stray = r.stray
    BY <2>3, <2>4, <2>5 DEF Jumps
  <2>9. Agrees(m2, r)
    BY <2>6, <2>7, <2>8 DEF Agrees
  <2> QED BY <2>2, <2>9 DEF r, l, m2, w, v
<1> QED BY <1>1, <1>2

-----------------------------------------------------------------------------
(* 26. Every instruction, and the theorems *)

\* The parts of an instruction.
Spells(i, n, d, a, b) == i[1] = n /\ i[2] = d /\ i[3] = a /\ i[4] = b

\* The expansion agrees with the meaning.
Right(i, m) == Agrees(Run(m, Expansion(i)), Meaning(i, m))

\* Two registers.
LEMMA RegistersRight ==
  ASSUME NEW m, NEW i, NEW n, NEW d, NEW a, NEW b, Ready(m), Spells(i, n, d, a, b),
         d \in Dest, a \in Named, b \in Named
  PROVE  n \in DOMAIN Funct => Right(i, m)
<1>1. CASE n = "slt"
  <2>1. Expansion(i) = slt(d, a, b)
    BY <1>1 DEF Spells, Expansion
  <2>2. Meaning(i, m) = RegMeaning(0, 2, m, d, m.regs[a], m.regs[b])
    BY <1>1, Names, Fields DEF Spells, Meaning
  <2>3. Agrees(Run(m, slt(d, a, b)), RegMeaning(0, 2, m, d, m.regs[a], m.regs[b]))
    BY SltAgrees
  <2> QED BY <2>1, <2>2, <2>3 DEF Right
<1>2. CASE n = "sltu"
  <2>1. Expansion(i) = sltu(d, a, b)
    BY <1>2 DEF Spells, Expansion
  <2>2. Meaning(i, m) = RegMeaning(0, 3, m, d, m.regs[a], m.regs[b])
    BY <1>2, Names, Fields DEF Spells, Meaning
  <2>3. Agrees(Run(m, sltu(d, a, b)), RegMeaning(0, 3, m, d, m.regs[a], m.regs[b]))
    BY SltuAgrees
  <2> QED BY <2>1, <2>2, <2>3 DEF Right
<1>3. CASE n = "and"
  <2>1. Expansion(i) = logic(And8, d, a, b)
    BY <1>3 DEF Spells, Expansion
  <2>2. Meaning(i, m) = RegMeaning(0, 7, m, d, m.regs[a], m.regs[b])
    BY <1>3, Names, Fields DEF Spells, Meaning
  <2>3. Agrees(Run(m, logic(And8, d, a, b)), RegMeaning(0, 7, m, d, m.regs[a], m.regs[b]))
    BY AndAgrees
  <2> QED BY <2>1, <2>2, <2>3 DEF Right
<1>4. CASE n = "or"
  <2>1. Expansion(i) = logic(Or8, d, a, b)
    BY <1>4 DEF Spells, Expansion
  <2>2. Meaning(i, m) = RegMeaning(0, 6, m, d, m.regs[a], m.regs[b])
    BY <1>4, Names, Fields DEF Spells, Meaning
  <2>3. Agrees(Run(m, logic(Or8, d, a, b)), RegMeaning(0, 6, m, d, m.regs[a], m.regs[b]))
    BY OrAgrees
  <2> QED BY <2>1, <2>2, <2>3 DEF Right
<1>5. CASE n = "xor"
  <2>1. Expansion(i) = logic(Xor8, d, a, b)
    BY <1>5 DEF Spells, Expansion
  <2>2. Meaning(i, m) = RegMeaning(0, 4, m, d, m.regs[a], m.regs[b])
    BY <1>5, Names, Fields DEF Spells, Meaning
  <2>3. Agrees(Run(m, logic(Xor8, d, a, b)), RegMeaning(0, 4, m, d, m.regs[a], m.regs[b]))
    BY XorAgrees
  <2> QED BY <2>1, <2>2, <2>3 DEF Right
<1>6. CASE n = "sll"
  <2>1. Expansion(i) = sll(d, a, b)
    BY <1>6 DEF Spells, Expansion
  <2>2. Meaning(i, m) = RegMeaning(0, 1, m, d, m.regs[a], m.regs[b])
    BY <1>6, Names, Fields DEF Spells, Meaning
  <2>3. Agrees(Run(m, sll(d, a, b)), RegMeaning(0, 1, m, d, m.regs[a], m.regs[b]))
    BY SllAgrees
  <2> QED BY <2>1, <2>2, <2>3 DEF Right
<1>7. CASE n = "srl"
  <2>1. Expansion(i) = shift_right(d, a, b, FALSE)
    BY <1>7 DEF Spells, Expansion
  <2>2. Meaning(i, m) = RegMeaning(0, 5, m, d, m.regs[a], m.regs[b])
    BY <1>7, Names, Fields DEF Spells, Meaning
  <2>3. Agrees(Run(m, shift_right(d, a, b, FALSE)), RegMeaning(0, 5, m, d, m.regs[a], m.regs[b]))
    BY SrlAgrees
  <2> QED BY <2>1, <2>2, <2>3 DEF Right
<1>8. CASE n = "sra"
  <2>1. Expansion(i) = shift_right(d, a, b, TRUE)
    BY <1>8 DEF Spells, Expansion
  <2>2. Meaning(i, m) = RegMeaning(32, 5, m, d, m.regs[a], m.regs[b])
    BY <1>8, Names, Fields DEF Spells, Meaning
  <2>3. Agrees(Run(m, shift_right(d, a, b, TRUE)), RegMeaning(32, 5, m, d, m.regs[a], m.regs[b]))
    BY SraAgrees
  <2> QED BY <2>1, <2>2, <2>3 DEF Right
<1>9. CASE n = "sub"
  <2>1. Expansion(i) = sub(d, a, b)
    BY <1>9 DEF Spells, Expansion
  <2>2. Meaning(i, m) = RegMeaning(32, 0, m, d, m.regs[a], m.regs[b])
    BY <1>9, Names, Fields DEF Spells, Meaning
  <2>3. Agrees(Run(m, sub(d, a, b)), RegMeaning(32, 0, m, d, m.regs[a], m.regs[b]))
    BY SubAgrees
  <2> QED BY <2>1, <2>2, <2>3 DEF Right
<1> QED BY <1>1, <1>2, <1>3, <1>4, <1>5, <1>6, <1>7, <1>8, <1>9, Names

\* sub, whose result may be the stack pointer.
LEMMA SubRight ==
  ASSUME NEW m, NEW i, NEW n, NEW d, NEW a, NEW b, Ready(m), Spells(i, n, d, a, b),
         d \in Dest \cup {sp}, a \in Named, b \in Named
  PROVE  n = "sub" => Right(i, m)
<1>1. CASE n = "sub"
  <2>1. Expansion(i) = sub(d, a, b)
    BY <1>1 DEF Spells, Expansion
  <2>2. Meaning(i, m) = RegMeaning(32, 0, m, d, m.regs[a], m.regs[b])
    BY <1>1, Names, Fields DEF Spells, Meaning
  <2>3. Agrees(Run(m, sub(d, a, b)), RegMeaning(32, 0, m, d, m.regs[a], m.regs[b]))
    BY SubAgrees
  <2> QED BY <2>1, <2>2, <2>3 DEF Right
<1> QED BY <1>1

\* A register and an immediate.
LEMMA ImmediatesRight ==
  ASSUME NEW m, NEW i, NEW n, NEW d, NEW a, NEW b, Ready(m), Spells(i, n, d, a, b),
         d \in Dest, a \in Named, b \in Int
  PROVE  n \in {"slti", "sltiu", "andi", "ori", "xori"} => Right(i, m)
<1>1. CASE n = "slti"
  <2>1. Expansion(i) = li(tp, b) \o slt(d, a, tp)
    BY <1>1 DEF Spells, Expansion
  <2>2. Meaning(i, m) = RegMeaning(0, 2, m, d, m.regs[a], ToWord(b))
    BY <1>1, Names, Fields DEF Spells, Meaning
  <2>3. Agrees(Run(m, li(tp, b) \o slt(d, a, tp)), RegMeaning(0, 2, m, d, m.regs[a], ToWord(b)))
    BY SltiAgrees
  <2> QED BY <2>1, <2>2, <2>3 DEF Right
<1>2. CASE n = "sltiu"
  <2>1. Expansion(i) = li(tp, b) \o sltu(d, a, tp)
    BY <1>2 DEF Spells, Expansion
  <2>2. Meaning(i, m) = RegMeaning(0, 3, m, d, m.regs[a], ToWord(b))
    BY <1>2, Names, Fields DEF Spells, Meaning
  <2>3. Agrees(Run(m, li(tp, b) \o sltu(d, a, tp)), RegMeaning(0, 3, m, d, m.regs[a], ToWord(b)))
    BY SltiuAgrees
  <2> QED BY <2>1, <2>2, <2>3 DEF Right
<1>3. CASE n = "andi"
  <2>1. Expansion(i) = li(tp, b) \o logic(And8, d, a, tp)
    BY <1>3 DEF Spells, Expansion
  <2>2. Meaning(i, m) = RegMeaning(0, 7, m, d, m.regs[a], ToWord(b))
    BY <1>3, Names, Fields DEF Spells, Meaning
  <2>3. Agrees(Run(m, li(tp, b) \o logic(And8, d, a, tp)), RegMeaning(0, 7, m, d, m.regs[a], ToWord(b)))
    BY AndiAgrees
  <2> QED BY <2>1, <2>2, <2>3 DEF Right
<1>4. CASE n = "ori"
  <2>1. Expansion(i) = li(tp, b) \o logic(Or8, d, a, tp)
    BY <1>4 DEF Spells, Expansion
  <2>2. Meaning(i, m) = RegMeaning(0, 6, m, d, m.regs[a], ToWord(b))
    BY <1>4, Names, Fields DEF Spells, Meaning
  <2>3. Agrees(Run(m, li(tp, b) \o logic(Or8, d, a, tp)), RegMeaning(0, 6, m, d, m.regs[a], ToWord(b)))
    BY OriAgrees
  <2> QED BY <2>1, <2>2, <2>3 DEF Right
<1>5. CASE n = "xori"
  <2>1. Expansion(i) = li(tp, b) \o logic(Xor8, d, a, tp)
    BY <1>5 DEF Spells, Expansion
  <2>2. Meaning(i, m) = RegMeaning(0, 4, m, d, m.regs[a], ToWord(b))
    BY <1>5, Names, Fields DEF Spells, Meaning
  <2>3. Agrees(Run(m, li(tp, b) \o logic(Xor8, d, a, tp)), RegMeaning(0, 4, m, d, m.regs[a], ToWord(b)))
    BY XoriAgrees
  <2> QED BY <2>1, <2>2, <2>3 DEF Right
<1> QED BY <1>1, <1>2, <1>3, <1>4, <1>5

\* A shift by a constant.
LEMMA ShiftsRight ==
  ASSUME NEW m, NEW i, NEW n, NEW d, NEW a, NEW b, Ready(m), Spells(i, n, d, a, b),
         d \in Dest, a \in Named, b \in Nat, b < 32
  PROVE  n \in {"slli", "srli", "srai"} => Right(i, m)
<1>1. CASE n = "slli"
  <2>1. Expansion(i) = slli(d, a, b)
    BY <1>1 DEF Spells, Expansion
  <2>2. Meaning(i, m) = RegMeaning(0, 1, m, d, m.regs[a], ToWord(b))
    BY <1>1, Names, Fields DEF Spells, Meaning
  <2>3. Agrees(Run(m, slli(d, a, b)), RegMeaning(0, 1, m, d, m.regs[a], ToWord(b)))
    BY SlliAgrees
  <2> QED BY <2>1, <2>2, <2>3 DEF Right
<1>2. CASE n = "srli"
  <2>1. Expansion(i) = shift_right_imm(d, a, b, FALSE)
    BY <1>2 DEF Spells, Expansion
  <2>2. Meaning(i, m) = RegMeaning(0, 5, m, d, m.regs[a], ToWord(b))
    BY <1>2, Names, Fields DEF Spells, Meaning
  <2>3. Agrees(Run(m, shift_right_imm(d, a, b, FALSE)), RegMeaning(0, 5, m, d, m.regs[a], ToWord(b)))
    BY SrliAgrees
  <2> QED BY <2>1, <2>2, <2>3 DEF Right
<1>3. CASE n = "srai"
  <2>1. Expansion(i) = shift_right_imm(d, a, b, TRUE)
    BY <1>3 DEF Spells, Expansion
  <2>2. Meaning(i, m) = RegMeaning(32, 5, m, d, m.regs[a], ToWord(b))
    BY <1>3, Names, Fields DEF Spells, Meaning
  <2>3. Agrees(Run(m, shift_right_imm(d, a, b, TRUE)), RegMeaning(32, 5, m, d, m.regs[a], ToWord(b)))
    BY SraiAgrees
  <2> QED BY <2>1, <2>2, <2>3 DEF Right
<1> QED BY <1>1, <1>2, <1>3

\* One register.
LEMMA UnariesRight ==
  ASSUME NEW m, NEW i, NEW n, NEW d, NEW a, NEW b, Ready(m), Spells(i, n, d, a, b),
         d \in Dest, a \in Named
  PROVE  n \in {"neg", "not", "sgtz", "sltz", "snez"} => Right(i, m)
<1>1. CASE n = "neg"
  <2>1. Expansion(i) = sub(d, zero, a)
    BY <1>1 DEF Spells, Expansion
  <2>2. Meaning(i, m) = RegMeaning(32, 0, m, d, 0, m.regs[a])
    BY <1>1, Names, Fields DEF Spells, Meaning
  <2>3. Agrees(Run(m, sub(d, zero, a)), RegMeaning(32, 0, m, d, 0, m.regs[a]))
    BY NegAgrees
  <2> QED BY <2>1, <2>2, <2>3 DEF Right
<1>2. CASE n = "not"
  <2>1. Expansion(i) = Not(d, a)
    BY <1>2 DEF Spells, Expansion
  <2>2. Meaning(i, m) = RegMeaning(0, 4, m, d, m.regs[a], Modulus - 1)
    BY <1>2, Names, Fields DEF Spells, Meaning
  <2>3. Agrees(Run(m, Not(d, a)), RegMeaning(0, 4, m, d, m.regs[a], Modulus - 1))
    BY NotAgrees
  <2> QED BY <2>1, <2>2, <2>3 DEF Right
<1>3. CASE n = "sgtz"
  <2>1. Expansion(i) = slt(d, zero, a)
    BY <1>3 DEF Spells, Expansion
  <2>2. Meaning(i, m) = RegMeaning(0, 2, m, d, 0, m.regs[a])
    BY <1>3, Names, Fields DEF Spells, Meaning
  <2>3. Agrees(Run(m, slt(d, zero, a)), RegMeaning(0, 2, m, d, 0, m.regs[a]))
    BY SgtzAgrees
  <2> QED BY <2>1, <2>2, <2>3 DEF Right
<1>4. CASE n = "sltz"
  <2>1. Expansion(i) = msb(d, a)
    BY <1>4 DEF Spells, Expansion
  <2>2. Meaning(i, m) = RegMeaning(0, 2, m, d, m.regs[a], 0)
    BY <1>4, Names, Fields DEF Spells, Meaning
  <2>3. Agrees(Run(m, msb(d, a)), RegMeaning(0, 2, m, d, m.regs[a], 0))
    BY SltzAgrees
  <2> QED BY <2>1, <2>2, <2>3 DEF Right
<1>5. CASE n = "snez"
  <2>1. Expansion(i) = sltu(d, zero, a)
    BY <1>5 DEF Spells, Expansion
  <2>2. Meaning(i, m) = RegMeaning(0, 3, m, d, 0, m.regs[a])
    BY <1>5, Names, Fields DEF Spells, Meaning
  <2>3. Agrees(Run(m, sltu(d, zero, a)), RegMeaning(0, 3, m, d, 0, m.regs[a]))
    BY SnezAgrees
  <2> QED BY <2>1, <2>2, <2>3 DEF Right
<1> QED BY <1>1, <1>2, <1>3, <1>4, <1>5

\* seqz.
LEMMA SeqzRight ==
  ASSUME NEW m, NEW i, NEW n, NEW d, NEW a, NEW b, Ready(m), Spells(i, n, d, a, b),
         d \in Dest \ {s0}, a \in Named
  PROVE  n = "seqz" => Right(i, m)
<1>1. CASE n = "seqz"
  <2>1. Expansion(i) = seqz(d, a)
    BY <1>1 DEF Spells, Expansion
  <2>2. Meaning(i, m) = RegMeaning(0, 3, m, d, m.regs[a], 1)
    BY <1>1, Names, Fields DEF Spells, Meaning
  <2>3. Agrees(Run(m, seqz(d, a)), RegMeaning(0, 3, m, d, m.regs[a], 1))
    BY SeqzAgrees
  <2> QED BY <2>1, <2>2, <2>3 DEF Right
<1> QED BY <1>1

\* lb.
LEMMA LbRight ==
  ASSUME NEW m, NEW i, NEW n, NEW d, NEW a, NEW b, Ready(m), Spells(i, n, d, a, b),
         d \in Dest, a \in Int, b \in Named, Add(Reg(m, b), a) \notin Scratch
  PROVE  n = "lb" => Right(i, m)
<1>1. CASE n = "lb"
  <2>1. Expansion(i) = lb(d, a, b)
    BY <1>1 DEF Spells, Expansion
  <2>2. Meaning(i, m) = Load(m, d, Add(m.regs[b], a), 1, 0)
    BY <1>1, Names, Fields DEF Spells, Meaning
  <2>3. Agrees(Run(m, lb(d, a, b)), Load(m, d, Add(m.regs[b], a), 1, 0))
    BY LbAgrees
  <2> QED BY <2>1, <2>2, <2>3 DEF Right
<1> QED BY <1>1

\* The loads of a halfword.
LEMMA HalvesRight ==
  ASSUME NEW m, NEW i, NEW n, NEW d, NEW a, NEW b, Ready(m), Spells(i, n, d, a, b),
         d \in Dest, a \in Int, b \in Named, Add(Reg(m, b), a) \notin Scratch, Add(Reg(m, b), a + 1) \notin Scratch
  PROVE  n \in {"lh", "lhu"} => Right(i, m)
<1>1. CASE n = "lh"
  <2>1. Expansion(i) = lh(d, a, b)
    BY <1>1 DEF Spells, Expansion
  <2>2. Meaning(i, m) = Load(m, d, Add(m.regs[b], a), 2, 1)
    BY <1>1, Names, Fields DEF Spells, Meaning
  <2>3. Agrees(Run(m, lh(d, a, b)), Load(m, d, Add(m.regs[b], a), 2, 1))
    BY LhAgrees
  <2> QED BY <2>1, <2>2, <2>3 DEF Right
<1>2. CASE n = "lhu"
  <2>1. Expansion(i) = lhu(d, a, b)
    BY <1>2 DEF Spells, Expansion
  <2>2. Meaning(i, m) = Load(m, d, Add(m.regs[b], a), 2, 5)
    BY <1>2, Names, Fields DEF Spells, Meaning
  <2>3. Agrees(Run(m, lhu(d, a, b)), Load(m, d, Add(m.regs[b], a), 2, 5))
    BY LhuAgrees
  <2> QED BY <2>1, <2>2, <2>3 DEF Right
<1> QED BY <1>1, <1>2

\* sh.
LEMMA ShRight ==
  ASSUME NEW m, NEW i, NEW n, NEW d, NEW a, NEW b, Ready(m), Spells(i, n, d, a, b),
         d \in Named, a \in Int, b \in Named
  PROVE  n = "sh" => Right(i, m)
<1> DEFINE x == Reg(m, b)
<1>1. CASE n = "sh"
  <2>1. Expansion(i) = sh(d, a, b)
    BY <1>1 DEF Spells, Expansion
  <2>2. Meaning(i, m) = Store(m, d, Add(m.regs[b], a), 2)
    BY <1>1, Names, Fields DEF Spells, Meaning
  <2>3. Live(m) /\ d \in Regs /\ b \in Regs /\ b \in Regs \ {tp}
    BY Operands DEF Ready
  <2>4. m.regs[b] = x
    BY <2>3, RegIs
  <2>5. Agrees(Run(m, sh(d, a, b)), Store(m, d, Add(x, a), 2))
    BY <2>3, ShDoes
  <2> HIDE DEF x
  <2> QED BY <2>1, <2>2, <2>4, <2>5 DEF Right
<1> QED BY <1>1

\* Branches.
LEMMA BranchesRight ==
  ASSUME NEW m, NEW i, NEW n, NEW d, NEW a, NEW b, Ready(m), Spells(i, n, d, a, b), m.pc = After,
         a \in Named, b \in Named
  PROVE  n \in DOMAIN BranchFunct => Right(i, m)
<1>0. a = i[3] /\ b = i[4]
  BY DEF Spells
<1>1. CASE n = "beq"
  <2>1. Expansion(i) = beq(a, b, Target)
    BY <1>1 DEF Spells, Expansion
  <2>2. Meaning(i, m) = Branches(i, m, 0)
    BY <1>1, Names, Fields DEF Spells, Meaning
  <2>3. Agrees(Run(m, beq(a, b, Target)), Branches(i, m, 0))
    BY <1>0, BranchesAgree
  <2> QED BY <2>1, <2>2, <2>3 DEF Right
<1>2. CASE n = "bne"
  <2>1. Expansion(i) = bne(a, b, Target)
    BY <1>2 DEF Spells, Expansion
  <2>2. Meaning(i, m) = Branches(i, m, 1)
    BY <1>2, Names, Fields DEF Spells, Meaning
  <2>3. Agrees(Run(m, bne(a, b, Target)), Branches(i, m, 1))
    BY <1>0, BranchesAgree
  <2> QED BY <2>1, <2>2, <2>3 DEF Right
<1>3. CASE n = "blt"
  <2>1. Expansion(i) = blt(a, b, Target)
    BY <1>3 DEF Spells, Expansion
  <2>2. Meaning(i, m) = Branches(i, m, 4)
    BY <1>3, Names, Fields DEF Spells, Meaning
  <2>3. Agrees(Run(m, blt(a, b, Target)), Branches(i, m, 4))
    BY <1>0, BranchesAgree
  <2> QED BY <2>1, <2>2, <2>3 DEF Right
<1>4. CASE n = "bge"
  <2>1. Expansion(i) = bge(a, b, Target)
    BY <1>4 DEF Spells, Expansion
  <2>2. Meaning(i, m) = Branches(i, m, 5)
    BY <1>4, Names, Fields DEF Spells, Meaning
  <2>3. Agrees(Run(m, bge(a, b, Target)), Branches(i, m, 5))
    BY <1>0, BranchesAgree
  <2> QED BY <2>1, <2>2, <2>3 DEF Right
<1>5. CASE n = "bltu"
  <2>1. Expansion(i) = bltu(a, b, Target)
    BY <1>5 DEF Spells, Expansion
  <2>2. Meaning(i, m) = Branches(i, m, 6)
    BY <1>5, Names, Fields DEF Spells, Meaning
  <2>3. Agrees(Run(m, bltu(a, b, Target)), Branches(i, m, 6))
    BY <1>0, BranchesAgree
  <2> QED BY <2>1, <2>2, <2>3 DEF Right
<1>6. CASE n = "bgeu"
  <2>1. Expansion(i) = bgeu(a, b, Target)
    BY <1>6 DEF Spells, Expansion
  <2>2. Meaning(i, m) = Branches(i, m, 7)
    BY <1>6, Names, Fields DEF Spells, Meaning
  <2>3. Agrees(Run(m, bgeu(a, b, Target)), Branches(i, m, 7))
    BY <1>0, BranchesAgree
  <2> QED BY <2>1, <2>2, <2>3 DEF Right
<1> QED BY <1>1, <1>2, <1>3, <1>4, <1>5, <1>6, Names

\* Jumps.
LEMMA JumpsRight ==
  ASSUME NEW m, NEW i, NEW n, NEW d, NEW a, NEW b, Ready(m), Spells(i, n, d, a, b)
  PROVE  /\ n = "jal" /\ d \in Dest \cup {zero} => Right(i, m)
         /\ n = "tail" => Right(i, m)
<1>1. ASSUME n = "jal", d \in Dest \cup {zero} PROVE Right(i, m)
  <2>1. Expansion(i) = jal(d, Target)
    BY <1>1 DEF Spells, Expansion
  <2>2. Meaning(i, m) = [Set(m, d, After) EXCEPT !.pc = Target]
    BY <1>1, Names, Fields DEF Spells, Meaning
  <2>3. Agrees(Run(m, jal(d, Target)), [Set(m, d, After) EXCEPT !.pc = Target])
    BY <1>1, JalAgrees
  <2> QED BY <2>1, <2>2, <2>3 DEF Right
<1>2. ASSUME n = "tail" PROVE Right(i, m)
  <2>1. Expansion(i) = tail(Target)
    BY <1>2 DEF Spells, Expansion
  <2>2. Meaning(i, m) = [m EXCEPT !.pc = Target]
    BY <1>2, Names, Fields DEF Spells, Meaning
  <2>3. Agrees(Run(m, tail(Target)), [m EXCEPT !.pc = Target])
    BY PlainJumps
  <2> QED BY <2>1, <2>2, <2>3 DEF Right
<1> QED BY <1>1, <1>2

\* A machine of the program between two instructions: what its registers hold
\* when it is powered up, and any bytes.
Start(m) ==
  /\ Ready(m) /\ m.pc = After
  /\ \E r \in PowerUps : \A k \in Regs : Reg(m, k) = Registers(r)[k]

\* Every instruction of a program agrees with its meaning.
LEMMA InstructionRight ==
  ASSUME NEW m, NEW i \in Insts, Start(m)
  PROVE  Right(i, m)
<1> DEFINE n == i[1]
           d == i[2]
           a == i[3]
           b == i[4]
<1>1. Spells(i, n, d, a, b)
  BY DEF Spells
<1>2. PICK r \in PowerUps : \A k \in Regs : Reg(m, k) = Registers(r)[k]
  BY DEF Start
<1>3. Ready(m) /\ m.pc = After
  BY DEF Start
<1>4. \/ n \in DOMAIN Funct /\ d \in Dest /\ a \in Named /\ b \in Named
      \/ n = "sub" /\ d = sp /\ a \in Named /\ b \in Named
      \/ n \in {"slti", "sltiu", "andi", "ori", "xori"} /\ d \in Dest /\ a \in Named /\ b \in -2048 .. 2047
      \/ n \in {"slli", "srli", "srai"} /\ d \in Dest /\ a \in Named /\ b \in 0 .. 31
      \/ n \in {"neg", "not", "sgtz", "sltz", "snez"} /\ d \in Dest /\ a \in Named
      \/ n = "seqz" /\ d \in Dest \ {s0} /\ a \in Named
      \/ n \in {"lb", "lh", "lhu"} /\ d \in Dest /\ a \in -2048 .. 2047 /\ b \in Named
      \/ n = "sh" /\ d \in Named /\ a \in -2048 .. 2047 /\ b \in Named
      \/ n \in DOMAIN BranchFunct /\ a \in Named /\ b \in Named
      \/ n = "jal" /\ d \in Dest \cup {zero}
      \/ n = "tail"
  <2>1. WellFormed(i)
    BY InstsAssumption
  <2> QED BY <2>1, Zenon DEF WellFormed
<1>5. Loads(i, Registers(r)) \cap Scratch = {}
  BY InstsAssumption
<1>6. ASSUME b \in Named PROVE Registers(r)[b] = Reg(m, b)
  BY <1>2, <1>6, Operands
<1>7. ASSUME n = "lb", b \in Named PROVE Add(Reg(m, b), a) \notin Scratch
  <2>1. Loads(i, Registers(r)) = {Add(Registers(r)[b], a)}
    BY <1>7 DEF Loads
  <2>2. Registers(r)[b] = Reg(m, b)
    BY <1>6, <1>7
  <2> QED BY <1>5, <2>1, <2>2
<1>8. ASSUME n \in {"lh", "lhu"}, b \in Named
      PROVE  Add(Reg(m, b), a) \notin Scratch /\ Add(Reg(m, b), a + 1) \notin Scratch
  <2>1. Loads(i, Registers(r)) = {Add(Registers(r)[b], a), Add(Registers(r)[b], a + 1)}
    BY <1>8 DEF Loads
  <2>2. Registers(r)[b] = Reg(m, b)
    BY <1>6, <1>8
  <2> QED BY <1>5, <2>1, <2>2
<1> HIDE DEF n, d, a, b
<1>9. CASE n \in DOMAIN Funct /\ d \in Dest /\ a \in Named /\ b \in Named
  BY <1>1, <1>3, <1>9, RegistersRight
<1>10. CASE n = "sub" /\ d = sp /\ a \in Named /\ b \in Named
  <2>1. d \in Dest \cup {sp} /\ n = "sub" /\ a \in Named /\ b \in Named
    BY <1>10
  <2> QED BY <1>1, <1>3, <2>1, SubRight
<1>11. CASE n \in {"slti", "sltiu", "andi", "ori", "xori"} /\ d \in Dest /\ a \in Named /\ b \in -2048 .. 2047
  <2>1. b \in Int
    BY <1>11
  <2> QED BY <1>1, <1>3, <1>11, <2>1, ImmediatesRight
<1>12. CASE n \in {"slli", "srli", "srai"} /\ d \in Dest /\ a \in Named /\ b \in 0 .. 31
  <2>1. b \in Nat /\ b < 32
    BY <1>12
  <2> QED BY <1>1, <1>3, <1>12, <2>1, ShiftsRight
<1>13. CASE n \in {"neg", "not", "sgtz", "sltz", "snez"} /\ d \in Dest /\ a \in Named
  BY <1>1, <1>3, <1>13, UnariesRight
<1>14. CASE n = "seqz" /\ d \in Dest \ {s0} /\ a \in Named
  BY <1>1, <1>3, <1>14, SeqzRight
<1>15. CASE n \in {"lb", "lh", "lhu"} /\ d \in Dest /\ a \in -2048 .. 2047 /\ b \in Named
  <2>1. a \in Int /\ d \in Dest /\ b \in Named
    BY <1>15
  <2>2. CASE n = "lb"
    <3>1. Add(Reg(m, b), a) \notin Scratch
      BY <1>7, <2>1, <2>2
    <3> QED BY <1>1, <1>3, <2>1, <2>2, <3>1, LbRight
  <2>3. CASE n \in {"lh", "lhu"}
    <3>1. Add(Reg(m, b), a) \notin Scratch /\ Add(Reg(m, b), a + 1) \notin Scratch
      BY <1>8, <2>1, <2>3
    <3> QED BY <1>1, <1>3, <2>1, <2>3, <3>1, HalvesRight
  <2> QED BY <1>15, <2>2, <2>3
<1>16. CASE n = "sh" /\ d \in Named /\ a \in -2048 .. 2047 /\ b \in Named
  <2>1. a \in Int
    BY <1>16
  <2> QED BY <1>1, <1>3, <1>16, <2>1, ShRight
<1>17. CASE n \in DOMAIN BranchFunct /\ a \in Named /\ b \in Named
  BY <1>1, <1>3, <1>17, BranchesRight
<1>18. CASE n = "jal" /\ d \in Dest \cup {zero}
  BY <1>1, <1>3, <1>18, JumpsRight
<1>19. CASE n = "tail"
  BY <1>1, <1>3, <1>19, JumpsRight
<1> HIDE DEF n, d, a, b
<1> QED BY <1>4, <1>9, <1>10, <1>11, <1>12, <1>13, <1>14, <1>15, <1>16, <1>17, <1>18, <1>19

\* A machine as Init leaves it.
LEMMA Powered ==
  ASSUME NEW r \in PowerUps, NEW f \in [Ram -> Byte], NEW m,
         m = [regs |-> Registers(r), ram |-> f, pc |-> After, jumped |-> FALSE, stray |-> FALSE]
  PROVE  Start(m)
<1> DEFINE g == Registers(r)
           top == StackTop
<1>1. r \in [Regs -> Word] /\ 0 \in Word /\ top \in Word
  BY PowerUpsAssumption, WidthBounds DEF Word
<1>2. zero \in Regs /\ sp \in Regs /\ zero # sp
  BY RegNames DEF zero, sp
<1>3. g \in [Regs -> Word] /\ g[zero] = 0 /\ g[sp] = top
  <2> HIDE DEF top
  <2> QED BY <1>1, <1>2 DEF top, Registers, zero, sp
<1> HIDE DEF g, top
<1>4. m \in Machine
  BY <1>3 DEF g, Machine, After
<1>5. m.regs = g /\ m.pc = After /\ m.jumped = FALSE
  BY DEF g
<1>6. \A k \in Regs : Reg(m, k) = g[k]
  BY <1>5 DEF Reg
<1>7. Ready(m)
  <2>1. Reg(m, zero) = 0 /\ Reg(m, sp) = top
    BY <1>2, <1>3, <1>6
  <2> QED BY <1>4, <1>5, <2>1 DEF Ready, Live, top
<1> QED BY <1>5, <1>6, <1>7 DEF Start, g

\* Before the instruction the two machines are the same; after it the one that
\* ran the expansion agrees with the other.
Agreement ==
  IF ran = <<>> THEN machine = ref /\ Start(machine) ELSE Agrees(machine, ref)

\* At power-up the two machines agree.
LEMMA AgreementInit == Init => Agreement
<1> SUFFICES ASSUME Init PROVE Agreement
  OBVIOUS
<1>1. PICK r \in PowerUps, g \in Garbages, data \in Garbages :
        machine = [regs |-> Registers(r),
                   ram  |-> [a \in Ram |-> IF a \in Owned THEN data ELSE g],
                   pc |-> After, jumped |-> FALSE, stray |-> FALSE]
  BY DEF Init
<1> DEFINE f == [a \in Ram |-> IF a \in Owned THEN data ELSE g]
<1>2. f \in [Ram -> Byte]
  BY GarbagesAssumption DEF Byte
<1> HIDE DEF f
<1>3. Start(machine)
  BY <1>1, <1>2, Powered DEF f
<1> QED BY <1>3 DEF Init, Agreement

\* Every step keeps the agreement: the machine that runs the expansion ends where RV32I ends.
LEMMA AgreementStep == Agreement /\ [Next]_vars => Agreement'
<1> SUFFICES ASSUME Agreement, [Next]_vars PROVE Agreement'
  OBVIOUS
<1>1. CASE Next
  <2>1. PICK i \in Insts : Instruction(i)
    BY <1>1 DEF Next
  <2>2. machine = ref /\ Start(machine)
    BY <2>1 DEF Instruction, Agreement
  <2>3. Right(i, machine)
    BY <2>2, InstructionRight
  <2>4. machine' = Run(machine, Expansion(i)) /\ ref' = Meaning(i, machine) /\ ran' = i
    BY <2>1, <2>2 DEF Instruction
  <2>5. i # <<>>
    <3>1. WellFormed(i)
      BY InstsAssumption
    <3>2. Len(i) = 4
      BY <3>1, Zenon DEF WellFormed
    <3>3. Len(<<>>) = 0
      OBVIOUS
    <3> QED BY <3>2, <3>3
  <2>6. Agrees(machine', ref')
    BY <2>3, <2>4 DEF Right
  <2> QED BY <2>4, <2>5, <2>6 DEF Agreement
<1>2. CASE UNCHANGED vars
  BY <1>2 DEF vars, Agreement
<1> QED BY <1>1, <1>2

\* Agreement always holds.
THEOREM MiniRvAgreement == Spec => []Agreement
BY AgreementInit, AgreementStep, PTL DEF Spec

\* No expansion of the program, whatever it names, strays from its memory.
THEOREM MiniRvNoStray == Spec => []NoStray
<1>1. Agreement => NoStray
  <2>1. CASE ran = <<>>
    BY <2>1 DEF Agreement, NoStray
  <2>2. CASE ran # <<>>
    BY <2>2 DEF Agreement, Agrees, NoStray
  <2> QED BY <2>1, <2>2
<1> QED BY <1>1, MiniRvAgreement, PTL

\* Every expansion does to the program's registers and memory, and to where it
\* goes on, what its instruction means.
THEOREM MiniRvImplements == Spec => []Implements
<1>1. ASSUME Agreement PROVE Implements
  <2>1. CASE ran = <<>>
    BY <1>1, <2>1 DEF Agreement, Implements
  <2>2. CASE ran # <<>>
    <3>1. Agrees(machine, ref)
      BY <1>1, <2>2 DEF Agreement
    <3>2. \A r \in Regs \ {tp, gp} : machine.regs[r] = ref.regs[r]
      BY <3>1 DEF Agrees, Reg
    <3>3. \A a \in Owned : a \in Ram /\ a \notin Scratch
      BY WidthBounds DEF Owned, Ram, Scratch, StackTop, SameArray
    <3>4. \A a \in Owned : machine.ram[a] = ref.ram[a]
      BY <3>1, <3>3 DEF Agrees, Mem
    <3> QED BY <3>1, <3>2, <3>4 DEF Agrees, Implements
  <2> QED BY <2>1, <2>2
<1> QED BY <1>1, MiniRvAgreement, PTL

=============================================================================
