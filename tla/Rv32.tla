------------------------------- MODULE Rv32 --------------------------------
(***************************************************************************)
(* Words and instructions, as the two RV32 machines of the repository use  *)
(* them: the Chisel core and NEMU's interpreter.                           *)
(*                                                                         *)
(* A word has four bytes of ByteWidth bits; the code has ByteWidth = 8.    *)
(* Smaller bytes keep every carry, overflow and sign in TLC's reach.  An   *)
(* instruction keeps its 32 bits, cut into the six fields of the R format. *)
(***************************************************************************)
EXTENDS Integers

CONSTANT ByteWidth

ASSUME ByteWidthAssumption == ByteWidth \in Nat \ {0}

DATA_WIDTH == 4 * ByteWidth
\* 2^n
Pow2[n \in Nat] == IF n = 0 THEN 1 ELSE 2 * Pow2[n - 1]

Modulus    == Pow2[DATA_WIDTH]
Word       == 0 .. Modulus - 1

-----------------------------------------------------------------------------
(* Words *)

Add(a, b) == (a + b) % Modulus
Sub(a, b) == (a - b) % Modulus

Bit(a, n) == (a \div Pow2[n]) % 2

\* The word whose bit n is op of how many of the bits n of a and b are set.
Bitwise(op, a, b) ==
  LET low[n \in 0 .. DATA_WIDTH] ==
        IF n = 0 THEN 0
        ELSE low[n - 1] + op[Bit(a, n - 1) + Bit(b, n - 1)] * Pow2[n - 1]
  IN  low[DATA_WIDTH]

And(a, b) == Bitwise([set \in 0 .. 2 |-> set \div 2], a, b)
Or(a, b)  == Bitwise([set \in 0 .. 2 |-> (set + 1) \div 2], a, b)
Xor(a, b) == Bitwise([set \in 0 .. 2 |-> set % 2], a, b)

Signed(a) == IF a >= Modulus \div 2 THEN a - Modulus ELSE a

\* Shifts by 0 .. 31.
Shl(a, s) == IF s >= DATA_WIDTH THEN 0 ELSE (a % Pow2[DATA_WIDTH - s]) * Pow2[s]
Shr(a, s) == IF s >= DATA_WIDTH THEN 0 ELSE a \div Pow2[s]
Sar(a, s) == (Signed(a) \div Pow2[IF s >= DATA_WIDTH THEN DATA_WIDTH ELSE s]) % Modulus

-----------------------------------------------------------------------------
(* Instructions *)

Inst == [funct7 : 0 .. 127, rs2 : 0 .. 31, rs1 : 0 .. 31,
         funct3 : 0 .. 7, rd : 0 .. 31, opcode : 0 .. 127]

\* opcodes, in decimal
LOAD   == 3      OP_IMM == 19     AUIPC == 23     STORE  == 35
OP     == 51     LUI    == 55     BRANCH == 99    JALR   == 103
JAL    == 111    SYSTEM == 115

\* The signed value of an n-bit field x, where size = 2^n.
Sext(x, size) == IF x >= size \div 2 THEN x - size ELSE x

\* The word of an integer.
ToWord(n) == n % Modulus

=============================================================================
