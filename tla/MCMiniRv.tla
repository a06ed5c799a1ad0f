------------------------------ MODULE MCMiniRv ------------------------------
(***************************************************************************)
(* 24-bit words.  The registers of the programs are zero, sp, the two the  *)
(* macros borrow (s0, s1) and one they do not (a0); the values lie at the  *)
(* corners of the word, of a byte and of the shift amounts, or point to the *)
(* program's memory.                                                       *)
(***************************************************************************)
EXTENDS MiniRv

ra == 1   a0 == 10

MCRegs == {zero, ra, sp, gp, tp, s0, s1, a0}

Corners ==
  <<0, 1, 5, 31, B - 1, StackTop, B * B + 17, Modulus \div 2 - 1, Modulus \div 2, Modulus - 1>>

\* Every pair of corners in s0 and s1, a third value in a0.
MCPowerUps ==
  {[r \in MCRegs |-> CASE r = s0 -> Corners[x] [] r = s1 -> Corners[y]
                        [] r = a0 -> Corners[((x + y) % Len(Corners)) + 1]
                        [] OTHER -> 12345] : x, y \in DOMAIN Corners}

MCGarbages == {0, B - 1}

Dests == {s0, s1, a0}
Source == {zero, s0, s1, a0}

RInsts == {<<n, d, a, b>> : n \in DOMAIN Funct, d \in Dests, a \in Source, b \in Source}
            \cup {<<n, s1, sp, a0>> : n \in {"sub", "slt", "sltu"}}
            \cup {<<"sub", sp, sp, s0>>}
Imms == {-1, 1, 17}
IInsts == {<<n, d, a, b>> : n \in {"slti", "sltiu", "andi", "ori", "xori"},
                            d \in Dests, a \in {s0, s1}, b \in Imms}
SInsts == {<<n, d, a, b>> : n \in {"slli", "srli", "srai"},
                            d \in {s0, a0}, a \in {s0, s1}, b \in {0, 1, 7, 12, 17, 18, 23, 29}}
UInsts == {<<n, d, a, 0>> : n \in {"neg", "not", "sgtz", "sltz", "snez"}, d \in Dests, a \in Source}
            \cup {<<"seqz", d, a, 0>> : d \in {s1, a0}, a \in Source}
LInsts == {<<n, d, a, b>> : n \in {"lb", "lh", "lhu"}, d \in Dests, a \in {0, 3}, b \in {sp, s0}}
            \cup {<<"sh", d, a, b>> : d \in Source, a \in {0, 1, 5}, b \in {sp, s0}}
BInsts == {<<n, 0, a, b>> : n \in DOMAIN BranchFunct, a \in Source \cup {sp}, b \in Source}
JInsts == {<<"jal", d, 0, 0>> : d \in {zero, ra}} \cup {<<"tail", 0, 0, 0>>}

MCInsts == RInsts \cup IInsts \cup SInsts \cup UInsts \cup LInsts \cup BInsts \cup JInsts
=============================================================================
