------------------------------ MODULE MCTopFib ------------------------------
(***************************************************************************)
(* The instruction memory has one word more than the program; at power-up  *)
(* every word of it holds the same instruction, and every register the     *)
(* same word.  The instructions jump out of the program, link, store into  *)
(* its data, and write the registers it reads first.                       *)
(***************************************************************************)
EXTENDS TopFib

MCInsts ==
  { addi(1, 1, 1), encodeI(-4, 1, 0, 2, JALR), encodeR(127, 31, 31, 7, 3, JAL),
    sw(2, 0, 0), lw(4, 0, 0), beq(1, 1, -8), add(6, 6, 6),
    encodeR(0, 0, 0, 0, 0, SYSTEM) }

MCPowerUpInst == {[a \in 0 .. MEM_INST_SIZE - 1 |-> i] : i \in MCInsts}
MCPowerUpRegs == {[r \in 0 .. 31 |-> g] : g \in {0, 1, Modulus - 1}}
MCPowerUpData == {[a \in 0 .. MEM_DATA_SIZE - 1 |-> g] : g \in {0, Modulus - 1}}
=============================================================================
