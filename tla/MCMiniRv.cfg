SPECIFICATION Spec
CONSTANTS
  ByteWidth = 6
  Regs <- MCRegs
  PowerUps <- MCPowerUps
  Garbages <- MCGarbages
  Insts <- MCInsts
INVARIANTS
  Implements
  NoStray
\* one instruction
CHECK_DEADLOCK FALSE
