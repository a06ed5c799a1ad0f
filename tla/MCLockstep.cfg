SPECIFICATION MCSpec
CONSTANTS
  ByteWidth = 6
  MEM_INST_SIZE = 2
  MEM_DATA_SIZE = 4
  InstWrites <- MCInstWrites
  DataWrites <- MCDataWrites
  PowerUpRegs <- MCPowerUpRegs
  PowerUpInst <- MCPowerUpInst
  PowerUpData <- MCPowerUpData
  MaxCycles = 2
INVARIANTS
  InLockstep
\* a run ends at MaxCycles, or outside the instructions that are compared
CHECK_DEADLOCK FALSE
