SPECIFICATION BenchSpec
CONSTANTS
  ByteWidth = 4
  MEM_INST_SIZE = 16
  MEM_DATA_SIZE = 4
  InstWrites = {}
  DataWrites = {}
  PowerUpRegs <- MCPowerUpRegs
  PowerUpInst <- MCPowerUpInst
  PowerUpData <- MCPowerUpData
INVARIANTS
  ComputesFib
PROPERTY Halts
\* the bench ends
CHECK_DEADLOCK FALSE
