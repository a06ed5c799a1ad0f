----------------------------- MODULE Rv32iTop ------------------------------
(***************************************************************************)
(* The single-cycle core of chisel-template (rv32I.Top): PCReg, MemInst,   *)
(* Decoder, Registers, Alu and MemData wired together.  One step is one    *)
(* clock edge: every register and memory takes the value its module drives *)
(* from the current state and inputs.  The inputs are the reset and the    *)
(* two external write ports, which download programs and data.             *)
(***************************************************************************)
EXTENDS Rv32

CONSTANTS
  MEM_INST_SIZE, MEM_DATA_SIZE,   \* words
  InstWrites,                     \* what may arrive at the instruction port
  DataWrites,                     \* and at the data port: sets of writes
  PowerUpRegs, PowerUpInst, PowerUpData  \* what Registers, MemInst and MemData
                                         \* may hold at power-up

ASSUME MemAssumption ==
  MEM_INST_SIZE \in Nat \ {0} /\ MEM_DATA_SIZE \in Nat \ {0}

RegFile  == [0 .. 31 -> Word]
InstFile == [0 .. MEM_INST_SIZE - 1 -> Inst]
DataFile == [0 .. MEM_DATA_SIZE - 1 -> Word]

ASSUME PortAssumption ==
  /\ \A w \in InstWrites : w \in [en : {TRUE}, addr : Word, data : Inst]
  /\ \A w \in DataWrites : w \in [en : {TRUE}, addr : Word, data : Word]

ASSUME PowerUpAssumption ==
  /\ \A f \in PowerUpRegs : f \in RegFile
  /\ \A f \in PowerUpInst : f \in InstFile
  /\ \A f \in PowerUpData : f \in DataFile

VARIABLES
  regPC,        \* PCReg
  regs,         \* Registers; regs[0] exists and is never read
  memInst,      \* MemInst
  memData       \* MemData

vars == <<regPC, regs, memInst, memData>>

\* What a port is driven with: extWriteEn, extWriteAddr, extWriteData.
Write(addr, data) == [en |-> TRUE, addr |-> addr, data |-> data]
None              == [en |-> FALSE]

START_ADDR == 0

-----------------------------------------------------------------------------
(* Decoder: the control bundle *)

NoCtrl ==
  [ctrlJump |-> FALSE, ctrlJAL |-> FALSE, ctrlBranch |-> FALSE,
   ctrlRegWrite |-> FALSE, ctrlLoad |-> FALSE, ctrlStore |-> FALSE,
   ctrlALUSrc |-> FALSE, ctrlOP |-> "ADD", immSel |-> "X"]

\* switch (funct3) of the R type; what it does not list is an add.
RTypeOp(i) ==
  CASE i.funct3 = 0 -> IF (i.funct7 \div 32) % 2 = 1 THEN "SUB" ELSE "ADD"
    [] i.funct3 = 7 -> "AND"
    [] i.funct3 = 6 -> "OR"
    [] i.funct3 = 1 -> "SLL"
    [] i.funct3 = 5 -> "SRL"
    [] OTHER -> "ADD"

BranchOp(i) == CASE i.funct3 = 0 -> "EQ" [] i.funct3 = 1 -> "NEQ" [] OTHER -> "ADD"

Decode(i) ==
  CASE i.opcode = OP ->
         [NoCtrl EXCEPT !.ctrlRegWrite = TRUE, !.ctrlOP = RTypeOp(i)]
    [] i.opcode = OP_IMM ->
         [NoCtrl EXCEPT !.ctrlRegWrite = TRUE, !.ctrlALUSrc = TRUE, !.immSel = "I",
                        !.ctrlOP = IF i.funct3 = 6 THEN "OR" ELSE "ADD"]
    [] i.opcode = LOAD ->
         [NoCtrl EXCEPT !.ctrlRegWrite = TRUE, !.ctrlLoad = TRUE,
                        !.ctrlALUSrc = TRUE, !.immSel = "I"]
    [] i.opcode = JALR ->
         [NoCtrl EXCEPT !.ctrlJump = TRUE, !.ctrlRegWrite = TRUE,
                        !.ctrlALUSrc = TRUE, !.immSel = "I"]
    [] i.opcode = STORE ->
         [NoCtrl EXCEPT !.ctrlStore = TRUE, !.ctrlALUSrc = TRUE, !.immSel = "S"]
    [] i.opcode = BRANCH ->
         [NoCtrl EXCEPT !.ctrlBranch = TRUE, !.immSel = "B", !.ctrlOP = BranchOp(i)]
    [] i.opcode = JAL ->
         [NoCtrl EXCEPT !.ctrlJump = TRUE, !.ctrlJAL = TRUE, !.ctrlRegWrite = TRUE,
                        !.ctrlALUSrc = TRUE, !.immSel = "J"]
    [] OTHER -> NoCtrl

-----------------------------------------------------------------------------
(* ImmGen: the concatenation, then its sign *)

\* Mutant: the J format keeps bit 11 where the B format has it.
ImmGen_B11(i, sel) ==
  CASE sel = "I" -> ToWord(Sext(i.funct7 * 32 + i.rs2, 4096))
    [] sel = "S" -> ToWord(Sext(i.funct7 * 32 + i.rd, 4096))
    [] sel = "B" -> ToWord(Sext((i.funct7 \div 64) * 4096 + (i.rd % 2) * 2048
                      + (i.funct7 % 64) * 32 + (i.rd \div 2) * 2, 8192))
    [] sel = "J" -> ToWord(Sext((i.funct7 \div 64) * 1048576
                      + (i.rs1 * 8 + i.funct3) * 4096 + (i.rd % 2) * 2048
                      + ((i.funct7 % 64) * 16 + i.rs2 \div 2) * 2, 2097152))
    [] sel = "X" -> 0

ImmGen(i, sel) ==
  CASE sel = "I" -> ToWord(Sext(i.funct7 * 32 + i.rs2, 4096))
    [] sel = "S" -> ToWord(Sext(i.funct7 * 32 + i.rd, 4096))
    [] sel = "B" -> ToWord(Sext((i.funct7 \div 64) * 4096 + (i.rd % 2) * 2048
                      + (i.funct7 % 64) * 32 + (i.rd \div 2) * 2, 8192))
    [] sel = "J" -> ToWord(Sext((i.funct7 \div 64) * 1048576
                      + (i.rs1 * 8 + i.funct3) * 4096 + (i.rs2 % 2) * 2048
                      + ((i.funct7 % 64) * 16 + i.rs2 \div 2) * 2, 2097152))
    [] sel = "X" -> 0

-----------------------------------------------------------------------------
(* Registers, read ports *)

\* Mutant: x0 is a register like the others.
DataRead_NoZero(n) == regs[n]

DataRead(n) == IF n = 0 THEN 0 ELSE regs[n]

-----------------------------------------------------------------------------
(* Alu *)

\* jalr clears bit 0 of its target.
AluAdd(c, sum) == IF c.ctrlJump /\ ~ c.ctrlJAL THEN sum - (sum % 2) ELSE sum

ResultAlu(c, dataRead1, dataRead2, imm) ==
  LET operand1 == IF c.ctrlJAL THEN regPC ELSE dataRead1
      operand2 == IF c.ctrlALUSrc THEN imm ELSE dataRead2
  IN  CASE c.ctrlOP = "ADD" -> AluAdd(c, Add(operand1, operand2))
        [] c.ctrlOP = "SUB" -> Sub(operand1, operand2)
        [] c.ctrlOP = "AND" -> And(operand1, operand2)
        [] c.ctrlOP = "OR"  -> Or(operand1, operand2)
        [] c.ctrlOP = "SLL" -> Shl(operand1, operand2 % 32)
        [] c.ctrlOP = "SRL" -> Shr(operand1, operand2 % 32)
        [] c.ctrlOP \in {"EQ", "NEQ"} -> Add(regPC, imm)

\* Mutant: beq and bne swapped.
ResultBranch_Swapped(c, dataRead1, dataRead2) ==
  CASE c.ctrlOP = "NEQ" -> dataRead1 = dataRead2
    [] c.ctrlOP = "EQ"  -> dataRead1 # dataRead2
    [] OTHER -> FALSE

ResultBranch(c, dataRead1, dataRead2) ==
  CASE c.ctrlOP = "EQ"  -> dataRead1 = dataRead2
    [] c.ctrlOP = "NEQ" -> dataRead1 # dataRead2
    [] OTHER -> FALSE

-----------------------------------------------------------------------------
(* Top: the wires *)

WordAddr(addr, size) == (addr \div 4) % size

inst      == memInst[WordAddr(regPC, MEM_INST_SIZE)]
ctrl      == Decode(inst)
imm       == ImmGen(inst, ctrl.immSel)
resultALU == ResultAlu(ctrl, DataRead(inst.rs1), DataRead(inst.rs2), imm)

\* MemData's result: the loaded word, or what the ALU computed.
result ==
  IF ctrl.ctrlLoad THEN memData[WordAddr(resultALU, MEM_DATA_SIZE)] ELSE resultALU

taken ==
  \/ ctrl.ctrlJump
  \/ ctrl.ctrlBranch /\ ResultBranch(ctrl, DataRead(inst.rs1), DataRead(inst.rs2))

-----------------------------------------------------------------------------
(* One clock edge *)

\* Mutant: the link register gets the jump's target.
RegistersEdge_NoLink ==
  regs' = IF ctrl.ctrlRegWrite /\ inst.rd # 0
          THEN [regs EXCEPT ![inst.rd] = result]
          ELSE regs

PCRegEdge(reset) ==
  regPC' = IF reset THEN START_ADDR
           ELSE IF taken THEN result
           ELSE Add(regPC, 4)

RegistersEdge ==
  regs' = IF ctrl.ctrlRegWrite /\ inst.rd # 0
          THEN [regs EXCEPT ![inst.rd] =
                  IF ctrl.ctrlJump THEN Add(regPC, 4) ELSE result]
          ELSE regs

MemInstEdge(iw) ==
  memInst' = IF iw.en THEN [memInst EXCEPT ![WordAddr(iw.addr, MEM_INST_SIZE)] = iw.data]
             ELSE memInst

\* The external port goes first; a store of the same cycle is lost.
MemDataEdge(dw) ==
  memData' = IF dw.en
             THEN [memData EXCEPT ![WordAddr(dw.addr, MEM_DATA_SIZE)] = dw.data]
             ELSE IF ctrl.ctrlStore
             THEN [memData EXCEPT ![WordAddr(resultALU, MEM_DATA_SIZE)] = DataRead(inst.rs2)]
             ELSE memData

\* The reset reaches PCReg only: the other registers and memories have none.
Clock(reset, iw, dw) ==
  /\ PCRegEdge(reset)
  /\ RegistersEdge
  /\ MemInstEdge(iw)
  /\ MemDataEdge(dw)

\* After the first reset; registers and memories hold what they powered up with.
Init ==
  /\ regPC = START_ADDR
  /\ regs \in PowerUpRegs
  /\ memInst \in PowerUpInst
  /\ memData \in PowerUpData

Next ==
  \E reset \in BOOLEAN, iw \in InstWrites \cup {None}, dw \in DataWrites \cup {None} :
    Clock(reset, iw, dw)

Spec == Init /\ [][Next]_vars

=============================================================================
