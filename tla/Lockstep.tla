------------------------------ MODULE Lockstep ------------------------------
(***************************************************************************)
(* The Chisel core and NEMU's interpreter run the same instructions, the   *)
(* way differential testing would run them: in every clock cycle of the    *)
(* core NEMU executes the instruction the core fetches.  NEMU's pmem is    *)
(* the core's data memory; both count addresses from 0.                    *)
(*                                                                         *)
(* They are compared on the fourteen instructions the core implements,     *)
(* with word-aligned accesses inside the data memory and even jump         *)
(* targets; on anything else a run of this harness ends.                   *)
(***************************************************************************)
EXTENDS Rv32iTop, NemuRiscv32

VARIABLES pc, gpr, mem, state     \* NEMU's

nemu == <<pc, gpr, mem, state>>

\* The list of decodertest.scala, by encoding.
Fourteen(i) ==
  \/ i.opcode = OP /\ <<i.funct7, i.funct3>> \in
       {<<0, 0>>, <<32, 0>>, <<0, 7>>, <<0, 6>>, <<0, 1>>, <<0, 5>>}
  \/ i.opcode = OP_IMM /\ i.funct3 \in {0, 6}
  \/ i.opcode \in {LOAD, STORE} /\ i.funct3 = 2
  \/ i.opcode = BRANCH /\ i.funct3 \in {0, 1}
  \/ i.opcode = JALR /\ i.funct3 = 0
  \/ i.opcode = JAL

Aligned(addr) == addr \in Word /\ addr % 4 = 0 /\ addr \div 4 < MEM_DATA_SIZE
Even(addr)    == addr \in Word /\ addr % 2 = 0

\* Addresses on which the two agree: the core drops the low bits of a data
\* address and wraps it, NEMU does neither; NEMU keeps bit 0 of a jalr target.
\* (That an address is a word holds for every word of the registers; saying so
\* here spares the proofs And and Or, which are defined bit by bit.)
InReach(i) ==
  /\ i.opcode = LOAD  => Aligned(Add(gpr[i.rs1], immI(i)))
  /\ i.opcode = STORE => Aligned(Add(gpr[i.rs1], immS(i)))
  /\ i.opcode = JALR  => Even(Add(gpr[i.rs1], immI(i)))

LockInit ==
  /\ Init
  /\ pc = START_ADDR
  /\ gpr = [regs EXCEPT ![0] = 0]
  /\ mem = memData
  /\ state = "RUNNING"

\* A cycle; the ports may write, the data port not while the core stores.
Cycle(iw, dw) ==
  /\ Fourteen(inst)
  /\ InReach(inst)
  /\ dw.en => inst.opcode # STORE
  /\ Clock(FALSE, iw, dw)
  /\ LET next == DecodeExec(inst, pc, gpr, mem) IN
     /\ pc' = next.dnpc
     /\ gpr' = next.gpr
     /\ state' = next.state
     /\ mem' = IF dw.en THEN [next.mem EXCEPT ![WordAddr(dw.addr, MEM_DATA_SIZE)] = dw.data]
               ELSE next.mem

LockNext ==
  \E iw \in InstWrites \cup {None}, dw \in DataWrites \cup {None} : Cycle(iw, dw)

LockSpec == LockInit /\ [][LockNext]_<<vars, nemu>>

-----------------------------------------------------------------------------
(* Properties *)

\* After every cycle the two machines are in the same state, whatever the
\* program and whatever is downloaded: the decoder, the immediates, the ALU,
\* the branches and the write-back of the core compute what decode_exec() does.
InLockstep ==
  /\ regPC = pc
  /\ gpr[0] = 0
  /\ \A r \in 1 .. 31 : regs[r] = gpr[r]
  /\ memData = mem
  /\ state = "RUNNING"

=============================================================================
