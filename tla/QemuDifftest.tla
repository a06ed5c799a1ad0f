---------------------------- MODULE QemuDifftest ----------------------------
(***************************************************************************)
(* Differential testing with QEMU for REF (nemu/tools/qemu-diff): each of  *)
(* the three things NEMU asks of REF - copy memory, read or write the      *)
(* registers, run one instruction - is a conversation with QEMU in the     *)
(* protocol of GDB over a TCP connection (protocol.c, gdb-host.c,          *)
(* diff-test.c).  Module Difftest is what this must amount to.             *)
(*                                                                         *)
(* A command or a reply is a packet with a checksum; whoever gets one says *)
(* "+" or "-", and what was not understood is sent again.  The connection  *)
(* keeps the order and loses nothing, but a packet may come out spoiled    *)
(* (its check sum is wrong; what delimits it is not touched).  QEMU is     *)
(* external.                                                               *)
(***************************************************************************)
EXTENDS Difftest, Sequences

CONSTANTS
  Img,       \* length of the image init_difftest copies to REF
  Mtu,       \* bytes of an `M' packet at most (1500)
  MaxSpoiled \* packets that come out spoiled

ASSUME QemuAssumption == Img \in Nat /\ Mtu \in Nat \ {0} /\ MaxSpoiled \in Nat

VARIABLES
  booted,    \* init_difftest() has returned
  left,      \* the commands of the present call that are not done
  phase,     \* where NEMU is: out of a call: "idle"; in gdb_send(): "send",
             \* "ack"; in gdb_recv(): "recv"; "done" with the call
  got,       \* the registers that came with the last reply to `g'
  before,    \* REF's registers when the call began
  toQemu, toNemu,  \* what is on its way: signs and packets
  spoiled,   \* packets that came out spoiled so far
  running,   \* what QEMU executes; NONE between two commands
  reply,     \* the last reply of QEMU
  memory     \* the bytes of the image QEMU has

call  == <<booted, left, phase, got, before>>
qemu  == <<ref, running, reply, memory>>
local == <<kind, fault, dut, is_skip_ref, skip_dut_nr_inst, state, stepping>>
qvars == <<vars, call, toQemu, toNemu, spoiled, running, reply, memory>>

NONE == [op |-> "none"]
OK   == [op |-> "OK"]
Image == 0 .. Img - 1

-----------------------------------------------------------------------------
(* What NEMU asks *)

\* gdb_memcpy_to_qemu(): the `M' packets for the image.
MemcpyPackets ==
  LET full == IF Img = 0 THEN 0 ELSE (Img - 1) \div Mtu
  IN  [i \in 1 .. full + 1 |->
         [op |-> "M", bytes |-> (i - 1) * Mtu .. (IF i <= full THEN i * Mtu ELSE Img) - 1]]

\* difftest_exec(1)
Exec == <<[op |-> "s"]>>

\* difftest_regcpy() to the DUT, and to REF: that begins with a `g' for the
\* registers NEMU does not have.
GetRegs == <<[op |-> "g"]>>
SetRegs == GetRegs \o <<[op |-> "G", regs |-> dut]>>

\* The calls of init_difftest(), of the instruction that heads a group and
\* calls difftest_skip_dut(), and of difftest_step().
Calls ==
  IF ~ booted                  THEN MemcpyPackets \o SetRegs
  ELSE IF ~ stepping           THEN IF dut.pc < End /\ kind[dut.pc] = "head" THEN Exec ELSE <<>>
  ELSE IF skip_dut_nr_inst > 0 THEN GetRegs
  ELSE IF is_skip_ref          THEN SetRegs
  ELSE Exec \o GetRegs

-----------------------------------------------------------------------------
(* The wire *)

Sign(c) == [is |-> c]

\* What becomes of a packet on its way.
Arrives(what) ==
  {[is |-> "packet", ok |-> TRUE, what |-> what]} \cup
  (IF spoiled < MaxSpoiled THEN {[is |-> "packet", ok |-> FALSE, what |-> NONE]} ELSE {})

\* send_packet()
SendPacket(to, what) ==
  \E p \in Arrives(what) :
    /\ to' = Append(to, p)
    /\ spoiled' = IF p.ok THEN spoiled ELSE spoiled + 1

-----------------------------------------------------------------------------
(* NEMU *)

QInit ==
  /\ NemuInit
  /\ ref = [pc |-> End, regs |-> "junk"]   \* wherever QEMU starts
  /\ booted = FALSE
  /\ left = <<>>
  /\ phase = "idle"
  /\ got = dut
  /\ before = dut
  /\ toQemu = <<Sign("+")>>     \* gdb_begin() resets the line
  /\ toNemu = <<>>
  /\ spoiled = 0
  /\ running = NONE
  /\ reply = NONE
  /\ memory = {}

Begin ==
  /\ phase = "idle"
  /\ state = "RUNNING"
  /\ Calls # <<>>
  /\ left' = Calls
  /\ phase' = "send"
  /\ before' = IF booted THEN ref ELSE before
  /\ UNCHANGED <<vars, booted, got, toQemu, toNemu, spoiled, running, reply, memory>>

\* gdb_send(): the packet, until it is understood.
Send ==
  /\ phase = "send"
  /\ phase' = "ack"
  /\ SendPacket(toQemu, Head(left))
  /\ UNCHANGED <<vars, booted, left, got, before, toNemu, running, reply, memory>>

\* Mutant: any answer will do.
Ack_Any ==
  /\ phase = "ack"
  /\ toNemu # <<>>
  /\ toNemu' = Tail(toNemu)
  /\ phase' = "recv"
  /\ UNCHANGED <<vars, booted, left, got, before, toQemu, spoiled, running, reply, memory>>

Ack ==
  /\ phase = "ack"
  /\ toNemu # <<>>
  /\ toNemu' = Tail(toNemu)
  /\ phase' = IF Head(toNemu).is = "+" THEN "recv" ELSE "send"
  /\ UNCHANGED <<vars, booted, left, got, before, toQemu, spoiled, running, reply, memory>>

\* Mutant: the command is sent again, not the reply.
RecvBad_Repeat ==
  /\ phase = "recv"
  /\ toNemu # <<>>
  /\ Head(toNemu).is = "packet" /\ ~ Head(toNemu).ok
  /\ toNemu' = Tail(toNemu)
  /\ phase' = "send"
  /\ UNCHANGED <<vars, booted, left, got, before, toQemu, spoiled, running, reply, memory>>

\* gdb_recv(): a wrong check sum ...  (recv_packet() also skips signs before
\* a packet; none comes there.)
RecvBad ==
  /\ phase = "recv"
  /\ toNemu # <<>>
  /\ Head(toNemu).is = "packet" /\ ~ Head(toNemu).ok
  /\ toNemu' = Tail(toNemu)
  /\ toQemu' = Append(toQemu, Sign("-"))
  /\ UNCHANGED <<vars, call, spoiled, running, reply, memory>>

\* ... and a right one; gdb_getregs() keeps the registers.
Recv ==
  /\ phase = "recv"
  /\ toNemu # <<>>
  /\ Head(toNemu).is = "packet" /\ Head(toNemu).ok
  /\ toNemu' = Tail(toNemu)
  /\ toQemu' = Append(toQemu, Sign("+"))
  /\ got' = IF Head(left).op = "g" THEN Head(toNemu).what.regs ELSE got
  /\ left' = Tail(left)
  /\ phase' = IF left' = <<>> THEN "done" ELSE "send"
  /\ UNCHANGED <<vars, booted, before, spoiled, running, reply, memory>>

Booted ==
  /\ phase = "done"
  /\ ~ booted
  /\ booted' = TRUE
  /\ phase' = "idle"
  /\ UNCHANGED <<vars, left, got, before, toQemu, toNemu, spoiled, running, reply, memory>>

\* NEMU goes on with what it has from REF.
Goes ==
  /\ booted
  /\ phase = (IF Calls = <<>> THEN "idle" ELSE "done")
  /\ \/ DutRuns
     \/ Checked /\ (CatchUp(got) \/ CopyToRef \/ Compare(got))
  /\ phase' = "idle"
  /\ UNCHANGED <<ref, booted, left, got, before, toQemu, toNemu, spoiled, running, reply, memory>>

NemuStep == Begin \/ Send \/ Ack \/ RecvBad \/ Recv \/ Booted \/ Goes

-----------------------------------------------------------------------------
(* QEMU *)

\* Its registers after a step: nobody's while the image is not all there.
Steps ==
  IF memory = Image THEN RefExec(ref) ELSE [RefExec(ref) EXCEPT !.regs = "junk"]

Execute ==
  /\ running # NONE
  /\ running' = NONE
  /\ ref' = CASE running.op = "s" -> Steps
              [] running.op = "G" -> running.regs
              [] OTHER            -> ref
  /\ memory' = IF running.op = "M" THEN memory \cup running.bytes ELSE memory
  /\ reply' = IF running.op = "g" THEN [op |-> "regs", regs |-> ref] ELSE OK
  /\ SendPacket(toNemu, reply')
  /\ UNCHANGED <<local, call, toQemu>>

Understood ==
  /\ running' = Head(toQemu).what
  /\ toNemu' = Append(toNemu, Sign("+"))
  /\ UNCHANGED spoiled

NotUnderstood ==
  /\ toNemu' = Append(toNemu, Sign("-"))
  /\ UNCHANGED <<spoiled, running>>

\* A sign is about the last reply.
Listen ==
  /\ running = NONE
  /\ toQemu # <<>>
  /\ toQemu' = Tail(toQemu)
  /\ CASE Head(toQemu).is = "packet" -> IF Head(toQemu).ok THEN Understood ELSE NotUnderstood
       [] Head(toQemu).is = "-"      -> SendPacket(toNemu, reply) /\ UNCHANGED running
       [] Head(toQemu).is = "+"      -> UNCHANGED <<toNemu, spoiled, running>>
  /\ UNCHANGED <<vars, call, reply, memory>>

QemuStep == Execute \/ Listen

QNext == NemuStep \/ QemuStep

\* NEMU is one thread, which waits for nobody but QEMU; QEMU answers.
QSpec == QInit /\ [][QNext]_qvars /\ WF_qvars(NemuStep) /\ WF_qvars(QemuStep)

-----------------------------------------------------------------------------
(* Properties *)

\* REF as Difftest sees it: what it was until the call is over.
D == INSTANCE Difftest WITH ref <- IF booted /\ phase = "idle" THEN ref ELSE before

\* protocol.c, gdb-host.c, diff-test.c: a call of REF does what module
\* Difftest says at once and exactly once, whatever was sent again on the
\* way: no instruction is run twice or left out, and NEMU compares what the
\* registers are after it.
CallsAreAtomic == D!Spec

\* Module Difftest's InStep, between two calls.
InStepWithQemu == D!InStep

\* Module Difftest's MistakesShow, for registers that come from QEMU
\* (gdb-host.c:62-81).
MistakesShowWithQemu == D!MistakesShow

\* Every call comes back.
CallsReturn == (phase # "idle") ~> (phase = "idle")

=============================================================================
