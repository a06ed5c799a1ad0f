------------------------------ MODULE Difftest ------------------------------
(***************************************************************************)
(* Differential testing (nemu/src/cpu/difftest/dut.c): after every         *)
(* instruction of NEMU (the DUT) a reference emulator REF executes the     *)
(* same one and the registers are compared, except                         *)
(*   - for an instruction that called difftest_skip_ref(): REF gets a copy *)
(*     of the DUT's registers instead of executing it;                     *)
(*   - while the DUT catches up with a REF that runs a group of            *)
(*     instructions as one (QEMU's packing): the instruction that heads    *)
(*     the group calls difftest_skip_dut(1, GroupLen).                     *)
(* REF and the guest program are external.  The program is straight line   *)
(* code; registers are abstracted to who got them wrong, if anybody.       *)
(***************************************************************************)
EXTENDS Integers

CONSTANTS
  End,     \* number of instructions of the program
  GroupLen,     \* length of a packed group
  RegsHook      \* what isa_difftest_checkregs() may answer of equal registers:
                \* {FALSE} is the stub every ISA has (isa/*/difftest/dut.c:20),
                \* BOOLEAN any hook that passes no others, the stub included

ASSUME DifftestAssumption ==
  End \in Nat /\ GroupLen \in Nat \ {0} /\ RegsHook \in {{FALSE}, {TRUE}, BOOLEAN}

VARIABLES
  kind,              \* kind[i]: "plain", "device" (REF cannot do it) or
                     \* "head" of a group REF runs as one instruction
  fault,             \* the instruction NEMU gets wrong; End if none
  dut, ref,          \* registers: [pc, regs]
  is_skip_ref, skip_dut_nr_inst,     \* dut.c:31-32
  state,             \* nemu_state.state, or "PANIC"
  stepping           \* the instruction has run, difftest_step() has not

vars == <<kind, fault, dut, ref, is_skip_ref, skip_dut_nr_inst, state, stepping>>

PCs   == 0 .. End - 1
Kinds == {"plain", "device", "head"}

\* "wrong": NEMU's mistake is in them; "junk": REF's own device access is.
Values == {"ok", "wrong", "junk"}

\* The instructions of the group that starts at i.
Group(i) == i .. i + GroupLen - 1

\* Groups end before the program does and do not overlap.
Programs ==
  {k \in [PCs -> Kinds] :
     \A i \in PCs : k[i] = "head" =>
        /\ Group(i) \subseteq PCs
        /\ \A j \in Group(i) \ {i} : k[j] # "head"}

NemuInit ==
  /\ kind \in Programs
  /\ fault \in PCs \cup {End}
  /\ dut = [pc |-> 0, regs |-> "ok"]
  /\ is_skip_ref = FALSE
  /\ skip_dut_nr_inst = 0
  /\ state = "RUNNING"
  /\ stepping = FALSE

\* init_difftest() copies memory and registers.
Init == NemuInit /\ ref = dut

\* ref_difftest_exec(1): one instruction, or the whole group it heads.
RefExec(r) ==
  LET ran == IF kind[r.pc] = "head" THEN Group(r.pc) ELSE {r.pc}
  IN  [pc   |-> IF kind[r.pc] = "head" THEN r.pc + GroupLen ELSE r.pc + 1,
       regs |-> IF \E i \in ran : kind[i] = "device" THEN "junk" ELSE r.regs]

\* Mutant: the catching up goes on.
SkipRef_GoesOn ==
  /\ is_skip_ref' = TRUE
  /\ UNCHANGED skip_dut_nr_inst

\* difftest_skip_ref()
SkipRef ==
  /\ is_skip_ref' = TRUE
  /\ skip_dut_nr_inst' = 0

\* Mutant: the count leaves out the instruction that makes the call.
SkipDut_OffByOne(nr_dut) ==
  /\ skip_dut_nr_inst' = skip_dut_nr_inst + nr_dut - 1
  /\ UNCHANGED is_skip_ref

\* difftest_skip_dut(1, nr_dut), but for REF's step (DutExec)
SkipDut(nr_dut) ==
  /\ skip_dut_nr_inst' = skip_dut_nr_inst + nr_dut
  /\ UNCHANGED is_skip_ref

\* What an instruction of NEMU does to NEMU.
DutRuns ==
  /\ state = "RUNNING"
  /\ ~ stepping
  /\ dut.pc < End
  /\ dut' = [pc   |-> dut.pc + 1,
             regs |-> IF dut.pc = fault THEN "wrong" ELSE dut.regs]
  /\ CASE kind[dut.pc] = "device" -> SkipRef
       [] kind[dut.pc] = "head"   -> SkipDut(GroupLen)
       [] kind[dut.pc] = "plain"  -> UNCHANGED <<is_skip_ref, skip_dut_nr_inst>>
  /\ stepping' = TRUE
  /\ UNCHANGED <<kind, fault, state>>

\* NEMU executes an instruction, and REF the group it heads.
DutExec ==
  /\ DutRuns
  /\ ref' = IF kind[dut.pc] = "head" THEN RefExec(ref) ELSE ref

\* checkregs()
CheckRegs(r) ==
  \E same \in RegsHook : state' = IF same /\ r = dut THEN state ELSE "ABORT"

\* difftest_step() while the DUT catches up; r is what it reads from REF.
CatchUp(r) ==
  /\ skip_dut_nr_inst > 0
  /\ \/ /\ r.pc = dut.pc
        /\ skip_dut_nr_inst' = 0
        /\ CheckRegs(r)
     \/ /\ r.pc # dut.pc
        /\ skip_dut_nr_inst' = skip_dut_nr_inst - 1
        /\ state' = IF skip_dut_nr_inst = 1 THEN "PANIC" ELSE state
  /\ UNCHANGED is_skip_ref

\* Mutant: the flag outlives its instruction.
CopyToRef_KeepsFlag ==
  /\ skip_dut_nr_inst = 0
  /\ is_skip_ref
  /\ UNCHANGED <<is_skip_ref, skip_dut_nr_inst, state>>

\* difftest_step() for an instruction that is not compared but copied.
CopyToRef ==
  /\ skip_dut_nr_inst = 0
  /\ is_skip_ref
  /\ is_skip_ref' = FALSE
  /\ UNCHANGED <<skip_dut_nr_inst, state>>

\* difftest_step() for any other instruction; r is what REF makes of it.
Compare(r) ==
  /\ skip_dut_nr_inst = 0
  /\ ~ is_skip_ref
  /\ CheckRegs(r)
  /\ UNCHANGED <<is_skip_ref, skip_dut_nr_inst>>

Checked ==
  /\ stepping
  /\ stepping' = FALSE
  /\ UNCHANGED <<kind, fault, dut>>

DifftestStep ==
  /\ Checked
  /\ \/ CatchUp(ref) /\ UNCHANGED ref
     \/ CopyToRef /\ ref' = dut
     \/ Compare(RefExec(ref)) /\ ref' = RefExec(ref)

Next == DutExec \/ DifftestStep

Spec == Init /\ [][Next]_vars

-----------------------------------------------------------------------------
(* Properties *)

\* Between instructions REF is the DUT's equal, or ahead of it by a distance
\* that what is left of skip_dut_nr_inst covers.
InStep ==
  ~ stepping /\ state = "RUNNING" =>
    IF skip_dut_nr_inst = 0
    THEN ref = dut
    ELSE ref.pc \in dut.pc + 1 .. dut.pc + skip_dut_nr_inst

\* The instructions after which a mistake made at i can no longer be seen:
\* a device access copies the DUT's registers over REF's before any
\* comparison.
Hidden(i) ==
  \/ kind[i] = "device"
  \/ \E h \in PCs : /\ kind[h] = "head" /\ i \in Group(h)
                    /\ \E j \in Group(h) : j > i /\ kind[j] = "device"
                    /\ \A j \in Group(h) : j < i => kind[j] # "device"

\* dut.c:105-128: NEMU always catches up in time, and what the hook of the
\* ISA is shown, whatever it answers, differs from NEMU's registers if NEMU
\* made a mistake that is not hidden, and only then: devices and packed groups
\* put nothing else before it.  (Where it said no, ref is what it was shown.)
MistakesShow ==
  /\ state # "PANIC"
  /\ state = "ABORT" => (ref # dut <=> dut.regs = "wrong" /\ ~ Hidden(fault))

\* dut.c:118-128: NEMU does not go on past a mistake that the hook has not been
\* shown, unless it is hidden or NEMU is still catching up.
NoMistakePasses ==
  ~ stepping /\ state = "RUNNING" /\ dut.regs = "wrong" /\ ~ Hidden(fault)
    => skip_dut_nr_inst > 0

=============================================================================
