--------------------------- MODULE DifftestProofs ---------------------------
(***************************************************************************)
(* Differential testing for every program, group length, image and number  *)
(* of spoiled packets.  The first half is about module Difftest, in which  *)
(* a call of REF is one step; it takes REF's registers to be any value     *)
(* that behaves as Difftest says (D in QemuDifftest).  The second half     *)
(* shows that QEMU behind its wire is such a REF.                          *)
(***************************************************************************)
EXTENDS QemuDifftest, TLAPS

-----------------------------------------------------------------------------
(* Difftest: the steps *)

\* REF's registers as Difftest sees them.
Seen == IF booted /\ phase = "idle" THEN ref ELSE before

\* The instruction that NEMU runs, with what it makes REF do.
SeenExec ==
  /\ DutRuns
  /\ Seen' = IF kind[dut.pc] = "head" THEN RefExec(Seen) ELSE Seen

\* difftest_step()
SeenStep ==
  /\ Checked
  /\ \/ CatchUp(Seen) /\ Seen' = Seen
     \/ CopyToRef /\ Seen' = dut
     \/ Compare(RefExec(Seen)) /\ Seen' = RefExec(Seen)

\* The instance's operators are this module's, with Seen for ref.
LEMMA InstanceExec == D!DutExec <=> SeenExec
BY DEF D!DutExec, D!DutRuns, D!SkipRef, D!SkipDut, D!RefExec, D!Group,
       SeenExec, DutRuns, SkipRef, SkipDut, RefExec, Group, Seen

LEMMA InstanceStep == D!DifftestStep <=> SeenStep
BY DEF D!DifftestStep, D!Checked, D!CatchUp, D!CopyToRef, D!Compare, D!CheckRegs,
       D!RefExec, D!Group, SeenStep, Checked, CatchUp, CopyToRef, Compare, CheckRegs,
       RefExec, Group, Seen

-----------------------------------------------------------------------------
(* Difftest: the inductive invariant *)

\* NEMU's registers before instruction i.
Regs(i) == IF fault < i THEN "wrong" ELSE "ok"
At(i)   == [pc |-> i, regs |-> Regs(i)]

\* Before instruction i REF is where NEMU is, and a mistake made so far is one
\* that cannot be seen.  In the middle of a group that takes a device before i.
CaughtUp(r, i) ==
  /\ skip_dut_nr_inst = 0
  /\ is_skip_ref = FALSE
  /\ r = At(i)
  /\ fault < i => Hidden(fault)
  /\ \A h \in PCs : kind[h] = "head" /\ i \in Group(h) /\ i # h
                      => \E j \in h .. i - 1 : kind[j] = "device"

\* REF has run the group that starts at h, of which NEMU has run h .. i - 1.
CatchingUp(r, h, i) ==
  /\ kind[h] = "head" /\ i \in Group(h)
  /\ skip_dut_nr_inst = h + GroupLen - i
  /\ is_skip_ref = FALSE
  /\ r = [pc   |-> h + GroupLen,
          regs |-> IF \E j \in Group(h) : kind[j] = "device" THEN "junk" ELSE Regs(h)]
  /\ \A j \in h .. i - 1 : kind[j] # "device"
  /\ fault < h => Hidden(fault)

\* REF gets a copy after the device access i.
Copies(i) ==
  /\ kind[i] = "device"
  /\ skip_dut_nr_inst = 0
  /\ is_skip_ref = TRUE
  /\ fault <= i => Hidden(fault)

Between(r) ==
  \/ CaughtUp(r, dut.pc)
  \/ \E h \in PCs : h # dut.pc /\ CatchingUp(r, h, dut.pc)

\* Instruction i has run.
Within(r, i) ==
  /\ i \in PCs /\ dut.pc = i + 1
  /\ \/ Copies(i)
     \/ kind[i] = "plain" /\ CaughtUp(r, i)
     \/ kind[i] # "device" /\ \E h \in PCs : CatchingUp(r, h, i)

Basics ==
  /\ kind \in Programs
  /\ fault \in PCs \cup {End}
  /\ dut.pc \in 0 .. End /\ dut = At(dut.pc)
  /\ stepping \in BOOLEAN
  /\ state \in {"RUNNING", "ABORT"}

\* The registers that the hook is shown: they differ if a mistake can be seen.
Shown(r) == r # dut <=> dut.regs = "wrong" /\ ~ Hidden(fault)

StepInv(r) ==
  /\ Basics
  /\ state = "RUNNING" => IF stepping THEN Within(r, dut.pc - 1) ELSE Between(r)
  /\ state = "ABORT"   => ~ stepping /\ Shown(r)

-----------------------------------------------------------------------------
(* Difftest: the program *)

\* Two groups do not share an instruction.
LEMMA GroupsApart ==
  ASSUME kind \in Programs,
         NEW g \in PCs, kind[g] = "head", NEW h \in PCs, kind[h] = "head",
         NEW i \in PCs, i \in Group(g), i \in Group(h)
  PROVE  g = h
<1> USE DifftestAssumption DEF PCs, Group
<1>1. CASE g < h
  BY <1>1 DEF Programs
<1>2. CASE h < g
  BY <1>2 DEF Programs
<1> QED BY <1>1, <1>2

\* A mistake made by an instruction that is not a device and before which REF
\* has caught up can be seen, and so can one in a group without a device.
LEMMA NotHidden ==
  ASSUME kind \in Programs, NEW i \in PCs, kind[i] # "device",
         \A h \in PCs : kind[h] = "head" /\ i \in Group(h)
           => \/ \E j \in Group(h) : j < i /\ kind[j] = "device"
              \/ \A j \in Group(h) : kind[j] # "device"
  PROVE  ~ Hidden(i)
BY DEF Hidden

-----------------------------------------------------------------------------
(* Difftest: an instruction of NEMU *)

LEMMA DutRunsCases ==
  ASSUME Basics, DutRuns
  PROVE  /\ state = "RUNNING" /\ ~ stepping /\ dut.pc \in PCs
         /\ dut' = [pc |-> dut.pc + 1, regs |-> Regs(dut.pc + 1)]
         /\ \/ kind[dut.pc] = "device" /\ SkipRef
            \/ kind[dut.pc] = "head" /\ SkipDut(GroupLen)
            \/ kind[dut.pc] = "plain" /\ UNCHANGED <<is_skip_ref, skip_dut_nr_inst>>
         /\ stepping' = TRUE
         /\ UNCHANGED <<kind, fault, state>>
<1> USE DifftestAssumption DEF PCs
<1>1. state = "RUNNING" /\ ~ stepping /\ dut.pc \in PCs
  BY DEF Basics, DutRuns
<1>2. dut' = [pc |-> dut.pc + 1, regs |-> Regs(dut.pc + 1)]
  <2>1. dut.regs = Regs(dut.pc) /\ fault \in Nat
    BY DEF Basics, At
  <2>2. (IF dut.pc = fault THEN "wrong" ELSE dut.regs) = Regs(dut.pc + 1)
    BY <1>1, <2>1 DEF Regs
  <2> QED BY <2>2 DEF DutRuns
<1>3. kind[dut.pc] \in Kinds
  BY <1>1 DEF Basics, Programs
<1>4. \/ kind[dut.pc] = "device" /\ SkipRef
      \/ kind[dut.pc] = "head" /\ SkipDut(GroupLen)
      \/ kind[dut.pc] = "plain" /\ UNCHANGED <<is_skip_ref, skip_dut_nr_inst>>
  BY <1>3 DEF DutRuns, Kinds
<1> QED BY <1>1, <1>2, <1>4 DEF DutRuns

\* A device access is one that REF will copy.
LEMMA DeviceRuns ==
  ASSUME Basics, NEW r, Between(r), DutRuns, NEW i, i = dut.pc, kind[i] = "device"
  PROVE  Copies(i)'
<1> USE DifftestAssumption DEF PCs
<1>1. i \in PCs /\ SkipRef /\ UNCHANGED <<kind, fault>>
  BY DutRunsCases
<1>2. ASSUME fault <= i PROVE Hidden(fault)
  <2>1. CASE fault = i
    BY <2>1 DEF Hidden
  <2>2. CASE fault < i /\ CaughtUp(r, i)
    BY <2>2 DEF CaughtUp
  <2>3. ASSUME fault < i, NEW h \in PCs, CatchingUp(r, h, i) PROVE Hidden(fault)
    <3>1. CASE fault < h
      BY <2>3, <3>1 DEF CatchingUp
    <3>2. CASE fault >= h
      <4>1. fault \in PCs /\ fault \in Group(h) /\ i \in Group(h)
        BY <1>1, <2>3, <3>2 DEF CatchingUp, Group, Basics
      <4>2. \A j \in Group(h) : j < fault => kind[j] # "device"
        BY <2>3, <4>1 DEF CatchingUp, Group, Basics
      <4> QED BY <2>3, <4>1, <4>2 DEF Hidden, CatchingUp
    <3> QED BY <3>1, <3>2, <2>3 DEF Basics
  <2> QED BY <1>2, <2>1, <2>2, <2>3 DEF Between, Basics
<1>3. Hidden(fault)' <=> Hidden(fault)
  BY <1>1 DEF Hidden
<1> QED BY <1>1, <1>2, <1>3 DEF Copies, SkipRef

\* The head of a group: REF runs ahead.  It is not the middle of another.
LEMMA HeadRuns ==
  ASSUME Basics, NEW r, Between(r), DutRuns, NEW i, i = dut.pc, kind[i] = "head"
  PROVE  CatchingUp(RefExec(r), i, i)'
<1> USE DifftestAssumption DEF PCs
<1>1. i \in PCs /\ SkipDut(GroupLen) /\ UNCHANGED <<kind, fault>>
  BY DutRunsCases
<1>2. i \in Group(i)
  BY <1>1 DEF Group
<1>3. CaughtUp(r, i)
  <2>1. ASSUME NEW h \in PCs, h # i, CatchingUp(r, h, i) PROVE FALSE
    BY <1>1, <1>2, <2>1, GroupsApart DEF Basics, CatchingUp
  <2> QED BY <2>1 DEF Between
<1>4. Hidden(fault)' <=> Hidden(fault)
  BY <1>1 DEF Hidden
<1>5. skip_dut_nr_inst' = i + GroupLen - i /\ is_skip_ref' = FALSE
  BY <1>1, <1>3 DEF SkipDut, CaughtUp
<1>6. RefExec(r) = [pc   |-> i + GroupLen,
                    regs |-> IF \E j \in Group(i) : kind[j] = "device" THEN "junk" ELSE Regs(i)]
  BY <1>3 DEF RefExec, CaughtUp, At
<1>7. Regs(i)' = Regs(i) /\ RefExec(r)' = RefExec(r)
  BY <1>1 DEF Regs, RefExec
<1>8. fault < i => Hidden(fault)
  BY <1>3 DEF CaughtUp
<1> QED BY <1>1, <1>2, <1>4, <1>5, <1>6, <1>7, <1>8 DEF CatchingUp

\* Any other instruction.
LEMMA PlainRuns ==
  ASSUME Basics, NEW r, Between(r), DutRuns, NEW i, i = dut.pc, kind[i] = "plain"
  PROVE  (CaughtUp(r, i) \/ \E h \in PCs : CatchingUp(r, h, i))'
<1>1. UNCHANGED <<kind, fault, is_skip_ref, skip_dut_nr_inst>>
  BY DutRunsCases
<1>2. Hidden(fault)' <=> Hidden(fault)
  BY <1>1 DEF Hidden
<1>3. ASSUME CaughtUp(r, i) PROVE CaughtUp(r, i)'
  BY <1>1, <1>2, <1>3 DEF CaughtUp, At, Regs
<1>4. ASSUME NEW h \in PCs, CatchingUp(r, h, i) PROVE CatchingUp(r, h, i)'
  BY <1>1, <1>2, <1>4 DEF CatchingUp, Regs
<1> QED BY <1>3, <1>4 DEF Between

LEMMA ExecInd ==
  ASSUME StepInv(Seen), SeenExec
  PROVE  StepInv(Seen)'
<1> DEFINE i == dut.pc
<1> USE DifftestAssumption DEF PCs
<1>1. Basics /\ Between(Seen) /\ DutRuns
  BY DutRunsCases DEF StepInv, SeenExec, DutRuns
<1>2. /\ state = "RUNNING" /\ i \in PCs
      /\ dut' = [pc |-> i + 1, regs |-> Regs(i + 1)]
      /\ kind[i] \in Kinds /\ stepping' = TRUE
      /\ UNCHANGED <<kind, fault, state>>
  BY <1>1, DutRunsCases DEF Kinds
<1>3. Basics'
  BY <1>1, <1>2 DEF Basics, At, Regs
<1>4. ASSUME NEW k, k = i, NEW r, r = Seen' PROVE Within(r, k)'
  <2>1. CASE kind[k] = "device"
    BY <1>1, <1>2, <1>4, <2>1, DeviceRuns DEF Within
  <2>2. CASE kind[k] = "head"
    <3>1. r = RefExec(Seen) /\ UNCHANGED kind
      BY <1>2, <1>4, <2>2 DEF SeenExec
    <3>2. CatchingUp(r, k, k)'
      BY <1>1, <1>2, <1>4, <2>2, <3>1, HeadRuns DEF RefExec
    <3> QED BY <1>2, <1>4, <2>2, <3>2 DEF Within
  <2>3. CASE kind[k] = "plain"
    <3>1. r = Seen
      BY <1>4, <2>3 DEF SeenExec
    <3>2. (CaughtUp(r, k) \/ \E h \in PCs : CatchingUp(r, h, k))'
      BY <1>1, <1>2, <1>4, <2>3, <3>1, PlainRuns
    <3> QED BY <1>2, <1>4, <2>3, <3>2 DEF Within
  <2> QED BY <1>2, <1>4, <2>1, <2>2, <2>3 DEF Kinds
<1> QED BY <1>2, <1>3, <1>4 DEF StepInv

-----------------------------------------------------------------------------
(* Difftest: difftest_step() after instruction i *)

\* What the comparison leads to, r being REF's registers after instruction i.
Verdict(r, i) ==
  \/ state = "RUNNING" /\ (CaughtUp(r, i) \/ \E h \in PCs : h # i /\ CatchingUp(r, h, i))
  \/ state = "ABORT" /\ Shown(r)

\* The registers are copied: whatever was wrong before is hidden.
LEMMA Copied ==
  ASSUME Basics, Checked, NEW r, state = "RUNNING",
         NEW i \in PCs, dut.pc = i + 1, Copies(i),
         \/ CatchUp(r)
         \/ CopyToRef
         \/ Compare(RefExec(r))
  PROVE  CopyToRef /\ Verdict(At(i + 1), i + 1)'
<1> USE DifftestAssumption DEF PCs
<1>1. CopyToRef /\ UNCHANGED <<kind, fault, state>>
  BY DEF Copies, CatchUp, CopyToRef, Compare, Checked
<1>2. (Hidden(fault)' <=> Hidden(fault)) /\ At(i + 1)' = At(i + 1)
  BY <1>1 DEF Hidden, At, Regs
<1>3. fault < i + 1 => Hidden(fault)
  BY DEF Copies, Basics
<1>4. ASSUME NEW h \in PCs, i + 1 \in Group(h), i + 1 # h
      PROVE  \E j \in h .. i : kind[j] = "device"
  BY <1>4 DEF Copies, Group
<1>5. CaughtUp(At(i + 1), i + 1)'
  <2>1. \A h \in PCs : kind'[h] = "head" /\ i + 1 \in Group(h) /\ i + 1 # h
          => \E j \in h .. i + 1 - 1 : kind'[j] = "device"
    BY <1>1, <1>4
  <2> QED BY <1>1, <1>2, <1>3, <2>1 DEF CopyToRef, Copies, CaughtUp
<1> QED BY <1>1, <1>5 DEF Verdict

\* An instruction by itself: the comparison sees the mistake if it was made in
\* this instruction.
LEMMA Compared ==
  ASSUME Basics, Checked, NEW r, state = "RUNNING",
         NEW i \in PCs, dut.pc = i + 1, kind[i] = "plain", CaughtUp(r, i),
         \/ CatchUp(r)
         \/ CopyToRef
         \/ Compare(RefExec(r))
  PROVE  Compare(RefExec(r)) /\ Verdict(RefExec(r), i + 1)'
<1> USE DifftestAssumption DEF PCs
<1>1. Compare(RefExec(r)) /\ UNCHANGED <<kind, fault>>
  BY DEF CaughtUp, CatchUp, CopyToRef, Compare, Checked
<1>2. (Hidden(fault)' <=> Hidden(fault)) /\ At(i + 1)' = At(i + 1) /\ RefExec(r)' = RefExec(r)
  BY <1>1 DEF Hidden, At, Regs, RefExec
<1>3. RefExec(r) = [pc |-> i + 1, regs |-> Regs(i)]
  BY DEF CaughtUp, RefExec, At
<1>4. dut = At(i + 1)
  BY DEF Basics
<1>5. ASSUME NEW h \in PCs, kind[h] = "head", i + 1 \in Group(h), i + 1 # h
      PROVE  h # i /\ i \in Group(h) /\ \E j \in h .. i - 1 : kind[j] = "device"
  BY <1>5 DEF CaughtUp, Group
<1>6. CASE fault # i
  <2>1. Regs(i) = Regs(i + 1)
    BY <1>6 DEF Regs, Basics
  <2>2. RefExec(r) = At(i + 1) /\ state' \in {"RUNNING", "ABORT"}
    BY <1>1, <1>3, <1>4, <2>1 DEF At, Compare, CheckRegs
  <2>3. fault < i + 1 => Hidden(fault)
    BY <1>6 DEF CaughtUp, Basics
  <2>4. \A h \in PCs : kind'[h] = "head" /\ i + 1 \in Group(h) /\ i + 1 # h
          => \E j \in h .. i + 1 - 1 : kind'[j] = "device"
    BY <1>1, <1>5
  <2>5. CaughtUp(RefExec(r), i + 1)'
    BY <1>1, <1>2, <2>2, <2>3, <2>4 DEF Compare, CaughtUp
  <2>6. Shown(RefExec(r))'
    <3>1. RefExec(r) = dut /\ dut' = dut
      BY <1>4, <2>2 DEF Checked
    <3>2. dut.regs = "wrong" => Hidden(fault)
      BY <1>4, <2>3 DEF At, Regs
    <3> QED BY <1>2, <3>1, <3>2 DEF Shown
  <2> QED BY <1>1, <2>2, <2>5, <2>6 DEF Verdict
<1>7. CASE fault = i
  <2>1. Regs(i) # Regs(i + 1)
    BY <1>7 DEF Regs
  <2>2. state' = "ABORT"
    BY <1>1, <1>3, <1>4, <1>7, <2>1 DEF At, Compare, CheckRegs
  <2>3. ASSUME NEW h \in PCs, kind[h] = "head", i \in Group(h)
        PROVE  \E j \in Group(h) : j < i /\ kind[j] = "device"
    BY <2>3 DEF CaughtUp, Group
  <2>4. ~ Hidden(fault)
    BY <1>7, <2>3, NotHidden DEF Basics
  <2>5. Shown(RefExec(r))'
    <3>1. RefExec(r) # dut /\ dut' = dut
      BY <1>3, <1>4, <2>1 DEF At, Checked
    <3>2. dut.regs = "wrong"
      BY <1>4, <1>7 DEF At, Regs
    <3> QED BY <1>2, <2>4, <3>1, <3>2 DEF Shown
  <2> QED BY <1>1, <2>2, <2>5 DEF Verdict
<1> QED BY <1>1, <1>6, <1>7

\* In a group without a device so far: NEMU goes on, or has run the group and
\* the comparison sees whether one of its instructions was the mistake.
LEMMA CaughtUpWith ==
  ASSUME Basics, Checked, NEW r, state = "RUNNING",
         NEW i \in PCs, dut.pc = i + 1, kind[i] # "device",
         NEW h \in PCs, CatchingUp(r, h, i),
         \/ CatchUp(r)
         \/ CopyToRef
         \/ Compare(RefExec(r))
  PROVE  CatchUp(r) /\ Verdict(r, i + 1)'
<1> USE DifftestAssumption DEF PCs
<1>1. CatchUp(r) /\ UNCHANGED <<kind, fault>>
  BY DEF CatchingUp, Group, CatchUp, CopyToRef, Compare, Checked
<1>2. (Hidden(fault)' <=> Hidden(fault)) /\ At(i + 1)' = At(i + 1) /\ Regs(h)' = Regs(h)
  BY <1>1 DEF Hidden, At, Regs
<1>3. dut = At(i + 1)
  BY DEF Basics
<1>4. /\ h <= i /\ i + 1 <= h + GroupLen
      /\ r.pc = h + GroupLen /\ skip_dut_nr_inst = h + GroupLen - i
      /\ \A j \in h .. i : kind[j] # "device"
  BY DEF CatchingUp, Group
<1>5. CASE h + GroupLen = i + 1
  <2>1. \A j \in Group(h) : kind[j] # "device"
    BY <1>4, <1>5 DEF Group
  <2>2. r = [pc |-> i + 1, regs |-> Regs(h)]
    BY <1>5, <2>1 DEF CatchingUp
  <2>3. skip_dut_nr_inst' = 0 /\ is_skip_ref' = FALSE /\ CheckRegs(r)
    BY <1>1, <1>3, <1>4, <1>5 DEF CatchUp, CatchingUp, At
  <2>4. ASSUME NEW g \in PCs, kind[g] = "head" PROVE ~ (i + 1 \in Group(g) /\ i + 1 # g)
    <3> SUFFICES ASSUME i + 1 \in Group(g), i + 1 # g PROVE FALSE
      OBVIOUS
    <3>1. i \in Group(g) /\ i \in Group(h)
      BY <1>4 DEF Group
    <3>2. g = h
      BY <2>4, <3>1, GroupsApart DEF Basics, CatchingUp
    <3> QED BY <1>5, <3>2 DEF Group
  <2>5. CASE fault \notin Group(h)
    <3>1. Regs(h) = Regs(i + 1)
      BY <1>4, <1>5, <2>5 DEF Regs, Basics, Group
    <3>2. r = At(i + 1) /\ state' \in {"RUNNING", "ABORT"}
      BY <1>3, <2>2, <2>3, <3>1 DEF At, CheckRegs
    <3>3. fault < i + 1 => Hidden(fault)
      BY <1>4, <1>5, <2>5 DEF CatchingUp, Basics, Group
    <3>4. CaughtUp(r, i + 1)'
      BY <1>1, <1>2, <2>3, <2>4, <3>2, <3>3 DEF CaughtUp
    <3>5. Shown(r)'
      <4>1. r = dut /\ dut' = dut
        BY <1>3, <3>2 DEF Checked
      <4>2. dut.regs = "wrong" => Hidden(fault)
        BY <1>3, <3>3 DEF At, Regs
      <4> QED BY <1>2, <4>1, <4>2 DEF Shown
    <3> QED BY <1>1, <3>2, <3>4, <3>5 DEF Verdict
  <2>6. CASE fault \in Group(h)
    <3>1. Regs(h) # Regs(i + 1)
      BY <1>4, <1>5, <2>6 DEF Regs, Group
    <3>2. state' = "ABORT"
      BY <1>3, <2>2, <2>3, <2>6, <3>1 DEF At, CheckRegs
    <3>3. fault \in PCs /\ kind[fault] # "device"
      BY <1>4, <1>5, <2>1, <2>6 DEF Group
    <3>4. ASSUME NEW g \in PCs, kind[g] = "head", fault \in Group(g)
          PROVE  \A j \in Group(g) : kind[j] # "device"
      BY <2>1, <2>6, <3>3, <3>4, GroupsApart DEF Basics, CatchingUp
    <3>5. ~ Hidden(fault)
      BY <3>3, <3>4, NotHidden DEF Basics
    <3>6. Shown(r)'
      <4>1. r # dut /\ dut' = dut
        BY <1>3, <2>2, <3>1 DEF At, Checked
      <4>2. dut.regs = "wrong"
        BY <1>3, <1>4, <1>5, <2>6 DEF At, Regs, Group
      <4> QED BY <1>2, <3>5, <4>1, <4>2 DEF Shown
    <3> QED BY <1>1, <3>2, <3>6 DEF Verdict
  <2> QED BY <2>5, <2>6
<1>6. CASE h + GroupLen # i + 1
  <2>1. skip_dut_nr_inst' = h + GroupLen - (i + 1) /\ is_skip_ref' = FALSE /\ state' = "RUNNING"
    BY <1>1, <1>3, <1>4, <1>6 DEF CatchUp, CatchingUp, At
  <2>2. i + 1 \in Group(h) /\ h # i + 1
    BY <1>4, <1>6 DEF Group
  <2>3. (\E j \in Group(h) : kind[j] = "device")' <=> \E j \in Group(h) : kind[j] = "device"
    BY <1>1
  <2>4. CatchingUp(r, h, i + 1)'
    BY <1>1, <1>2, <1>4, <2>1, <2>2, <2>3 DEF CatchingUp
  <2> QED BY <1>1, <2>1, <2>2, <2>4 DEF Verdict
<1> QED BY <1>5, <1>6

LEMMA CheckInd ==
  ASSUME StepInv(Seen), SeenStep
  PROVE  StepInv(Seen)'
<1> USE DifftestAssumption DEF PCs
<1>1. Basics /\ Checked /\ state = "RUNNING" /\ Within(Seen, dut.pc - 1)
  BY DEF StepInv, SeenStep, Checked, Basics
<1>2. UNCHANGED <<kind, fault, dut>> /\ stepping' = FALSE
  BY <1>1 DEF Checked
<1>3. ASSUME NEW i, i = dut.pc - 1, NEW r, r = Seen, NEW s, s = Seen'
      PROVE  Verdict(s, i + 1)'
  <2>1. i \in PCs /\ dut.pc = i + 1
    BY <1>1, <1>3 DEF Within
  <2>2. \/ CatchUp(r) /\ s = r
        \/ CopyToRef /\ s = At(i + 1)
        \/ Compare(RefExec(r)) /\ s = RefExec(r)
    BY <1>1, <1>3, <2>1 DEF SeenStep, Basics
  <2>3. CASE Copies(i)
    <3>1. CopyToRef /\ Verdict(At(i + 1), i + 1)'
      BY <1>1, <2>1, <2>2, <2>3, Copied
    <3>2. s = At(i + 1)
      BY <2>2, <2>3, <3>1 DEF Copies, CatchUp, Compare
    <3>3. At(i + 1)' = At(i + 1)
      BY <1>2 DEF At, Regs
    <3> QED BY <3>1, <3>2, <3>3 DEF Verdict, CaughtUp, CatchingUp
  <2>4. CASE kind[i] = "plain" /\ CaughtUp(r, i)
    <3>1. Compare(RefExec(r)) /\ Verdict(RefExec(r), i + 1)'
      BY <1>1, <2>1, <2>2, <2>4, Compared
    <3>2. s = RefExec(r)
      BY <2>2, <2>4, <3>1 DEF CaughtUp, CatchUp, CopyToRef
    <3>3. RefExec(r)' = RefExec(r)
      BY <1>2 DEF RefExec
    <3> QED BY <3>1, <3>2, <3>3 DEF Verdict, CaughtUp, CatchingUp
  <2>5. ASSUME kind[i] # "device", NEW h \in PCs, CatchingUp(r, h, i)
        PROVE  Verdict(s, i + 1)'
    <3>1. CatchUp(r) /\ Verdict(r, i + 1)'
      BY <1>1, <2>1, <2>2, <2>5, CaughtUpWith
    <3>2. s = r
      BY <2>2, <2>5, <3>1 DEF CatchUp, CopyToRef, Compare
    <3> QED BY <3>1, <3>2
  <2> QED BY <1>1, <1>3, <2>3, <2>4, <2>5 DEF Within
<1>4. dut' = dut /\ dut.pc = (dut.pc - 1) + 1
  BY <1>1, <1>2 DEF Basics
<1>5. Verdict(Seen, dut.pc)'
  BY <1>3, <1>4
<1>6. Basics'
  BY <1>1, <1>2, <1>5 DEF Basics, At, Regs, Verdict
<1> QED BY <1>2, <1>5, <1>6 DEF StepInv, Verdict, Between

-----------------------------------------------------------------------------
(* Difftest: what it promises *)

LEMMA StepInvInit == NemuInit /\ Seen = dut => StepInv(Seen)
<1> SUFFICES ASSUME NemuInit, Seen = dut PROVE StepInv(Seen)
  OBVIOUS
<1> USE DifftestAssumption DEF PCs
<1>1. Regs(0) = "ok" /\ dut = At(0)
  BY DEF NemuInit, Regs, At
<1>2. CaughtUp(Seen, 0)
  BY <1>1 DEF NemuInit, CaughtUp, Group
<1>3. dut.pc = 0
  BY DEF NemuInit
<1>4. Basics
  <2>1. dut.pc \in 0 .. End
    BY <1>3
  <2>2. dut = At(dut.pc)
    BY <1>1, <1>3
  <2>3. kind \in Programs /\ fault \in PCs \cup {End}
    BY DEF NemuInit
  <2>4. stepping \in BOOLEAN /\ state \in {"RUNNING", "ABORT"}
    BY DEF NemuInit
  <2> QED BY <2>1, <2>2, <2>3, <2>4 DEF Basics
<1> QED BY <1>2, <1>3, <1>4 DEF NemuInit, StepInv, Between

LEMMA SpecStepInv == D!Spec => []StepInv(Seen)
<1>1. D!Init => StepInv(Seen)
  <2>1. D!NemuInit => NemuInit
    BY DEF D!NemuInit, NemuInit, D!Programs, Programs, D!Group, Group, D!PCs, PCs,
           D!Kinds, Kinds
  <2> QED BY <2>1, StepInvInit DEF D!Init, Seen
<1>2. ASSUME StepInv(Seen), [D!Next]_D!vars PROVE StepInv(Seen)'
  <2>1. CASE D!DutExec
    BY <1>2, <2>1, InstanceExec, ExecInd
  <2>2. CASE D!DifftestStep
    BY <1>2, <2>2, InstanceStep, CheckInd
  <2>3. CASE UNCHANGED D!vars
    <3>1. /\ UNCHANGED <<kind, fault, dut, is_skip_ref, skip_dut_nr_inst, state, stepping>>
          /\ Seen' = Seen
      BY <2>3 DEF D!vars, Seen
    <3>2. \A r, i : (CaughtUp(r, i)' <=> CaughtUp(r, i)) /\ (Copies(i)' <=> Copies(i))
      BY <3>1 DEF CaughtUp, Copies, At, Regs, Hidden
    <3>3. \A r, h, i : CatchingUp(r, h, i)' <=> CatchingUp(r, h, i)
      BY <3>1 DEF CatchingUp, Regs, Hidden
    <3> QED BY <1>2, <3>1, <3>2, <3>3
            DEF StepInv, Basics, At, Regs, Shown, Hidden, Between, Within
  <2> QED BY <1>2, <2>1, <2>2, <2>3 DEF D!Next
<1> QED BY <1>1, <1>2, PTL DEF D!Spec

LEMMA StepInvInStep == StepInv(Seen) => D!InStep
<1> SUFFICES ASSUME StepInv(Seen), ~ stepping, state = "RUNNING"
             PROVE  IF skip_dut_nr_inst = 0
                    THEN Seen = dut
                    ELSE Seen.pc \in dut.pc + 1 .. dut.pc + skip_dut_nr_inst
  BY DEF D!InStep, Seen
<1> USE DifftestAssumption DEF PCs
<1>1. CASE CaughtUp(Seen, dut.pc)
  BY <1>1 DEF CaughtUp, StepInv, Basics
<1>2. ASSUME NEW h \in PCs, h # dut.pc, CatchingUp(Seen, h, dut.pc)
      PROVE  /\ skip_dut_nr_inst # 0
             /\ Seen.pc \in dut.pc + 1 .. dut.pc + skip_dut_nr_inst
  BY <1>2 DEF CatchingUp, Group
<1> QED BY <1>1, <1>2 DEF StepInv, Between

LEMMA StepInvMistakesShow == StepInv(Seen) => D!MistakesShow
<1>1. D!Hidden(fault) <=> Hidden(fault)
  BY DEF D!Hidden, Hidden, D!PCs, PCs, D!Group, Group
<1>2. D!MistakesShow <=> state # "PANIC" /\ (state = "ABORT" => Shown(Seen))
  BY <1>1 DEF D!MistakesShow, Shown, Seen
<1> QED BY <1>2 DEF StepInv, Basics

LEMMA StepInvNoMistakePasses == StepInv(Seen) => NoMistakePasses
<1> SUFFICES ASSUME StepInv(Seen), ~ stepping, state = "RUNNING", dut.regs = "wrong",
                    ~ Hidden(fault)
             PROVE  skip_dut_nr_inst > 0
  BY DEF NoMistakePasses
<1> USE DifftestAssumption DEF PCs
<1>1. fault < dut.pc
  BY DEF StepInv, Basics, At, Regs
<1>2. ~ CaughtUp(Seen, dut.pc)
  BY <1>1 DEF CaughtUp
<1>3. PICK h \in PCs : CatchingUp(Seen, h, dut.pc)
  BY <1>2 DEF StepInv, Between
<1> QED BY <1>3 DEF CatchingUp, Group

\* For every program and group length REF, however it is reached, is where
\* NEMU is between two instructions, or as far ahead as the rest of
\* skip_dut_nr_inst covers (dut.c:36-129).
THEOREM Difftest_InStep == D!Spec => []D!InStep
BY SpecStepInv, StepInvInStep, PTL

\* For every program and group length NEMU catches up in time, and the hook of
\* the ISA is shown registers that differ just when NEMU has made a mistake
\* that no device access hid (dut.c:105-128).
THEOREM Difftest_MistakesShow == D!Spec => []D!MistakesShow
BY SpecStepInv, StepInvMistakesShow, PTL

\* For every program and group length, NEMU does not go on past such a mistake
\* but to catch up (dut.c:118-128).
THEOREM Difftest_NoMistakePasses == D!Spec => []NoMistakePasses
BY SpecStepInv, StepInvNoMistakePasses, PTL

-----------------------------------------------------------------------------
(* QEMU: the inductive invariant *)

\* The packets of the image but for the last.
Full == IF Img = 0 THEN 0 ELSE (Img - 1) \div Mtu

\* The image after e packets.
Loaded(e) == IF e <= Full THEN 0 .. e * Mtu - 1 ELSE Image

\* What is left of s after k of it.
Suffix(s, k) == [j \in 1 .. Len(s) - k |-> s[k + j]]

\* QEMU has executed e commands of the call.
Ran(e, op) == \E k \in 1 .. e : Calls[k].op = op

After(e) ==
  /\ Ran(e, "G") => ref = dut
  /\ booted /\ ~ Ran(e, "G") => ref = IF Ran(e, "s") THEN RefExec(before) ELSE before
  /\ memory = IF booted THEN Image ELSE Loaded(e)

Plus  == Sign("+")
Minus == Sign("-")

\* A packet on the wire, understood or not.
Good(what)   == [is |-> "packet", ok |-> TRUE, what |-> what]
Bad          == [is |-> "packet", ok |-> FALSE, what |-> NONE]
Packet(what) == {Good(what), Bad}

\* The wire when no command is on its way: QEMU may still have to read that its
\* last reply was understood.
Quiet == running = NONE /\ toNemu = <<>> /\ toQemu \in {<<>>, <<Plus>>}

\* Command c is not executed yet.
NotYet(c) ==
  \/ phase = "send" /\ Quiet
  \/ /\ phase = "ack" /\ running = NONE /\ toNemu = <<>>
     /\ \E p \in Packet(c) : toQemu \in {<<p>>, <<Plus, p>>}
  \/ phase = "ack" /\ running = NONE /\ toNemu = <<Minus>> /\ toQemu = <<>>
  \/ phase = "ack" /\ running = c /\ toNemu = <<Plus>> /\ toQemu = <<>>
  \/ phase = "recv" /\ running = c /\ toNemu = <<>> /\ toQemu = <<>>

\* Command c is executed, and its reply not received yet.
Answered(c) ==
  /\ running = NONE
  /\ reply = IF c.op = "g" THEN [op |-> "regs", regs |-> ref] ELSE OK
  /\ \/ phase = "ack" /\ toQemu = <<>> /\ \E p \in Packet(reply) : toNemu = <<Plus, p>>
     \/ phase = "recv" /\ toQemu = <<>> /\ \E p \in Packet(reply) : toNemu = <<p>>
     \/ phase = "recv" /\ toQemu = <<Minus>> /\ toNemu = <<>>

\* NEMU has k commands of the call behind it.
InCall(k) ==
  /\ left = Suffix(Calls, k)
  /\ \/ NotYet(Calls[k + 1]) /\ After(k)
     \/ Answered(Calls[k + 1]) /\ After(k + 1)

IdleInv == phase = "idle" /\ Quiet /\ memory = IF booted THEN Image ELSE {}

DoneInv ==
  /\ phase = "done" /\ Quiet
  /\ Calls # <<>> /\ After(Len(Calls))
  /\ Calls[Len(Calls)].op = "g" => got = ref

WireInv ==
  /\ booted \in BOOLEAN
  /\ ~ booted => before = dut
  /\ IdleInv \/ (\E k \in 0 .. Len(Calls) - 1 : InCall(k)) \/ DoneInv

-----------------------------------------------------------------------------
(* QEMU: sequences *)

LEMMA Wires ==
  ASSUME NEW a, NEW b
  PROVE  /\ Append(<<>>, a) = <<a>> /\ Append(<<a>>, b) = <<a, b>>
         /\ Head(<<a>>) = a /\ Tail(<<a>>) = <<>> /\ <<a>> # <<>>
         /\ Head(<<a, b>>) = a /\ Tail(<<a, b>>) = <<b>> /\ <<a, b>> # <<>>
<1>1. Append(<<>>, a) = <<a>>
  OBVIOUS
<1>2. Append(<<a>>, b) = <<a, b>>
  <2>1. Append(<<a>>, b) = [i \in 1 .. 2 |-> IF i = 1 THEN a ELSE b]
    OBVIOUS
  <2>2. <<a, b>> = [i \in 1 .. 2 |-> IF i = 1 THEN a ELSE b]
    OBVIOUS
  <2> QED BY <2>1, <2>2
<1>3. Head(<<a>>) = a /\ Tail(<<a>>) = <<>> /\ <<a>> # <<>>
  OBVIOUS
<1>4. Head(<<a, b>>) = a /\ Tail(<<a, b>>) = <<b>> /\ <<a, b>> # <<>>
  OBVIOUS
<1> QED BY <1>1, <1>2, <1>3, <1>4

LEMMA Concats ==
  ASSUME NEW m \in Nat, NEW n \in Nat, NEW s, NEW t,
         s = [i \in 1 .. m |-> s[i]], t = [i \in 1 .. n |-> t[i]]
  PROVE  s \o t = [i \in 1 .. m + n |-> IF i <= m THEN s[i] ELSE t[i - m]]
<1>1. Len(s) = m /\ Len(t) = n
  OBVIOUS
<1> QED BY <1>1

LEMMA Pairs ==
  ASSUME NEW a, NEW b
  PROVE  <<a>> \o <<b>> = <<a, b>>
<1>1. <<a>> = [i \in 1 .. 1 |-> <<a>>[i]] /\ <<b>> = [i \in 1 .. 1 |-> <<b>>[i]]
  OBVIOUS
<1>2. <<a>> \o <<b>> = [i \in 1 .. 1 + 1 |-> IF i <= 1 THEN <<a>>[i] ELSE <<b>>[i - 1]]
  BY <1>1, Concats
<1>3. <<a, b>> = [i \in 1 .. 1 + 1 |-> IF i <= 1 THEN <<a>>[i] ELSE <<b>>[i - 1]]
  OBVIOUS
<1> QED BY <1>2, <1>3

LEMMA ShortTuples ==
  ASSUME NEW a, NEW b
  PROVE  /\ Len(<<a>>) = 1 /\ <<a>> = [i \in 1 .. 1 |-> <<a>>[i]] /\ <<a>>[1] = a
         /\ Len(<<a, b>>) = 2 /\ <<a, b>> = [i \in 1 .. 2 |-> <<a, b>>[i]]
         /\ <<a, b>>[1] = a /\ <<a, b>>[2] = b
OBVIOUS

LEMMA Suffixes ==
  ASSUME NEW n \in Nat, NEW s, s = [i \in 1 .. n |-> s[i]], NEW k \in 0 .. n
  PROVE  /\ Suffix(s, 0) = s
         /\ k < n => /\ Suffix(s, k) # <<>> /\ Head(Suffix(s, k)) = s[k + 1]
                     /\ Tail(Suffix(s, k)) = Suffix(s, k + 1)
         /\ Suffix(s, n) = <<>>
<1>1. Len(s) = n
  OBVIOUS
<1>2. Suffix(s, 0) = s
  BY <1>1 DEF Suffix
<1>3. ASSUME k < n PROVE Suffix(s, k) # <<>> /\ Head(Suffix(s, k)) = s[k + 1]
  BY <1>1, <1>3 DEF Suffix
<1>4. ASSUME k < n PROVE Tail(Suffix(s, k)) = Suffix(s, k + 1)
  BY <1>1, <1>4 DEF Suffix
<1>5. Suffix(s, n) = <<>>
  BY <1>1 DEF Suffix
<1> QED BY <1>2, <1>3, <1>4, <1>5

\* The call of init_difftest().
Boots == Full + 3
Boot  ==
  [i \in 1 .. Boots |->
     IF i <= Full + 1
     THEN [op |-> "M", bytes |-> (i - 1) * Mtu .. (IF i <= Full THEN i * Mtu ELSE Img) - 1]
     ELSE IF i = Full + 2 THEN [op |-> "g"] ELSE [op |-> "G", regs |-> dut]]

LEMMA FullNat == Full \in Nat /\ Full * Mtu \in 0 .. Img
<1> USE QemuAssumption DEF Full
<1>1. CASE Img = 0
  BY <1>1
<1>2. CASE Img # 0
  <2>1. (Img - 1) \div Mtu \in Nat
    BY <1>2
  <2>2. ((Img - 1) \div Mtu) * Mtu <= Img - 1
    BY <1>2
  <2>3. ((Img - 1) \div Mtu) * Mtu \in Nat
    BY <2>1
  <2> QED BY <1>2, <2>1, <2>2, <2>3
<1> QED BY <1>1, <1>2

LEMMA BootCalls ==
  ASSUME ~ booted
  PROVE  Calls = Boot
<1>1. Full \in Nat
  BY FullNat
<1>2. MemcpyPackets =
        [i \in 1 .. Full + 1 |->
           [op |-> "M", bytes |-> (i - 1) * Mtu .. (IF i <= Full THEN i * Mtu ELSE Img) - 1]]
  BY DEF MemcpyPackets, Full
<1>3. SetRegs = <<[op |-> "g"], [op |-> "G", regs |-> dut]>>
  BY Pairs DEF SetRegs, GetRegs
<1>4. MemcpyPackets = [i \in 1 .. Full + 1 |-> MemcpyPackets[i]]
  BY <1>2
<1>5. SetRegs = [i \in 1 .. 2 |-> SetRegs[i]]
  BY <1>3
<1>6. MemcpyPackets \o SetRegs =
        [i \in 1 .. (Full + 1) + 2 |->
           IF i <= Full + 1 THEN MemcpyPackets[i] ELSE SetRegs[i - (Full + 1)]]
  BY <1>1, <1>4, <1>5, Concats, SMTT(30)
<1>7. (Full + 1) + 2 = Boots
  BY <1>1 DEF Boots
<1>8. ASSUME NEW i \in 1 .. Boots
      PROVE  Boot[i] = IF i <= Full + 1 THEN MemcpyPackets[i] ELSE SetRegs[i - (Full + 1)]
  <2>1. CASE i <= Full + 1
    BY <1>1, <1>2, <1>8, <2>1 DEF Boot
  <2>2. CASE i = Full + 2
    BY <1>1, <1>3, <1>8, <2>2 DEF Boot
  <2>3. CASE i = Full + 3
    BY <1>1, <1>3, <1>8, <2>3 DEF Boot
  <2> QED BY <1>1, <1>8, <2>1, <2>2, <2>3 DEF Boots
<1>9. Boot = [i \in 1 .. Boots |-> Boot[i]]
  BY DEF Boot
<1> QED BY <1>6, <1>7, <1>8, <1>9 DEF Calls

LEMMA OtherCalls ==
  ASSUME booted
  PROVE  \/ ~ stepping /\ dut.pc < End /\ kind[dut.pc] = "head" /\ Calls = <<[op |-> "s"]>>
         \/ ~ stepping /\ ~ (dut.pc < End /\ kind[dut.pc] = "head") /\ Calls = <<>>
         \/ stepping /\ skip_dut_nr_inst > 0 /\ Calls = <<[op |-> "g"]>>
         \/ /\ stepping /\ ~ (skip_dut_nr_inst > 0) /\ is_skip_ref
            /\ Calls = <<[op |-> "g"], [op |-> "G", regs |-> dut]>>
         \/ /\ stepping /\ ~ (skip_dut_nr_inst > 0) /\ ~ is_skip_ref
            /\ Calls = <<[op |-> "s"], [op |-> "g"]>>
<1>1. SetRegs = <<[op |-> "g"], [op |-> "G", regs |-> dut]>>
  BY Pairs DEF SetRegs, GetRegs
<1>2. Exec \o GetRegs = <<[op |-> "s"], [op |-> "g"]>>
  BY Pairs DEF Exec, GetRegs
<1> QED BY <1>1, <1>2 DEF Calls, Exec, GetRegs

LEMMA ShortCalls ==
  ASSUME booted
  PROVE  \/ Calls = <<>>
         \/ Calls = <<[op |-> "s"]>>
         \/ Calls = <<[op |-> "g"]>>
         \/ Calls = <<[op |-> "g"], [op |-> "G", regs |-> dut]>>
         \/ Calls = <<[op |-> "s"], [op |-> "g"]>>
BY OtherCalls

\* What the calls are made of.
LEMMA CallsShape ==
  /\ Len(Calls) \in Nat
  /\ Calls = [i \in 1 .. Len(Calls) |-> Calls[i]]
  /\ Calls = <<>> <=> Len(Calls) = 0
  /\ ~ booted => Len(Calls) = Boots
<1>1. CASE ~ booted
  <2>1. Boots \in Nat \ {0}
    BY FullNat DEF Boots
  <2>2. Len(Boot) = Boots /\ Boot # <<>> /\ Boot = [i \in 1 .. Boots |-> Boot[i]]
    BY <2>1 DEF Boot
  <2> QED BY <1>1, <2>1, <2>2, BootCalls
<1>2. ASSUME NEW a, Calls = <<a>>
      PROVE  /\ Len(Calls) \in Nat \ {0} /\ Calls # <<>>
             /\ Calls = [i \in 1 .. Len(Calls) |-> Calls[i]]
  BY <1>2, ShortTuples
<1>3. ASSUME NEW a, NEW b, Calls = <<a, b>>
      PROVE  /\ Len(Calls) \in Nat \ {0} /\ Calls # <<>>
             /\ Calls = [i \in 1 .. Len(Calls) |-> Calls[i]]
  BY <1>3, ShortTuples
<1>4. ASSUME Calls = <<>>
      PROVE  Len(Calls) = 0 /\ Calls = [i \in 1 .. Len(Calls) |-> Calls[i]]
  <2>1. Len(Calls) = 0
    BY <1>4
  <2>2. <<>> = [i \in 1 .. 0 |-> Calls[i]]
    OBVIOUS
  <2> QED BY <1>4, <2>1, <2>2
<1>5. CASE booted
  <2>1. CASE Calls = <<>>
    BY <1>4, <1>5, <2>1
  <2>2. CASE Calls # <<>>
    <3>1. \/ \E a : Calls = <<a>>
          \/ \E a, b : Calls = <<a, b>>
      BY <1>5, <2>2, ShortCalls
    <3>2. Len(Calls) \in Nat \ {0} /\ Calls = [i \in 1 .. Len(Calls) |-> Calls[i]]
      BY <1>2, <1>3, <3>1
    <3> QED BY <1>5, <2>2, <3>2
  <2> QED BY <2>1, <2>2
<1> QED BY <1>1, <1>5

LEMMA CommandShape ==
  ASSUME NEW k \in 1 .. Len(Calls)
  PROVE  /\ Calls[k].op \in {"M", "s", "g", "G"}
         /\ Calls[k].op = "s" => booted /\ k = 1
         /\ Calls[k].op = "G" => Calls[k].regs = dut /\ k = Len(Calls)
         /\ Calls[k].op = "M" =>
              /\ ~ booted /\ k <= Full + 1
              /\ Calls[k].bytes = (k - 1) * Mtu .. (IF k <= Full THEN k * Mtu ELSE Img) - 1
         /\ ~ booted /\ k <= Full + 1 => Calls[k].op = "M"
         /\ Calls[k] # NONE
<1>1. CASE ~ booted
  <2>1. Len(Calls) = Boots /\ Calls[k] = Boot[k] /\ k \in 1 .. Boots
    BY <1>1, CallsShape, BootCalls
  <2>2. CASE k <= Full + 1
    <3>1. Calls[k] =
            [op |-> "M", bytes |-> (k - 1) * Mtu .. (IF k <= Full THEN k * Mtu ELSE Img) - 1]
      BY <2>1, <2>2 DEF Boot
    <3> QED BY <1>1, <2>2, <3>1 DEF NONE
  <2>3. CASE k = Full + 2
    <3>1. Calls[k] = [op |-> "g"]
      BY <2>1, <2>3, FullNat DEF Boot
    <3> QED BY <2>3, <3>1, FullNat DEF NONE
  <2>4. CASE k = Full + 3
    <3>1. Calls[k] = [op |-> "G", regs |-> dut]
      BY <2>1, <2>4, FullNat DEF Boot
    <3> QED BY <2>1, <2>4, <3>1, FullNat DEF Boots, NONE
  <2> QED BY <2>1, <2>2, <2>3, <2>4, FullNat DEF Boots
<1>2. CASE booted
  <2>1. CASE Calls = <<>>
    BY <2>1
  <2>2. CASE Calls = <<[op |-> "s"]>>
    <3>1. k = 1 /\ Calls[k] = [op |-> "s"]
      BY <2>2, ShortTuples
    <3> QED BY <1>2, <3>1 DEF NONE
  <2>3. CASE Calls = <<[op |-> "g"]>>
    <3>1. Calls[k] = [op |-> "g"]
      BY <2>3, ShortTuples
    <3> QED BY <1>2, <3>1 DEF NONE
  <2>4. CASE Calls = <<[op |-> "g"], [op |-> "G", regs |-> dut]>>
    <3>1. /\ Len(Calls) = 2
          /\ \/ Calls[k] = [op |-> "g"]
             \/ k = 2 /\ Calls[k] = [op |-> "G", regs |-> dut]
      BY <2>4, ShortTuples
    <3> QED BY <1>2, <3>1 DEF NONE
  <2>5. CASE Calls = <<[op |-> "s"], [op |-> "g"]>>
    <3>1. \/ k = 1 /\ Calls[k] = [op |-> "s"]
          \/ Calls[k] = [op |-> "g"]
      BY <2>5, ShortTuples
    <3> QED BY <1>2, <3>1 DEF NONE
  <2> QED BY <1>2, <2>1, <2>2, <2>3, <2>4, <2>5, ShortCalls
<1> QED BY <1>1, <1>2

-----------------------------------------------------------------------------
(* QEMU: NEMU's side of the wire *)

LEMMA CallsKept ==
  ASSUME UNCHANGED <<local, booted>>
  PROVE  Calls' = Calls
BY DEF local, Calls, MemcpyPackets, SetRegs, GetRegs, Exec

LEMMA AfterKept ==
  ASSUME UNCHANGED <<local, booted, ref, before, memory>>, NEW e
  PROVE  After(e)' <=> After(e)
<1>1. Calls' = Calls
  BY CallsKept
<1>2. RefExec(before)' = RefExec(before)
  BY DEF local, RefExec
<1> QED BY <1>1, <1>2 DEF local, After, Ran

\* A step within the call.
LEMMA CallInd ==
  ASSUME WireInv, UNCHANGED <<local, booted, left, before>>,
         NEW k \in 0 .. Len(Calls) - 1, left = Suffix(Calls, k),
         NEW c, c = Calls[k + 1],
         (NotYet(c)' /\ After(k)') \/ (Answered(c)' /\ After(k + 1)')
  PROVE  WireInv'
<1>1. Calls' = Calls
  BY CallsKept
<1>2. InCall(k)'
  BY <1>1 DEF InCall, Suffix
<1>3. (~ booted => before = dut)' /\ booted' \in BOOLEAN
  BY DEF WireInv, local
<1> QED BY <1>1, <1>2, <1>3 DEF WireInv

\* The command in hand.
LEMMA CommandInHand ==
  ASSUME NEW k \in 0 .. Len(Calls) - 1, left = Suffix(Calls, k)
  PROVE  /\ left # <<>> /\ Head(left) = Calls[k + 1] /\ Tail(left) = Suffix(Calls, k + 1)
         /\ Suffix(Calls, k + 1) = <<>> <=> k + 1 = Len(Calls)
         /\ k + 1 \in 1 .. Len(Calls)
<1> DEFINE n == Len(Calls)
<1>1. n \in Nat /\ Calls = [i \in 1 .. n |-> Calls[i]]
  BY CallsShape
<1>2. left # <<>> /\ Head(left) = Calls[k + 1] /\ Tail(left) = Suffix(Calls, k + 1)
  BY <1>1, Suffixes
<1>3. Suffix(Calls, n) = <<>>
  BY <1>1, Suffixes
<1>4. k + 1 < n => Suffix(Calls, k + 1) # <<>>
  BY <1>1, Suffixes
<1> QED BY <1>1, <1>2, <1>3, <1>4

LEMMA BeginInd ==
  ASSUME WireInv, Begin
  PROVE  WireInv'
<1>1. UNCHANGED <<local, booted, ref, memory>> /\ phase = "idle" /\ phase' = "send"
  BY DEF Begin, vars, local
<1>2. Calls' = Calls /\ Calls # <<>> /\ left' = Calls
  BY <1>1, CallsKept DEF Begin
<1>3. IdleInv
  BY <1>1 DEF WireInv, InCall, NotYet, Answered, DoneInv
<1>4. Quiet'
  BY <1>3 DEF Begin, IdleInv, Quiet
<1>5. (~ booted => before = dut)' /\ booted' \in BOOLEAN
  BY <1>1 DEF WireInv, Begin, local
<1>6. Full \in Nat /\ Loaded(0) = {}
  BY FullNat, QemuAssumption DEF Loaded
<1>7. After(0)'
  <2>1. ~ Ran(0, "G")' /\ ~ Ran(0, "s")'
    BY DEF Ran
  <2>2. memory' = IF booted' THEN Image ELSE Loaded(0)
    BY <1>1, <1>3, <1>6 DEF IdleInv
  <2>3. booted' => ref' = before'
    BY <1>1 DEF Begin
  <2> QED BY <2>1, <2>2, <2>3 DEF After
<1>8. Len(Calls) \in Nat \ {0} /\ left' = Suffix(Calls, 0)
  BY <1>2, CallsShape, Suffixes
<1>9. InCall(0)'
  BY <1>1, <1>2, <1>4, <1>7, <1>8 DEF InCall, NotYet, Suffix
<1> QED BY <1>2, <1>5, <1>8, <1>9 DEF WireInv

\* What comes out of the wire.
LEMMA Arrivals ==
  ASSUME NEW what
  PROVE  Arrives(what) \subseteq Packet(what)
BY DEF Arrives, Packet, Good, Bad

LEMMA SendInd ==
  ASSUME WireInv, Send
  PROVE  WireInv'
<1>1. UNCHANGED <<local, booted, left, before, ref, memory>>
  BY DEF Send, vars, local
<1>2. PICK k \in 0 .. Len(Calls) - 1 : InCall(k)
  BY DEF WireInv, Send, IdleInv, DoneInv
<1>3. left = Suffix(Calls, k) /\ Quiet /\ After(k)
  BY <1>2 DEF InCall, NotYet, Answered, Send
<1>4. ASSUME NEW c, c = Calls[k + 1] PROVE NotYet(c)'
  <2>1. Head(left) = c
    BY <1>3, <1>4, CommandInHand
  <2>2. PICK p \in Packet(c) : toQemu' = Append(toQemu, p)
    BY <2>1, Arrivals DEF Send, SendPacket
  <2>3. toQemu' \in {<<p>>, <<Plus, p>>}
    BY <1>3, <2>2, Wires DEF Quiet
  <2> QED BY <1>3, <2>3 DEF NotYet, Send, Quiet, Packet, Good, Plus, Sign
<1>5. After(k)'
  BY <1>1, <1>3, AfterKept
<1> QED BY <1>1, <1>3, <1>4, <1>5, CallInd

\* A sign came: NEMU waits for the reply, or sends the command again.
LEMMA AckInd ==
  ASSUME WireInv, Ack
  PROVE  WireInv'
<1>1. /\ UNCHANGED <<local, booted, left, before, ref, memory, toQemu, running, reply>>
      /\ phase = "ack"
  BY DEF Ack, vars, local
<1>2. PICK k \in 0 .. Len(Calls) - 1 : InCall(k)
  BY <1>1 DEF WireInv, IdleInv, DoneInv
<1>3. (After(k)' <=> After(k)) /\ (After(k + 1)' <=> After(k + 1))
  BY <1>1, AfterKept
<1>4. ASSUME NEW c, c = Calls[k + 1]
      PROVE  (NotYet(c)' /\ After(k)') \/ (Answered(c)' /\ After(k + 1)')
  <2>1. CASE After(k) /\ running = NONE /\ toNemu = <<Minus>> /\ toQemu = <<>>
    <3>1. phase' = "send" /\ toNemu' = <<>>
      BY <2>1, Wires DEF Ack, Minus, Sign
    <3> QED BY <1>1, <1>3, <2>1, <3>1 DEF NotYet, Quiet
  <2>2. CASE After(k) /\ running = c /\ toNemu = <<Plus>> /\ toQemu = <<>>
    <3>1. phase' = "recv" /\ toNemu' = <<>>
      BY <2>2, Wires DEF Ack, Plus, Sign
    <3> QED BY <1>1, <1>3, <2>2, <3>1 DEF NotYet
  <2>3. CASE After(k + 1) /\ Answered(c)
    <3>1. toQemu = <<>>
      BY <1>1, <2>3 DEF Answered
    <3>2. PICK p \in Packet(reply) : toNemu = <<Plus, p>>
      BY <1>1, <2>3 DEF Answered
    <3>3. phase' = "recv" /\ toNemu' = <<p>>
      BY <3>2, Wires DEF Ack, Plus, Sign
    <3> QED BY <1>1, <1>3, <2>3, <3>1, <3>2, <3>3 DEF Answered, Packet, Good, Bad
  <2> QED BY <1>1, <1>2, <1>4, <2>1, <2>2, <2>3 DEF InCall, NotYet, Ack
<1> QED BY <1>1, <1>2, <1>4, CallInd DEF InCall

\* The states in which NEMU reads a packet.
LEMMA Receiving ==
  ASSUME WireInv, phase = "recv", toNemu # <<>>
  PROVE  \E k \in 0 .. Len(Calls) - 1 :
           /\ left = Suffix(Calls, k) /\ After(k + 1) /\ Answered(Calls[k + 1])
           /\ toQemu = <<>> /\ \E p \in Packet(reply) : toNemu = <<p>>
<1>1. PICK k \in 0 .. Len(Calls) - 1 : InCall(k)
  BY DEF WireInv, IdleInv, DoneInv
<1>2. Answered(Calls[k + 1]) /\ After(k + 1)
  BY <1>1 DEF InCall, NotYet
<1> QED BY <1>1, <1>2 DEF InCall, Answered

LEMMA RecvBadInd ==
  ASSUME WireInv, RecvBad
  PROVE  WireInv'
<1>1. UNCHANGED <<local, booted, left, before, ref, memory, running, reply, phase>>
  BY DEF RecvBad, vars, local, call
<1>2. PICK k \in 0 .. Len(Calls) - 1 :
           /\ left = Suffix(Calls, k) /\ After(k + 1) /\ Answered(Calls[k + 1])
           /\ toQemu = <<>> /\ \E p \in Packet(reply) : toNemu = <<p>>
  BY Receiving DEF RecvBad
<1>3. toNemu' = <<>> /\ toQemu' = <<Minus>>
  BY <1>2, Wires DEF RecvBad, Minus
<1>4. After(k + 1)'
  BY <1>1, <1>2, AfterKept
<1>5. ASSUME NEW c, c = Calls[k + 1] PROVE Answered(c)'
  BY <1>1, <1>2, <1>3, <1>5 DEF Answered, RecvBad
<1> QED BY <1>1, <1>2, <1>4, <1>5, CallInd

\* A reply that NEMU understands ends the command, and the call if it was the
\* last.
LEMMA RecvInd ==
  ASSUME WireInv, Recv
  PROVE  WireInv'
<1>1. UNCHANGED <<local, booted, before, ref, memory, running, reply>>
  BY DEF Recv, vars, local
<1>2. PICK k \in 0 .. Len(Calls) - 1 :
           /\ left = Suffix(Calls, k) /\ After(k + 1) /\ Answered(Calls[k + 1])
           /\ toQemu = <<>> /\ \E p \in Packet(reply) : toNemu = <<p>>
  BY Receiving DEF Recv
<1>3. PICK p \in Packet(reply) : toNemu = <<p>>
  BY <1>2
<1>4. p = Good(reply) /\ toNemu' = <<>> /\ toQemu' = <<Plus>>
  BY <1>2, <1>3, Wires DEF Recv, Plus, Packet, Good, Bad
<1>5. Quiet'
  BY <1>1, <1>2, <1>4 DEF Quiet, Answered
<1>6. /\ Head(left) = Calls[k + 1] /\ left' = Suffix(Calls, k + 1)
      /\ left' = <<>> <=> k + 1 = Len(Calls)
      /\ k + 1 \in 1 .. Len(Calls)
  BY <1>2, CommandInHand DEF Recv
<1>7. After(k + 1)'
  BY <1>1, <1>2, AfterKept
<1>8. Calls' = Calls
  BY <1>1, CallsKept
<1>9. (~ booted => before = dut)' /\ booted' \in BOOLEAN
  BY <1>1 DEF WireInv, local
<1>10. CASE k + 1 = Len(Calls)
  <2>1. phase' = "done"
    BY <1>6, <1>10 DEF Recv
  <2>2. ASSUME Calls[k + 1].op = "g" PROVE got' = ref
    <3>1. got' = Head(toNemu).what.regs /\ Head(toNemu) = Good(reply)
      BY <1>3, <1>4, <1>6, <2>2, Wires DEF Recv
    <3>2. reply.regs = ref
      BY <1>2, <2>2 DEF Answered
    <3> QED BY <3>1, <3>2 DEF Good
  <2>3. Calls # <<>>
    BY <1>6, CallsShape
  <2>4. DoneInv'
    BY <1>1, <1>5, <1>7, <1>8, <1>10, <2>1, <2>2, <2>3 DEF DoneInv
  <2> QED BY <1>9, <2>4 DEF WireInv
<1>11. CASE k + 1 # Len(Calls)
  <2>1. phase' = "send"
    BY <1>6, <1>11 DEF Recv
  <2>2. k + 1 \in 0 .. Len(Calls) - 1
    BY <1>6, <1>11, CallsShape
  <2>3. InCall(k + 1)'
    BY <1>5, <1>6, <1>7, <1>8, <2>1 DEF InCall, NotYet, Suffix
  <2> QED BY <1>8, <1>9, <2>2, <2>3 DEF WireInv
<1> QED BY <1>10, <1>11

\* init_difftest() returns.
LEMMA BootedInd ==
  ASSUME WireInv, Booted
  PROVE  WireInv'
<1>1. DoneInv
  BY DEF WireInv, Booted, IdleInv, InCall, NotYet, Answered
<1>2. Len(Calls) > Full
  BY CallsShape, FullNat DEF Booted, Boots
<1>3. memory = Image
  BY <1>1, <1>2, CallsShape, FullNat DEF DoneInv, After, Loaded, Booted
<1>4. IdleInv'
  BY <1>1, <1>3 DEF DoneInv, Quiet, IdleInv, Booted
<1> QED BY <1>4 DEF WireInv, Booted

LEMMA GoesInd ==
  ASSUME WireInv, Goes
  PROVE  WireInv'
<1>1. Quiet /\ memory = Image
  BY DEF WireInv, Goes, IdleInv, DoneInv, InCall, NotYet, Answered, After
<1>2. IdleInv'
  BY <1>1 DEF Quiet, IdleInv, Goes
<1> QED BY <1>2 DEF WireInv, Goes

-----------------------------------------------------------------------------
(* QEMU: QEMU's side of the wire *)

\* A command does to the registers and the memory what it says.
LEMMA Executes ==
  ASSUME WireInv, Execute,
         NEW k \in 0 .. Len(Calls) - 1, After(k),
         NEW c, c = Calls[k + 1], running = c
  PROVE  After(k + 1)'
<1>1. UNCHANGED <<local, booted, before>> /\ booted \in BOOLEAN
  BY DEF Execute, local, call, WireInv
<1>2. Calls' = Calls /\ RefExec(before)' = RefExec(before) /\ dut' = dut
  BY <1>1, CallsKept DEF local, RefExec
<1>3. k + 1 \in 1 .. Len(Calls) /\ k \in Nat
  BY CallsShape
<1>4. /\ c.op \in {"M", "s", "g", "G"}
      /\ c.op = "s" => booted /\ k + 1 = 1
      /\ c.op = "G" => c.regs = dut /\ k + 1 = Len(Calls)
      /\ c.op = "M" =>
           /\ ~ booted /\ k + 1 <= Full + 1
           /\ c.bytes = ((k + 1) - 1) * Mtu .. (IF k + 1 <= Full THEN (k + 1) * Mtu ELSE Img) - 1
      /\ ~ booted /\ k + 1 <= Full + 1 => c.op = "M"
  BY <1>3, CommandShape
<1>5. \A o : Ran(k + 1, o)' <=> Ran(k, o) \/ c.op = o
  BY <1>2, <1>3 DEF Ran
<1>6. memory' = IF booted THEN Image ELSE Loaded(k + 1)
  <2>1. CASE c.op = "M"
    <3>1. memory' = Loaded(k) \cup c.bytes /\ k <= Full
      BY <1>3, <1>4, <2>1, FullNat DEF Execute, After
    <3>2. Loaded(k) = 0 .. k * Mtu - 1
      BY <3>1 DEF Loaded
    <3>3. k * Mtu \in Nat /\ (k + 1) * Mtu = k * Mtu + Mtu /\ ((k + 1) - 1) * Mtu = k * Mtu
      BY <1>3, QemuAssumption
    <3>4. CASE k + 1 <= Full
      <4>1. Loaded(k + 1) = 0 .. (k + 1) * Mtu - 1
        BY <3>4 DEF Loaded
      <4>2. c.bytes = k * Mtu .. (k + 1) * Mtu - 1
        BY <1>4, <2>1, <3>3, <3>4
      <4> QED BY <1>4, <2>1, <3>1, <3>2, <3>3, <4>1, <4>2, QemuAssumption
    <3>5. CASE k + 1 > Full
      <4>1. k = Full
        BY <1>3, <3>1, <3>5, FullNat
      <4>2. Loaded(k + 1) = Image /\ k * Mtu <= Img
        BY <3>5, <4>1, FullNat DEF Loaded
      <4>3. c.bytes = k * Mtu .. Img - 1
        BY <1>4, <2>1, <3>3, <3>5, FullNat
      <4> QED BY <1>4, <2>1, <3>1, <3>2, <3>3, <4>2, <4>3, QemuAssumption DEF Image
    <3> QED BY <1>3, <3>4, <3>5, FullNat
  <2>2. CASE c.op # "M"
    <3>1. memory' = IF booted THEN Image ELSE Loaded(k)
      BY <2>2 DEF Execute, After
    <3>2. ~ booted => k > Full
      BY <1>3, <1>4, <2>2, FullNat
    <3> QED BY <1>3, <3>1, <3>2, FullNat DEF Loaded
  <2> QED BY <2>1, <2>2
<1>7. CASE c.op = "s"
  <2>1. ~ Ran(k, "G") /\ ~ Ran(k, "s") /\ booted
    BY <1>3, <1>4, <1>7 DEF Ran
  <2>2. ref = before /\ memory = Image
    BY <2>1 DEF After
  <2>3. ref' = RefExec(before)
    BY <1>7, <2>2 DEF Execute, Steps
  <2> QED BY <1>1, <1>2, <1>5, <1>6, <1>7, <2>1, <2>3 DEF After
<1>8. CASE c.op = "G"
  <2>1. ref' = dut
    BY <1>4, <1>8 DEF Execute
  <2> QED BY <1>1, <1>2, <1>5, <1>6, <1>8, <2>1 DEF After
<1>9. CASE c.op \in {"M", "g"}
  <2>1. ref' = ref
    BY <1>9 DEF Execute
  <2> QED BY <1>1, <1>2, <1>5, <1>6, <1>9, <2>1 DEF After
<1> QED BY <1>4, <1>7, <1>8, <1>9

LEMMA ExecuteInd ==
  ASSUME WireInv, Execute
  PROVE  WireInv'
<1>1. UNCHANGED <<local, booted, left, before, phase, toQemu>> /\ running # NONE
  BY DEF Execute, local, call
<1>2. PICK k \in 0 .. Len(Calls) - 1 : InCall(k)
  BY <1>1 DEF WireInv, IdleInv, DoneInv, Quiet
<1>3. ASSUME NEW c, c = Calls[k + 1]
      PROVE  Answered(c)' /\ After(k + 1)'
  <2>1. /\ running = c /\ toQemu = <<>> /\ After(k)
        /\ \/ phase = "ack" /\ toNemu = <<Plus>>
           \/ phase = "recv" /\ toNemu = <<>>
    BY <1>1, <1>2, <1>3 DEF InCall, NotYet, Quiet, Answered
  <2>2. After(k + 1)'
    BY <1>3, <2>1, Executes
  <2>3. running' = NONE /\ reply' = IF c.op = "g" THEN [op |-> "regs", regs |-> ref] ELSE OK
    BY <2>1 DEF Execute
  <2>4. c.op = "g" => ref' = ref
    BY <2>1 DEF Execute
  <2>5. PICK p \in Packet(reply') : toNemu' = Append(toNemu, p)
    BY Arrivals DEF Execute, SendPacket
  <2>6. CASE phase = "ack"
    <3>1. toNemu' = <<Plus, p>>
      BY <2>1, <2>5, <2>6, Wires
    <3> QED BY <1>1, <2>1, <2>2, <2>3, <2>4, <2>5, <2>6, <3>1 DEF Answered, Packet, Good, Bad
  <2>7. CASE phase = "recv"
    <3>1. toNemu' = <<p>>
      BY <2>1, <2>5, <2>7, Wires
    <3> QED BY <1>1, <2>1, <2>2, <2>3, <2>4, <2>5, <2>7, <3>1 DEF Answered, Packet, Good, Bad
  <2> QED BY <2>1, <2>6, <2>7
<1> QED BY <1>1, <1>2, <1>3, CallInd DEF InCall

\* QEMU reads a sign or a packet.
LEMMA Reads ==
  ASSUME Listen
  PROVE  /\ running = NONE /\ toQemu # <<>> /\ toQemu' = Tail(toQemu)
         /\ Head(toQemu) = Plus => UNCHANGED <<toNemu, running>>
         /\ \A c : Head(toQemu) = Good(c) => running' = c /\ toNemu' = Append(toNemu, Plus)
         /\ Head(toQemu) = Bad => UNCHANGED running /\ toNemu' = Append(toNemu, Minus)
         /\ Head(toQemu) = Minus => SendPacket(toNemu, reply) /\ UNCHANGED running
<1>1. ASSUME Head(toQemu) = Plus PROVE UNCHANGED <<toNemu, running>>
  <2>1. Head(toQemu).is = "+"
    BY <1>1 DEF Plus, Sign
  <2> QED BY <2>1 DEF Listen
<1>2. ASSUME Head(toQemu) = Minus PROVE SendPacket(toNemu, reply) /\ UNCHANGED running
  <2>1. Head(toQemu).is = "-"
    BY <1>2 DEF Minus, Sign
  <2> QED BY <2>1 DEF Listen
<1>3. ASSUME Head(toQemu) = Bad
      PROVE  UNCHANGED running /\ toNemu' = Append(toNemu, Minus)
  <2>1. Head(toQemu).is = "packet" /\ ~ Head(toQemu).ok
    BY <1>3 DEF Bad
  <2>2. NotUnderstood
    BY <2>1 DEF Listen
  <2> QED BY <2>2 DEF NotUnderstood, Minus
<1>4. ASSUME NEW c, Head(toQemu) = Good(c)
      PROVE  running' = c /\ toNemu' = Append(toNemu, Plus)
  <2>1. Head(toQemu).is = "packet" /\ Head(toQemu).ok /\ Head(toQemu).what = c
    BY <1>4 DEF Good
  <2>2. Understood
    BY <2>1 DEF Listen
  <2> QED BY <2>1, <2>2 DEF Understood, Plus
<1> QED BY <1>1, <1>2, <1>3, <1>4 DEF Listen

LEMMA QuietReads ==
  ASSUME Listen, Quiet
  PROVE  Quiet'
BY Reads, Wires DEF Quiet

LEMMA ListenInd ==
  ASSUME WireInv, Listen
  PROVE  WireInv'
<1>1. UNCHANGED <<local, ref, booted, left, phase, got, before, reply, memory>>
  BY DEF Listen, vars, local, call
<1>2. Calls' = Calls
  BY <1>1, CallsKept
<1>3. \A e : After(e)' <=> After(e)
  BY <1>1, AfterKept
<1>4. (~ booted => before = dut)' /\ booted' \in BOOLEAN
  BY <1>1 DEF WireInv, local
<1>5. CASE IdleInv
  BY <1>1, <1>4, <1>5, QuietReads DEF WireInv, IdleInv
<1>6. CASE DoneInv
  <2>1. DoneInv'
    BY <1>1, <1>2, <1>3, <1>6, QuietReads DEF DoneInv
  <2> QED BY <1>4, <2>1 DEF WireInv
<1>7. ASSUME NEW k \in 0 .. Len(Calls) - 1, InCall(k) PROVE WireInv'
  <2>1. ASSUME NEW c, c = Calls[k + 1], NotYet(c) PROVE NotYet(c)'
    <3>1. CASE phase = "send" /\ Quiet
      BY <1>1, <3>1, QuietReads DEF NotYet
    <3>2. ASSUME phase = "ack", toNemu = <<>>, NEW p \in Packet(c), toQemu = <<Plus, p>>
          PROVE  NotYet(c)'
      <4>1. toQemu' = <<p>> /\ toNemu' = <<>> /\ running' = NONE
        BY <3>2, Reads, Wires
      <4> QED BY <1>1, <3>2, <4>1 DEF NotYet
    <3>3. ASSUME phase = "ack", toNemu = <<>>, NEW p \in Packet(c), toQemu = <<p>>
          PROVE  NotYet(c)'
      <4>1. Head(toQemu) = p /\ toQemu' = <<>>
        BY <3>3, Reads, Wires
      <4>2. CASE p = Good(c)
        <5>1. running' = c /\ toNemu' = <<Plus>>
          BY <3>3, <4>1, <4>2, Reads, Wires
        <5> QED BY <1>1, <3>3, <4>1, <5>1 DEF NotYet
      <4>3. CASE p = Bad
        <5>1. running' = NONE /\ toNemu' = <<Minus>>
          BY <3>3, <4>1, <4>3, Reads, Wires
        <5> QED BY <1>1, <3>3, <4>1, <5>1 DEF NotYet
      <4> QED BY <3>3, <4>2, <4>3 DEF Packet
    <3> QED BY <2>1, <3>1, <3>2, <3>3, Reads DEF NotYet
  <2>2. ASSUME NEW c, c = Calls[k + 1], Answered(c) PROVE Answered(c)'
    <3>1. phase = "recv" /\ toQemu = <<Minus>> /\ toNemu = <<>>
      BY <2>2, Reads DEF Answered
    <3>2. SendPacket(toNemu, reply) /\ toQemu' = <<>> /\ running' = NONE
      BY <3>1, Reads, Wires
    <3>3. PICK p \in Packet(reply) : toNemu' = <<p>>
      BY <3>1, <3>2, Arrivals, Wires DEF SendPacket
    <3> QED BY <1>1, <2>2, <3>1, <3>2, <3>3 DEF Answered, Packet, Good, Bad
  <2> QED BY <1>1, <1>3, <1>7, <2>1, <2>2, CallInd DEF InCall
<1> QED BY <1>5, <1>6, <1>7 DEF WireInv

-----------------------------------------------------------------------------
(* QEMU: the calls are atomic *)

LEMMA WireInvInit == QInit => WireInv
BY DEF QInit, WireInv, IdleInv, Quiet, Plus

LEMMA WireInvNext == WireInv /\ [QNext]_qvars => WireInv'
<1> SUFFICES ASSUME WireInv, [QNext]_qvars PROVE WireInv'
  OBVIOUS
<1>1. CASE NemuStep
  BY <1>1, BeginInd, SendInd, AckInd, RecvBadInd, RecvInd, BootedInd, GoesInd DEF NemuStep
<1>2. CASE QemuStep
  BY <1>2, ExecuteInd, ListenInd DEF QemuStep
<1>3. CASE UNCHANGED qvars
  <2>1. /\ UNCHANGED <<local, ref, booted, left, phase, got, before, reply, memory>>
        /\ UNCHANGED <<toQemu, toNemu, running>>
    BY <1>3 DEF qvars, vars, local, call
  <2>2. Calls' = Calls
    BY <2>1, CallsKept
  <2>3. \A e : After(e)' <=> After(e)
    BY <2>1, AfterKept
  <2>4. \A c : (NotYet(c)' <=> NotYet(c)) /\ (Answered(c)' <=> Answered(c))
    BY <2>1 DEF NotYet, Answered, Quiet
  <2>5. \A k : InCall(k)' <=> InCall(k)
    BY <2>1, <2>2, <2>3, <2>4 DEF InCall, Suffix
  <2>6. (IdleInv' <=> IdleInv) /\ (DoneInv' <=> DoneInv)
    BY <2>1, <2>2, <2>3 DEF IdleInv, DoneInv, Quiet
  <2> QED BY <2>1, <2>2, <2>5, <2>6 DEF WireInv, local
<1> QED BY <1>1, <1>2, <1>3 DEF QNext

LEMMA SpecWireInv == QSpec => []WireInv
BY WireInvInit, WireInvNext, PTL DEF QSpec

\* NEMU goes on as if REF had done the call in the same step.
LEMMA GoesStep ==
  ASSUME WireInv, Goes
  PROVE  D!Next
<1>1. Seen' = ref
  BY DEF Goes, Seen
<1>2. CASE Calls = <<>>
  <2>1. Seen = ref
    BY <1>2 DEF Goes, Seen
  <2>2. ~ stepping /\ ~ (dut.pc < End /\ kind[dut.pc] = "head")
    BY <1>2, OtherCalls, Wires DEF Goes
  <2>3. SeenExec
    BY <1>1, <2>1, <2>2 DEF Goes, SeenExec, DutRuns, Checked
  <2> QED BY <2>3, InstanceExec DEF D!Next
<1>3. CASE Calls # <<>>
  <2> DEFINE n == Len(Calls)
  <2>1. phase = "done" /\ DoneInv /\ Seen = before
    BY <1>3 DEF WireInv, Goes, IdleInv, InCall, NotYet, Answered, Seen
  <2>2. After(n) /\ (Calls[n].op = "g" => got = ref) /\ booted
    BY <2>1 DEF DoneInv, Goes
  <2>3. CASE Calls = <<[op |-> "s"]>> /\ ~ stepping /\ kind[dut.pc] = "head"
    <3>1. n = 1 /\ Calls[1].op = "s"
      BY <2>3, ShortTuples
    <3>2. ref = RefExec(before)
      BY <2>2, <3>1 DEF After, Ran
    <3>3. SeenExec
      BY <1>1, <2>1, <2>3, <3>2 DEF Goes, SeenExec, DutRuns, Checked
    <3> QED BY <3>3, InstanceExec DEF D!Next
  <2>4. CASE Calls = <<[op |-> "g"]>> /\ stepping /\ skip_dut_nr_inst > 0
    <3>1. n = 1 /\ Calls[1].op = "g"
      BY <2>4, ShortTuples
    <3>2. ref = before /\ got = ref
      BY <2>2, <3>1 DEF After, Ran
    <3>3. SeenStep
      BY <1>1, <2>1, <2>4, <3>2
         DEF Goes, SeenStep, DutRuns, CatchUp, CopyToRef, Compare
    <3> QED BY <3>3, InstanceStep DEF D!Next
  <2>5. CASE /\ stepping /\ ~ (skip_dut_nr_inst > 0) /\ is_skip_ref
             /\ Calls = <<[op |-> "g"], [op |-> "G", regs |-> dut]>>
    <3>1. n = 2 /\ Calls[2].op = "G"
      BY <2>5, ShortTuples
    <3>2. ref = dut
      BY <2>2, <3>1 DEF After, Ran
    <3>3. SeenStep
      BY <1>1, <2>1, <2>5, <3>2
         DEF Goes, SeenStep, DutRuns, CatchUp, CopyToRef, Compare
    <3> QED BY <3>3, InstanceStep DEF D!Next
  <2>6. CASE /\ stepping /\ ~ (skip_dut_nr_inst > 0) /\ ~ is_skip_ref
             /\ Calls = <<[op |-> "s"], [op |-> "g"]>>
    <3>1. n = 2 /\ Calls[1].op = "s" /\ Calls[2].op = "g"
      BY <2>6, ShortTuples
    <3>2. ref = RefExec(before) /\ got = ref
      BY <2>2, <3>1 DEF After, Ran
    <3>3. SeenStep
      BY <1>1, <2>1, <2>6, <3>2
         DEF Goes, SeenStep, DutRuns, CatchUp, CopyToRef, Compare
    <3> QED BY <3>3, InstanceStep DEF D!Next
  <2> QED BY <1>3, <2>2, <2>3, <2>4, <2>5, <2>6, OtherCalls
<1> QED BY <1>2, <1>3

\* What Difftest does not see.
LEMMA Hides ==
  ASSUME UNCHANGED local, Seen' = Seen
  PROVE  UNCHANGED D!vars
BY DEF local, Seen, D!vars

LEMMA NemuStepMaps ==
  ASSUME WireInv, NemuStep
  PROVE  D!Next \/ UNCHANGED D!vars
<1>1. CASE Begin
  <2>1. UNCHANGED local /\ Seen' = Seen
    BY <1>1 DEF Begin, vars, local, Seen
  <2> QED BY <2>1, Hides
<1>2. CASE Send \/ Ack \/ RecvBad \/ Recv
  <2>1. UNCHANGED <<local, before>> /\ phase # "idle" /\ phase' # "idle"
    BY <1>2 DEF Send, Ack, RecvBad, Recv, vars, call, local
  <2>2. Seen' = Seen
    BY <2>1 DEF Seen
  <2> QED BY <2>1, <2>2, Hides
<1>3. CASE Booted
  <2>1. DoneInv /\ before = dut
    BY <1>3 DEF WireInv, Booted, IdleInv, InCall, NotYet, Answered
  <2>2. Len(Calls) = Boots /\ Boots \in Nat /\ Calls[Boots] = [op |-> "G", regs |-> dut]
    BY <1>3, CallsShape, BootCalls, FullNat DEF Booted, Boots, Boot
  <2>3. Ran(Len(Calls), "G")
    BY <2>2, FullNat DEF Ran, Boots
  <2>4. ref = dut
    BY <2>1, <2>3 DEF DoneInv, After
  <2>5. UNCHANGED local /\ Seen' = Seen
    BY <1>3, <2>1, <2>4 DEF Booted, vars, local, Seen
  <2> QED BY <2>5, Hides
<1>4. CASE Goes
  BY <1>4, GoesStep
<1> QED BY <1>1, <1>2, <1>3, <1>4 DEF NemuStep

LEMMA QemuStepMaps ==
  ASSUME WireInv, QemuStep
  PROVE  UNCHANGED D!vars
<1>1. CASE Execute
  <2>1. phase # "idle"
    BY <1>1 DEF Execute, WireInv, IdleInv, InCall, NotYet, Answered, DoneInv, Quiet
  <2>2. UNCHANGED local /\ Seen' = Seen
    BY <1>1, <2>1 DEF Execute, call, local, Seen
  <2> QED BY <2>2, Hides
<1>2. CASE Listen
  <2>1. UNCHANGED local /\ Seen' = Seen
    BY <1>2 DEF Listen, vars, call, local, Seen
  <2> QED BY <2>1, Hides
<1> QED BY <1>1, <1>2 DEF QemuStep

\* For every image, packet size, program and number of spoiled packets, every
\* call of REF happens at once and exactly once, whatever is sent again
\* (protocol.c:138-291, gdb-host.c:29-110, diff-test.c:30-51): with QEMU behind
\* the wire differential testing is what module Difftest says.
THEOREM Qemu_CallsAreAtomic == QSpec => CallsAreAtomic
<1>1. QInit => D!Init
  <2>1. NemuInit => D!NemuInit
    BY DEF D!NemuInit, NemuInit, D!Programs, Programs, D!Group, Group, D!PCs, PCs,
           D!Kinds, Kinds
  <2> QED BY <2>1 DEF QInit, D!Init
<1>2. WireInv /\ [QNext]_qvars => [D!Next]_D!vars
  <2> SUFFICES ASSUME WireInv, [QNext]_qvars PROVE D!Next \/ UNCHANGED D!vars
    OBVIOUS
  <2>1. CASE UNCHANGED qvars
    BY <2>1 DEF qvars, vars, call, D!vars
  <2> QED BY <2>1, NemuStepMaps, QemuStepMaps DEF QNext
<1> QED BY <1>1, <1>2, SpecWireInv, PTL DEF QSpec, CallsAreAtomic, D!Spec

\* With QEMU for REF too, REF is where NEMU is between two instructions or as
\* far ahead as the rest of skip_dut_nr_inst covers (dut.c:36-129).
THEOREM Qemu_InStep == QSpec => []InStepWithQemu
BY Qemu_CallsAreAtomic, Difftest_InStep, PTL DEF CallsAreAtomic, InStepWithQemu

\* With QEMU for REF too, NEMU catches up in time, and the hook, whatever it
\* answers, is shown registers that differ just when NEMU has made a mistake
\* that no device access hid (dut.c:105-128).
THEOREM Qemu_MistakesShow == QSpec => []MistakesShowWithQemu
BY Qemu_CallsAreAtomic, Difftest_MistakesShow, PTL DEF CallsAreAtomic, MistakesShowWithQemu

\* With QEMU for REF too, NEMU does not go on past such a mistake but to catch
\* up (dut.c:118-128).
THEOREM Qemu_NoMistakePasses == QSpec => []NoMistakePasses
BY Qemu_CallsAreAtomic, Difftest_NoMistakePasses, PTL DEF CallsAreAtomic

=============================================================================
