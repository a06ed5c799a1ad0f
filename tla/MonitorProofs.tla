--------------------------- MODULE MonitorProofs ----------------------------
(***************************************************************************)
(* What can happen to nemu_state, for every pool, every set of step counts *)
(* and every configuration: proofs of Monitor's invariants and action      *)
(* properties, and that the loops use the watchpoint pool as Watchpoint    *)
(* requires.                                                               *)
(*                                                                         *)
(* The properties are about the ends of a run; the invariant says what     *)
(* each place between two tests of nemu_state.state may count on.          *)
(***************************************************************************)
EXTENDS Monitor, TLAPS

\* Where cpu_exec()'s loop is; n and asked belong together there.
Looping == {"exec", "difftest", "check", "test", "device"}

\* The places an instruction passes between its execution and the break.
Passing == {"difftest", "check", "test"}

TypeInv ==
  /\ pc \in Places
  /\ state \in States
  /\ halt_ret \in {0, 1}
  /\ n \in Nat \cup {Forever}
  /\ asked \in Nat \cup {Forever}
  /\ done \in Nat
  /\ is_batch_mode \in BOOLEAN
  /\ is_skip_ref \in BOOLEAN
  /\ failed \in BOOLEAN

\* What the state can be at each place.  STOP is only the check's doing.
StateInv ==
  /\ pc = "exec" => state = "RUNNING" \/ (state = "QUIT" /\ DEVICE)
  /\ pc = "device" => state = "RUNNING" /\ DEVICE
  /\ pc \in {"difftest", "check"} => state # "STOP"
  /\ pc = "difftest" /\ state = "END" => is_skip_ref
  /\ pc \in {"test", "after"} /\ state = "STOP" => reported # {}

\* done counts an instruction before n does.
CountInv ==
  /\ pc \in Looping => (asked = Forever <=> n = Forever)
  /\ asked # Forever =>
       /\ pc \in {"exec", "device"} => done + n = asked
       /\ pc \in Passing => n > 0 /\ done + n = asked + 1
       /\ pc \notin Looping => done <= asked
       /\ pc \in {"after", "sdb"} /\ done < asked => state \in Ended \/ reported # {}

\* In batch mode there is no watchpoint, so that nothing but the end of the
\* program or of NEMU ends the one run there is.
BatchInv ==
  is_batch_mode =>
    /\ head = NULL
    /\ reported = {}
    /\ pc \in Looping => n = Forever
    /\ pc = "sdb" <=> state = "STOP"
    /\ pc \in {"after", "exit"} => state \in Ended
    /\ failed <=> state = "ABORT" \/ (state = "END" /\ halt_ret = 1)

IndInv == TypeInv /\ StateInv /\ CountInv /\ BatchInv

-----------------------------------------------------------------------------
(* The invariant *)

LEMMA InitInv == Init => IndInv
<1> SUFFICES ASSUME Init
             PROVE  IndInv
  OBVIOUS
<1>1. TypeInv
  BY DEF Init, TypeInv, Places, States, Ended, Forever
<1>2. StateInv
  BY DEF Init, StateInv
<1>3. CountInv
  BY DEF Init, CountInv, Looping, Passing, Forever
<1>4. BatchInv
  BY DEF Init, W!Init, BatchInv, Looping
<1> QED
  BY <1>1, <1>2, <1>3, <1>4 DEF IndInv

\* With no watchpoint in use nothing is reported.
LEMMA NoneActive == head = NULL => W!Active = {}
<1> SUFFICES ASSUME head = NULL, NEW i \in W!Active
             PROVE  FALSE
  OBVIOUS
<1>1. \A S \in SUBSET W!WPs : W!ClosedFrom(next, head, S) => i \in S
  BY DEF W!Active, W!Reach
<1>2. W!ClosedFrom(next, head, {})
  BY DEF W!ClosedFrom
<1> QED
  BY <1>1, <1>2

\* Commands that leave nemu_state and the run alone.
LEMMA SameRun ==
  ASSUME IndInv,
         UNCHANGED <<is_batch_mode, pc, state, halt_ret, n, asked, done, failed>>,
         is_skip_ref' = is_skip_ref, reported' = reported,
         is_batch_mode => head' = head
  PROVE  IndInv'
BY DEF IndInv, TypeInv, StateInv, CountInv, BatchInv

\* Commands that end NEMU; batch mode has none.
LEMMA Leaves ==
  ASSUME IndInv, pc = "sdb", ~ is_batch_mode, pc' \in Gone, state' \in {state, "QUIT"},
         UNCHANGED <<is_batch_mode, halt_ret, n, is_skip_ref, asked, done, failed>>
  PROVE  IndInv'
<1>1. TypeInv' /\ StateInv'
  BY DEF IndInv, TypeInv, StateInv, Gone, Places, States, Ended
<1>2. CountInv'
  BY DEF IndInv, TypeInv, CountInv, Looping, Passing, Gone, Forever
<1>3. BatchInv'
  BY DEF BatchInv
<1> QED
  BY <1>1, <1>2, <1>3 DEF IndInv

LEMMA CpuExecInv ==
  ASSUME IndInv, NEW k \in Nat \cup {Forever}, CpuExec(k), pc = "sdb",
         is_batch_mode => k = Forever,
         UNCHANGED <<is_batch_mode, halt_ret, is_skip_ref>>, reported' = reported, head' = head
  PROVE  IndInv'
<1>1. CASE state \in Ended
  <2>1. ~ is_batch_mode
    BY <1>1 DEF IndInv, BatchInv, Ended
  <2>2. UNCHANGED <<pc, state, n, ghost>>
    BY <1>1, <2>1 DEF CpuExec
  <2> QED
    BY <2>2, SameRun DEF ghost
<1>2. CASE state \notin Ended
  <2>1. /\ state' = "RUNNING" /\ n' = k /\ pc' = "exec" /\ asked' = k /\ done' = 0
        /\ failed' = failed
    BY <1>2 DEF CpuExec
  <2>2. TypeInv' /\ StateInv' /\ CountInv'
    BY <2>1 DEF IndInv, TypeInv, StateInv, CountInv, Places, States, Ended, Looping, Passing,
                Forever
  <2>3. BatchInv'
    BY <2>1, <1>2 DEF IndInv, TypeInv, BatchInv, States, Ended, Looping
  <2> QED
    BY <2>2, <2>3 DEF IndInv
<1> QED
  BY <1>1, <1>2

LEMMA SdbInv ==
  ASSUME IndInv, Sdb
  PROVE  IndInv'
<1> USE MonitorAssumption DEF Command
<1>0. is_batch_mode' = is_batch_mode
  BY DEF Sdb
<1>1. CASE CmdC
  BY <1>0, <1>1, CpuExecInv DEF CmdC, watch
<1>2. CASE \E k \in Steps : CmdSi(k)
  <2>1. PICK k \in Steps : CmdSi(k)
    BY <1>2
  <2> QED
    BY <1>0, <2>1, CpuExecInv DEF CmdSi, watch
<1>3. CASE \E e \in Exprs : CmdW(e)
  BY <1>0, <1>3, SameRun DEF CmdW, W!CmdW, status, ghost
<1>4. CASE CmdWNoFree
  BY <1>0, <1>4, Leaves DEF CmdWNoFree, watch, status, ghost, Gone
<1>5. CASE \E e \in BadExprs : CmdWBad(e)
  BY <1>0, <1>5, Leaves DEF CmdWBad, W!CmdWBad, status, ghost, Gone
<1>6. CASE \E k \in Args : CmdD(k)
  BY <1>0, <1>6, SameRun DEF CmdD, W!CmdD, status, ghost
<1>7. CASE CmdX
  <2>1. CASE pc' = "sdb"
    BY <1>0, <1>7, <2>1, SameRun DEF CmdX, watch, status, ghost
  <2>2. CASE pc' = "panic"
    BY <1>0, <1>7, <2>2, Leaves DEF CmdX, watch, status, ghost, Gone
  <2> QED
    BY <1>7, <2>1, <2>2 DEF CmdX
<1>8. CASE CmdQ
  BY <1>0, <1>8, Leaves DEF CmdQ, ghost, Gone
<1>9. CASE Eof
  BY <1>0, <1>9, Leaves DEF Eof, watch, status, ghost, Gone
<1>10. CASE BatchRun
  BY <1>0, <1>10, CpuExecInv DEF BatchRun, watch
<1> QED
  BY <1>1, <1>2, <1>3, <1>4, <1>5, <1>6, <1>7, <1>8, <1>9, <1>10 DEF Sdb

\* An instruction that traps or not, and what it leaves the check with.
LEMMA RetireInv ==
  ASSUME IndInv, UNCHANGED is_batch_mode, UNCHANGED <<watch, n, asked>>,
         pc = "exec", n # 0,
         done' = IF n = Forever THEN 1 ELSE done + 1,
         pc' = IF DIFFTEST THEN "difftest" ELSE "check",
         \/ UNCHANGED <<status, failed>> /\ is_skip_ref' \in {is_skip_ref, DIFFTEST}
         \/ \E ret \in {0, 1} : SetNemuState("END", ret) /\ failed' = (failed \/ ret # 0)
         \/ SetNemuState("ABORT", 1) /\ failed' = TRUE
  PROVE  IndInv'
<1> USE MonitorAssumption
<1> DEFINE Kept == UNCHANGED <<status, failed>> /\ is_skip_ref' \in {is_skip_ref, DIFFTEST}
           Trapped == /\ state' = "END" /\ halt_ret' \in {0, 1}
                      /\ failed' = (failed \/ halt_ret' = 1) /\ is_skip_ref' = DIFFTEST
           Aborted == /\ state' = "ABORT" /\ halt_ret' = 1
                      /\ failed' = TRUE /\ is_skip_ref' = DIFFTEST
<1>0. Kept \/ Trapped \/ Aborted
  <2>1. ASSUME NEW ret \in {0, 1}, SetNemuState("END", ret), failed' = (failed \/ ret # 0)
        PROVE  Trapped
    <3>1. (ret # 0) <=> (ret = 1)
      BY SMT
    <3> QED
      BY <2>1, <3>1 DEF SetNemuState, SkipRef
  <2> QED
    BY <2>1 DEF SetNemuState, SkipRef
<1>1. TypeInv'
  <2>1. failed' \in BOOLEAN /\ is_skip_ref' \in BOOLEAN /\ halt_ret' \in {0, 1}
    BY <1>0, Zenon DEF IndInv, TypeInv, status
  <2>2. state' \in States /\ pc' \in Places /\ done' \in Nat
    BY <1>0, SMT DEF IndInv, TypeInv, States, Ended, Places, status, Forever
  <2> QED
    BY <2>1, <2>2 DEF IndInv, TypeInv
<1>2. StateInv'
  BY DEF IndInv, TypeInv, StateInv, SetNemuState, SkipRef, status
<1>3. CountInv'
  <2>1. (n \in Nat \ {0} /\ done \in Nat) \/ n = Forever
    BY DEF IndInv, TypeInv, Forever
  <2> QED
    BY <2>1 DEF IndInv, TypeInv, CountInv, Looping, Passing, Forever
<1>4. BatchInv'
  <2> SUFFICES ASSUME is_batch_mode'
               PROVE  BatchInv'
    BY DEF BatchInv
  <2>1. is_batch_mode /\ pc' \in Looping /\ pc' # "sdb" /\ pc' \notin {"after", "exit"}
    BY DEF Looping
  <2>2. /\ head' = NULL /\ reported' = {} /\ n' = Forever
        /\ state \notin {"STOP", "END", "ABORT"}
    BY <2>1 DEF IndInv, StateInv, BatchInv, Looping, watch
  <2>3. failed <=> FALSE
    BY <2>1, <2>2 DEF IndInv, BatchInv
  <2>4. state' # "STOP"
    BY <1>0, <2>2 DEF status
  <2>5. failed' <=> state' = "ABORT" \/ (state' = "END" /\ halt_ret' = 1)
    <3>1. CASE Kept
      BY <2>2, <2>3, <3>1, Zenon DEF status
    <3>2. CASE Trapped
      BY <2>3, <3>2
    <3>3. CASE Aborted
      BY <3>3
    <3> QED
      BY <1>0, <3>1, <3>2, <3>3
  <2> QED
    BY <2>1, <2>2, <2>4, <2>5 DEF BatchInv
<1> QED
  BY <1>1, <1>2, <1>3, <1>4 DEF IndInv

LEMMA EngineInv ==
  ASSUME IndInv, Engine
  PROVE  IndInv'
<1> USE MonitorAssumption
<1>0. is_batch_mode' = is_batch_mode
  BY DEF Engine
<1>1. CASE Plain
  BY <1>0, <1>1, RetireInv DEF Plain, Retire
<1>2. CASE DeviceAccess
  BY <1>0, <1>2, RetireInv DEF DeviceAccess, Retire, SkipRef
<1>3. CASE \E ret \in {0, 1} : Trap(ret)
  BY <1>0, <1>3, RetireInv DEF Trap, Retire
<1>4. CASE Invalid
  BY <1>0, <1>4, RetireInv DEF Invalid, Retire
<1>5. CASE Panic
  <2>1. TypeInv' /\ StateInv' /\ BatchInv'
    BY <1>0, <1>5 DEF Panic, IndInv, TypeInv, StateInv, BatchInv, Places, Looping, watch, status,
                      ghost
  <2>2. CountInv'
    BY <1>5 DEF Panic, IndInv, TypeInv, CountInv, Looping, Passing, Forever, ghost
  <2> QED
    BY <2>1, <2>2 DEF IndInv
<1>6. CASE LoopEnd
  <2>1. TypeInv' /\ StateInv' /\ BatchInv'
    BY <1>0, <1>6 DEF LoopEnd, IndInv, TypeInv, StateInv, BatchInv, Places, Looping, watch, status,
                      ghost, Forever
  <2>2. CountInv'
    BY <1>6 DEF LoopEnd, IndInv, TypeInv, CountInv, Looping, Passing, Forever, ghost
  <2> QED
    BY <2>1, <2>2 DEF IndInv
<1>7. CASE DifftestStep
  <2>1. TypeInv' /\ StateInv'
    BY <1>0, <1>7 DEF DifftestStep, IndInv, TypeInv, StateInv, Places, States, Ended
  <2>2. CountInv'
    BY <1>7 DEF DifftestStep, IndInv, CountInv, Looping, Passing, Ended, watch
  <2>3. BatchInv'
    BY <1>0, <1>7 DEF DifftestStep, IndInv, TypeInv, StateInv, BatchInv, Looping, watch
  <2> QED
    BY <2>1, <2>2, <2>3 DEF IndInv
<1>8. CASE CheckWp
  <2>1. head = NULL => reported' = {}
    BY <1>8, NoneActive DEF CheckWp, W!CheckWp
  <2>2. TypeInv' /\ StateInv'
    BY <1>0, <1>8 DEF CheckWp, IndInv, TypeInv, StateInv, Places, States, Ended, ghost
  <2>3. CountInv'
    BY <1>8 DEF CheckWp, IndInv, CountInv, Looping, Passing, ghost
  <2>4. BatchInv'
    BY <1>0, <1>8, <2>1 DEF CheckWp, IndInv, TypeInv, StateInv, BatchInv, Looping, pool, ghost
  <2> QED
    BY <2>2, <2>3, <2>4 DEF IndInv
<1>9. CASE Test
  <2>1. TypeInv' /\ StateInv'
    BY <1>0, <1>9 DEF Test, IndInv, TypeInv, StateInv, CountInv, Places, Looping, Passing, watch,
                      status, ghost, Forever
  <2>2. CountInv'
    <3>1. CASE state = "RUNNING"
      BY <1>9, <3>1 DEF Test, IndInv, TypeInv, CountInv, Looping, Passing, watch, status, ghost,
                        Forever
    <3>2. CASE state # "RUNNING"
      <4>1. state' \in Ended \/ reported' # {}
        BY <1>9, <3>2 DEF Test, IndInv, TypeInv, StateInv, States, watch, status
      <4> QED
        BY <1>9, <3>2, <4>1 DEF Test, IndInv, TypeInv, CountInv, Looping, Passing, ghost, Forever
    <3> QED
      BY <3>1, <3>2
  <2>3. BatchInv'
    BY <1>0, <1>9 DEF Test, IndInv, TypeInv, StateInv, BatchInv, Looping, States, watch, status,
                      ghost
  <2> QED
    BY <2>1, <2>2, <2>3 DEF IndInv
<1>10. CASE DeviceThrottled
  BY <1>0, <1>10 DEF DeviceThrottled, IndInv, TypeInv, StateInv, CountInv, BatchInv, Places,
                     Looping, Passing, watch, status, ghost
<1>11. CASE DevicePoll
  <2>1. /\ pc = "device" /\ pc' = "exec" /\ state' \in {"RUNNING", "QUIT"}
        /\ UNCHANGED <<watch, halt_ret, n, is_skip_ref, ghost>>
    BY <1>11 DEF DevicePoll, IndInv, StateInv
  <2>2. state = "RUNNING" /\ DEVICE
    BY <2>1 DEF IndInv, StateInv
  <2>3. TypeInv' /\ StateInv'
    BY <1>0, <2>1, <2>2 DEF IndInv, TypeInv, StateInv, Places, States, Ended, watch, ghost
  <2>4. CountInv'
    BY <2>1 DEF IndInv, CountInv, Looping, Passing, watch, ghost
  <2>5. BatchInv'
    BY <1>0, <2>1, <2>2 DEF IndInv, TypeInv, BatchInv, Looping, watch, ghost
  <2> QED
    BY <2>3, <2>4, <2>5 DEF IndInv
<1>12. CASE AfterExec
  <2>1. TypeInv' /\ StateInv'
    BY <1>0, <1>12 DEF AfterExec, IndInv, TypeInv, StateInv, Places, States, Ended, ghost
  <2>2. CountInv'
    BY <1>12 DEF AfterExec, IndInv, TypeInv, CountInv, Looping, Passing, Ended, watch, ghost
  <2>3. BatchInv'
    BY <1>0, <1>12 DEF AfterExec, IndInv, TypeInv, BatchInv, Looping, Ended, watch, ghost
  <2> QED
    BY <2>1, <2>2, <2>3 DEF IndInv
<1> QED
  BY <1>1, <1>2, <1>3, <1>4, <1>5, <1>6, <1>7, <1>8, <1>9, <1>10, <1>11, <1>12 DEF Engine

\* A step of the program, of the user's closing the window, or of neither.
LEMMA StepInv ==
  ASSUME IndInv, [Next]_vars
  PROVE  IndInv'
<1>1. CASE Sdb
  BY <1>1, SdbInv
<1>2. CASE Engine
  BY <1>2, EngineInv
<1>3. CASE CloseWindow \/ UNCHANGED vars
  <2>1. UNCHANGED <<is_batch_mode, watch, pc, status, n, is_skip_ref, ghost>>
    BY <1>3 DEF CloseWindow, vars
  <2> QED
    BY <2>1, SameRun DEF watch, status, ghost
<1> QED
  BY <1>1, <1>2, <1>3 DEF Next

\* What each place between two tests of nemu_state.state counts on holds in
\* every reachable state.
THEOREM Invariance == Spec => []IndInv
<1>1. Init => IndInv
  BY InitInv
<1>2. IndInv /\ [Next]_vars => IndInv'
  BY StepInv
<1> QED
  BY <1>1, <1>2, PTL DEF Spec

-----------------------------------------------------------------------------
(* What it gives *)

\* `si N' runs N instructions for every N, or the user is told why not.
THEOREM StepsCounted == Spec => []StepCount
<1>1. IndInv => StepCount
  <2> SUFFICES ASSUME IndInv, asked # Forever
               PROVE  /\ pc = "exec" => done + n = asked
                      /\ done <= asked
                      /\ pc = "sdb" /\ done < asked => state \in Ended \/ reported # {}
    BY DEF StepCount
  <2>1. asked \in Nat /\ done \in Nat
    BY DEF IndInv, TypeInv
  <2>2. pc \in Looping => n \in Nat
    BY DEF IndInv, TypeInv, CountInv
  <2>3. done <= asked
    BY <2>1, <2>2 DEF IndInv, CountInv, Looping, Passing
  <2> QED
    BY <2>3 DEF IndInv, CountInv
<1> QED
  BY <1>1, Invariance, PTL

\* The exit status of batch mode tells whether anything went wrong.
THEOREM BatchExit == Spec => []BatchVerdict
<1>1. IndInv => BatchVerdict
  <2> SUFFICES ASSUME IndInv, is_batch_mode, pc = "exit"
               PROVE  ExitGood <=> ~ failed
    BY DEF BatchVerdict
  <2>1. state \in Ended /\ halt_ret \in {0, 1}
    BY DEF IndInv, TypeInv, BatchInv
  <2>2. failed <=> state = "ABORT" \/ (state = "END" /\ halt_ret = 1)
    BY DEF IndInv, BatchInv
  <2>3. halt_ret = 1 <=> ~ (halt_ret = 0)
    BY <2>1
  <2> QED
    BY <2>1, <2>2, <2>3 DEF ExitGood, Ended
<1> QED
  BY <1>1, Invariance, PTL

\* Differential testing never turns a trap into a mismatch: the instruction
\* that traps is skipped.
THEOREM TrapsSkipped == Spec => TrapIsNoMismatch
<1>1. IndInv /\ [Next]_vars => [pc = "difftest" /\ state = "END" => state' = "END"]_vars
  <2> SUFFICES ASSUME IndInv, Next, pc = "difftest", state = "END"
               PROVE  state' = "END"
    OBVIOUS
  <2>1. is_skip_ref
    BY DEF IndInv, StateInv
  <2>2. ~ Sdb
    BY DEF Sdb, Command, CmdC, CmdSi, CmdW, CmdWNoFree, CmdWBad, CmdD, CmdX, CmdQ, Eof, BatchRun
  <2>3. Engine => DifftestStep
    BY DEF Engine, Plain, DeviceAccess, Trap, Invalid, Retire, Panic, LoopEnd, CheckWp, Test,
           DeviceThrottled, DevicePoll, AfterExec
  <2> QED
    BY <2>1, <2>2, <2>3 DEF Next, DifftestStep, CloseWindow, status
<1> QED
  BY <1>1, Invariance, PTL DEF Spec, TrapIsNoMismatch

\* An ended program stays ended, but for `q' and a watchpoint that fires on
\* its last instruction.
THEOREM EndKept == Spec => EndLeftOnlyByWatch
<1> DEFINE Left == (state \in {"END", "ABORT"}) /\ state' \notin {"END", "ABORT"}
           Why  == (pc = "sdb" /\ pc' = "exit") \/ (pc = "check" /\ reported' # {})
<1>1. IndInv /\ [Next]_vars => [Left => Why]_vars
  <2> SUFFICES ASSUME IndInv, Next, Left
               PROVE  Why
    OBVIOUS
  <2>1. pc # "exec" /\ pc # "device"
    BY DEF IndInv, StateInv
  <2>2. CASE Sdb
    <3>1. UNCHANGED state \/ CmdQ
      BY <2>2 DEF Sdb, CpuExec, Ended, CmdC, CmdSi, CmdW, CmdWNoFree, CmdWBad, CmdD, CmdX, Eof,
                  BatchRun, status
    <3> QED
      BY <3>1 DEF CmdQ, Command
  <2>3. CASE Engine
    <3>1. DifftestStep \/ CheckWp \/ Test \/ AfterExec
      BY <2>1, <2>3 DEF Engine, Plain, DeviceAccess, Trap, Invalid, Retire, Panic, LoopEnd,
                        DeviceThrottled, DevicePoll
    <3> QED
      BY <3>1 DEF DifftestStep, CheckWp, Test, AfterExec, status
  <2>4. CASE CloseWindow
    BY <2>4 DEF CloseWindow, status
  <2> QED
    BY <2>2, <2>3, <2>4 DEF Next
<1> QED
  BY <1>1, Invariance, PTL DEF Spec, EndLeftOnlyByWatch

\* Only a running program executes, but for one instruction after a device
\* update that found the window closed.
THEOREM RunningOnly == Spec => RunsOnlyWhileRunning
<1>1. IndInv /\ [Next]_vars => [pc = "exec" /\ pc' \in {"difftest", "check"} =>
                                state = "RUNNING" \/ (state = "QUIT" /\ DEVICE)]_vars
  BY DEF IndInv, StateInv
<1> QED
  BY <1>1, Invariance, PTL DEF Spec, RunsOnlyWhileRunning

-----------------------------------------------------------------------------
(* The loops implement the pool's specification *)

\* A step at the prompt is a command of the pool's user, or none of its
\* business.
LEMMA SdbMaps == Sdb => [W!Next]_(W!vars)
<1> SUFFICES ASSUME Sdb
             PROVE  [W!Next]_(W!vars)
  OBVIOUS
<1> USE DEF Command, WatchPc
<1>1. pc = "sdb"
  BY DEF Sdb, CmdC, CmdSi, CmdW, CmdWNoFree, CmdWBad, CmdD, CmdX, CmdQ, Eof, BatchRun
<1>2. CASE \E e \in Exprs : CmdW(e)
  BY <1>2 DEF CmdW, W!CmdW, W!Next
<1>3. CASE CmdWNoFree
  BY <1>3 DEF CmdWNoFree, W!CmdWNoFree, W!Next, W!pool, watch
<1>4. CASE \E e \in BadExprs : CmdWBad(e)
  BY <1>4 DEF CmdWBad, W!CmdWBad, W!Next
<1>5. CASE \E k \in Args : CmdD(k)
  BY <1>5 DEF CmdD, W!CmdD, W!Next
<1>6. CASE CmdX \/ CmdQ \/ Eof
  BY <1>6 DEF CmdX, CmdQ, Eof, W!vars, W!pool, watch
<1>7. CASE CmdC \/ BatchRun \/ \E k \in Steps : CmdSi(k)
  BY <1>1, <1>7 DEF CmdC, BatchRun, CmdSi, CpuExec, W!vars, W!pool, watch
<1> QED
  BY <1>2, <1>3, <1>4, <1>5, <1>6, <1>7 DEF Sdb

\* An instruction and the check after it are Instruction and Check; nothing
\* else in the loop is seen by the pool.
LEMMA EngineMaps == Engine => [W!Next]_(W!vars)
<1> SUFFICES ASSUME Engine
             PROVE  [W!Next]_(W!vars)
  OBVIOUS
<1> USE MonitorAssumption DEF WatchPc
<1>1. CASE Plain \/ DeviceAccess \/ (\E ret \in {0, 1} : Trap(ret)) \/ Invalid
  <2>1. /\ pc = "exec" /\ pc' \in {"difftest", "check"} /\ mem' \in [Exprs -> Values]
        /\ UNCHANGED watch
    BY <1>1 DEF Plain, DeviceAccess, Trap, Invalid, Retire
  <2>2. W!Instruction
    BY <2>1 DEF W!Instruction, W!pool, watch
  <2> QED
    BY <2>2 DEF W!Next
<1>2. CASE CheckWp
  BY <1>2 DEF CheckWp, W!Check, W!Next, W!pool, pool
<1>3. CASE DifftestStep
  BY <1>3 DEF DifftestStep, W!vars, W!pool, watch
<1>4. CASE Panic \/ LoopEnd \/ Test \/ DeviceThrottled \/ DevicePoll \/ AfterExec
  BY <1>4 DEF Panic, LoopEnd, Test, DeviceThrottled, DevicePoll, AfterExec, W!vars, W!pool, watch
<1> QED
  BY <1>1, <1>2, <1>3, <1>4 DEF Engine

\* The debugger and execution loops use the pool as Watchpoint says, each
\* instruction followed by exactly one check, for every configuration.
THEOREM WatchRefinement == Spec => WatchSpec
<1>1. Init => W!Init
  BY DEF Init
<1>2. [Next]_vars => [W!Next]_(W!vars)
  <2> SUFFICES ASSUME [Next]_vars
               PROVE  [W!Next]_(W!vars)
    OBVIOUS
  <2>1. CASE CloseWindow \/ UNCHANGED vars
    BY <2>1 DEF CloseWindow, vars, WatchPc, W!vars, W!pool, watch
  <2> QED
    BY <2>1, SdbMaps, EngineMaps DEF Next
<1> QED
  BY <1>1, <1>2, PTL DEF Spec, WatchSpec, W!Spec

=============================================================================
