------------------------------ MODULE Monitor ------------------------------
(***************************************************************************)
(* NEMU's run control: the debugger loop (sdb.c), the execution loop       *)
(* (cpu-exec.c), the global nemu_state (state.c, hostcall.c), and what     *)
(* reads and writes it on the way: guest traps, differential testing, the  *)
(* watchpoints of module Watchpoint and the device update that may find    *)
(* the window closed.                                                      *)
(*                                                                         *)
(* The emulator is one thread; pc says where it is, so that what happens   *)
(* to nemu_state between two tests of it is visible.  The guest program is *)
(* external: an instruction may change any watched value, touch a device,  *)
(* trap, be invalid, or fall out of memory (panic).                        *)
(***************************************************************************)
EXTENDS Integers

CONSTANTS
  NR_WP, Exprs, BadExprs, Values, Args, NULL, Blank,  \* of Watchpoint
  DIFFTEST, DEVICE,   \* CONFIG_DIFFTEST, CONFIG_DEVICE
  Steps               \* arguments of `si' below 2^64 - 1

ASSUME MonitorAssumption ==
  DIFFTEST \in BOOLEAN /\ DEVICE \in BOOLEAN /\ Steps \subseteq Nat

VARIABLES
  is_batch_mode, \* sdb.c:25: `-b' was on the command line
  next, str, last_value, head, free_, mem, reported, line,  \* of Watchpoint
  pc,           \* where the emulator is (Places)
  state,        \* nemu_state.state
  halt_ret,     \* nemu_state.halt_ret: 0, or 1 for any other value
  n,            \* instructions execute() has left; Forever under `c'
  is_skip_ref,  \* dut.c:31
  quit_event,   \* an SDL_QUIT waits in SDL's event queue
  asked, done,  \* the count given to cpu_exec() and how many have run (of
                \* an unbounded run: whether any has)
  failed        \* a bad trap, invalid instruction or mismatch has occurred

pool   == <<next, head, free_>>
watch  == <<next, str, last_value, head, free_, reported, line>>
status == <<state, halt_ret>>
ghost  == <<asked, done, failed>>
vars   == <<is_batch_mode, watch, mem, pc, status, n, is_skip_ref, quit_event, ghost>>

Ended   == {"END", "ABORT", "QUIT"}
States  == Ended \cup {"RUNNING", "STOP"}

\* sdb: waiting for a command line; exec .. device: inside execute();
\* after: back in cpu_exec(); exit: main() returns; the rest: an assertion
\* or a panic has ended the process.
Places == {"sdb", "exec", "difftest", "check", "test", "device", "after",
           "exit", "no_wp", "bad_expr", "panic"}
Gone   == {"exit", "no_wp", "bad_expr", "panic"}

\* 2^64 - 1 instructions: cpu_exec(-1), which also is what `si -1' asks for.
Forever == -1

\* The watchpoint pool is between an instruction and its check, or not.
WatchPc == IF pc \in {"difftest", "check"} THEN "check"
           ELSE IF pc \in {"no_wp", "bad_expr"} THEN pc ELSE "prompt"

W == INSTANCE Watchpoint WITH pc <- WatchPc

-----------------------------------------------------------------------------

Init ==
  /\ is_batch_mode \in BOOLEAN
  /\ pc = "sdb"
  /\ W!Init
  /\ state = "STOP"
  /\ halt_ret = 0
  /\ n = 0
  /\ is_skip_ref = FALSE
  /\ quit_event = FALSE
  /\ asked = 0 /\ done = 0 /\ failed = FALSE

\* difftest_skip_ref(), empty without CONFIG_DIFFTEST.
SkipRef == is_skip_ref' = DIFFTEST

\* Mutant: set_nemu_state() without difftest_skip_ref().
SetNemuState_NoSkip(s, ret) ==
  /\ UNCHANGED is_skip_ref
  /\ state' = s
  /\ halt_ret' = ret

\* set_nemu_state()
SetNemuState(s, ret) ==
  /\ SkipRef
  /\ state' = s
  /\ halt_ret' = ret

\* Mutant: cpu_exec() without the test for a program that has ended.
CpuExec_NoGuard(k) ==
  /\ state' = "RUNNING"
  /\ n' = k
  /\ pc' = "exec"
  /\ asked' = k
  /\ done' = 0
  /\ UNCHANGED failed

\* cpu_exec(k) up to the loop; it does nothing once the program has ended.
CpuExec(k) ==
  \/ /\ state \in Ended
     /\ pc' = IF is_batch_mode THEN "exit" ELSE "sdb"
     /\ UNCHANGED <<state, n, ghost>>
  \/ /\ state \notin Ended
     /\ state' = "RUNNING"
     /\ n' = k
     /\ pc' = "exec"
     /\ asked' = k
     /\ done' = 0
     /\ UNCHANGED failed

-----------------------------------------------------------------------------
(* sdb_mainloop *)

\* A command line arrives; pending window events are thrown away first.
Command ==
  /\ pc = "sdb"
  /\ ~ is_batch_mode
  /\ quit_event' = (quit_event /\ ~ DEVICE)

CmdC ==
  /\ Command
  /\ CpuExec(Forever)
  /\ UNCHANGED <<watch, mem, halt_ret, is_skip_ref>>

CmdSi(k) ==
  /\ Command
  /\ CpuExec(k)
  /\ UNCHANGED <<watch, mem, halt_ret, is_skip_ref>>

CmdW(e) ==
  /\ Command
  /\ UNCHANGED pc
  /\ W!CmdW(e)
  /\ UNCHANGED <<status, n, is_skip_ref, ghost>>

\* The assertions of cmd_w.
CmdWNoFree ==
  /\ Command
  /\ free_ = NULL
  /\ pc' = "no_wp"
  /\ UNCHANGED <<watch, mem, status, n, is_skip_ref, ghost>>

CmdWBad(e) ==
  /\ Command
  /\ pc' = "bad_expr"
  /\ W!CmdWBad(e)
  /\ UNCHANGED <<status, n, is_skip_ref, ghost>>

CmdD(k) ==
  /\ Command
  /\ UNCHANGED pc
  /\ W!CmdD(k)
  /\ UNCHANGED <<status, n, is_skip_ref, ghost>>

\* help, info, p and unknown commands change nothing; an `x' that runs over
\* the end of memory panics in paddr_read().
CmdX ==
  /\ Command
  /\ pc' \in {"sdb", "panic"}
  /\ UNCHANGED <<watch, mem, status, n, is_skip_ref, ghost>>

CmdQ ==
  /\ Command
  /\ state' = "QUIT"
  /\ pc' = "exit"
  /\ UNCHANGED <<watch, mem, halt_ret, n, is_skip_ref, ghost>>

\* End of input: the loop ends without a command.
Eof ==
  /\ pc = "sdb"
  /\ ~ is_batch_mode
  /\ pc' = "exit"
  /\ UNCHANGED <<watch, mem, status, n, is_skip_ref, quit_event, ghost>>

\* Batch mode is one `c' and nothing else.
BatchRun ==
  /\ pc = "sdb"
  /\ is_batch_mode
  /\ CpuExec(Forever)
  /\ UNCHANGED <<watch, mem, halt_ret, is_skip_ref, quit_event>>

-----------------------------------------------------------------------------
(* execute *)

\* exec_once and the instruction count, for an instruction that does to
\* nemu_state and to the skip flag what Effect says.
Retire(Effect) ==
  /\ pc = "exec"
  /\ n # 0
  /\ Effect
  /\ mem' \in [Exprs -> Values]
  /\ done' = IF n = Forever THEN 1 ELSE done + 1
  /\ pc' = IF DIFFTEST THEN "difftest" ELSE "check"
  /\ UNCHANGED <<watch, n, quit_event, asked>>

Plain == Retire(UNCHANGED <<status, is_skip_ref, failed>>)

\* A load or store that find_mapid_by_addr() sends to a device.
DeviceAccess ==
  /\ DEVICE
  /\ Retire(SkipRef /\ UNCHANGED <<status, failed>>)

\* ebreak: NEMUTRAP(pc, $a0).
Trap(ret) == Retire(SetNemuState("END", ret) /\ failed' = (failed \/ ret # 0))

\* INV(pc)
Invalid == Retire(SetNemuState("ABORT", 1) /\ failed' = TRUE)

\* out_of_bound(), check_bound() and the other panics of an access.
Panic ==
  /\ pc = "exec"
  /\ n # 0
  /\ pc' = "panic"
  /\ UNCHANGED <<watch, mem, status, n, is_skip_ref, quit_event, ghost>>

\* Mutant: the count is tested after it has wrapped round.
LoopEnd_Wraps ==
  /\ pc = "exec"
  /\ n = 0
  /\ n' = Forever
  /\ UNCHANGED <<watch, mem, pc, status, is_skip_ref, quit_event, ghost>>

\* The for loop's condition, n > 0, fails.
LoopEnd ==
  /\ pc = "exec"
  /\ n = 0
  /\ pc' = "after"
  /\ UNCHANGED <<watch, mem, status, n, is_skip_ref, quit_event, ghost>>

\* Mutant: a mismatch returns before the watchpoints are checked.
DifftestStep_Early ==
  /\ pc = "difftest"
  /\ is_skip_ref' = FALSE
  /\ \/ pc' = "check" /\ UNCHANGED <<state, failed>>
     \/ pc' = "test" /\ ~ is_skip_ref /\ state' = "ABORT" /\ failed' = TRUE
  /\ UNCHANGED <<watch, mem, halt_ret, n, quit_event, asked, done>>

\* difftest_step: a skipped instruction is copied to REF, any other one is
\* compared with what REF makes of it.  (No instruction of this repository
\* calls difftest_skip_dut, so skip_dut_nr_inst stays 0.)
DifftestStep ==
  /\ pc = "difftest"
  /\ pc' = "check"
  /\ \/ /\ is_skip_ref
        /\ is_skip_ref' = FALSE
        /\ UNCHANGED <<state, failed>>
     \/ /\ ~ is_skip_ref
        /\ UNCHANGED <<state, failed, is_skip_ref>>
     \/ /\ ~ is_skip_ref
        /\ state' = "ABORT"
        /\ failed' = TRUE
        /\ UNCHANGED is_skip_ref
  /\ UNCHANGED <<watch, mem, halt_ret, n, quit_event, asked, done>>

\* The rest of trace_and_difftest.
CheckWp ==
  /\ pc = "check"
  /\ W!CheckWp
  /\ state' = IF reported' # {} THEN "STOP" ELSE state
  /\ pc' = "test"
  /\ UNCHANGED <<pool, str, line, mem, halt_ret, n, is_skip_ref, quit_event, ghost>>

\* Mutants: the break is only for the debugger's own stop; the window is
\* polled before the break; the count is never decremented.
Test_StopOnly ==
  /\ pc = "test"
  /\ pc' = IF state = "STOP" THEN "after" ELSE IF DEVICE THEN "device" ELSE "exec"
  /\ n' = IF n = Forever THEN n ELSE n - 1
  /\ UNCHANGED <<watch, mem, status, is_skip_ref, quit_event, ghost>>

Test_PollFirst ==
  /\ pc = "test"
  /\ state' = IF quit_event THEN "QUIT" ELSE state
  /\ quit_event' = FALSE
  /\ pc' = IF state' # "RUNNING" THEN "after" ELSE "exec"
  /\ n' = IF n = Forever THEN n ELSE n - 1
  /\ UNCHANGED <<watch, mem, halt_ret, is_skip_ref, ghost>>

Test_NoCount ==
  /\ pc = "test"
  /\ pc' = IF state # "RUNNING" THEN "after" ELSE IF DEVICE THEN "device" ELSE "exec"
  /\ UNCHANGED <<watch, mem, status, n, is_skip_ref, quit_event, ghost>>

\* if (nemu_state.state != NEMU_RUNNING) break; otherwise n--, after the
\* device update where there is one.
Test ==
  /\ pc = "test"
  /\ \/ /\ state # "RUNNING"
        /\ pc' = "after"
        /\ UNCHANGED n
     \/ /\ state = "RUNNING"
        /\ pc' = IF DEVICE THEN "device" ELSE "exec"
        /\ n' = IF n = Forever THEN n ELSE n - 1
  /\ UNCHANGED <<watch, mem, status, is_skip_ref, quit_event, ghost>>

\* device_update() within 1/60 s of the last one returns at once ...
DeviceThrottled ==
  /\ pc = "device"
  /\ pc' = "exec"
  /\ UNCHANGED <<watch, mem, status, n, is_skip_ref, quit_event, ghost>>

\* Mutant: SDL_QUIT is taken and ignored.
DevicePoll_Ignored ==
  /\ pc = "device"
  /\ pc' = "exec"
  /\ quit_event' = FALSE
  /\ UNCHANGED <<is_batch_mode, watch, mem, status, n, is_skip_ref, ghost>>

\* ... and otherwise takes every event.
DevicePoll ==
  /\ pc = "device"
  /\ pc' = "exec"
  /\ quit_event' = FALSE
  /\ state' = IF quit_event THEN "QUIT" ELSE state
  /\ UNCHANGED <<is_batch_mode, watch, mem, halt_ret, n, is_skip_ref, ghost>>

\* The rest of cpu_exec.
AfterExec ==
  /\ pc = "after"
  /\ state' = IF state = "RUNNING" THEN "STOP" ELSE state
  /\ pc' = IF is_batch_mode THEN "exit" ELSE "sdb"
  /\ UNCHANGED <<watch, mem, halt_ret, n, is_skip_ref, quit_event, ghost>>

\* The user closes the window.
CloseWindow ==
  /\ DEVICE
  /\ pc \notin Gone
  /\ quit_event' = TRUE
  /\ UNCHANGED <<is_batch_mode, watch, mem, pc, status, n, is_skip_ref, ghost>>

Sdb ==
  /\ UNCHANGED is_batch_mode
  /\ \/ CmdC
     \/ \E k \in Steps : CmdSi(k)
     \/ \E e \in Exprs : CmdW(e)
     \/ CmdWNoFree
     \/ \E e \in BadExprs : CmdWBad(e)
     \/ \E k \in Args : CmdD(k)
     \/ CmdX
     \/ CmdQ
     \/ Eof
     \/ BatchRun

Engine ==
  /\ UNCHANGED is_batch_mode
  /\ \/ Plain
     \/ DeviceAccess
     \/ \E ret \in {0, 1} : Trap(ret)
     \/ Invalid
     \/ Panic
     \/ LoopEnd
     \/ DifftestStep
     \/ CheckWp
     \/ Test
     \/ DeviceThrottled
     \/ DevicePoll
     \/ AfterExec

Next == Sdb \/ Engine \/ CloseWindow

Spec == Init /\ [][Next]_vars

\* The loop is a single thread nothing suspends, and time passes: an update
\* that comes round again and again is not throttled every time.
FairSpec == Spec /\ WF_vars(Engine) /\ SF_vars(DevicePoll)

-----------------------------------------------------------------------------
(* Properties *)

\* The loops of sdb.c and cpu-exec.c use the watchpoint pool as module
\* Watchpoint says: each instruction is followed by exactly one check.
WatchSpec == W!Spec

\* is_exit_status_bad(), negated.
ExitGood == (state = "END" /\ halt_ret = 0) \/ state = "QUIT"

\* In batch mode the exit status tells whether anything went wrong: neither
\* a closed window nor the order of the tests in the loop can turn a bad
\* trap, an invalid instruction or a mismatch into a success, or a good
\* trap into a failure.
BatchVerdict == is_batch_mode /\ pc = "exit" => (ExitGood <=> ~ failed)

\* `si N' runs N instructions, no more, and fewer only for a reason the
\* user can see: a watchpoint that fired or a program that has ended.
StepCount ==
  asked # Forever =>
    /\ pc = "exec" => done + n = asked
    /\ done <= asked
    /\ pc = "sdb" /\ done < asked => state \in Ended \/ reported # {}

\* A trap is not mistaken for a mismatch: REF does not know the trap
\* instruction, and set_nemu_state has it skipped.
TrapIsNoMismatch == [][pc = "difftest" /\ state = "END" => state' = "END"]_vars

\* Only two things take a program that has ended out of that state: the
\* user's `q', and a watchpoint that fires on its very last instruction.
EndLeftOnlyByWatch ==
  [][(state \in {"END", "ABORT"}) /\ state' \notin {"END", "ABORT"} =>
       (pc = "sdb" /\ pc' = "exit") \/ (pc = "check" /\ reported' # {})]_vars

\* No instruction runs once the program has ended, but for the one that
\* follows the device update that found the window closed.
RunsOnlyWhileRunning ==
  [][pc = "exec" /\ pc' \in {"difftest", "check"} =>
       state = "RUNNING" \/ (state = "QUIT" /\ DEVICE)]_vars

\* A counted run ends.
StepsEnd == (pc = "exec" /\ n # Forever) ~> (pc \in Gone \cup {"sdb"})

\* A window closed while the guest runs ends even an unbounded run: control
\* is back at the debugger, or NEMU has exited.
CloseEndsRun == (quit_event /\ pc # "sdb") ~> (pc \in Gone \cup {"sdb"})

\* cpu-exec.c:112: "Program execution has ended. To restart the program,
\* exit NEMU and run again."
EndIsFinal == [][(state \in Ended) => state' \in Ended]_vars

=============================================================================
