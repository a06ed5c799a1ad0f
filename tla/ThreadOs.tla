------------------------------ MODULE ThreadOs ------------------------------
(***************************************************************************)
(* thread-os (am-kernels/kernels/thread-os/thread-os.c) on the processors  *)
(* of the native AM (abstract-machine/am/src/native: cte.c, mpe.c,         *)
(* platform.c).  A processor is a process: mpe_init() forks it, a byte of  *)
(* a pipe lets it go, and its interrupts are signals.  SIGVTALRM is the    *)
(* timer and is masked while a handler runs; a timer signal that finds the *)
(* program in a shared library is dropped.  The handler saves the context  *)
(* of the thread it interrupted, walks the ring of threads to the next one *)
(* of this processor and restores that one's context.                      *)
(*                                                                         *)
(* A context is a record: the stack it lies on (of), the place in the      *)
(* program (pc) and whether the timer signal is unmasked (sti).  run[c] is *)
(* the context processor c executes, or, inside the handler, the one the   *)
(* handler saved on that stack.                                            *)
(***************************************************************************)
EXTENDS Integers, FiniteSets

CONSTANTS NTask,        \* LENGTH(tasks)
          MaxCpu,       \* the largest cpu_count() an instance starts with
          BOOT,         \* a processor's own stack, the one main() runs on
          NoTask        \* a null Task pointer

VARIABLES ncpu,         \* __am_ncpu, from the environment
          mode,         \* a processor: not forked, in the program, or a step of the handler
          run,          \* the context a processor runs on
          currents,     \* the thread a processor has chosen, of thread-os.c
          context,      \* task->context
          locked,       \* the spin lock's word
          pend,         \* SIGVTALRM is pending
          ran,          \* the program has run since the timer last expired
          sent,         \* bytes main has written to the pipe
          pipe          \* those no child has read

thread_os == <<ncpu, mode, run, currents, context, locked, pend, ran, sent, pipe>>

Task == 0 .. NTask - 1
Cpu == 0 .. MaxCpu - 1

ASSUME NTaskAssumption == NTask \in Nat \ {0}
ASSUME MaxCpuAssumption == MaxCpu \in Nat \ {0}
ASSUME BootAssumption == BOOT \notin Task /\ NoTask \notin Task

BootPlaces == {"fork", "write", "read", "iset", "yield", "raise"}
TaskPlaces == {"lock", "call", "libc", "unlock", "delay"}

\* The places inside a shared library, where setup_stack() drops a timer signal.
Unsafe == {"raise", "libc"}

\* Between lock() returning and unlock().
Critical == {"call", "libc", "unlock"}

Contexts == [of : Task \cup {BOOT}, pc : BootPlaces \cup TaskPlaces, sti : BOOLEAN]

\* The processor whose turn in the ring thread t is: on_interrupt()'s test.
Home(t) == t % ncpu

\* Mutant: the last thread is not linked into the ring.
NextTask_Short(t) == IF t + 1 >= NTask - 1 THEN 0 ELSE t + 1

\* task->next: main() links the threads into a ring.
NextTask(t) == IF t = NTask - 1 THEN 0 ELSE t + 1
-----------------------------------------------------------------------------
(* Boot *)

ThreadOsInit ==
    /\ ncpu \in 1 .. MaxCpu
    /\ mode = [c \in Cpu |-> IF c = 0 THEN "user" ELSE "off"]
    /\ run = [c \in Cpu |-> [of |-> BOOT, pc |-> IF c = 0 THEN "fork" ELSE "read", sti |-> FALSE]]
    /\ currents = [c \in Cpu |-> NoTask]
    /\ context = [t \in Task |-> [of |-> t, pc |-> "lock", sti |-> TRUE]]
    /\ locked = 0
    /\ pend = [c \in Cpu |-> FALSE]
    /\ ran = [c \in Cpu |-> FALSE]
    /\ sent = 0
    /\ pipe = 0

\* The next instruction of the program on c is at `from'.  A pending timer
\* signal that is not masked comes first.
At(c, from) == mode[c] = "user" /\ run[c].pc = from /\ ~(pend[c] /\ run[c].sti)

Step(c, from, to) ==
    /\ At(c, from)
    /\ run' = [run EXCEPT ![c].pc = to]
    /\ ran' = [ran EXCEPT ![c] = TRUE]

Fork ==
    /\ IF \E c \in 1 .. ncpu - 1 : mode[c] = "off"
       THEN /\ At(0, "fork")
            /\ \E c \in 1 .. ncpu - 1 :
                 /\ \A d \in 1 .. c - 1 : mode[d] # "off"
                 /\ mode[c] = "off"
                 /\ mode' = [mode EXCEPT ![c] = "user"]
            /\ UNCHANGED <<run, ran>>
       ELSE Step(0, "fork", "write") /\ UNCHANGED mode
    /\ UNCHANGED <<ncpu, currents, context, locked, pend, sent, pipe>>

Write ==
    /\ IF sent < ncpu - 1
       THEN /\ At(0, "write")
            /\ sent' = sent + 1
            /\ pipe' = pipe + 1
            /\ UNCHANGED <<run, ran>>
       ELSE Step(0, "write", "iset") /\ UNCHANGED <<sent, pipe>>
    /\ UNCHANGED <<ncpu, mode, currents, context, locked, pend>>

\* read() blocks until there is a byte; then the child takes its number and
\* starts its timer.
Read(c) ==
    /\ pipe > 0
    /\ Step(c, "read", "iset")
    /\ pipe' = pipe - 1
    /\ UNCHANGED <<ncpu, mode, currents, context, locked, pend, sent>>

Iset(c) ==
    /\ At(c, "iset")
    /\ run' = [run EXCEPT ![c].pc = "yield", ![c].sti = TRUE]
    /\ ran' = [ran EXCEPT ![c] = TRUE]
    /\ UNCHANGED <<ncpu, mode, currents, context, locked, pend, sent, pipe>>

Yield(c) == Step(c, "yield", "raise")
            /\ UNCHANGED <<ncpu, mode, currents, context, locked, pend, sent, pipe>>
-----------------------------------------------------------------------------
(* Traps *)

\* The interval timer counts the time the process runs the program.
Expire(c) ==
    /\ mode[c] # "off" /\ run[c].pc # "read"
    /\ ran[c]
    /\ ran' = [ran EXCEPT ![c] = FALSE]
    /\ pend' = [pend EXCEPT ![c] = TRUE]
    /\ UNCHANGED <<ncpu, mode, run, currents, context, locked, sent, pipe>>

\* sig_handler() and setup_stack() on a timer signal.
Deliver(c) ==
    /\ mode[c] = "user" /\ pend[c] /\ run[c].sti
    /\ pend' = [pend EXCEPT ![c] = FALSE]
    /\ mode' = IF run[c].pc \in Unsafe THEN mode ELSE [mode EXCEPT ![c] = "save"]
    /\ UNCHANGED <<ncpu, run, currents, context, locked, ran, sent, pipe>>

\* The signal of yield(): raise() is not left before its handler ran.
Raise(c) ==
    /\ At(c, "raise")
    /\ mode' = [mode EXCEPT ![c] = "save"]
    /\ UNCHANGED <<ncpu, run, currents, context, locked, pend, ran, sent, pipe>>

\* Mutant: only the context of the first interrupt is saved.
Save_Once(c) ==
    /\ mode[c] = "save"
    /\ mode' = [mode EXCEPT ![c] = "pick"]
    /\ IF currents[c] = NoTask
       THEN currents' = [currents EXCEPT ![c] = 0] /\ UNCHANGED context
       ELSE /\ context' = [context EXCEPT ![currents[c]] = IF @.pc = "lock" THEN run[c] ELSE @]
            /\ UNCHANGED currents
    /\ UNCHANGED <<ncpu, run, locked, pend, ran, sent, pipe>>

\* The first two lines of on_interrupt(): what was running is saved as the
\* current thread's context; the first time it is the boot context, and dropped.
Save(c) ==
    /\ mode[c] = "save"
    /\ mode' = [mode EXCEPT ![c] = "pick"]
    /\ IF currents[c] = NoTask
       THEN /\ currents' = [currents EXCEPT ![c] = 0]
            /\ UNCHANGED context
       ELSE /\ context' = [context EXCEPT ![currents[c]] = run[c]]
            /\ UNCHANGED currents
    /\ UNCHANGED <<ncpu, run, locked, pend, ran, sent, pipe>>

\* Mutant: the next thread of the ring, whichever processor it belongs to.
Pick_Any(c) ==
    /\ mode[c] = "pick"
    /\ currents' = [currents EXCEPT ![c] = NextTask(@)]
    /\ mode' = [mode EXCEPT ![c] = "restore"]
    /\ UNCHANGED <<ncpu, run, context, locked, pend, ran, sent, pipe>>

\* One turn of on_interrupt()'s loop.
Pick(c) ==
    /\ mode[c] = "pick"
    /\ LET t == NextTask(currents[c])
       IN  /\ currents' = [currents EXCEPT ![c] = t]
           /\ mode' = IF Home(t) = c THEN [mode EXCEPT ![c] = "restore"] ELSE mode
    /\ UNCHANGED <<ncpu, run, context, locked, pend, ran, sent, pipe>>

\* Mutant: a thread starts again from its entry.
Restore_Fresh(c) ==
    /\ mode[c] = "restore"
    /\ mode' = [mode EXCEPT ![c] = "user"]
    /\ run' = [run EXCEPT ![c] = [context[currents[c]] EXCEPT !.pc = "lock"]]
    /\ UNCHANGED <<ncpu, currents, context, locked, pend, ran, sent, pipe>>

\* The end of irq_handle() and iret(): leave the old stack.
Restore(c) ==
    /\ mode[c] = "restore"
    /\ mode' = [mode EXCEPT ![c] = "user"]
    /\ run' = [run EXCEPT ![c] = context[currents[c]]]
    /\ UNCHANGED <<ncpu, currents, context, locked, pend, ran, sent, pipe>>

Handler(c) == Deliver(c) \/ Save(c) \/ Pick(c) \/ Restore(c)
-----------------------------------------------------------------------------
(* func() *)

\* Mutant: lock() reads the word and then writes it.
Lock_Racy(c) ==
    /\ \/ Step(c, "lock", "call") /\ locked' = 1
       \/ locked = 1 /\ Step(c, "lock", "lock") /\ UNCHANGED locked
    /\ UNCHANGED <<ncpu, mode, currents, context, pend, sent, pipe>>

Lock(c) ==
    /\ Step(c, "lock", IF locked = 0 THEN "call" ELSE "lock")
    /\ locked' = 1
    /\ UNCHANGED <<ncpu, mode, currents, context, pend, sent, pipe>>

Call(c) == Step(c, "call", "libc")
           /\ UNCHANGED <<ncpu, mode, currents, context, locked, pend, sent, pipe>>

Printf(c) == Step(c, "libc", "unlock")
             /\ UNCHANGED <<ncpu, mode, currents, context, locked, pend, sent, pipe>>

Unlock(c) ==
    /\ Step(c, "unlock", "delay")
    /\ locked' = 0
    /\ UNCHANGED <<ncpu, mode, currents, context, pend, sent, pipe>>

Delay(c) == Step(c, "delay", "lock")
            /\ UNCHANGED <<ncpu, mode, currents, context, locked, pend, sent, pipe>>

Func(c) == Lock(c) \/ Call(c) \/ Printf(c) \/ Unlock(c) \/ Delay(c)
-----------------------------------------------------------------------------
MpEntry(c) == (c = 0 /\ (Fork \/ Write)) \/ Read(c) \/ Iset(c) \/ Yield(c) \/ Raise(c)

ThreadOsNext == \E c \in Cpu : MpEntry(c) \/ Handler(c) \/ Func(c) \/ Expire(c)

\* A tick outside the shared libraries.
TickInText(c) == Expire(c) /\ run[c].pc \notin Unsafe

\* Every process is scheduled by the host, and the timer does not for ever
\* expire inside printf().
ThreadOsFairness == \A c \in Cpu : /\ WF_thread_os(MpEntry(c) \/ Handler(c) \/ Func(c))
                           /\ SF_thread_os(TickInText(c))

ThreadOsSpec == ThreadOsInit /\ [][ThreadOsNext]_thread_os /\ ThreadOsFairness
-----------------------------------------------------------------------------
(* Properties *)

\* Every variable keeps its type; the contexts are contexts.
ThreadOsTypeOK ==
    /\ ncpu \in 1 .. MaxCpu
    /\ mode \in [Cpu -> {"off", "user", "save", "pick", "restore"}]
    /\ run \in [Cpu -> Contexts]
    /\ currents \in [Cpu -> Task \cup {NoTask}]
    /\ context \in [Task -> Contexts]
    /\ locked \in {0, 1}
    /\ pend \in [Cpu -> BOOLEAN]
    /\ ran \in [Cpu -> BOOLEAN]
    /\ sent \in 0 .. ncpu - 1
    /\ pipe \in 0 .. sent

\* A handler goes on running on the stack of the thread it interrupted until
\* iret(), long after that thread's context can be picked: no two processors
\* are ever on one thread's stack, and a context is saved to the thread on
\* whose stack it lies.
OwnStack ==
    /\ \A c, d \in Cpu :
         c # d /\ run[c].of # BOOT => run[c].of # run[d].of
    /\ \A t \in Task : context[t].of = t

\* Where thread t is in func(): on a processor, or in its saved context.
Place(t) == IF run[Home(t)].of = t THEN run[Home(t)].pc ELSE context[t].pc

\* lock() and unlock() of thread-os.c: between them there is one thread at a
\* time, also when the timer takes the processor away from it there, and the
\* lock's word says whether there is one.
MutualExclusion ==
    /\ \A t, u \in Task :
         Place(t) \in Critical /\ Place(u) \in Critical => t = u
    /\ locked = 1 <=> \E t \in Task : Place(t) \in Critical

Threads == INSTANCE SpinThreads WITH at <- [t \in Task |-> Place(t)]

\* Processors, interrupts and context switches lose no step of a thread, do
\* none twice and mix up none: what is left is SpinThreads.
ThreadsSpec == Threads!Spec

\* A thread that loses its processor inside the lock gets it back: printing
\* never stops, whatever the timer interrupts.
Progress == []<>(\E t \in Task : Place(t) = "libc")

\* The ring of threads is fair: every thread is on its processor again and
\* again, also while another one spins there.
Scheduled == \A t \in Task : []<>(mode[Home(t)] = "user" /\ run[Home(t)].of = t)
=============================================================================
