---------------------------- MODULE SpinThreads ----------------------------
(***************************************************************************)
(* What the threads of am-kernels/kernels/thread-os promise, with no       *)
(* processor, no interrupt and no lock word: every thread goes round from  *)
(* asking for the lock to printing its line to releasing the lock, and one *)
(* thread at a time is between the two.                                    *)
(***************************************************************************)
EXTENDS Integers

CONSTANT NTask          \* the number of threads

VARIABLE at             \* where each thread is in func()

Task == 0 .. NTask - 1

Places == {"lock", "call", "libc", "unlock", "delay"}

\* The places between lock() returning and unlock().
Critical == {"call", "libc", "unlock"}

Go(t, from, to) == at[t] = from /\ at' = [at EXCEPT ![t] = to]

Init == at = [t \in Task |-> "lock"]

Acquire(t) == Go(t, "lock", "call") /\ \A u \in Task : at[u] \notin Critical
Call(t)    == Go(t, "call", "libc")
Printf(t)  == Go(t, "libc", "unlock")
Unlock(t)  == Go(t, "unlock", "delay")
Delay(t)   == Go(t, "delay", "lock")

Next == \E t \in Task :
          Acquire(t) \/ Call(t) \/ Printf(t) \/ Unlock(t) \/ Delay(t)

Spec == Init /\ [][Next]_at
=============================================================================
