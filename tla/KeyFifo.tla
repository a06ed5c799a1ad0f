------------------------------ MODULE KeyFifo ------------------------------
(***************************************************************************)
(* What a keyboard promises a guest: the keys in the order they were       *)
(* pressed, each one once.  At most Len - 1 keys wait.  The key that finds *)
(* no place ends NEMU; on the native AM it makes all waiting keys vanish,  *)
(* itself included.                                                        *)
(***************************************************************************)
EXTENDS Integers, Sequences

CONSTANTS KeyQueueLen, Keys, NONE

VARIABLES kind,         \* whose keyboard: "nemu" or "am"
          waiting,      \* the keys that wait, the oldest one first
          kbd,          \* what the guest last got
          alive         \* NEMU still runs

Init ==
    /\ kind \in {"nemu", "am"}
    /\ waiting = <<>>
    /\ kbd = NONE
    /\ alive = TRUE

Press(k) ==
    /\ alive
    /\ IF Len(waiting) < KeyQueueLen - 1
       THEN waiting' = Append(waiting, k) /\ alive' = TRUE
       ELSE waiting' = <<>> /\ alive' = (kind = "am")
    /\ UNCHANGED <<kind, kbd>>

Poll ==
    /\ alive
    /\ IF waiting = <<>>
       THEN kbd' = NONE /\ UNCHANGED waiting
       ELSE kbd' = Head(waiting) /\ waiting' = Tail(waiting)
    /\ UNCHANGED <<kind, alive>>

Next == Poll \/ \E k \in Keys : Press(k)

Spec == Init /\ [][Next]_<<kind, waiting, kbd, alive>>
=============================================================================
