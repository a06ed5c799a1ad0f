------------------------------ MODULE Keyboard ------------------------------
(***************************************************************************)
(* The two key queues of the repository, which share their ring.  NEMU's   *)
(* (nemu/src/device/keyboard.c) is filled by device_update() between two   *)
(* guest instructions and asserts that there is a place.  The native AM's  *)
(* (am/src/native/ioe/input.c) is filled by an SDL thread of its own under *)
(* a mutex, and does not look whether there is a place; NEMU built for the *)
(* AM reads its keys there.                                                *)
(***************************************************************************)
EXTENDS Integers, Sequences

CONSTANTS KeyQueueLen,  \* KEY_QUEUE_LEN
          Keys,         \* mapped keys, with their keydown bit
          NONE          \* NEMU_KEY_NONE, AM_KEY_NONE

ASSUME LenAssumption == KeyQueueLen \in Nat \ {0, 1}
ASSUME KeysAssumption == NONE \notin Keys

VARIABLES kind,         \* whose keyboard this is
          key_queue, key_f, key_r,
          alive,        \* NEMU has not failed an assertion
          kbd,          \* what the guest last got
          lock,         \* key_queue_lock: nobody, the event thread or the guest
          ev, code,     \* where event_thread() is, and with which key
          gu, k         \* where __am_input_keybrd() is, and with which key

keyboard == <<kind, key_queue, key_f, key_r, alive, kbd, lock, ev, code, gu, k>>

Slots == 0 .. KeyQueueLen - 1

KeyboardInit ==
    /\ kind \in {"nemu", "am"}
    /\ key_queue = [i \in Slots |-> NONE]
    /\ key_f = 0 /\ key_r = 0
    /\ alive = TRUE
    /\ kbd = NONE
    /\ lock = "free"
    /\ ev = "wait" /\ code = NONE
    /\ gu = "idle" /\ k = NONE
-----------------------------------------------------------------------------
(* NEMU: one thread *)

\* send_key() and key_enqueue(): the key is stored before the assertion.
KeyEnqueue(key) ==
    /\ kind = "nemu" /\ alive
    /\ key_queue' = [key_queue EXCEPT ![key_r] = key]
    /\ key_r' = (key_r + 1) % KeyQueueLen
    /\ alive' = (key_r' # key_f)
    /\ UNCHANGED <<kind, key_f, kbd, lock, ev, code, gu, k>>

\* key_dequeue(), called by i8042_data_io_handler() on a load of the port.
KeyDequeue ==
    /\ kind = "nemu" /\ alive
    /\ IF key_f # key_r
       THEN /\ kbd' = key_queue[key_f]
            /\ key_f' = (key_f + 1) % KeyQueueLen
       ELSE kbd' = NONE /\ UNCHANGED key_f
    /\ UNCHANGED <<kind, key_queue, key_r, alive, lock, ev, code, gu, k>>
-----------------------------------------------------------------------------
(* The native AM: the event thread and the guest *)

Wait(key) ==
    /\ kind = "am" /\ ev = "wait"
    /\ code' = key
    /\ ev' = "lock"
    /\ UNCHANGED <<kind, key_queue, key_f, key_r, alive, kbd, lock, gu, k>>

\* Mutant: the event thread does not take the mutex.
EventLock_None ==
    /\ ev = "lock"
    /\ ev' = "store"
    /\ UNCHANGED <<kind, key_queue, key_f, key_r, alive, kbd, lock, code, gu, k>>

EventLock ==
    /\ ev = "lock" /\ lock = "free"
    /\ lock' = "event"
    /\ ev' = "store"
    /\ UNCHANGED <<kind, key_queue, key_f, key_r, alive, kbd, code, gu, k>>

EventStore ==
    /\ ev = "store"
    /\ key_queue' = [key_queue EXCEPT ![key_r] = code]
    /\ ev' = "advance"
    /\ UNCHANGED <<kind, key_f, key_r, alive, kbd, lock, code, gu, k>>

EventAdvance ==
    /\ ev = "advance"
    /\ key_r' = (key_r + 1) % KeyQueueLen
    /\ ev' = "unlock"
    /\ UNCHANGED <<kind, key_queue, key_f, alive, kbd, lock, code, gu, k>>

\* After the unlock the thread sends the keyboard's interrupt and waits again.
EventUnlock ==
    /\ ev = "unlock"
    /\ lock' = "free"
    /\ ev' = "wait"
    /\ UNCHANGED <<kind, key_queue, key_f, key_r, alive, kbd, code, gu, k>>

GuestLock ==
    /\ kind = "am" /\ gu = "idle" /\ lock = "free"
    /\ lock' = "guest"
    /\ gu' = "test"
    /\ UNCHANGED <<kind, key_queue, key_f, key_r, alive, kbd, ev, code, k>>

GuestTest ==
    /\ gu = "test"
    /\ IF key_f # key_r
       THEN k' = key_queue[key_f] /\ gu' = "advance"
       ELSE k' = NONE /\ gu' = "unlock"
    /\ UNCHANGED <<kind, key_queue, key_f, key_r, alive, kbd, lock, ev, code>>

GuestAdvance ==
    /\ gu = "advance"
    /\ key_f' = (key_f + 1) % KeyQueueLen
    /\ gu' = "unlock"
    /\ UNCHANGED <<kind, key_queue, key_r, alive, kbd, lock, ev, code, k>>

\* Mutant: the guest keeps the mutex when it found no key.
GuestUnlock_Leak ==
    /\ gu = "unlock"
    /\ lock' = IF k = NONE THEN lock ELSE "free"
    /\ gu' = "idle"
    /\ kbd' = k
    /\ UNCHANGED <<kind, key_queue, key_f, key_r, alive, ev, code, k>>

GuestUnlock ==
    /\ gu = "unlock"
    /\ lock' = "free"
    /\ gu' = "idle"
    /\ kbd' = k
    /\ UNCHANGED <<kind, key_queue, key_f, key_r, alive, ev, code, k>>

Event == EventLock \/ EventStore \/ EventAdvance \/ EventUnlock
Guest == GuestLock \/ GuestTest \/ GuestAdvance \/ GuestUnlock \/ KeyDequeue

KeyboardNext == Event \/ Guest \/ \E key \in Keys : KeyEnqueue(key) \/ Wait(key)

\* Both threads run, the mutex is handed to one that asks for it again and
\* again, and the guest polls: nothing makes the user press keys.
Fairness == WF_keyboard(Event) /\ WF_keyboard(Guest) /\ SF_keyboard(GuestLock) /\ SF_keyboard(EventLock)

KeyboardSpec == KeyboardInit /\ [][KeyboardNext]_keyboard /\ Fairness
-----------------------------------------------------------------------------
(* Properties *)

\* The keys in the ring, the oldest one first.
Used == IF key_f <= key_r THEN key_r - key_f ELSE key_r + KeyQueueLen - key_f
Slot(i) == IF key_f + i - 1 < KeyQueueLen THEN key_f + i - 1 ELSE key_f + i - 1 - KeyQueueLen
Ring == [i \in 1 .. Used |-> key_queue[Slot(i)]]

\* A key the guest has taken out of the ring counts until the guest has it.
Waiting == IF gu = "unlock" /\ k # NONE THEN <<k>> \o Ring ELSE Ring

Fifo == INSTANCE KeyFifo WITH waiting <- Waiting

\* Both rings are KeyFifo: in order, each key once, and a key too many ends
\* NEMU or empties the AM's ring, whatever the two threads do in between.
FifoSpec == Fifo!Spec

\* A guest that goes on polling gets every key, unless the user goes on
\* pressing more: none is stuck in the ring, nor in the event thread.
Drained ==
    <>[][\A key \in Keys : ~Wait(key) /\ ~KeyEnqueue(key)]_keyboard
      => <>[](alive => key_f = key_r /\ ev = "wait")
=============================================================================
