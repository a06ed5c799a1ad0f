---------------------------- MODULE DecoupledGcd ----------------------------
(***************************************************************************)
(* DecoupledGcd (npc/src/DecoupledGCD.scala): a unit that subtracts the    *)
(* smaller register from the larger until one is zero, with a Decoupled    *)
(* input and output.  One step is one clock edge, with whatever the        *)
(* producer, the consumer and the reset drive in that cycle.               *)
(***************************************************************************)
EXTENDS CommonDivisor

CONSTANT None

VARIABLES
  xInitial, yInitial,   \* the request
  x, y,                 \* working registers, not reset
  busy, resultValid,
  reset,                \* history: the reset input of the cycle that ended
  answer                \* history: the bits of the last output handshake

vars == <<xInitial, yInitial, x, y, busy, resultValid, reset, answer>>

-----------------------------------------------------------------------------
(* The output *)

\* Mutant: the multiplexer tests the wrong register.
Gcd_Mux == IF y = 0 THEN y ELSE x

Gcd == IF x = 0 THEN y ELSE x

Bits == [value1 |-> xInitial, value2 |-> yInitial, gcd |-> Gcd]

\* Mutant: done when y is zero, as in GCD.scala.
Done_Y == y = 0

\* Mutant: done when a register is one.
Done_One == x <= 1 \/ y <= 1

\* resultValid is raised in the first cycle in which a register is zero.
Done == x = 0 \/ y = 0

-----------------------------------------------------------------------------
(* One clock edge, busy or idle *)

Subtract == IF x > y THEN x' = x - y /\ y' = y ELSE y' = y - x /\ x' = x

\* Mutant: the request ends in the cycle the output becomes valid.
Finish_NoValid(ready) ==
  /\ busy' = (~ reset' /\ ~ (Done /\ ready))
  /\ resultValid' = (~ reset' /\ ~ (Done /\ ready) /\ (resultValid \/ Done))
  /\ answer' = IF resultValid /\ ready THEN Bits ELSE answer

Finish(ready) ==
  LET handshake == resultValid /\ ready IN
  /\ busy' = (~ reset' /\ ~ (Done /\ handshake))
  /\ resultValid' = (~ reset' /\ ~ (Done /\ handshake) /\ (resultValid \/ Done))
  /\ answer' = IF handshake THEN Bits ELSE answer

Busy(ready) ==
  /\ busy
  /\ Subtract
  /\ Finish(ready)
  /\ UNCHANGED <<xInitial, yInitial>>

\* input.ready is high.  The registers are loaded in a reset cycle too.
Accept(a, b) ==
  /\ ~ busy
  /\ x' = a /\ y' = b /\ xInitial' = a /\ yInitial' = b
  /\ busy' = ~ reset'
  /\ resultValid' = (resultValid /\ ~ reset')
  /\ UNCHANGED answer

\* No input.
Idle ==
  /\ ~ busy
  /\ resultValid' = (resultValid /\ ~ reset')
  /\ UNCHANGED <<x, y, xInitial, yInitial, busy, answer>>

\* After a reset; the other registers hold anything.
Init ==
  /\ xInitial \in Value /\ yInitial \in Value /\ x \in Value /\ y \in Value
  /\ busy = FALSE /\ resultValid = FALSE /\ reset = TRUE
  /\ answer = [value1 |-> 0, value2 |-> 0, gcd |-> 0]

Next ==
  /\ reset' \in BOOLEAN
  /\ \/ \E ready \in BOOLEAN : Busy(ready)
     \/ \E a, b \in Value : Accept(a, b)
     \/ Idle

Spec == Init /\ [][Next]_vars

\* The clock does not stop, and neither the reset nor the consumer holds a
\* request up for ever.
FairSpec == Spec /\ WF_vars(reset' = FALSE /\ Busy(TRUE))

-----------------------------------------------------------------------------
(* Properties *)

TypeOK ==
  /\ xInitial \in Value /\ yInitial \in Value /\ x \in Value /\ y \in Value
  /\ busy \in BOOLEAN /\ resultValid \in BOOLEAN /\ reset \in BOOLEAN
  /\ answer \in [value1 : Value, value2 : Value, gcd : Value]

\* An output is offered for the request being worked on only, when one register
\* is zero and the other is the greatest common divisor of the request.
OffersGcd ==
  resultValid => busy /\ Done /\ IsGcd(Gcd, xInitial, yInitial)

\* An output that is not taken stays as it is, although the registers go on
\* being subtracted: a stalled consumer reads the same bits later.
StableOutput == [][resultValid /\ resultValid' => Bits' = Bits]_vars

\* The unit is a server of one request at a time.
Server == INSTANCE GcdServer WITH
  request <- IF busy THEN <<xInitial, yInitial>> ELSE None

ServesRequests == Server!ServerSpec

\* Every request is answered, unless the unit is reset: the subtraction ends,
\* zeroes included.
RequestsEnd == busy ~> ~ busy

=============================================================================
