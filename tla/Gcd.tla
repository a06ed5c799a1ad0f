-------------------------------- MODULE Gcd --------------------------------
(***************************************************************************)
(* GCD (npc/src/GCD.scala), the unit Elaborate.scala makes Verilog of: it  *)
(* subtracts in every cycle, loads when it is told to, and shows y === 0   *)
(* as outputValid.  There is no reset.                                     *)
(***************************************************************************)
EXTENDS CommonDivisor

VARIABLES
  x, y,
  value1, value2,  \* history: what was loaded last
  phase            \* history: "unloaded", "loading" in the cycle after a load,
                   \* "working" from the next one on

vars == <<x, y, value1, value2, phase>>

\* Mutant: equal registers leave zero in x.
Subtract_Equal == IF x >= y THEN x' = x - y /\ y' = y ELSE y' = y - x /\ x' = x

Subtract == IF x > y THEN x' = x - y /\ y' = y ELSE y' = y - x /\ x' = x

\* A clock edge with loadingValues low, and one with it high.
Step ==
  /\ Subtract
  /\ phase' = IF phase = "unloaded" THEN phase ELSE "working"
  /\ UNCHANGED <<value1, value2>>

\* Mutant: y is not loaded.
Load_NoY(a, b) ==
  /\ x' = a /\ y' = y
  /\ value1' = a /\ value2' = b /\ phase' = "loading"

Load(a, b) ==
  /\ x' = a /\ y' = b
  /\ value1' = a /\ value2' = b /\ phase' = "loading"

Init ==
  /\ x \in Value /\ y \in Value /\ value1 = 0 /\ value2 = 0
  /\ phase = "unloaded"

Next == Step \/ \E a, b \in Value : Load(a, b)

\* The clock does not stop.
Spec == Init /\ [][Next]_vars /\ WF_vars(Step)

outputGCD   == x
outputValid == y = 0

-----------------------------------------------------------------------------
(* Properties *)

TypeOK ==
  /\ x \in Value /\ y \in Value /\ value1 \in Value /\ value2 \in Value
  /\ phase \in {"unloaded", "loading", "working"}

\* What the unit calls valid is the greatest common divisor of what was loaded.
ValidIsGcd == phase # "unloaded" /\ outputValid => IsGcd(outputGCD, value1, value2)

\* A load whose first operand is not zero is followed by a valid output, unless
\* another load interrupts it.
NonzeroEnds ==
  (phase = "working" /\ value1 # 0) ~> (outputValid \/ phase = "loading")

=============================================================================
