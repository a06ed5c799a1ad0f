------------------------------- MODULE MCGcd -------------------------------
(***************************************************************************)
(* Both units under one bench: what DecoupledGcd accepts is loaded into    *)
(* GCD in the same cycle.  A reset lets the next load interrupt GCD.       *)
(* GCD powers up with the registers of DecoupledGcd.                       *)
(***************************************************************************)
EXTENDS DecoupledGcd

VARIABLES px, py, value1, value2, phase   \* GCD's

plain == <<px, py, value1, value2, phase>>

Plain == INSTANCE Gcd WITH x <- px, y <- py

BenchInit == Init /\ Plain!Init /\ px = x /\ py = y

BenchNext ==
  /\ reset' \in BOOLEAN
  /\ \/ \E a, b \in Value : Accept(a, b) /\ Plain!Load(a, b)
     \/ \E ready \in BOOLEAN : Busy(ready) /\ Plain!Step
     \/ Idle /\ Plain!Step

\* A cycle without a reset and without a load, the consumer being ready.
Work == reset' = FALSE /\ (Busy(TRUE) \/ Idle) /\ Plain!Step

BenchSpec == BenchInit /\ [][BenchNext]_<<vars, plain>> /\ WF_<<vars, plain>>(Work)

ValidIsGcd  == Plain!ValidIsGcd
NonzeroEnds == Plain!NonzeroEnds
=============================================================================
