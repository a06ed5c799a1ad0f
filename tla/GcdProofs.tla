----------------------------- MODULE GcdProofs -----------------------------
(***************************************************************************)
(* Both GCD units, and the bench that runs them together, for every width. *)
(* The invariants say that the working registers have the common divisors  *)
(* of the request, or of what was loaded last.                             *)
(***************************************************************************)
EXTENDS MCGcd, TLAPS

-----------------------------------------------------------------------------
(* Divisors: subtracting one number from another keeps the common divisors *)
(* of the two, and a number is the greatest common divisor of itself and   *)
(* zero.                                                                   *)

\* The quotient need not be looked for below the dividend only.
LEMMA Quotient ==
  ASSUME NEW d \in Nat, NEW n \in Nat, NEW k \in Nat, d * k = n
  PROVE  Divides(d, n)
<1>1. CASE d = 0
  <2>1. n = 0
    BY <1>1, SMT
  <2>2. 0 \in 0 .. n /\ d * 0 = n
    BY <2>1, SMT
  <2> QED BY <2>2 DEF Divides
<1>2. CASE d # 0
  <2>1. d >= 1
    BY <1>2
  <2>2. (d - 1) * k >= 0
    BY <2>1, SMT
  <2>3. (d - 1) * k = d * k - k
    BY SMT
  <2>4. k \in 0 .. n
    BY <2>2, <2>3
  <2> QED BY <2>4 DEF Divides
<1> QED BY <1>1, <1>2

\* A divisor of b divides a when it divides a - b.
LEMMA DividesDifference ==
  ASSUME NEW d \in Nat, NEW a \in Nat, NEW b \in Nat, a >= b, Divides(d, b)
  PROVE  Divides(d, a) <=> Divides(d, a - b)
<1> PICK k \in 0 .. b : d * k = b
  BY DEF Divides
<1>1. a - b \in Nat
  OBVIOUS
<1>2. ASSUME Divides(d, a - b) PROVE Divides(d, a)
  <2> PICK m \in 0 .. a - b : d * m = a - b
    BY <1>2 DEF Divides
  <2>1. d * (m + k) = d * m + d * k
    BY SMT
  <2>2. d * (m + k) = a /\ m + k \in Nat
    BY <2>1, <1>1
  <2> QED BY <2>2, Quotient
<1>3. ASSUME Divides(d, a) PROVE Divides(d, a - b)
  <2> PICK m \in 0 .. a : d * m = a
    BY <1>3 DEF Divides
  <2>1. d * (m - k) = d * m - d * k
    BY SMT
  <2>2. CASE m >= k
    <3>1. d * (m - k) = a - b /\ m - k \in Nat
      BY <2>1, <2>2
    <3> QED BY <3>1, <1>1, Quotient
  <2>3. CASE m < k
    <3>1. d * (k - m) = d * k - d * m
      BY SMT
    <3>2. d * (k - m) >= 0
      BY <2>3, SMT
    <3>3. a - b = 0
      BY <3>1, <3>2
    <3>4. d * 0 = a - b
      BY <3>3, SMT
    <3> QED BY <3>4, <1>1, Quotient
  <2> QED BY <2>2, <2>3
<1> QED BY <1>2, <1>3

\* Everything divides zero.
LEMMA DividesZero ==
  ASSUME NEW d \in Nat
  PROVE  Divides(d, 0)
<1>1. d * 0 = 0
  BY SMT
<1> QED BY <1>1, Quotient

\* The pairs a, b and u, v have the same common divisors.
SameDivisors(a, b, u, v) ==
  \A d \in Value : Divides(d, u) /\ Divides(d, v) <=> Divides(d, a) /\ Divides(d, b)

\* A step of the subtraction keeps the common divisors.
LEMMA SubtractSame ==
  ASSUME NEW a \in Value, NEW b \in Value, NEW u \in Value, NEW v \in Value,
         SameDivisors(a, b, u, v)
  PROVE  /\ u >= v => SameDivisors(a, b, u - v, v)
         /\ v >= u => SameDivisors(a, b, u, v - u)
<1> USE MaxAssumption DEF Value
<1>1. ASSUME u >= v, NEW d \in Value
      PROVE  Divides(d, u - v) /\ Divides(d, v) <=> Divides(d, a) /\ Divides(d, b)
  BY <1>1, DividesDifference DEF SameDivisors
<1>2. ASSUME v >= u, NEW d \in Value
      PROVE  Divides(d, u) /\ Divides(d, v - u) <=> Divides(d, a) /\ Divides(d, b)
  BY <1>2, DividesDifference DEF SameDivisors
<1> QED BY <1>1, <1>2 DEF SameDivisors

\* When one number is zero the other is the greatest common divisor.
LEMMA ZeroIsGcd ==
  ASSUME NEW a \in Value, NEW b \in Value, NEW u \in Value, NEW v \in Value,
         SameDivisors(a, b, u, v)
  PROVE  /\ u = 0 => IsGcd(v, a, b)
         /\ v = 0 => IsGcd(u, a, b)
<1> USE MaxAssumption DEF Value
<1>1. \A d \in Value : Divides(d, 0)
  BY DividesZero
<1> QED BY <1>1 DEF SameDivisors, IsGcd

-----------------------------------------------------------------------------
(* DecoupledGcd *)

IndInv ==
  /\ TypeOK
  /\ busy => SameDivisors(xInitial, yInitial, x, y)
  /\ resultValid => busy /\ Done

LEMMA InitInd == Init => IndInv
<1> SUFFICES ASSUME Init PROVE IndInv
  OBVIOUS
<1>1. TypeOK
  <2>1. 0 \in Value
    BY MaxAssumption DEF Value
  <2> QED BY <2>1 DEF Init, TypeOK
<1> QED BY <1>1 DEF Init, IndInv

\* The subtraction stays in range, keeps the common divisors, and changes
\* nothing once a register is zero.
LEMMA SubtractKeeps ==
  ASSUME IndInv, busy, Subtract
  PROVE  /\ x' \in Value /\ y' \in Value
         /\ SameDivisors(xInitial, yInitial, x', y')
         /\ Done => x' = x /\ y' = y
<1> USE MaxAssumption DEF Value, Done
<1>1. CASE x > y
  <2>1. x' = x - y /\ y' = y
    BY <1>1 DEF Subtract
  <2> QED BY <1>1, <2>1, SubtractSame DEF IndInv, TypeOK
<1>2. CASE ~ (x > y)
  <2>1. x' = x /\ y' = y - x
    BY <1>2 DEF Subtract
  <2> QED BY <1>2, <2>1, SubtractSame DEF IndInv, TypeOK
<1> QED BY <1>1, <1>2

LEMMA BusyInd ==
  ASSUME IndInv, reset' \in BOOLEAN, NEW ready \in BOOLEAN, Busy(ready)
  PROVE  IndInv'
<1>1. /\ x' \in Value /\ y' \in Value
      /\ SameDivisors(xInitial, yInitial, x', y')
      /\ Done => x' = x /\ y' = y
  BY SubtractKeeps DEF Busy
<1>2. Gcd \in Value
  BY DEF IndInv, TypeOK, Gcd
<1>3. TypeOK'
  BY <1>1, <1>2 DEF IndInv, TypeOK, Busy, Finish, Bits
<1>4. (busy => SameDivisors(xInitial, yInitial, x, y))'
  BY <1>1 DEF Busy, SameDivisors
<1>5. (resultValid => busy /\ Done)'
  BY <1>1 DEF IndInv, Busy, Finish, Done
<1> QED BY <1>3, <1>4, <1>5 DEF IndInv

LEMMA AcceptInd ==
  ASSUME IndInv, reset' \in BOOLEAN, NEW a \in Value, NEW b \in Value, Accept(a, b)
  PROVE  IndInv'
<1>1. TypeOK'
  BY DEF IndInv, TypeOK, Accept
<1>2. (busy => SameDivisors(xInitial, yInitial, x, y))'
  BY DEF Accept, SameDivisors
<1>3. (resultValid => busy /\ Done)'
  BY DEF IndInv, Accept
<1> QED BY <1>1, <1>2, <1>3 DEF IndInv

LEMMA IdleInd ==
  ASSUME IndInv, reset' \in BOOLEAN, Idle
  PROVE  IndInv'
<1>1. TypeOK'
  BY DEF IndInv, TypeOK, Idle
<1>2. (busy => SameDivisors(xInitial, yInitial, x, y))'
  BY DEF IndInv, Idle, SameDivisors
<1>3. (resultValid => busy /\ Done)'
  BY DEF IndInv, Idle
<1> QED BY <1>1, <1>2, <1>3 DEF IndInv

LEMMA NextInd == IndInv /\ [Next]_vars => IndInv'
<1> SUFFICES ASSUME IndInv, [Next]_vars PROVE IndInv'
  OBVIOUS
<1>1. ASSUME reset' \in BOOLEAN, NEW ready \in BOOLEAN, Busy(ready) PROVE IndInv'
  BY <1>1, BusyInd
<1>2. ASSUME reset' \in BOOLEAN, NEW a \in Value, NEW b \in Value, Accept(a, b)
      PROVE  IndInv'
  BY <1>2, AcceptInd
<1>3. ASSUME reset' \in BOOLEAN, Idle PROVE IndInv'
  BY <1>3, IdleInd
<1>4. CASE UNCHANGED vars
  BY <1>4 DEF vars, IndInv, TypeOK, SameDivisors, Done
<1> QED BY <1>1, <1>2, <1>3, <1>4 DEF Next

LEMMA SpecInd == Spec => []IndInv
BY InitInd, NextInd, PTL DEF Spec

\* An output that is offered is the greatest common divisor of the request.
LEMMA IndOffers == IndInv => OffersGcd
<1> SUFFICES ASSUME IndInv, resultValid
             PROVE  busy /\ Done /\ IsGcd(Gcd, xInitial, yInitial)
  BY DEF OffersGcd
<1>1. busy /\ Done /\ SameDivisors(xInitial, yInitial, x, y)
  BY DEF IndInv
<1>2. IsGcd(Gcd, xInitial, yInitial)
  BY <1>1, ZeroIsGcd DEF IndInv, TypeOK, Done, Gcd
<1> QED BY <1>1, <1>2

\* For every width the registers keep their types (DecoupledGCD.scala:25-30).
THEOREM DecoupledGcd_Type == Spec => []TypeOK
<1>1. IndInv => TypeOK
  BY DEF IndInv
<1> QED BY SpecInd, <1>1, PTL

\* For every width and every pair of operands the unit offers the greatest
\* common divisor of the request it accepted (DecoupledGCD.scala:36-51).
THEOREM DecoupledGcd_OffersGcd == Spec => []OffersGcd
BY SpecInd, IndOffers, PTL

\* For every width, an output that the consumer does not take does not change
\* (DecoupledGCD.scala:37-41 go on subtracting).
THEOREM DecoupledGcd_StableOutput == Spec => StableOutput
<1>1. ASSUME IndInv, [Next]_vars
      PROVE  [resultValid /\ resultValid' => Bits' = Bits]_vars
  <2> SUFFICES ASSUME Next, resultValid, resultValid' PROVE Bits' = Bits
    BY <1>1
  <2>1. busy /\ Done
    BY <1>1 DEF IndInv
  <2> PICK ready \in BOOLEAN : Busy(ready)
    BY <2>1 DEF Next, Accept, Idle
  <2>2. x' = x /\ y' = y
    BY <1>1, <2>1, SubtractKeeps DEF Busy
  <2> QED BY <2>2 DEF Busy, Bits, Gcd
<1> QED BY <1>1, SpecInd, PTL DEF Spec, StableOutput

-----------------------------------------------------------------------------
(* The unit implements the server *)

LEMMA ServerInitStep == Init => Server!ServerInit
BY MaxAssumption DEF Init, Server!ServerInit, Server!Answers, Value, Server!Value

\* A busy cycle is work, or an answer, or both at a reset.
LEMMA BusyStep ==
  ASSUME IndInv, reset' \in BOOLEAN, NEW ready \in BOOLEAN, Busy(ready),
         None \notin Value \X Value
  PROVE  Server!ServerNext
<1> DEFINE request == IF busy THEN <<xInitial, yInitial>> ELSE None
<1>1. request = <<xInitial, yInitial>> /\ request # None
  BY DEF Busy, IndInv, TypeOK
<1>2. CASE resultValid /\ ready
  <2>1. busy' = FALSE /\ answer' = Bits
    BY <1>2 DEF Busy, Finish, IndInv, TypeOK
  <2>2. request' = None
    BY <2>1
  <2>3. answer' \in Server!Answers
    BY <2>1 DEF IndInv, TypeOK, Bits, Gcd, Server!Answers, Server!Value, Value
  <2>4. Server!IsGcd(Gcd, xInitial, yInitial)
    BY <1>2, IndOffers DEF OffersGcd, IsGcd, Server!IsGcd, Divides, Server!Divides,
                           Value, Server!Value
  <2>5. Server!Answer
    BY <1>1, <2>1, <2>2, <2>3, <2>4 DEF Server!Answer, Bits
  <2> QED BY <2>5 DEF Server!ServerNext
<1>3. CASE ~ (resultValid /\ ready)
  <2>1. busy' = ~ reset' /\ answer' = answer
    BY <1>3 DEF Busy, Finish, IndInv, TypeOK
  <2>2. CASE reset'
    BY <2>1, <2>2 DEF Server!ServerNext, Server!Forget
  <2>3. CASE ~ reset'
    <3>1. request' = request
      BY <1>1, <2>1, <2>3 DEF Busy
    <3> QED BY <2>1, <2>3, <3>1 DEF Server!ServerNext, Server!Wait
  <2> QED BY <2>2, <2>3
<1> QED BY <1>2, <1>3

\* An accepted request is the server's, unless the cycle is a reset.
LEMMA AcceptStep ==
  ASSUME IndInv, reset' \in BOOLEAN, NEW a \in Value, NEW b \in Value, Accept(a, b)
  PROVE  Server!ServerNext
<1>1. CASE reset'
  BY <1>1 DEF Accept, Server!ServerNext, Server!Forget
<1>2. CASE ~ reset'
  BY <1>2 DEF Accept, Server!ServerNext, Server!Accept, Server!Value, Value
<1> QED BY <1>1, <1>2

\* A cycle without a request is a cycle without work.
LEMMA IdleStep ==
  ASSUME IndInv, reset' \in BOOLEAN, Idle
  PROVE  Server!ServerNext
<1>1. CASE reset'
  BY <1>1 DEF Idle, Server!ServerNext, Server!Forget
<1>2. CASE ~ reset'
  BY <1>2 DEF Idle, Server!ServerNext, Server!Wait
<1> QED BY <1>1, <1>2

\* For every width the unit takes one request at a time and answers it once,
\* with its own greatest common divisor; only a reset forgets it
\* (DecoupledGCD.scala:32-67).  None stands for no request.
THEOREM DecoupledGcd_ServesRequests ==
  ASSUME None \notin Value \X Value
  PROVE  Spec => ServesRequests
<1>1. ASSUME IndInv, [Next]_vars PROVE [Server!ServerNext]_Server!server
  <2>1. ASSUME reset' \in BOOLEAN, NEW ready \in BOOLEAN, Busy(ready)
        PROVE  Server!ServerNext
    BY <1>1, <2>1, BusyStep
  <2>2. ASSUME reset' \in BOOLEAN, NEW a \in Value, NEW b \in Value, Accept(a, b)
        PROVE  Server!ServerNext
    BY <1>1, <2>2, AcceptStep
  <2>3. ASSUME reset' \in BOOLEAN, Idle PROVE Server!ServerNext
    BY <1>1, <2>3, IdleStep
  <2>4. CASE UNCHANGED vars
    BY <2>4 DEF vars, Server!server
  <2> QED BY <1>1, <2>1, <2>2, <2>3, <2>4 DEF Next
<1> QED BY <1>1, SpecInd, ServerInitStep, PTL DEF Spec, ServesRequests, Server!ServerSpec

-----------------------------------------------------------------------------
(* GCD, whatever is loaded and whenever *)

PlainInv ==
  /\ Plain!TypeOK
  /\ phase # "unloaded" => SameDivisors(value1, value2, px, py)

\* The instance computes with the numbers of this module.
LEMMA PlainValues ==
  /\ Plain!Value = Value
  /\ \A d, a, b \in Value : IsGcd(d, a, b) <=> Plain!IsGcd(d, a, b)
BY DEF Plain!Value, Value, IsGcd, Plain!IsGcd, Divides, Plain!Divides

LEMMA PlainInitInd == Plain!Init => PlainInv
<1>1. 0 \in Value
  BY MaxAssumption DEF Value
<1> QED BY <1>1, PlainValues DEF Plain!Init, PlainInv, Plain!TypeOK

\* A cycle without a load.
LEMMA PlainStepInd ==
  ASSUME PlainInv, Plain!Step
  PROVE  PlainInv'
<1>1. /\ px' \in Value /\ py' \in Value
      /\ phase # "unloaded" => SameDivisors(value1, value2, px', py')
  <2> USE MaxAssumption, PlainValues DEF Value
  <2>1. CASE px > py
    <3>1. px' = px - py /\ py' = py
      BY <2>1 DEF Plain!Step, Plain!Subtract
    <3> QED BY <2>1, <3>1, SubtractSame DEF PlainInv, Plain!TypeOK
  <2>2. CASE ~ (px > py)
    <3>1. px' = px /\ py' = py - px
      BY <2>2 DEF Plain!Step, Plain!Subtract
    <3> QED BY <2>2, <3>1, SubtractSame DEF PlainInv, Plain!TypeOK
  <2> QED BY <2>1, <2>2
<1>2. Plain!TypeOK'
  BY <1>1, PlainValues DEF PlainInv, Plain!TypeOK, Plain!Step
<1>3. (phase # "unloaded" => SameDivisors(value1, value2, px, py))'
  BY <1>1 DEF Plain!Step, SameDivisors
<1> QED BY <1>2, <1>3 DEF PlainInv

LEMMA PlainLoadInd ==
  ASSUME PlainInv, NEW a \in Value, NEW b \in Value, Plain!Load(a, b)
  PROVE  PlainInv'
<1>1. Plain!TypeOK'
  BY PlainValues DEF Plain!Load, Plain!TypeOK
<1>2. SameDivisors(value1, value2, px, py)'
  BY DEF Plain!Load, SameDivisors
<1> QED BY <1>1, <1>2 DEF PlainInv

LEMMA PlainNextInd == PlainInv /\ [Plain!Next]_Plain!vars => PlainInv'
<1> SUFFICES ASSUME PlainInv, [Plain!Next]_Plain!vars PROVE PlainInv'
  OBVIOUS
<1>1. CASE Plain!Step
  BY <1>1, PlainStepInd
<1>2. ASSUME NEW a \in Value, NEW b \in Value, Plain!Load(a, b) PROVE PlainInv'
  BY <1>2, PlainLoadInd
<1>3. CASE UNCHANGED Plain!vars
  BY <1>3 DEF Plain!vars, PlainInv, Plain!TypeOK, SameDivisors
<1> QED BY <1>1, <1>2, <1>3, PlainValues DEF Plain!Next

LEMMA PlainIndValid == PlainInv => Plain!ValidIsGcd
<1> SUFFICES ASSUME PlainInv, phase # "unloaded", py = 0
             PROVE  Plain!IsGcd(px, value1, value2)
  BY DEF Plain!ValidIsGcd, Plain!outputValid, Plain!outputGCD
<1>1. IsGcd(px, value1, value2)
  BY ZeroIsGcd, PlainValues DEF PlainInv, Plain!TypeOK
<1> QED BY <1>1, PlainValues DEF PlainInv, Plain!TypeOK

\* For every width, whatever is loaded and whenever, a valid output is the
\* greatest common divisor of the last operands (GCD.scala:20-29).
THEOREM Gcd_ValidIsGcd == Plain!Spec => []Plain!ValidIsGcd
BY PlainInitInd, PlainNextInd, PlainIndValid, PTL DEF Plain!Spec

-----------------------------------------------------------------------------
(* The bench *)

\* Every cycle of the bench is a cycle of DecoupledGcd and a cycle of GCD, with
\* the same operands in the cycle of a load.
LEMMA BenchCycle ==
  [BenchNext]_<<vars, plain>> => [Next]_vars /\ [Plain!Next]_Plain!vars
<1> SUFFICES ASSUME [BenchNext]_<<vars, plain>>
             PROVE  [Next]_vars /\ [Plain!Next]_Plain!vars
  OBVIOUS
<1>1. ASSUME reset' \in BOOLEAN, NEW a \in Value, NEW b \in Value,
             Accept(a, b), Plain!Load(a, b)
      PROVE  Next /\ Plain!Next
  BY <1>1, PlainValues DEF Next, Plain!Next
<1>2. ASSUME reset' \in BOOLEAN, NEW ready \in BOOLEAN, Busy(ready), Plain!Step
      PROVE  Next /\ Plain!Next
  BY <1>2 DEF Next, Plain!Next
<1>3. ASSUME reset' \in BOOLEAN, Idle, Plain!Step PROVE Next /\ Plain!Next
  BY <1>3 DEF Next, Plain!Next
<1>4. CASE UNCHANGED <<vars, plain>>
  BY <1>4 DEF vars, plain, Plain!vars
<1> QED BY <1>1, <1>2, <1>3, <1>4 DEF BenchNext

\* The bench runs both units as their own specifications allow, so what is
\* proved of a unit holds in the bench.
THEOREM Bench_RunsBothUnits ==
  BenchSpec => Spec /\ Plain!Init /\ [][Plain!Next]_Plain!vars
<1>1. BenchInit => Init /\ Plain!Init
  BY DEF BenchInit
<1> QED BY <1>1, BenchCycle, PTL DEF BenchSpec, Spec

\* For every width, under the bench, a valid output of GCD is the greatest
\* common divisor of the last operands (GCD.scala:20-29).
THEOREM Bench_ValidIsGcd == BenchSpec => []ValidIsGcd
<1>1. PlainInv => ValidIsGcd
  BY PlainIndValid DEF ValidIsGcd
<1> QED BY Bench_RunsBothUnits, PlainInitInd, PlainNextInd, <1>1, PTL

=============================================================================
