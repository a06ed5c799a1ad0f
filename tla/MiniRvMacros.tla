---------------------------- MODULE MiniRvMacros ----------------------------
(***************************************************************************)
(* What the code that minirv macros expand to does, one lemma per macro    *)
(* ("...Does"): the registers and the bytes of memory it may change, and   *)
(* what it leaves in rd.  MiniRvProofs goes on with the shifts by tables,  *)
(* the program's own loads and stores, and the theorems.                   *)
(*                                                                         *)
(* The macros rest on lemmas about running code one instruction at a time  *)
(* (sections 5 to 10), about the look-up tables (8), and about bytes, bits *)
(* and powers of two (1 to 4).                                             *)
(***************************************************************************)
EXTENDS MiniRv, SequenceTheorems, WellFoundedInduction, TLAPS

-----------------------------------------------------------------------------
(* 1. Induction, recursion over the naturals, and powers of two *)

LessThan == {ss \in Nat \X Nat : ss[1] < ss[2]}

\* A set of naturals that has 0 and the successor of each member is Nat.
LEMMA Induction ==
  ASSUME NEW T \in SUBSET Nat, 0 \in T, \A n \in T : n + 1 \in T
  PROVE  T = Nat
<1> SUFFICES ASSUME Nat \ T # {} PROVE FALSE
  OBVIOUS
<1>1. IsWellFoundedOn(LessThan, Nat)
  BY NatLessThanWellFounded DEF OpToRel, LessThan
<1>2. PICK l \in Nat \ T : \A k \in Nat \ T : ~ (<<k, l>> \in LessThan)
  BY <1>1, WFMin
<1>3. l - 1 \in T
  <2>1. l # 0 /\ l - 1 \in Nat
    OBVIOUS
  <2>2. <<l - 1, l>> \in LessThan
    BY <2>1 DEF LessThan
  <2> QED BY <2>1, <2>2, <1>2
<1> QED BY <1>3

\* There is a function that is s at 0 and takes one step of G at each number.
Recurs(n, f, s, S, G) ==
  /\ f \in [0 .. n -> S]
  /\ \A i \in 0 .. n : f[i] = IF i = 0 THEN s ELSE G[<<f[i - 1], i>>]

\* Such a function exists up to every n.
LEMMA RecursExists ==
  ASSUME NEW S, NEW s \in S, NEW G \in [S \X Nat -> S], NEW n \in Nat
  PROVE  \E f : Recurs(n, f, s, S, G)
<1> DEFINE T == {k \in Nat : \E f : Recurs(k, f, s, S, G)}
<1>1. 0 \in T
  <2> DEFINE f == [i \in 0 .. 0 |-> s]
  <2>1. Recurs(0, f, s, S, G)
    BY DEF Recurs
  <2> QED BY <2>1
<1>2. ASSUME NEW k \in T PROVE k + 1 \in T
  <2> PICK f : Recurs(k, f, s, S, G)
    OBVIOUS
  <2> DEFINE g == [i \in 0 .. k + 1 |-> IF i = k + 1 THEN G[<<f[k], k + 1>>] ELSE f[i]]
  <2>0. k \in Nat
    OBVIOUS
  <2>1. f[k] \in S /\ G[<<f[k], k + 1>>] \in S
    <3>1. f[k] \in S
      BY <2>0 DEF Recurs
    <3>2. <<f[k], k + 1>> \in S \X Nat
      BY <3>1, <2>0
    <3> QED BY <3>1, <3>2
  <2>2. g \in [0 .. k + 1 -> S]
    BY <2>0, <2>1 DEF Recurs
  <2>3. ASSUME NEW i \in 0 .. k + 1
        PROVE  g[i] = IF i = 0 THEN s ELSE G[<<g[i - 1], i>>]
    <3>1. CASE i = k + 1
      <4>1. i # 0 /\ i - 1 = k /\ g[k] = f[k] /\ g[i] = G[<<f[k], k + 1>>]
        BY <2>0, <3>1
      <4> HIDE DEF g
      <4> QED BY <4>1, <3>1
    <3>2. CASE i # k + 1
      <4>1. i \in 0 .. k /\ g[i] = f[i] /\ (i # 0 => g[i - 1] = f[i - 1])
        BY <2>0, <3>2
      <4> HIDE DEF g
      <4> QED BY <4>1 DEF Recurs
    <3> QED BY <3>1, <3>2
  <2> HIDE DEF g
  <2>4. Recurs(k + 1, g, s, S, G)
    BY <2>2, <2>3 DEF Recurs
  <2> QED BY <2>0, <2>4
<1> HIDE DEF T
<1>3. T = Nat
  BY <1>1, <1>2, Induction DEF T
<1> QED BY <1>3 DEF T

\* Such functions agree where both are defined.
LEMMA RecursSame ==
  ASSUME NEW S, NEW s, NEW G, NEW n \in Nat, NEW l \in Nat, NEW f, NEW g,
         Recurs(n, f, s, S, G), Recurs(l, g, s, S, G), NEW k \in Nat, k <= n, k <= l
  PROVE  f[k] = g[k]
<1> DEFINE T == {i \in Nat : i <= n /\ i <= l => f[i] = g[i]}
<1>1. 0 \in T
  <2>1. 0 \in 0 .. n /\ 0 \in 0 .. l
    OBVIOUS
  <2> QED BY <2>1 DEF Recurs
<1>2. ASSUME NEW i \in T PROVE i + 1 \in T
  <2> SUFFICES ASSUME i + 1 <= n, i + 1 <= l PROVE f[i + 1] = g[i + 1]
    OBVIOUS
  <2>1. i \in Nat /\ i + 1 \in 0 .. n /\ i + 1 \in 0 .. l /\ i + 1 # 0 /\ (i + 1) - 1 = i
    OBVIOUS
  <2>2. f[i] = g[i]
    BY <2>1
  <2> DEFINE i1 == i + 1
  <2>3. f[i1] = G[<<f[i1 - 1], i1>>] /\ g[i1] = G[<<g[i1 - 1], i1>>] /\ i1 - 1 = i
    <3> HIDE DEF i1
    <3> QED BY <2>1 DEF Recurs, i1
  <2> QED BY <2>2, <2>3
<1> HIDE DEF T
<1>3. T = Nat
  BY <1>1, <1>2, Induction DEF T
<1> QED BY <1>3 DEF T

Iterates(f, s, S, G) ==
  f \in [Nat -> S] /\ \A n \in Nat : f[n] = IF n = 0 THEN s ELSE G[<<f[n - 1], n>>]

\* Such a function exists on all the naturals.
LEMMA Recursion ==
  ASSUME NEW S, NEW s \in S, NEW G \in [S \X Nat -> S]
  PROVE  \E f : Iterates(f, s, S, G)
<1> DEFINE upto(n) == CHOOSE f : Recurs(n, f, s, S, G)
           h       == [n \in Nat |-> upto(n)[n]]
<1>1. ASSUME NEW n \in Nat PROVE Recurs(n, upto(n), s, S, G)
  BY RecursExists
<1> HIDE DEF upto
<1>2. ASSUME NEW n \in Nat PROVE h[n] \in S /\ h[n] = IF n = 0 THEN s ELSE G[<<h[n - 1], n>>]
  <2>1. h[n] = upto(n)[n] /\ n \in 0 .. n
    OBVIOUS
  <2>2. upto(n)[n] \in S /\ upto(n)[n] = IF n = 0 THEN s ELSE G[<<upto(n)[n - 1], n>>]
    BY <1>1, <2>1 DEF Recurs
  <2>3. n # 0 => n - 1 \in Nat /\ h[n - 1] = upto(n)[n - 1]
    <3> SUFFICES ASSUME n # 0 PROVE n - 1 \in Nat /\ h[n - 1] = upto(n)[n - 1]
      OBVIOUS
    <3>1. n - 1 \in Nat /\ h[n - 1] = upto(n - 1)[n - 1] /\ n - 1 <= n /\ n - 1 <= n - 1
      OBVIOUS
    <3>2. upto(n - 1)[n - 1] = upto(n)[n - 1]
      BY <1>1, <3>1, RecursSame
    <3> QED BY <3>1, <3>2
  <2> HIDE DEF h
  <2> QED BY <2>1, <2>2, <2>3
<1>3. h \in [Nat -> S]
  BY <1>2
<1> HIDE DEF h
<1> QED BY <1>2, <1>3 DEF Iterates

\* The equations of Pow2.
LEMMA Pow2Def ==
  /\ Pow2 \in [Nat -> Nat]
  /\ Pow2[0] = 1
  /\ \A n \in Nat : Pow2[n + 1] = 2 * Pow2[n]
<1> DEFINE G == [p \in Nat \X Nat |-> 2 * p[1]]
           Eq(f) == f = [n \in Nat |-> IF n = 0 THEN 1 ELSE 2 * f[n - 1]]
<1>1. G \in [Nat \X Nat -> Nat]
  OBVIOUS
<1>2. \A x, n \in Nat : G[<<x, n>>] = 2 * x
  OBVIOUS
<1> HIDE DEF G
<1>3. PICK f : Iterates(f, 1, Nat, G)
  BY <1>1, Recursion
<1>4. \A n \in Nat : f[n] = IF n = 0 THEN 1 ELSE 2 * f[n - 1]
  <2> TAKE n \in Nat
  <2>1. n # 0 => n - 1 \in Nat /\ f[n - 1] \in Nat
    BY <1>3 DEF Iterates
  <2> QED BY <1>2, <1>3, <2>1 DEF Iterates
<1>5. Eq(f)
  <2> DEFINE g == [n \in Nat |-> IF n = 0 THEN 1 ELSE 2 * f[n - 1]]
  <2>1. \A n \in Nat : f[n] = g[n]
    BY <1>4
  <2>2. f = [n \in Nat |-> f[n]] /\ g = [n \in Nat |-> g[n]]
    BY <1>3 DEF Iterates
  <2>3. f = g
    <3> HIDE DEF g
    <3> QED BY <2>1, <2>2
  <2> QED BY <2>3
<1>6. Eq(Pow2)
  BY <1>5, Zenon DEF Pow2
<1>7. \A n \in Nat : Pow2[n] = IF n = 0 THEN 1 ELSE 2 * Pow2[n - 1]
  BY <1>6
<1>8. \A n \in Nat : Pow2[n + 1] = 2 * Pow2[n]
  <2> TAKE n \in Nat
  <2>1. n + 1 \in Nat /\ n + 1 # 0 /\ (n + 1) - 1 = n
    OBVIOUS
  <2> QED BY <1>7, <2>1
<1>9. DOMAIN Pow2 = Nat /\ Pow2 = [n \in Nat |-> Pow2[n]]
  BY <1>6
<1>10. \A n \in Nat : Pow2[n] \in Nat
  <2> DEFINE T == {n \in Nat : Pow2[n] \in Nat}
  <2>1. 0 \in T
    BY <1>7
  <2>2. \A n \in T : n + 1 \in T
    BY <1>8
  <2> HIDE DEF T
  <2>3. T = Nat
    BY <2>1, <2>2, Induction DEF T
  <2> QED BY <2>3 DEF T
<1> QED BY <1>7, <1>8, <1>9, <1>10

\* A power of two is positive.
LEMMA Pow2Positive == ASSUME NEW n \in Nat PROVE Pow2[n] \in Nat \ {0}
<1> DEFINE T == {k \in Nat : Pow2[k] \in Nat \ {0}}
<1>1. 0 \in T
  BY Pow2Def
<1>2. \A k \in T : k + 1 \in T
  BY Pow2Def
<1> HIDE DEF T
<1>3. T = Nat
  BY <1>1, <1>2, Induction DEF T
<1> QED BY <1>3 DEF T

\* 2^(a+b) = 2^a * 2^b.
LEMMA Pow2Sum ==
  ASSUME NEW a \in Nat, NEW b \in Nat
  PROVE  Pow2[a + b] = Pow2[a] * Pow2[b]
<1> DEFINE T == {k \in Nat : Pow2[a + k] = Pow2[a] * Pow2[k]}
<1>1. 0 \in T
  <2>1. a + 0 = a /\ Pow2[a] \in Nat
    BY Pow2Positive
  <2> QED BY <2>1, Pow2Def
<1>2. ASSUME NEW k \in T PROVE k + 1 \in T
  <2>1. a + (k + 1) = (a + k) + 1 /\ a + k \in Nat /\ k \in Nat
    OBVIOUS
  <2>2. Pow2[a + (k + 1)] = 2 * (Pow2[a] * Pow2[k]) /\ Pow2[k + 1] = 2 * Pow2[k]
    BY <2>1, Pow2Def
  <2>3. \A x, y \in Nat : 2 * (x * y) = x * (2 * y)
    BY SMT
  <2> QED BY <2>1, <2>2, <2>3, Pow2Positive
<1> HIDE DEF T
<1>3. T = Nat
  BY <1>1, <1>2, Induction DEF T
<1> QED BY <1>3 DEF T

-----------------------------------------------------------------------------
(* 2. Division *)

\* Quotient and remainder are what the division leaves.
LEMMA Division ==
  ASSUME NEW x \in Int, NEW d \in Nat \ {0}
  PROVE  /\ x \div d \in Int /\ x % d \in 0 .. d - 1
         /\ x = d * (x \div d) + (x % d)
<1>1. x % d \in 0 .. d - 1
  BY SMT
<1>2. x \div d \in Int
  BY SMT
<1>3. x = d * (x \div d) + (x % d)
  BY SMT
<1> QED BY <1>1, <1>2, <1>3

\* Quotient and remainder are the only numbers that divide x by d.
LEMMA DivisionUnique ==
  ASSUME NEW d \in Nat \ {0}, NEW q \in Int, NEW r \in 0 .. d - 1, NEW x \in Int, x = d * q + r
  PROVE  x \div d = q /\ x % d = r
<1> DEFINE p == x \div d
           s == x % d
<1>1. p \in Int /\ s \in 0 .. d - 1 /\ x = d * p + s
  BY Division
<1> HIDE DEF p, s
<1>2. d * (p - q) = r - s
  BY <1>1, SMT
<1>3. p = q
  <2>1. CASE p > q
    <3>1. d * (p - q) >= d
      BY <1>1, <2>1, SMT
    <3> QED BY <1>1, <1>2, <3>1
  <2>2. CASE p < q
    <3>1. d * (p - q) <= -d
      BY <1>1, <2>2, SMT
    <3> QED BY <1>1, <1>2, <3>1
  <2> QED BY <1>1, <2>1, <2>2
<1>4. s = r
  BY <1>1, <1>3, SMT
<1> QED BY <1>3, <1>4 DEF p, s

\* The same, for every quotient and remainder at once.
LEMMA Divided ==
  ASSUME NEW d \in Nat \ {0}
  PROVE  \A q \in Int, r \in 0 .. d - 1, x \in Int :
           x = d * q + r => x \div d = q /\ x % d = r
BY DivisionUnique

\* A quotient of a quotient.
LEMMA DivisionTwice ==
  ASSUME NEW x \in Int, NEW d \in Nat \ {0}, NEW e \in Nat \ {0}
  PROVE  x \div (d * e) = (x \div d) \div e
<1> DEFINE p == x \div d
           r == x % d
           q == p \div e
           s == p % e
<1>1. p \in Int /\ r \in 0 .. d - 1 /\ x = d * p + r
  BY Division
<1>2. q \in Int /\ s \in 0 .. e - 1 /\ p = e * q + s
  BY <1>1, Division
<1> HIDE DEF p, q, r, s
<1>3. x = (d * e) * q + (d * s + r)
  BY <1>1, <1>2, SMT
<1>4. d * s + r \in 0 .. d * e - 1 /\ d * e \in Nat \ {0}
  <2>1. d * s <= d * (e - 1)
    BY <1>2, SMT
  <2>2. d * (e - 1) = d * e - d /\ d * s \in Nat /\ d * e \in Nat \ {0}
    BY <1>2, SMT
  <2> QED BY <1>1, <2>1, <2>2
<1> QED
  <2>1. x \in Int /\ d * e \in Nat \ {0} /\ q \in Int /\ d * s + r \in 0 .. d * e - 1
        /\ x = (d * e) * q + (d * s + r)
    BY <1>2, <1>3, <1>4
  <2>2. x \div (d * e) = q
    BY <2>1, DivisionUnique, ZenonT(30)
  <2> QED BY <2>2 DEF p, q

-----------------------------------------------------------------------------
(* 3. Words and their bytes *)

Byte == 0 .. B - 1

\* The word of four bytes, the lowest first.
Wd(a, b, c, d) == a + B * b + (B * B) * c + (B * B * B) * d

\* A byte has at least five bits, a word four bytes.
LEMMA Widths ==
  /\ B \in Nat /\ B >= 32 /\ B = 2 * (B \div 2)
  /\ Pow2[ByteWidth] = B /\ Pow2[2 * ByteWidth] = B * B
  /\ Pow2[3 * ByteWidth] = B * B * B
  /\ Modulus = B * B * B * B
<1> DEFINE w == ByteWidth
<1>0. w \in Nat /\ w >= 5
  BY ByteWidthAssumption, WidthAssumption
<1>1. Pow2[0] = 1 /\ Pow2[1] = 2 /\ Pow2[2] = 4 /\ Pow2[3] = 8 /\ Pow2[4] = 16 /\ Pow2[5] = 32
  <2>1. \A n \in Nat : Pow2[n + 1] = 2 * Pow2[n]
    BY Pow2Def
  <2>2. Pow2[0 + 1] = 2 * Pow2[0] /\ Pow2[1 + 1] = 2 * Pow2[1] /\ Pow2[2 + 1] = 2 * Pow2[2]
          /\ Pow2[3 + 1] = 2 * Pow2[3] /\ Pow2[4 + 1] = 2 * Pow2[4]
    BY <2>1, Zenon
  <2> QED BY <2>2, Pow2Def
<1>2. B = 32 * Pow2[w - 5] /\ Pow2[w - 5] \in Nat \ {0}
  <2> DEFINE v == w - 5
  <2>1. v \in Nat /\ w = 5 + v
    BY <1>0
  <2> HIDE DEF v
  <2>2. Pow2[5 + v] = Pow2[5] * Pow2[v] /\ Pow2[v] \in Nat \ {0}
    BY <2>1, Pow2Sum, Pow2Positive, SMT
  <2>3. B = 32 * Pow2[v] /\ Pow2[v] \in Nat \ {0}
    BY <2>1, <2>2, <1>1 DEF B
  <2> QED BY <2>3 DEF v
<1>3. B \in Nat /\ B >= 32 /\ B = 2 * (B \div 2)
  BY <1>2
<1>4. Pow2[2 * w] = B * B
  <2>1. 2 * w = w + w
    BY <1>0
  <2> QED BY <2>1, <1>0, Pow2Sum DEF B
<1>5. Pow2[3 * w] = B * B * B
  <2>1. 3 * w = 2 * w + w /\ 2 * w \in Nat
    BY <1>0
  <2> QED BY <2>1, <1>0, <1>4, Pow2Sum DEF B
<1>6. Modulus = B * B * B * B
  <2>1. 4 * w = 3 * w + w /\ 3 * w \in Nat
    BY <1>0
  <2> QED BY <2>1, <1>0, <1>5, Pow2Sum DEF B, Modulus, DATA_WIDTH
<1> QED BY <1>3, <1>4, <1>5, <1>6 DEF B

\* The powers of B, as numbers of their own.
LEMMA Sizes ==
  /\ B \in Nat /\ B >= 32
  /\ B * B \in Nat /\ B * B >= 32 * B
  /\ B * B * B \in Nat /\ B * B * B >= 32 * (B * B)
  /\ Modulus \in Nat /\ Modulus >= 32 * (B * B * B)
  /\ Modulus = B * (B * B * B)
<1>1. \A x \in Nat : B * x \in Nat /\ B * x >= 32 * x
  BY Widths, SMT
<1>2. B * B \in Nat /\ B * B >= 32 * B
  BY <1>1, Widths
<1>3. B * (B * B) \in Nat /\ B * (B * B) >= 32 * (B * B)
  BY <1>1, <1>2
<1>4. B * (B * B) = B * B * B
  BY Widths, SMT
<1>5. B * (B * B * B) \in Nat /\ B * (B * B * B) >= 32 * (B * B * B)
  BY <1>1, <1>3, <1>4
<1>6. B * (B * B * B) = B * B * B * B
  BY Widths, SMT
<1> QED BY <1>2, <1>3, <1>4, <1>5, <1>6, Widths

\* A number below B * n is a multiple of B below it and a byte.
LEMMA LowByte ==
  ASSUME NEW n \in Nat, NEW x \in 0 .. B * n - 1
  PROVE  \E b \in Byte, y \in 0 .. n - 1 : x = B * y + b
<1> DEFINE b == x % B
           y == x \div B
<1>0. B \in Nat \ {0} /\ B * n \in Nat
  BY Sizes, SMT
<1>1. b \in 0 .. B - 1 /\ y \in Int /\ x = B * y + b /\ x \in Nat /\ x < B * n
  BY <1>0, Division
<1> HIDE DEF b, y
<1>2. y >= 0
  <2>1. y < 0 => B * y <= -B
    BY <1>0, <1>1, SMT
  <2> QED BY <2>1, <1>0, <1>1
<1>3. y < n
  <2>1. y >= n => B * y >= B * n
    BY <1>0, <1>1, SMT
  <2> QED BY <2>1, <1>0, <1>1
<1> QED BY <1>1, <1>2, <1>3 DEF Byte

\* Every word is made of four bytes.
LEMMA BytesOfWord ==
  ASSUME NEW x \in Word
  PROVE  \E a, b, c, d \in Byte : x = Wd(a, b, c, d)
<1>1. /\ x \in 0 .. B * (B * B * B) - 1 /\ B * B * B = B * (B * B) /\ B * B \in Nat /\ B * B * B \in Nat
      /\ B \in Nat
  BY Sizes, SMT DEF Word
<1>2. PICK a \in Byte, y \in 0 .. B * B * B - 1 : x = B * y + a
  BY <1>1, LowByte
<1>3. PICK b \in Byte, z \in 0 .. B * B - 1 : y = B * z + b
  <2>1. y \in 0 .. B * (B * B) - 1
    BY <1>1, <1>2
  <2> QED BY <1>1, <2>1, LowByte
<1>4. PICK c \in Byte, d \in 0 .. B - 1 : z = B * d + c
  BY <1>1, LowByte
<1>5. x = a + B * b + (B * B) * c + (B * B * B) * d
  BY <1>1, <1>2, <1>3, <1>4, SMT DEF Byte
<1> QED BY <1>4, <1>5 DEF Wd, Byte

\* Four bytes make a word.
LEMMA WdWord ==
  ASSUME NEW a \in Byte, NEW b \in Byte, NEW c \in Byte, NEW d \in Byte
  PROVE  Wd(a, b, c, d) \in Word
<1> DEFINE B2 == B * B
           B3 == B * B * B
           p == B * b
           q == B2 * c
           r == B3 * d
<1>1. a \in Nat /\ b \in Nat /\ c \in Nat /\ d \in Nat /\ a <= B - 1 /\ b <= B - 1 /\ c <= B - 1 /\ d <= B - 1
  BY Sizes DEF Byte
<1>2. p \in Nat /\ p <= B2 - B /\ q \in Nat /\ q <= B3 - B2 /\ r \in Nat /\ r <= Modulus - B3
  <2>1. \A x, y, n \in Nat : y <= n - 1 => x * y \in Nat /\ x * y <= x * n - x
    <3> TAKE x, y, n \in Nat
    <3>1. y <= n - 1 => x * y <= x * (n - 1)
      BY SMT
    <3>2. x * (n - 1) = x * n - x /\ x * y \in Nat
      BY SMT
    <3> QED BY <3>1, <3>2
  <2>2. B2 * B = B3 /\ B3 * B = Modulus /\ B \in Nat /\ B2 \in Nat /\ B3 \in Nat
    BY Sizes, Widths, SMT
  <2> HIDE DEF B2, B3
  <2>3. B * B = B2
    BY DEF B2
  <2> QED BY <1>1, <2>1, <2>2, <2>3
<1>3. Wd(a, b, c, d) = a + p + q + r
  BY DEF Wd
<1> HIDE DEF p, q, r
<1> QED BY <1>1, <1>2, <1>3, Sizes DEF Word

\* ByteOf() takes a word apart, FromBytes() puts one together.
LEMMA ByteOfWd ==
  ASSUME NEW a \in Byte, NEW b \in Byte, NEW c \in Byte, NEW d \in Byte
  PROVE  /\ ByteOf(Wd(a, b, c, d), 0) = a /\ ByteOf(Wd(a, b, c, d), 1) = b
         /\ ByteOf(Wd(a, b, c, d), 2) = c /\ ByteOf(Wd(a, b, c, d), 3) = d
<1> DEFINE y == b + B * c + (B * B) * d
           z == c + B * d
           x == Wd(a, b, c, d)
<1>1. B \in Nat \ {0} /\ B * B \in Nat \ {0} /\ (B * B) * B \in Nat \ {0} /\ B \in Int
  BY Sizes, SMT
<1>2. a \in 0 .. B - 1 /\ b \in 0 .. B - 1 /\ c \in 0 .. B - 1 /\ d \in 0 .. B - 1
        /\ a \in Int /\ b \in Int /\ c \in Int /\ d \in Int
  BY <1>1 DEF Byte
<1>3. y \in Int /\ z \in Int /\ x \in Int
  BY <1>1, <1>2, SMT DEF Wd
<1>4. x = B * y + a /\ y = B * z + b /\ z = B * d + c
  BY <1>1, <1>2, SMT DEF Wd
<1>5. d = B * 0 + d
  BY <1>1, <1>2
<1> HIDE DEF x, y, z
<1>6. \A q \in Int, r \in 0 .. B - 1, u \in Int : u = B * q + r => u \div B = q /\ u % B = r
  BY <1>1, DivisionUnique
<1>7. x \div B = y /\ x % B = a /\ y \div B = z /\ y % B = b
  BY <1>6, <1>2, <1>3, <1>4
<1>8. z \div B = d /\ z % B = c
  BY <1>6, <1>2, <1>3, <1>4
<1>9. d % B = d
  BY <1>6, <1>2, <1>5
<1>10. x \div (B * B) = z /\ x \div ((B * B) * B) = d
  <2>1. x \div (B * B) = (x \div B) \div B
    BY <1>1, <1>3, DivisionTwice
  <2>2. x \div ((B * B) * B) = (x \div (B * B)) \div B
    BY <1>1, <1>3, DivisionTwice
  <2> QED BY <2>1, <2>2, <1>7, <1>8
<1>11. x \div 1 = x
  BY <1>3
<1>12. Pow2[ByteWidth * 0] = 1 /\ Pow2[ByteWidth * 1] = B /\ Pow2[ByteWidth * 2] = B * B
         /\ Pow2[ByteWidth * 3] = (B * B) * B
  <2>1. ByteWidth * 0 = 0 /\ ByteWidth * 1 = ByteWidth /\ ByteWidth * 2 = 2 * ByteWidth
          /\ ByteWidth * 3 = 3 * ByteWidth
    BY ByteWidthAssumption
  <2> QED BY <2>1, Pow2Def, Widths
<1> QED BY <1>7, <1>8, <1>9, <1>10, <1>11, <1>12, Widths DEF ByteOf, x

\* FromBytes adds its bytes from the lowest up.
LEMMA FromBytesSum ==
  ASSUME NEW len \in Nat, NEW f \in [0 .. len - 1 -> Nat]
  PROVE  \E low \in [0 .. len -> Nat] :
           /\ FromBytes(f, len) = low[len] /\ low[0] = 0
           /\ \A n \in 1 .. len : low[n] = low[n - 1] + f[n - 1] * Pow2[ByteWidth * (n - 1)]
<1> DEFINE body(low, n) == IF n = 0 THEN 0
                           ELSE low[n - 1] + f[n - 1] * Pow2[ByteWidth * (n - 1)]
           Eq(low) == low = [n \in 0 .. len |-> body(low, n)]
           byte == [n \in Nat |-> IF n \in 1 .. len THEN f[n - 1] * Pow2[ByteWidth * (n - 1)] ELSE 0]
           G == [p \in Nat \X Nat |-> p[1] + byte[p[2]]]
<1>0. byte \in [Nat -> Nat]
  <2> SUFFICES \A n \in Nat : byte[n] \in Nat
    OBVIOUS
  <2> TAKE n \in Nat
  <2>1. CASE n \in 1 .. len
    <3>1. n - 1 \in 0 .. len - 1 /\ n - 1 \in Nat
      BY <2>1
    <3>2. ByteWidth * (n - 1) \in Nat
      BY <3>1, ByteWidthAssumption, SMT
    <3>3. f[n - 1] \in Nat /\ Pow2[ByteWidth * (n - 1)] \in Nat
      BY <3>1, <3>2, Pow2Positive
    <3> QED BY <2>1, <3>3, SMT
  <2> QED BY <2>1
<1>1. G \in [Nat \X Nat -> Nat] /\ \A y, n \in Nat : G[<<y, n>>] = y + byte[n]
  <2> HIDE DEF byte
  <2>1. \A p \in Nat \X Nat : p[1] + byte[p[2]] \in Nat
    <3> TAKE p \in Nat \X Nat
    <3>1. p[1] \in Nat /\ p[2] \in Nat
      OBVIOUS
    <3>2. byte[p[2]] \in Nat
      BY <1>0, <3>1
    <3> QED BY <3>1, <3>2
  <2> QED BY <2>1
<1> HIDE DEF G
<1>2. PICK g : Iterates(g, 0, Nat, G)
  BY <1>1, Recursion
<1> DEFINE h == [n \in 0 .. len |-> g[n]]
<1>3. h \in [0 .. len -> Nat]
  BY <1>2 DEF Iterates
<1>4. \A n \in 0 .. len : h[n] = body(h, n)
  <2> TAKE n \in 0 .. len
  <2>1. CASE n = 0
    BY <1>2, <2>1 DEF Iterates
  <2>2. CASE n # 0
    <3>1. n \in Nat /\ n - 1 \in Nat /\ n - 1 \in 0 .. len /\ n \in 1 .. len
      BY <2>2
    <3>0. byte[n] = f[n - 1] * Pow2[ByteWidth * (n - 1)]
      BY <3>1
    <3>2. g[n] = g[n - 1] + byte[n] /\ h[n] = g[n] /\ h[n - 1] = g[n - 1]
      <4> HIDE DEF byte
      <4> QED BY <1>1, <1>2, <2>2, <3>1 DEF Iterates
    <3> HIDE DEF h, byte
    <3> QED BY <2>2, <3>0, <3>1, <3>2
  <2> QED BY <2>1, <2>2
<1>5. Eq(h)
  <2> DEFINE k == [n \in 0 .. len |-> body(h, n)]
  <2>1. \A n \in 0 .. len : h[n] = k[n]
    BY <1>4
  <2>2. h = [n \in 0 .. len |-> h[n]] /\ k = [n \in 0 .. len |-> k[n]]
    OBVIOUS
  <2>3. h = k
    <3> HIDE DEF h, k
    <3> QED BY <2>1, <2>2
  <2> QED BY <2>3
<1> DEFINE low == CHOOSE low : Eq(low)
<1> HIDE DEF h
<1>6. Eq(low)
  <2> HIDE DEF Eq
  <2> QED BY <1>5
<1>7. FromBytes(f, len) = low[len]
  BY DEF FromBytes
<1> HIDE DEF low
<1>8. \A n \in 0 .. len : low[n] = body(low, n)
  BY <1>6
<1>9. \A n \in Nat : n \in 0 .. len => low[n] \in Nat
  <2> DEFINE T == {n \in Nat : n \in 0 .. len => low[n] \in Nat}
  <2>1. 0 \in T
    BY <1>8
  <2>2. ASSUME NEW n \in T PROVE n + 1 \in T
    <3> SUFFICES ASSUME n + 1 \in 0 .. len PROVE low[n + 1] \in Nat
      OBVIOUS
    <3>1. n \in Nat /\ n \in 0 .. len /\ low[n] \in Nat /\ n + 1 # 0 /\ (n + 1) - 1 = n
            /\ n + 1 \in 1 .. len /\ n + 1 \in Nat
      OBVIOUS
    <3>2. low[n + 1] = low[n] + byte[n + 1]
      BY <1>8, <3>1
    <3> HIDE DEF byte
    <3>3. byte[n + 1] \in Nat
      BY <1>0, <3>1
    <3> QED BY <3>1, <3>2, <3>3
  <2> HIDE DEF T
  <2>3. T = Nat
    BY <2>1, <2>2, Induction DEF T
  <2> QED BY <2>3 DEF T
<1>10. low \in [0 .. len -> Nat]
  BY <1>6, <1>9
<1>11. low[0] = 0 /\ \A n \in 1 .. len : low[n] = low[n - 1] + f[n - 1] * Pow2[ByteWidth * (n - 1)]
  BY <1>8
<1> QED BY <1>7, <1>10, <1>11

\* Four bytes in memory are the word Wd.
LEMMA FromBytesWd ==
  ASSUME NEW f \in [0 .. 3 -> Nat]
  PROVE  FromBytes(f, 4) = Wd(f[0], f[1], f[2], f[3])
<1>1. PICK low \in [0 .. 4 -> Nat] :
        /\ FromBytes(f, 4) = low[4] /\ low[0] = 0
        /\ \A n \in 1 .. 4 : low[n] = low[n - 1] + f[n - 1] * Pow2[ByteWidth * (n - 1)]
  <2> DEFINE len == 4
  <2>1. len \in Nat /\ f \in [0 .. len - 1 -> Nat] /\ len = 4
    OBVIOUS
  <2> HIDE DEF len
  <2>2. \E low \in [0 .. len -> Nat] :
           /\ FromBytes(f, len) = low[len] /\ low[0] = 0
           /\ \A n \in 1 .. len : low[n] = low[n - 1] + f[n - 1] * Pow2[ByteWidth * (n - 1)]
    BY <2>1, FromBytesSum
  <2> QED BY <2>1, <2>2
<1>2. Pow2[ByteWidth * 0] = 1 /\ Pow2[ByteWidth * 1] = B /\ Pow2[ByteWidth * 2] = B * B
         /\ Pow2[ByteWidth * 3] = B * B * B
  <2>1. ByteWidth * 0 = 0 /\ ByteWidth * 1 = ByteWidth /\ ByteWidth * 2 = 2 * ByteWidth
          /\ ByteWidth * 3 = 3 * ByteWidth
    BY ByteWidthAssumption
  <2> QED BY <2>1, Pow2Def, Widths
<1>3. low[1] = f[0] * 1 /\ low[2] = low[1] + f[1] * B /\ low[3] = low[2] + f[2] * (B * B)
        /\ low[4] = low[3] + f[3] * (B * B * B)
  BY <1>1, <1>2
<1>4. f[0] \in Nat /\ f[1] \in Nat /\ f[2] \in Nat /\ f[3] \in Nat
  OBVIOUS
<1>5. \A x, y \in Nat : x * y = y * x
  BY SMT
<1> QED BY <1>1, <1>3, <1>4, <1>5, Sizes DEF Wd

\* One byte in memory is itself.
LEMMA FromOneByte ==
  ASSUME NEW f \in [0 .. 0 -> Nat]
  PROVE  FromBytes(f, 1) = f[0]
<1> DEFINE len == 1
<1>1. len \in Nat /\ f \in [0 .. len - 1 -> Nat] /\ len = 1
  OBVIOUS
<1> HIDE DEF len
<1>2. PICK low \in [0 .. len -> Nat] :
         /\ FromBytes(f, len) = low[len] /\ low[0] = 0
         /\ \A n \in 1 .. len : low[n] = low[n - 1] + f[n - 1] * Pow2[ByteWidth * (n - 1)]
  BY <1>1, FromBytesSum
<1>3. Pow2[ByteWidth * 0] = 1
  BY ByteWidthAssumption, Pow2Def
<1>4. low[1] = 0 + f[0] * 1
  BY <1>1, <1>2, <1>3
<1> QED BY <1>1, <1>2, <1>4

\* Two bytes in memory are a half word.
LEMMA FromTwoBytes ==
  ASSUME NEW f \in [0 .. 1 -> Nat]
  PROVE  FromBytes(f, 2) = f[0] + B * f[1]
<1> DEFINE len == 2
<1>1. len \in Nat /\ f \in [0 .. len - 1 -> Nat] /\ len = 2
  OBVIOUS
<1> HIDE DEF len
<1>2. PICK low \in [0 .. len -> Nat] :
         /\ FromBytes(f, len) = low[len] /\ low[0] = 0
         /\ \A n \in 1 .. len : low[n] = low[n - 1] + f[n - 1] * Pow2[ByteWidth * (n - 1)]
  BY <1>1, FromBytesSum
<1>3. Pow2[ByteWidth * 0] = 1 /\ Pow2[ByteWidth * 1] = B
  BY ByteWidthAssumption, Pow2Def, Widths
<1>4. low[1] = 0 + f[0] * 1 /\ low[2] = low[1] + f[1] * B
  BY <1>1, <1>2, <1>3
<1>5. f[1] * B = B * f[1] /\ f[0] \in Nat
  BY Sizes, SMT
<1> QED BY <1>1, <1>2, <1>4, <1>5

-----------------------------------------------------------------------------
(* 4. Bitwise operators *)

\* The operators of And, Or and Xor on single bits.
BitOp(op) == op[0] = 0 /\ \A n \in 0 .. 2 : op[n] \in 0 .. 1

BothOp == [set \in 0 .. 2 |-> set \div 2]
AnyOp  == [set \in 0 .. 2 |-> (set + 1) \div 2]
OddOp  == [set \in 0 .. 2 |-> set % 2]

\* And, or and xor as functions of the number of bits set.
LEMMA BitOpValues ==
  /\ BothOp[0] = 0 /\ BothOp[1] = 0 /\ BothOp[2] = 1
  /\ AnyOp[0] = 0  /\ AnyOp[1] = 1  /\ AnyOp[2] = 1
  /\ OddOp[0] = 0  /\ OddOp[1] = 1  /\ OddOp[2] = 0
BY DEF BothOp, AnyOp, OddOp

\* The three are operators on bits.
LEMMA BitOps == BitOp(BothOp) /\ BitOp(AnyOp) /\ BitOp(OddOp)
<1>1. 0 .. 2 = {0, 1, 2}
  OBVIOUS
<1> QED BY <1>1, BitOpValues DEF BitOp

\* The digits are the low n bits combined, for each n.
Digits(low, op, a, b) ==
  /\ low \in [Nat -> Nat] /\ low[0] = 0
  /\ \A n \in Nat : low[n + 1] = low[n] + op[Bit(a, n) + Bit(b, n)] * Pow2[n]

\* A bit is 0 or 1.
LEMMA BitRange == ASSUME NEW a \in Int, NEW n \in Nat PROVE Bit(a, n) \in 0 .. 1
<1>1. a \div Pow2[n] \in Int
  BY Pow2Positive
<1> QED BY <1>1 DEF Bit

\* An operator on bits gives a bit.
LEMMA OpRange ==
  ASSUME NEW op, BitOp(op), NEW a \in Int, NEW b \in Int, NEW n \in Nat
  PROVE  op[Bit(a, n) + Bit(b, n)] \in 0 .. 1
BY BitRange DEF BitOp

\* The partial sums of a bitwise operator exist.
LEMMA DigitsExist ==
  ASSUME NEW op, BitOp(op), NEW a \in Int, NEW b \in Int
  PROVE  \E low : Digits(low, op, a, b)
<1> DEFINE bit == [n \in Nat |-> IF n = 0 THEN 0 ELSE op[Bit(a, n - 1) + Bit(b, n - 1)] * Pow2[n - 1]]
           G == [p \in Nat \X Nat |-> p[1] + bit[p[2]]]
<1>1. ASSUME NEW n \in Nat PROVE bit[n] \in Nat
  <2>1. CASE n = 0
    BY <2>1
  <2>2. CASE n # 0
    <3>1. n - 1 \in Nat
      BY <2>2
    <3>2. op[Bit(a, n - 1) + Bit(b, n - 1)] \in 0 .. 1 /\ Pow2[n - 1] \in Nat
      BY <3>1, OpRange, Pow2Positive
    <3> QED BY <2>2, <3>2, SMT
  <2> QED BY <2>1, <2>2
<1>2. \A n \in Nat : bit[n + 1] = op[Bit(a, n) + Bit(b, n)] * Pow2[n]
  <2> TAKE n \in Nat
  <2>1. n + 1 \in Nat /\ n + 1 # 0 /\ (n + 1) - 1 = n
    OBVIOUS
  <2> QED BY <2>1
<1> HIDE DEF bit
<1>3. \A p \in Nat \X Nat : p[1] + bit[p[2]] \in Nat
  <2> TAKE p \in Nat \X Nat
  <2>1. p[1] \in Nat /\ p[2] \in Nat
    OBVIOUS
  <2>2. bit[p[2]] \in Nat
    BY <1>1, <2>1
  <2> QED BY <2>1, <2>2
<1>4. G \in [Nat \X Nat -> Nat] /\ \A y, n \in Nat : G[<<y, n>>] = y + bit[n]
  BY <1>3
<1> HIDE DEF G
<1>5. PICK g : Iterates(g, 0, Nat, G)
  BY <1>4, Recursion
<1>6. g \in [Nat -> Nat] /\ g[0] = 0
  BY <1>5 DEF Iterates
<1>7. ASSUME NEW n \in Nat PROVE g[n + 1] = g[n] + op[Bit(a, n) + Bit(b, n)] * Pow2[n]
  <2>1. n + 1 \in Nat /\ n + 1 # 0 /\ (n + 1) - 1 = n /\ g[n] \in Nat
    BY <1>6
  <2>2. g[n + 1] = G[<<g[n], n + 1>>]
    BY <1>5, <2>1 DEF Iterates
  <2>3. g[n + 1] = g[n] + bit[n + 1]
    BY <1>4, <2>1, <2>2
  <2> QED BY <1>2, <2>3
<1> QED BY <1>6, <1>7 DEF Digits

\* Digits are determined by the bits.
LEMMA DigitsSame ==
  ASSUME NEW op, NEW a, NEW b, NEW low, Digits(low, op, a, b),
         NEW c, NEW d, NEW high, Digits(high, op, c, d), NEW k \in Nat,
         \A n \in Nat : n < k => Bit(a, n) = Bit(c, n) /\ Bit(b, n) = Bit(d, n)
  PROVE  \A n \in Nat : n <= k => low[n] = high[n]
<1> DEFINE T == {n \in Nat : n <= k => low[n] = high[n]}
<1>1. 0 \in T
  BY DEF Digits
<1>2. ASSUME NEW n \in T PROVE n + 1 \in T
  <2> SUFFICES ASSUME n + 1 <= k PROVE low[n + 1] = high[n + 1]
    OBVIOUS
  <2>1. n \in Nat /\ n < k /\ low[n] = high[n]
    OBVIOUS
  <2> QED BY <2>1 DEF Digits
<1> HIDE DEF T
<1>3. T = Nat
  BY <1>1, <1>2, Induction DEF T
<1> QED BY <1>3 DEF T

\* The last partial sum is the bitwise operator.
LEMMA BitwiseDigits ==
  ASSUME NEW op, BitOp(op), NEW a \in Int, NEW b \in Int, NEW low, Digits(low, op, a, b)
  PROVE  Bitwise(op, a, b) = low[DATA_WIDTH]
<1> DEFINE N == DATA_WIDTH
           body(f, n) == IF n = 0 THEN 0
                         ELSE f[n - 1] + op[Bit(a, n - 1) + Bit(b, n - 1)] * Pow2[n - 1]
           Eq(f) == f = [n \in 0 .. N |-> body(f, n)]
           h == [n \in 0 .. N |-> low[n]]
<1>0. N \in Nat
  BY ByteWidthAssumption, SMT DEF DATA_WIDTH
<1> HIDE DEF N
<1>1. \A n \in 0 .. N : h[n] = body(h, n)
  <2> TAKE n \in 0 .. N
  <2>1. CASE n = 0
    BY <2>1, <1>0 DEF Digits
  <2>2. CASE n # 0
    <3> DEFINE i == n - 1
    <3>1. i \in Nat /\ i \in 0 .. N /\ n = i + 1
      BY <1>0, <2>2
    <3>2. h[n] = low[n] /\ h[i] = low[i]
      BY <3>1
    <3> HIDE DEF h, i
    <3>3. low[n] = low[i] + op[Bit(a, i) + Bit(b, i)] * Pow2[i]
      BY <3>1 DEF Digits
    <3>4. h[n] = h[i] + op[Bit(a, i) + Bit(b, i)] * Pow2[i]
      BY <3>2, <3>3
    <3> QED BY <2>2, <3>4 DEF i
  <2> QED BY <2>1, <2>2
<1>2. Eq(h)
  <2> DEFINE k == [n \in 0 .. N |-> body(h, n)]
  <2>1. \A n \in 0 .. N : h[n] = k[n]
    BY <1>1
  <2>2. h = [n \in 0 .. N |-> h[n]] /\ k = [n \in 0 .. N |-> k[n]]
    OBVIOUS
  <2>3. h = k
    <3> HIDE DEF h, k
    <3> QED BY <2>1, <2>2
  <2> QED BY <2>3
<1> DEFINE f == CHOOSE f : Eq(f)
<1> HIDE DEF h
<1>3. Eq(f)
  <2> HIDE DEF Eq
  <2> QED BY <1>2
<1>4. Bitwise(op, a, b) = f[N]
  BY DEF Bitwise, N
<1> HIDE DEF f
<1>5. \A n \in 0 .. N : f[n] = body(f, n)
  BY <1>3
<1>6. \A n \in Nat : n \in 0 .. N => f[n] = low[n]
  <2> DEFINE T == {n \in Nat : n \in 0 .. N => f[n] = low[n]}
  <2>1. 0 \in T
    BY <1>5 DEF Digits
  <2>2. ASSUME NEW n \in T PROVE n + 1 \in T
    <3> SUFFICES ASSUME n + 1 \in 0 .. N PROVE f[n + 1] = low[n + 1]
      OBVIOUS
    <3>1. n \in Nat /\ f[n] = low[n] /\ n + 1 # 0 /\ (n + 1) - 1 = n
      BY <1>0
    <3> QED BY <1>5, <3>1 DEF Digits
  <2> HIDE DEF T
  <2>3. T = Nat
    BY <2>1, <2>2, Induction DEF T
  <2> QED BY <2>3 DEF T
<1> QED BY <1>0, <1>4, <1>6 DEF N

\* The low n + 1 bits are the low n bits and bit n.
LEMMA OneMoreBit ==
  ASSUME NEW a \in Int, NEW n \in Nat
  PROVE  a % Pow2[n + 1] = (a % Pow2[n]) + Pow2[n] * Bit(a, n)
<1> DEFINE d == Pow2[n]
           p == a \div d
           r == a % d
           q == p \div 2
           s == p % 2
<1>1. d \in Nat \ {0} /\ Pow2[n + 1] = 2 * d /\ 2 * d \in Nat \ {0}
  BY Pow2Positive, Pow2Def
<1>2. p \in Int /\ r \in 0 .. d - 1 /\ a = d * p + r
  BY <1>1, Division
<1>3. q \in Int /\ s \in 0 .. 1 /\ p = 2 * q + s
  BY <1>2
<1>4. Bit(a, n) = s
  BY DEF Bit
<1> HIDE DEF d, p, r, q, s
<1>5. a = (2 * d) * q + (r + d * s)
  BY <1>1, <1>2, <1>3, SMT
<1>6. r + d * s \in 0 .. 2 * d - 1
  <2>1. s = 0 \/ s = 1
    BY <1>3
  <2> QED BY <1>1, <1>2, <2>1
<1>7. a % (2 * d) = r + d * s
  <2> DEFINE e == 2 * d
             t == r + d * s
  <2>1. e \in Nat \ {0} /\ t \in 0 .. e - 1 /\ a = e * q + t
    BY <1>1, <1>5, <1>6
  <2> HIDE DEF e, t
  <2>2. \A u \in Int, v \in 0 .. e - 1, x \in Int : x = e * u + v => x % e = v
    BY <2>1, Divided
  <2>3. a % e = t
    BY <1>3, <2>1, <2>2
  <2> QED BY <2>3 DEF e, t
<1> QED BY <1>1, <1>4, <1>7 DEF d, r

\* Above a power of two, the bits are those of the quotient; below it, those of
\* the remainder.
LEMMA BitsApart ==
  ASSUME NEW k \in Nat, NEW x \in 0 .. Pow2[k] - 1, NEW y \in Int, NEW n \in Nat
  PROVE  /\ n < k => Bit(x + Pow2[k] * y, n) = Bit(x, n)
         /\ Bit(x + Pow2[k] * y, k + n) = Bit(y, n)
<1> DEFINE d == Pow2[k]
           a == x + d * y
<1>1. d \in Nat \ {0} /\ a \in Int /\ x \in Int
  BY Pow2Positive, SMT
<1>2. ASSUME n < k PROVE Bit(a, n) = Bit(x, n)
  <2> DEFINE e == Pow2[n]
             l == k - (n + 1)
             q == Pow2[l]
             p == x \div e
             r == x % e
  <2>1. l \in Nat /\ k = (n + 1) + l /\ n + 1 \in Nat
    BY <1>2
  <2>2. d = Pow2[n + 1] * q /\ Pow2[n + 1] = 2 * e /\ e \in Nat \ {0} /\ q \in Nat
    <3> DEFINE i == n + 1
    <3> HIDE DEF l, i
    <3>1. l \in Nat /\ i \in Nat /\ k = i + l
      BY <2>1 DEF i
    <3>2. Pow2[i + l] = Pow2[i] * Pow2[l]
      BY <3>1, Pow2Sum
    <3> QED BY <3>1, <3>2, Pow2Def, Pow2Positive DEF i
  <2>3. p \in Int /\ r \in 0 .. e - 1 /\ x = e * p + r
    BY <1>1, <2>2, Division
  <2>5. Bit(x, n) = p % 2
    BY DEF Bit
  <2>7. Bit(a, n) = (a \div e) % 2
    BY DEF Bit
  <2>6. a = x + (2 * e * q) * y
    BY <2>2
  <2> HIDE DEF d, e, l, q, p, r, a
  <2>4. a = e * (p + 2 * (q * y)) + r /\ p + 2 * (q * y) \in Int /\ q * y \in Int
    BY <1>1, <2>2, <2>3, <2>6, SMT
  <2>8. a \div e = p + 2 * (q * y)
    <3> DEFINE t == p + 2 * (q * y)
    <3>1. t \in Int /\ a = e * t + r
      BY <2>4
    <3> HIDE DEF t
    <3>2. \A u \in Int, v \in 0 .. e - 1, z \in Int : z = e * u + v => z \div e = u
      BY <2>2, Divided, ZenonT(30)
    <3>3. a \div e = t
      BY <1>1, <2>3, <3>1, <3>2
    <3> QED BY <3>3 DEF t
  <2>9. \A u, v \in Int : (u + 2 * v) % 2 = u % 2
    BY SMT
  <2> QED BY <2>3, <2>4, <2>5, <2>7, <2>8, <2>9
<1>3. Bit(a, k + n) = Bit(y, n)
  <2>1. Pow2[k + n] = d * Pow2[n] /\ Pow2[n] \in Nat \ {0}
    BY Pow2Sum, Pow2Positive
  <2>2. a \div (d * Pow2[n]) = (a \div d) \div Pow2[n]
    BY <1>1, <2>1, DivisionTwice
  <2>3. a \div d = y
    <3>1. a = d * y + x /\ x \in 0 .. d - 1
      BY <1>1, SMT
    <3> HIDE DEF a, d
    <3>2. \A u \in Int, v \in 0 .. d - 1, z \in Int : z = d * u + v => z \div d = u
      BY <1>1, Divided
    <3> QED BY <1>1, <3>1, <3>2
  <2> QED BY <2>1, <2>2, <2>3 DEF Bit
<1> QED BY <1>2, <1>3

\* The digits of two numbers that are split at the same power of two.
LEMMA DigitsApart ==
  ASSUME NEW op, BitOp(op), NEW k \in Nat,
         NEW x \in 0 .. Pow2[k] - 1, NEW u \in 0 .. Pow2[k] - 1, NEW y \in Int, NEW v \in Int,
         NEW low, Digits(low, op, x, u), NEW high, Digits(high, op, y, v),
         NEW all, Digits(all, op, x + Pow2[k] * y, u + Pow2[k] * v)
  PROVE  \A n \in Nat : all[k + n] = low[k] + Pow2[k] * high[n]
<1> DEFINE a == x + Pow2[k] * y
           b == u + Pow2[k] * v
<1>0. Digits(all, op, a, b)
  OBVIOUS
<1>1. \A n \in Nat : n < k => Bit(a, n) = Bit(x, n) /\ Bit(b, n) = Bit(u, n)
  BY BitsApart
<1>2. \A n \in Nat : Bit(a, k + n) = Bit(y, n) /\ Bit(b, k + n) = Bit(v, n)
  BY BitsApart
<1> HIDE DEF a, b
<1>3. all[k] = low[k]
  BY <1>0, <1>1, DigitsSame
<1> DEFINE T == {n \in Nat : all[k + n] = low[k] + Pow2[k] * high[n]}
<1>4. 0 \in T
  <2>1. k + 0 = k /\ high[0] = 0 /\ low[k] \in Nat /\ Pow2[k] * 0 = 0
    <3>1. high[0] = 0 /\ low[k] \in Nat
      BY DEF Digits
    <3> QED BY <3>1, Pow2Positive, SMTT(30)
  <2> QED BY <2>1, <1>3
<1>5. ASSUME NEW n \in T PROVE n + 1 \in T
  <2>1. n \in Nat /\ k + n \in Nat /\ k + (n + 1) = (k + n) + 1 /\ all[k + n] = low[k] + Pow2[k] * high[n]
    OBVIOUS
  <2> DEFINE bit == op[Bit(y, n) + Bit(v, n)]
  <2>2. high[n + 1] = high[n] + bit * Pow2[n]
    BY <2>1 DEF Digits
  <2>3. all[(k + n) + 1] = all[k + n] + bit * Pow2[k + n]
    BY <1>0, <1>2, <2>1 DEF Digits
  <2>4. Pow2[k + n] = Pow2[k] * Pow2[n]
    BY <2>1, Pow2Sum
  <2>5. bit \in Nat /\ high[n] \in Nat /\ low[k] \in Nat /\ Pow2[k] \in Nat /\ Pow2[n] \in Nat
    <3>1. bit \in 0 .. 1
      BY <2>1, OpRange
    <3>2. high \in [Nat -> Nat] /\ low \in [Nat -> Nat]
      BY DEF Digits
    <3>3. Pow2[k] \in Nat /\ Pow2[n] \in Nat
      BY <2>1, Pow2Positive
    <3> HIDE DEF bit
    <3> QED BY <2>1, <3>1, <3>2, <3>3
  <2> HIDE DEF bit
  <2>6. \A l, p, h, s, q \in Nat : l + p * h + s * (p * q) = l + p * (h + s * q)
    BY SMT
  <2>7. all[k + (n + 1)] = low[k] + Pow2[k] * high[n] + bit * (Pow2[k] * Pow2[n])
    BY <2>1, <2>3, <2>4
  <2>8. all[k + (n + 1)] = low[k] + Pow2[k] * (high[n] + bit * Pow2[n])
    BY <2>5, <2>6, <2>7
  <2> QED BY <2>1, <2>2, <2>8
<1> HIDE DEF T
<1>6. T = Nat
  BY <1>4, <1>5, Induction DEF T
<1> QED BY <1>6 DEF T

\* Numbers below a power of two have no bits from there on.
LEMMA DigitsEnd ==
  ASSUME NEW op, BitOp(op), NEW k \in Nat,
         NEW x \in 0 .. Pow2[k] - 1, NEW u \in 0 .. Pow2[k] - 1,
         NEW low, Digits(low, op, x, u)
  PROVE  \A n \in Nat : low[k + n] = low[k]
<1> DEFINE T == {n \in Nat : low[k + n] = low[k]}
<1>1. 0 \in T
  OBVIOUS
<1>2. ASSUME NEW n \in T PROVE n + 1 \in T
  <2>1. n \in Nat /\ k + n \in Nat /\ k + (n + 1) = (k + n) + 1 /\ low[k + n] = low[k]
    OBVIOUS
  <2>2. Bit(x, k + n) = 0 /\ Bit(u, k + n) = 0
    <3>1. x + Pow2[k] * 0 = x /\ u + Pow2[k] * 0 = u
      BY Pow2Positive, SMT
    <3>2. Bit(x + Pow2[k] * 0, k + n) = Bit(0, n) /\ Bit(u + Pow2[k] * 0, k + n) = Bit(0, n)
      BY <2>1, BitsApart
    <3>3. Bit(0, n) = 0
      <4>1. 0 \div Pow2[n] = 0
        BY <2>1, Pow2Positive, SMT
      <4> QED BY <4>1 DEF Bit
    <3> QED BY <3>1, <3>2, <3>3
  <2>3. low[(k + n) + 1] = low[k + n] + op[0 + 0] * Pow2[k + n]
    BY <2>1, <2>2 DEF Digits
  <2>4. op[0 + 0] = 0 /\ low[k] \in Nat /\ Pow2[k + n] \in Nat
    BY <2>1, Pow2Positive DEF BitOp, Digits
  <2> QED BY <2>1, <2>3, <2>4
<1> HIDE DEF T
<1>3. T = Nat
  BY <1>1, <1>2, Induction DEF T
<1> QED BY <1>3 DEF T

\* n digits are a number below the n-th power of two.
LEMMA DigitsRange ==
  ASSUME NEW op, BitOp(op), NEW a \in Int, NEW b \in Int, NEW low, Digits(low, op, a, b)
  PROVE  \A n \in Nat : low[n] \in 0 .. Pow2[n] - 1
<1> DEFINE T == {n \in Nat : low[n] \in 0 .. Pow2[n] - 1}
<1>1. 0 \in T
  BY Pow2Def DEF Digits
<1>2. ASSUME NEW n \in T PROVE n + 1 \in T
  <2>1. n \in Nat /\ low[n] \in 0 .. Pow2[n] - 1
    OBVIOUS
  <2> DEFINE bit == op[Bit(a, n) + Bit(b, n)]
  <2>2. bit \in 0 .. 1 /\ low[n + 1] = low[n] + bit * Pow2[n]
    BY <2>1, OpRange DEF Digits
  <2>3. Pow2[n + 1] = 2 * Pow2[n] /\ Pow2[n] \in Nat
    BY <2>1, Pow2Def, Pow2Positive
  <2> HIDE DEF bit
  <2>4. bit = 0 \/ bit = 1
    BY <2>2
  <2> QED BY <2>1, <2>2, <2>3, <2>4
<1> HIDE DEF T
<1>3. T = Nat
  BY <1>1, <1>2, Induction DEF T
<1> QED BY <1>3 DEF T

\* A bitwise operator commutes.
LEMMA BitwiseCommutes ==
  ASSUME NEW op, BitOp(op), NEW a \in Int, NEW b \in Int
  PROVE  Bitwise(op, a, b) = Bitwise(op, b, a)
<1>1. PICK low : Digits(low, op, a, b)
  BY DigitsExist
<1>2. Digits(low, op, b, a)
  <2>1. \A n \in Nat : Bit(a, n) + Bit(b, n) = Bit(b, n) + Bit(a, n)
    <3>1. \A n \in Nat : Bit(a, n) \in Int /\ Bit(b, n) \in Int
      BY BitRange
    <3> QED BY <3>1
  <2> QED BY <1>1, <2>1 DEF Digits
<1> QED BY <1>1, <1>2, BitwiseDigits

\* A word has four times the bits of a byte.
LEMMA ByteBits ==
  /\ ByteWidth \in Nat /\ Byte = 0 .. Pow2[ByteWidth] - 1 /\ Byte \subseteq Nat
  /\ DATA_WIDTH = ByteWidth + (ByteWidth + (ByteWidth + ByteWidth))
BY ByteWidthAssumption, Sizes, SMT DEF Byte, B, DATA_WIDTH

\* The digits of bytes end with the byte.
LEMMA BitwiseByte ==
  ASSUME NEW op, BitOp(op), NEW x \in Byte, NEW y \in Byte, NEW low, Digits(low, op, x, y)
  PROVE  Bitwise(op, x, y) = low[ByteWidth] /\ low[ByteWidth] \in Byte
<1> DEFINE w == ByteWidth
<1>1. w \in Nat /\ w + (w + w) \in Nat
  BY ByteBits
<1>2. x \in 0 .. Pow2[w] - 1 /\ y \in 0 .. Pow2[w] - 1 /\ x \in Int /\ y \in Int
  BY ByteBits
<1>3. \A n \in Nat : low[w + n] = low[w]
  BY <1>1, <1>2, DigitsEnd
<1>4. Bitwise(op, x, y) = low[w + (w + (w + w))]
  BY <1>2, ByteBits, BitwiseDigits
<1>5. low[w] \in 0 .. Pow2[w] - 1
  BY <1>1, <1>2, DigitsRange
<1> QED BY <1>1, <1>3, <1>4, <1>5, ByteBits

\* A bitwise operator on bytes gives a byte.
LEMMA ByteOpRange ==
  ASSUME NEW op, BitOp(op), NEW x \in Byte, NEW y \in Byte
  PROVE  Bitwise(op, x, y) \in Byte
<1>1. x \in Int /\ y \in Int
  BY ByteBits
<1>2. PICK low : Digits(low, op, x, y)
  BY <1>1, DigitsExist
<1> QED BY <1>2, BitwiseByte

\* One byte more.
LEMMA BitwiseApart ==
  ASSUME NEW op, BitOp(op), NEW x \in Byte, NEW u \in Byte, NEW y \in Nat, NEW v \in Nat,
         NEW all, Digits(all, op, x + B * y, u + B * v), NEW high, Digits(high, op, y, v)
  PROVE  \A n \in Nat : all[ByteWidth + n] = Bitwise(op, x, u) + B * high[n]
<1> DEFINE w == ByteWidth
<1>1. w \in Nat /\ x \in 0 .. Pow2[w] - 1 /\ u \in 0 .. Pow2[w] - 1 /\ x \in Int /\ u \in Int
  BY ByteBits
<1>2. PICK low : Digits(low, op, x, u)
  BY <1>1, DigitsExist
<1>3. Digits(all, op, x + Pow2[w] * y, u + Pow2[w] * v) /\ y \in Int /\ v \in Int
  BY DEF B
<1>4. \A n \in Nat : all[w + n] = low[w] + Pow2[w] * high[n]
  BY <1>1, <1>2, <1>3, DigitsApart
<1> QED BY <1>2, <1>4, BitwiseByte DEF B

\* And, Or and Xor of words go byte by byte.
Bytewise(op) ==
  \A a, b, c, d, p, q, r, s :
    {a, b, c, d, p, q, r, s} \subseteq Byte =>
    Bitwise(op, Wd(a, b, c, d), Wd(p, q, r, s))
      = Wd(Bitwise(op, a, p), Bitwise(op, b, q), Bitwise(op, c, r), Bitwise(op, d, s))

\* A bitwise operator on words works byte by byte: why and8, or8 and xor8 are tables of bytes.
LEMMA BitwiseWd == ASSUME NEW op, BitOp(op) PROVE Bytewise(op)
<1> SUFFICES ASSUME NEW a, NEW b, NEW c, NEW d, NEW p, NEW q, NEW r, NEW s,
                    {a, b, c, d, p, q, r, s} \subseteq Byte
             PROVE  Bitwise(op, Wd(a, b, c, d), Wd(p, q, r, s))
                      = Wd(Bitwise(op, a, p), Bitwise(op, b, q), Bitwise(op, c, r), Bitwise(op, d, s))
  BY DEF Bytewise
<1>a. a \in Byte /\ b \in Byte /\ c \in Byte /\ d \in Byte
  OBVIOUS
<1>b. p \in Byte /\ q \in Byte /\ r \in Byte /\ s \in Byte
  OBVIOUS
<1> DEFINE w  == ByteWidth
           y2 == c + B * d     v2 == r + B * s
           y1 == b + B * y2    v1 == q + B * v2
           y0 == a + B * y1    v0 == p + B * v1
<1>0. w \in Nat /\ w + w \in Nat /\ w + (w + w) \in Nat
  BY ByteBits
<1>1. \A x, y \in Nat : x + B * y \in Nat
  BY Sizes, SMT
<1>2. y2 \in Nat /\ v2 \in Nat
  BY <1>1, <1>a, <1>b, ByteBits
<1> HIDE DEF y2, v2
<1>3. y1 \in Nat /\ v1 \in Nat
  BY <1>1, <1>2, <1>a, <1>b, ByteBits
<1> HIDE DEF y1, v1
<1>4. y0 \in Nat /\ v0 \in Nat
  BY <1>1, <1>3, <1>a, <1>b, ByteBits
<1>5. d \in Nat /\ s \in Nat
  BY <1>a, <1>b, ByteBits
<1>6. PICK d3 : Digits(d3, op, d, s)
  BY <1>5, DigitsExist
<1>7. PICK d2 : Digits(d2, op, y2, v2)
  BY <1>2, DigitsExist
<1>8. PICK d1 : Digits(d1, op, y1, v1)
  BY <1>3, DigitsExist
<1> HIDE DEF y0, v0
<1>9. PICK d0 : Digits(d0, op, y0, v0)
  BY <1>4, DigitsExist
<1> DEFINE e0 == Bitwise(op, a, p)   e1 == Bitwise(op, b, q)
           e2 == Bitwise(op, c, r)   e3 == Bitwise(op, d, s)
<1>10. \A n \in Nat : d0[w + n] = e0 + B * d1[n]
  BY <1>3, <1>8, <1>9, <1>a, <1>b, BitwiseApart DEF y0, v0
<1>11. \A n \in Nat : d1[w + n] = e1 + B * d2[n]
  BY <1>2, <1>7, <1>8, <1>a, <1>b, BitwiseApart DEF y1, v1
<1>12. \A n \in Nat : d2[w + n] = e2 + B * d3[n]
  BY <1>5, <1>6, <1>7, <1>a, <1>b, BitwiseApart DEF y2, v2
<1>13. d3[w] = e3
  BY <1>6, <1>a, <1>b, BitwiseByte
<1>14. e0 \in Byte /\ e1 \in Byte /\ e2 \in Byte /\ e3 \in Byte
  BY <1>a, <1>b, ByteOpRange
<1> HIDE DEF e0, e1, e2, e3
<1>15. d0[w + (w + (w + w))] = e0 + B * (e1 + B * (e2 + B * e3))
  BY <1>0, <1>10, <1>11, <1>12, <1>13
<1>16. Bitwise(op, y0, v0) = d0[w + (w + (w + w))]
  BY <1>4, <1>9, BitwiseDigits, ByteBits
<1>17. \A x, y, z, t \in Nat : x + B * (y + B * (z + B * t)) = Wd(x, y, z, t)
  <2> TAKE x, y, z, t \in Nat
  <2>1. B * (y + B * (z + B * t)) = B * y + (B * B) * z + (B * B * B) * t
    BY Sizes, SMT
  <2> QED BY <2>1, Sizes, SMT DEF Wd
<1>18. y0 = Wd(a, b, c, d) /\ v0 = Wd(p, q, r, s)
  BY <1>17, <1>a, <1>b, ByteBits DEF y0, v0, y1, v1, y2, v2
<1>19. Bitwise(op, y0, v0) = Wd(e0, e1, e2, e3)
  BY <1>14, <1>15, <1>16, <1>17, ByteBits
<1> QED BY <1>18, <1>19 DEF e0, e1, e2, e3

\* Below a power of two every bit of it less one is set.
LEMMA OnesBit ==
  ASSUME NEW k \in Nat, NEW n \in Nat, n < k
  PROVE  Bit(Pow2[k] - 1, n) = 1
<1> DEFINE e == Pow2[n]
           l == k - (n + 1)
           q == Pow2[l]
           a == Pow2[k] - 1
<1>1. l \in Nat /\ k = (n + 1) + l /\ n + 1 \in Nat
  OBVIOUS
<1>2. Pow2[k] = 2 * e * q /\ e \in Nat \ {0} /\ q \in Nat
  <2> DEFINE i == n + 1
  <2> HIDE DEF l, i
  <2>1. l \in Nat /\ i \in Nat /\ k = i + l
    BY <1>1 DEF i
  <2>2. Pow2[i + l] = Pow2[i] * Pow2[l]
    BY <2>1, Pow2Sum
  <2> QED BY <2>1, <2>2, Pow2Def, Pow2Positive DEF i
<1>3. Bit(a, n) = (a \div e) % 2
  BY DEF Bit
<1>4. a = 2 * e * q - 1
  BY <1>2
<1> HIDE DEF e, q, a
<1> DEFINE t == 2 * q - 1
<1>5. a = e * t + (e - 1) /\ t \in Int /\ e - 1 \in 0 .. e - 1 /\ a \in Int
  BY <1>2, <1>4, SMT
<1>6. t % 2 = 1
  BY <1>2
<1> HIDE DEF t
<1>7. \A u \in Int, v \in 0 .. e - 1, z \in Int : z = e * u + v => z \div e = u
  BY <1>2, Divided
<1>8. a \div e = t
  BY <1>5, <1>7
<1> QED BY <1>3, <1>6, <1>8 DEF a

\* With all bits set on one side, and takes the low bits, and xor turns them over.
LEMMA MaskDigits ==
  ASSUME NEW k \in Nat, NEW b \in Int, NEW low, Digits(low, BothOp, Pow2[k] - 1, b)
  PROVE  low[k] = b % Pow2[k]
<1> DEFINE T == {n \in Nat : n <= k => low[n] = b % Pow2[n]}
<1>1. 0 \in T
  BY Pow2Def DEF Digits
<1>2. ASSUME NEW n \in T PROVE n + 1 \in T
  <2> SUFFICES ASSUME n + 1 <= k PROVE low[n + 1] = b % Pow2[n + 1]
    OBVIOUS
  <2>1. n \in Nat /\ n < k /\ low[n] = b % Pow2[n]
    OBVIOUS
  <2> DEFINE bit == Bit(b, n)
  <2>2. low[n + 1] = low[n] + BothOp[1 + bit] * Pow2[n]
    BY <2>1, OnesBit DEF Digits
  <2>3. b % Pow2[n + 1] = (b % Pow2[n]) + Pow2[n] * bit
    BY <2>1, OneMoreBit
  <2>4. bit = 0 \/ bit = 1
    BY <2>1, BitRange
  <2>5. Pow2[n] \in Nat
    BY <2>1, Pow2Positive
  <2> HIDE DEF bit
  <2>6. BothOp[1 + bit] = bit
    BY <2>4, BitOpValues
  <2>7. bit * Pow2[n] = Pow2[n] * bit
    BY <2>4, <2>5
  <2> QED BY <2>1, <2>2, <2>3, <2>6, <2>7
<1> HIDE DEF T
<1>3. T = Nat
  BY <1>1, <1>2, Induction DEF T
<1> QED BY <1>3 DEF T

\* Xor with ones takes a number from the ones.
LEMMA TurnDigits ==
  ASSUME NEW k \in Nat, NEW b \in Int, NEW low, Digits(low, OddOp, Pow2[k] - 1, b)
  PROVE  low[k] = Pow2[k] - 1 - (b % Pow2[k])
<1> DEFINE T == {n \in Nat : n <= k => low[n] = Pow2[n] - 1 - (b % Pow2[n])}
<1>1. 0 \in T
  BY Pow2Def DEF Digits
<1>2. ASSUME NEW n \in T PROVE n + 1 \in T
  <2> SUFFICES ASSUME n + 1 <= k PROVE low[n + 1] = Pow2[n + 1] - 1 - (b % Pow2[n + 1])
    OBVIOUS
  <2>1. n \in Nat /\ n < k /\ low[n] = Pow2[n] - 1 - (b % Pow2[n])
    OBVIOUS
  <2> DEFINE bit == Bit(b, n)
             rest == b % Pow2[n]
  <2>2. low[n + 1] = low[n] + OddOp[1 + bit] * Pow2[n]
    BY <2>1, OnesBit DEF Digits
  <2>3. b % Pow2[n + 1] = rest + Pow2[n] * bit
    BY <2>1, OneMoreBit
  <2>4. bit = 0 \/ bit = 1
    BY <2>1, BitRange
  <2>5. Pow2[n] \in Nat \ {0} /\ Pow2[n + 1] = 2 * Pow2[n]
    BY <2>1, Pow2Positive, Pow2Def
  <2>6. rest \in Int
    <3> DEFINE e == Pow2[n]
    <3>1. e \in Nat \ {0}
      BY <2>5
    <3> HIDE DEF e
    <3> QED BY <3>1, Division DEF e
  <2> HIDE DEF bit, rest
  <2>7. OddOp[1 + bit] = 1 - bit
    BY <2>4, BitOpValues
  <2>8. low[n] = Pow2[n] - 1 - rest
    BY <2>1 DEF rest
  <2> QED BY <2>2, <2>3, <2>4, <2>5, <2>6, <2>7, <2>8
<1> HIDE DEF T
<1>3. T = Nat
  BY <1>1, <1>2, Induction DEF T
<1> QED BY <1>3 DEF T

\* and with 31 takes the low five bits of a byte.
LEMMA And31 == ASSUME NEW b \in Byte PROVE And(31, b) = b % 32
<1> DEFINE k == 5
           w == ByteWidth
           l == w - k
<1>0. k \in Nat /\ l \in Nat /\ w = k + l /\ b \in Int /\ w \in Nat
  BY ByteBits, WidthAssumption
<1>1. Pow2[k] = 32
  <2>1. \A n \in Nat : Pow2[n + 1] = 2 * Pow2[n]
    BY Pow2Def
  <2>2. Pow2[0 + 1] = 2 * Pow2[0] /\ Pow2[1 + 1] = 2 * Pow2[1] /\ Pow2[2 + 1] = 2 * Pow2[2]
          /\ Pow2[3 + 1] = 2 * Pow2[3] /\ Pow2[4 + 1] = 2 * Pow2[4]
    BY <2>1, Zenon
  <2> QED BY <2>2, Pow2Def
<1>2. 31 \in Byte /\ 31 \in Int
  BY Sizes DEF Byte
<1>3. PICK low : Digits(low, BothOp, 31, b)
  BY <1>0, <1>2, BitOps, DigitsExist
<1> HIDE DEF k, l
<1>4. 31 = Pow2[k] - 1
  BY <1>1
<1>5. Digits(low, BothOp, Pow2[k] - 1, b)
  BY <1>3, <1>4
<1>6. low[k] = b % 32
  BY <1>0, <1>1, <1>5, MaskDigits
<1> DEFINE T == {n \in Nat : low[k + n] = low[k]}
<1>7. 0 \in T
  BY <1>0
<1>8. ASSUME NEW n \in T PROVE n + 1 \in T
  <2>1. n \in Nat /\ k + n \in Nat /\ k + (n + 1) = (k + n) + 1 /\ low[k + n] = low[k]
    BY <1>0
  <2>2. Bit(31, k + n) = 0
    <3> DEFINE x == Pow2[k] - 1
    <3>1. x \in 0 .. Pow2[k] - 1 /\ x + Pow2[k] * 0 = x
      BY <1>1
    <3> HIDE DEF x
    <3>2. Bit(x + Pow2[k] * 0, k + n) = Bit(0, n)
      BY <1>0, <2>1, <3>1, BitsApart
    <3>3. Bit(0, n) = 0
      <4>1. 0 \div Pow2[n] = 0
        BY <2>1, Pow2Positive, SMT
      <4> QED BY <4>1 DEF Bit
    <3> QED BY <3>1, <3>2, <3>3, <1>4 DEF x
  <2> DEFINE bit == Bit(b, k + n)
  <2>3. low[(k + n) + 1] = low[k + n] + BothOp[0 + bit] * Pow2[k + n]
    BY <1>3, <2>1, <2>2 DEF Digits
  <2>4. bit = 0 \/ bit = 1
    BY <1>0, <2>1, BitRange
  <2>5. low[k] \in Nat /\ Pow2[k + n] \in Nat
    BY <1>0, <1>3, <2>1, Pow2Positive DEF Digits
  <2> HIDE DEF bit
  <2>6. BothOp[0 + bit] = 0
    BY <2>4, BitOpValues
  <2> QED BY <2>1, <2>3, <2>5, <2>6
<1> HIDE DEF T
<1>9. T = Nat
  BY <1>7, <1>8, Induction DEF T
<1>10. low[w] = low[k]
  BY <1>0, <1>9 DEF T
<1>11. Bitwise(BothOp, 31, b) = low[w]
  BY <1>2, <1>3, BitOps, BitwiseByte
<1> QED BY <1>6, <1>10, <1>11 DEF And, BothOp

\* xor with a byte of ones turns a byte over.
LEMMA XorOnes == ASSUME NEW b \in Byte PROVE Xor(B - 1, b) = B - 1 - b
<1> DEFINE w == ByteWidth
           o == B - 1
<1>1. w \in Nat /\ o \in Byte /\ o \in Int /\ b \in Int /\ o = Pow2[w] - 1 /\ B \in Nat \ {0}
  BY ByteBits, Sizes DEF Byte, B
<1> HIDE DEF o
<1>2. PICK low : Digits(low, OddOp, o, b)
  BY <1>1, BitOps, DigitsExist
<1>3. Digits(low, OddOp, Pow2[w] - 1, b)
  BY <1>1, <1>2
<1>4. low[w] = Pow2[w] - 1 - (b % Pow2[w])
  BY <1>1, <1>3, TurnDigits
<1>5. b % B = b
  <2>1. b \in 0 .. B - 1 /\ b = B * 0 + b
    BY <1>1, SMT DEF Byte
  <2>2. \A q \in Int, r \in 0 .. B - 1, x \in Int : x = B * q + r => x % B = r
    BY <1>1, Divided
  <2> QED BY <1>1, <2>1, <2>2
<1>6. Bitwise(OddOp, o, b) = low[w]
  BY <1>1, <1>2, BitOps, BitwiseByte
<1> QED BY <1>4, <1>5, <1>6 DEF Xor, OddOp, o, B

\* xor with a word of ones turns a word over.
LEMMA XorAllOnes == ASSUME NEW x \in Word PROVE Xor(x, Modulus - 1) = Modulus - 1 - x
<1>1. PICK a, b, c, d \in Byte : x = Wd(a, b, c, d)
  BY BytesOfWord
<1> DEFINE o == B - 1
<1>2. o \in Byte /\ o \in Int
  BY Sizes DEF Byte
<1>3. Modulus - 1 = Wd(o, o, o, o)
  <2>1. (B * B) * o = B * B * B - B * B /\ (B * B * B) * o = Modulus - B * B * B /\ B * o = B * B - B
    BY Widths, SMT
  <2> HIDE DEF o
  <2> QED BY <1>2, <2>1, Sizes DEF Wd, o
<1> HIDE DEF o
<1>4. \A u \in Byte : Bitwise(OddOp, u, o) = o - u
  <2> TAKE u \in Byte
  <2>1. Bitwise(OddOp, o, u) = o - u
    BY XorOnes DEF Xor, OddOp, o
  <2>2. Bitwise(OddOp, o, u) = Bitwise(OddOp, u, o)
    BY <1>2, ByteBits, BitOps, BitwiseCommutes
  <2> QED BY <2>1, <2>2
<1>5. Bitwise(OddOp, x, Modulus - 1) = Wd(o - a, o - b, o - c, o - d)
  <2>1. Bitwise(OddOp, Wd(a, b, c, d), Wd(o, o, o, o))
          = Wd(Bitwise(OddOp, a, o), Bitwise(OddOp, b, o), Bitwise(OddOp, c, o), Bitwise(OddOp, d, o))
    <3>1. Bytewise(OddOp)
      BY BitOps, BitwiseWd
    <3> QED BY <1>2, <3>1 DEF Bytewise
  <2> QED BY <1>1, <1>3, <1>4, <2>1
<1>6. Wd(o - a, o - b, o - c, o - d) = Wd(o, o, o, o) - Wd(a, b, c, d)
  BY <1>2, ByteBits, Sizes, SMT DEF Wd
<1> QED BY <1>1, <1>3, <1>5, <1>6 DEF Xor, OddOp

-----------------------------------------------------------------------------
(* 5. Running code *)

USE DEF zero, sp, gp, tp, s0, s1

Op   == [op : {"add", "addi", "lui", "lw", "lbu", "sw", "sb", "jalr"},
         a : Int, b : Int, c : Int]
Code == Seq(Op)

\* The states a run goes through.
Passes(f, mc, code) ==
  f[0] = mc /\ \A n \in 1 .. Len(code) : f[n] = Exec(f[n - 1], code[n])

\* Running code is executing its instructions one by one.
LEMMA RunSteps ==
  ASSUME NEW mc, NEW code \in Code
  PROVE  \E f : Passes(f, mc, code) /\ Run(mc, code) = f[Len(code)]
<1> DEFINE N == Len(code)
           Eq(f, k) == f = [n \in 0 .. k |-> IF n = 0 THEN mc ELSE Exec(f[n - 1], code[n])]
           T == {k \in Nat : \E f : Eq(f, k)}
<1>0. N \in Nat
  BY DEF Code
<1>1. 0 \in T
  <2> DEFINE f == [n \in 0 .. 0 |-> mc]
  <2>1. f = [n \in 0 .. 0 |-> IF n = 0 THEN mc ELSE Exec(f[n - 1], code[n])]
    OBVIOUS
  <2> QED BY <2>1
<1>2. ASSUME NEW k \in T PROVE k + 1 \in T
  <2> PICK f : Eq(f, k)
    OBVIOUS
  <2> DEFINE K == k + 1
             g == [n \in 0 .. K |-> IF n = K THEN Exec(f[k], code[K]) ELSE f[n]]
             h == [n \in 0 .. K |-> IF n = 0 THEN mc ELSE Exec(g[n - 1], code[n])]
  <2>1. k \in Nat /\ K \in Nat /\ K # 0 /\ K - 1 = k
    OBVIOUS
  <2>2. \A n \in 0 .. K : g[n] = h[n]
    <3> TAKE n \in 0 .. K
    <3>1. CASE n = K
      <4>1. g[n] = Exec(f[k], code[K]) /\ g[k] = f[k] /\ h[n] = Exec(g[n - 1], code[n])
        BY <2>1, <3>1
      <4> QED BY <2>1, <3>1, <4>1
    <3>2. CASE n # K
      <4>1. n \in 0 .. k /\ g[n] = f[n] /\ h[n] = IF n = 0 THEN mc ELSE Exec(g[n - 1], code[n])
        BY <2>1, <3>2
      <4>2. f[n] = IF n = 0 THEN mc ELSE Exec(f[n - 1], code[n])
        BY <4>1
      <4>3. n # 0 => g[n - 1] = f[n - 1]
        BY <2>1, <4>1
      <4> HIDE DEF g, h
      <4> QED BY <4>1, <4>2, <4>3
    <3> QED BY <3>1, <3>2
  <2>3. g = [n \in 0 .. K |-> g[n]] /\ h = [n \in 0 .. K |-> h[n]]
    OBVIOUS
  <2>4. g = h
    <3> HIDE DEF g, h
    <3> QED BY <2>2, <2>3
  <2> QED BY <2>1, <2>4
<1> HIDE DEF T
<1>3. T = Nat
  BY <1>1, <1>2, Induction DEF T
<1>4. \E f : Eq(f, N)
  BY <1>0, <1>3 DEF T
<1> DEFINE f == CHOOSE f : Eq(f, N)
<1>5. Eq(f, N)
  <2> HIDE DEF Eq
  <2> QED BY <1>4
<1>6. Run(mc, code) = f[N]
  BY DEF Run
<1> HIDE DEF f
<1>7. Passes(f, mc, code)
  BY <1>0, <1>5 DEF Passes
<1> QED BY <1>6, <1>7

\* Any states that follow each other so end where the run ends.
LEMMA RunSame ==
  ASSUME NEW mc, NEW code \in Code, NEW f, Passes(f, mc, code)
  PROVE  Run(mc, code) = f[Len(code)]
<1> PICK g : Passes(g, mc, code) /\ Run(mc, code) = g[Len(code)]
  BY RunSteps
<1> DEFINE T == {n \in Nat : n <= Len(code) => f[n] = g[n]}
<1>0. Len(code) \in Nat
  BY DEF Code
<1>1. 0 \in T
  BY DEF Passes
<1>2. ASSUME NEW n \in T PROVE n + 1 \in T
  <2> SUFFICES ASSUME n + 1 <= Len(code) PROVE f[n + 1] = g[n + 1]
    OBVIOUS
  <2>1. n \in Nat /\ n + 1 \in 1 .. Len(code) /\ (n + 1) - 1 = n /\ f[n] = g[n]
    BY <1>0
  <2> QED BY <2>1 DEF Passes
<1> HIDE DEF T
<1>3. T = Nat
  BY <1>1, <1>2, Induction DEF T
<1> QED BY <1>0, <1>3 DEF T

\* A run of one instruction.
LEMMA RunOne ==
  ASSUME NEW mc, NEW i \in Op
  PROVE  <<i>> \in Code /\ Run(mc, <<i>>) = Exec(mc, i)
<1> DEFINE code == <<i>>
           f == [n \in 0 .. 1 |-> IF n = 0 THEN mc ELSE Exec(mc, i)]
<1>1. code \in Code /\ Len(code) = 1 /\ code[1] = i
  BY DEF Code
<1>2. f[0] = mc /\ f[1] = Exec(mc, i)
  OBVIOUS
<1> HIDE DEF f, code
<1>3. Passes(f, mc, code)
  BY <1>1, <1>2 DEF Passes
<1>4. Run(mc, code) = f[1]
  BY <1>1, <1>3, RunSame
<1> QED BY <1>1, <1>2, <1>4 DEF code

\* A run of no code.
LEMMA RunNone == ASSUME NEW mc PROVE <<>> \in Code /\ Run(mc, <<>>) = mc
<1> DEFINE code == <<>>
           f == [n \in 0 .. 0 |-> mc]
<1>1. code \in Code /\ Len(code) = 0 /\ f[0] = mc
  BY DEF Code
<1> HIDE DEF f, code
<1>2. Passes(f, mc, code)
  BY <1>1 DEF Passes
<1>3. Run(mc, code) = f[0]
  BY <1>1, <1>2, RunSame
<1> QED BY <1>1, <1>3 DEF code

\* Code runs piece by piece.
LEMMA RunBoth ==
  ASSUME NEW mc, NEW c, NEW d, c \in Code, d \in Code
  PROVE  c \o d \in Code /\ Run(mc, c \o d) = Run(Run(mc, c), d)
<1> DEFINE cd == c \o d
           L == Len(c)
           N == Len(d)
           mid == Run(mc, c)
<1>1. /\ cd \in Code /\ L \in Nat /\ N \in Nat /\ Len(cd) = L + N
      /\ \A n \in 1 .. L : cd[n] = c[n]
      /\ \A n \in 1 .. N : cd[L + n] = d[n]
  BY DEF Code
<1>2. PICK f : Passes(f, mc, c) /\ mid = f[L]
  BY RunSteps
<1> HIDE DEF mid
<1>3. PICK g : Passes(g, mid, d) /\ Run(mid, d) = g[N]
  BY RunSteps
<1> DEFINE h == [n \in 0 .. L + N |-> IF n <= L THEN f[n] ELSE g[n - L]]
<1>4. h[0] = mc
  BY <1>1, <1>2 DEF Passes
<1>5. g[0] = f[L]
  BY <1>2, <1>3 DEF Passes
<1>6. \A n \in 1 .. L + N : h[n] = Exec(h[n - 1], cd[n])
  <2> TAKE n \in 1 .. L + N
  <2>1. CASE n <= L
    <3>1. n \in 1 .. L /\ n - 1 \in 0 .. L + N /\ n - 1 <= L
      BY <1>1, <2>1
    <3>2. f[n] = Exec(f[n - 1], c[n])
      BY <1>2, <3>1 DEF Passes
    <3>3. h[n] = f[n] /\ h[n - 1] = f[n - 1]
      BY <1>1, <3>1
    <3> HIDE DEF h
    <3> QED BY <1>1, <3>1, <3>2, <3>3
  <2>2. CASE n > L
    <3> DEFINE k == n - L
    <3>1. k \in 1 .. N /\ n = L + k
      BY <1>1, <2>2
    <3>2. g[k] = Exec(g[k - 1], d[k])
      BY <1>3, <3>1 DEF Passes
    <3>3. h[n] = g[k] /\ h[n - 1] = g[k - 1]
      <4>1. h[n] = g[k]
        BY <1>1, <2>2
      <4>2. CASE k = 1
        <5>1. n - 1 = L /\ L \in 0 .. L + N /\ L <= L /\ k - 1 = 0
          BY <1>1, <3>1, <4>2
        <5>2. h[n - 1] = f[L]
          BY <5>1
        <5> QED BY <1>5, <4>1, <5>1, <5>2
      <4>3. CASE k # 1
        <5>1. n - 1 \in 0 .. L + N /\ ~ (n - 1 <= L) /\ (n - 1) - L = k - 1
          BY <1>1, <3>1, <4>3
        <5> QED BY <4>1, <5>1
      <4> QED BY <4>2, <4>3
    <3>4. cd[n] = d[k]
      BY <1>1, <3>1
    <3> HIDE DEF h, cd
    <3> QED BY <3>2, <3>3, <3>4
  <2> QED BY <1>1, <2>1, <2>2
<1>7. h[L + N] = g[N]
  <2>1. CASE N = 0
    BY <1>1, <1>5, <2>1
  <2>2. CASE N # 0
    BY <1>1, <2>2
  <2> QED BY <2>1, <2>2
<1> HIDE DEF h, cd
<1>8. Passes(h, mc, cd)
  BY <1>1, <1>4, <1>6 DEF Passes
<1>9. Run(mc, cd) = h[L + N]
  BY <1>1, <1>8, RunSame
<1> QED BY <1>1, <1>3, <1>7, <1>9 DEF cd, mid

-----------------------------------------------------------------------------
(* 6. Machines *)

USE DEF StackTop

Machine == [regs : [Regs -> Word], ram : [Ram -> Byte], pc : Int,
            jumped : BOOLEAN, stray : BOOLEAN]

\* The registers the macros name are registers.
LEMMA RegNames ==
  /\ zero \in Regs /\ sp \in Regs /\ gp \in Regs /\ tp \in Regs /\ s0 \in Regs /\ s1 \in Regs
  /\ \A r \in Regs : r \in Int
BY RegsAssumption

\* The bounds that the widths give.
LEMMA WidthBounds ==
  /\ B \in Nat /\ B >= 32 /\ B <= 256
  /\ B * B \in Nat /\ B * B >= 1024 /\ B * B <= 65536
  /\ Modulus \in Nat /\ Modulus >= 1048576
<1>1. Pow2[5] = 32 /\ Pow2[6] = 64 /\ Pow2[7] = 128 /\ Pow2[8] = 256
  <2>1. \A n \in Nat : Pow2[n + 1] = 2 * Pow2[n]
    BY Pow2Def
  <2>2. Pow2[0 + 1] = 2 * Pow2[0] /\ Pow2[1 + 1] = 2 * Pow2[1] /\ Pow2[2 + 1] = 2 * Pow2[2]
          /\ Pow2[3 + 1] = 2 * Pow2[3] /\ Pow2[4 + 1] = 2 * Pow2[4] /\ Pow2[5 + 1] = 2 * Pow2[5]
          /\ Pow2[6 + 1] = 2 * Pow2[6] /\ Pow2[7 + 1] = 2 * Pow2[7]
    BY <2>1, Zenon
  <2> QED BY <2>2, Pow2Def
<1>2. ByteWidth = 5 \/ ByteWidth = 6 \/ ByteWidth = 7 \/ ByteWidth = 8
  BY WidthAssumption
<1>3. B = 32 \/ B = 64 \/ B = 128 \/ B = 256
  BY <1>1, <1>2 DEF B
<1>4. B * B \in Nat /\ B * B >= 1024 /\ B * B <= 65536
  BY <1>3
<1>5. Modulus \in Nat /\ Modulus >= 1048576
  BY <1>4, Sizes
<1>6. B \in Nat /\ B >= 32 /\ B <= 256
  BY <1>3
<1> QED BY <1>4, <1>5, <1>6

\* Words are naturals below Modulus.
LEMMA WordNat == Modulus \in Nat \ {0} /\ Word \subseteq Nat /\ (\A x \in Word : x < Modulus)
BY Sizes DEF Word

\* A word is its own remainder.
LEMMA SmallWord == ASSUME NEW x, x \in Word PROVE x % Modulus = x
<1>1. x \in 0 .. Modulus - 1 /\ x = Modulus * 0 + x /\ x \in Int
  BY WordNat, SMT DEF Word
<1>2. \A q \in Int, r \in 0 .. Modulus - 1, y \in Int : y = Modulus * q + r => y % Modulus = r
  BY WordNat, Divided
<1> QED BY <1>1, <1>2

\* A remainder is a word.
LEMMA ModWord == ASSUME NEW x, x \in Int PROVE x % Modulus \in Word
BY WordNat, Division DEF Word

\* A sum is a word.
LEMMA AddWord == ASSUME NEW x, NEW y, x \in Int, y \in Int PROVE Add(x, y) \in Word
BY ModWord DEF Add

\* A sum that fits does not wrap.
LEMMA AddSmall ==
  ASSUME NEW x, NEW y, x \in Int, y \in Int, x + y >= 0, x + y < Modulus
  PROVE  Add(x, y) = x + y
<1>1. x + y \in Word
  BY WordNat DEF Word
<1> QED BY <1>1, SmallWord DEF Add

\* Where things are: the stack is ram, and neither ram nor a table ends the word.
LEMMA Places ==
  /\ \A a \in Int : a >= StackTop - 28 /\ a <= StackTop + 7 => a \in Ram
  /\ \A a \in Int : a >= SameArray /\ a < SameArray + B => a \in Ram
  /\ \A a \in Int : a >= Rodata /\ a < RodataEnd => a \in Tables
  /\ Ram \subseteq Nat /\ Tables \subseteq Nat
  /\ \A a \in Ram : a < Modulus /\ a < Rodata
  /\ \A a \in Tables : a < Modulus /\ a >= Rodata /\ a < RodataEnd
<1>1. B \in Nat /\ B >= 32 /\ B <= 256 /\ Modulus \in Nat /\ Modulus >= 1048576
  BY WidthBounds
<1>2. RodataEnd \in Nat /\ RodataEnd < Modulus
  <2> DEFINE B2 == B * B
  <2>1. B2 \in Nat /\ B2 >= 1024 /\ B2 <= 65536
    BY WidthBounds
  <2>2. RodataEnd = 4124 + B + B2 + B2 + B2 + 384 * B
    BY <1>1 DEF RodataEnd, Sra8, Srl8, Sll8, Xor8, Or8, And8, Or1, Sltu1, Slt1, Check0, SameResult, Rodata
  <2> HIDE DEF B2
  <2> QED BY <1>1, <2>1, <2>2
<1>3. /\ \A a \in Int : a >= StackTop - 28 /\ a <= StackTop + 7 => a \in Ram
      /\ \A a \in Int : a >= SameArray /\ a < SameArray + B => a \in Ram
      /\ Ram \subseteq Nat
      /\ \A a \in Ram : a < 4096
  BY <1>1 DEF Ram, Scratch, Owned, SameArray
<1>4. /\ \A a \in Int : a >= Rodata /\ a < RodataEnd => a \in Tables
      /\ Tables \subseteq Nat
      /\ \A a \in Tables : a >= 4096 /\ a < RodataEnd
  BY <1>2 DEF Tables, Rodata
<1>5. \A a \in Ram : a < Modulus /\ a < Rodata
  BY <1>1, <1>3, SMT DEF Rodata
<1>6. \A a \in Tables : a < Modulus /\ a >= Rodata /\ a < RodataEnd
  BY <1>1, <1>2, <1>4, SMT DEF Rodata
<1> QED BY <1>3, <1>4, <1>5, <1>6, Zenon

\* A register, a byte of the memory.
Reg(m, r) == IF r \in Regs THEN m.regs[r] ELSE 0
Mem(m, a) == IF a \in Ram THEN m.ram[a] ELSE 0

\* A machine between two instructions of an expansion.
Live(m) == m \in Machine /\ ~ m.jumped /\ Reg(m, zero) = 0

\* Code c takes m0 to m and changes nothing but the registers R and the bytes S.
Does(m0, c, m, R, S) ==
  /\ c \in Code /\ m = Run(m0, c)
  /\ Live(m) /\ m.pc = m0.pc /\ m.stray = m0.stray
  /\ R \subseteq Regs \ {zero} /\ S \subseteq Ram
  /\ \A r : r \notin R => Reg(m, r) = Reg(m0, r)
  /\ \A a : a \notin S => Mem(m, a) = Mem(m0, a)

\* No code does nothing.
LEMMA DoesNothing ==
  ASSUME NEW m, NEW R, NEW S, Live(m), R \subseteq Regs \ {zero}, S \subseteq Ram
  PROVE  Does(m, <<>>, m, R, S)
BY RunNone DEF Does

\* What code may change may be stated more loosely.
LEMMA DoesMore ==
  ASSUME NEW m0, NEW c, NEW m, NEW R, NEW S, NEW R2, NEW S2, Does(m0, c, m, R, S),
         R \subseteq R2, S \subseteq S2, R2 \subseteq Regs \ {zero}, S2 \subseteq Ram
  PROVE  Does(m0, c, m, R2, S2)
BY DEF Does

\* One piece of code after the other.
LEMMA DoesBoth ==
  ASSUME NEW m0, NEW c, NEW m, NEW R, NEW S, Does(m0, c, m, R, S),
         NEW d, NEW m2, NEW R2, NEW S2, Does(m, d, m2, R2, S2), R2 \subseteq R, S2 \subseteq S
  PROVE  Does(m0, c \o d, m2, R, S)
<1>1. c \o d \in Code /\ m2 = Run(m0, c \o d)
  BY RunBoth DEF Does
<1> QED BY <1>1 DEF Does

\* Nothing comes before the first piece.
LEMMA DoesFirst ==
  ASSUME NEW m0, NEW d, NEW m, NEW R, NEW S, d \in Code, Does(m0, <<>> \o d, m, R, S)
  PROVE  Does(m0, d, m, R, S)
<1>1. <<>> \o d = d
  BY ConcatEmptySeq DEF Code
<1> QED BY <1>1

\* What an instruction changes: a register, or bytes from a place on.
Sets(m, m2, rd, v) ==
  /\ Reg(m2, rd) = v
  /\ \A r : r # rd => Reg(m2, r) = Reg(m, r)
  /\ \A a : Mem(m2, a) = Mem(m, a)

Puts(m, m2, a, v) ==
  /\ Mem(m2, a) = v
  /\ \A b : b # a => Mem(m2, b) = Mem(m, b)
  /\ \A r : Reg(m2, r) = Reg(m, r)

PutsWord(m, m2, a, v0, v1, v2, v3) ==
  /\ Mem(m2, a) = v0 /\ Mem(m2, a + 1) = v1 /\ Mem(m2, a + 2) = v2 /\ Mem(m2, a + 3) = v3
  /\ \A b : b # a /\ b # a + 1 /\ b # a + 2 /\ b # a + 3 => Mem(m2, b) = Mem(m, b)
  /\ \A r : Reg(m2, r) = Reg(m, r)

\* One instruction: what it does to the machine that runs it is enough.
LEMMA DoesOne ==
  ASSUME NEW m0, NEW c, NEW m, NEW R, NEW S, NEW i, Does(m0, c, m, R, S), i \in Op,
         Live(Exec(m, i)), Exec(m, i).pc = m.pc, Exec(m, i).stray = m.stray,
         \A r : r \notin R => Reg(Exec(m, i), r) = Reg(m, r),
         \A a : a \notin S => Mem(Exec(m, i), a) = Mem(m, a)
  PROVE  /\ Run(m0, c \o <<i>>) = Exec(m, i)
         /\ Does(m0, c \o <<i>>, Run(m0, c \o <<i>>), R, S)
<1>1. <<i>> \in Code /\ Run(m, <<i>>) = Exec(m, i)
  BY RunOne
<1>2. c \o <<i>> \in Code /\ Run(m0, c \o <<i>>) = Exec(m, i)
  BY <1>1, RunBoth DEF Does
<1> QED BY <1>2 DEF Does

-----------------------------------------------------------------------------
(* 7. Base instructions *)

\* Set changes one register.
LEMMA SetRuns ==
  ASSUME NEW m, NEW rd, NEW v, Live(m), rd \in Regs \ {zero}, v \in Word
  PROVE  /\ Live(Set(m, rd, v)) /\ Sets(m, Set(m, rd, v), rd, v)
         /\ Set(m, rd, v).pc = m.pc /\ Set(m, rd, v).stray = m.stray
<1> DEFINE m2 == Set(m, rd, v)
<1>1. m2 = [m EXCEPT !.regs[rd] = v]
  BY DEF Set
<1>2. m \in Machine /\ m.regs \in [Regs -> Word] /\ rd \in Regs
  BY DEF Live, Machine
<1>3. /\ m2 \in Machine /\ m2.pc = m.pc /\ m2.stray = m.stray /\ m2.jumped = m.jumped
      /\ m2.ram = m.ram /\ m2.regs = [m.regs EXCEPT ![rd] = v]
  BY <1>1, <1>2 DEF Machine
<1> HIDE DEF m2
<1>4. /\ Reg(m2, rd) = v /\ \A r : r # rd => Reg(m2, r) = Reg(m, r)
      /\ \A a : Mem(m2, a) = Mem(m, a)
  BY <1>2, <1>3 DEF Reg, Mem
<1>5. Reg(m2, zero) = 0
  BY <1>4, RegNames DEF Live
<1> QED BY <1>3, <1>4, <1>5 DEF m2, Live, Sets

\* An instruction that sets a register.
LEMMA SetterRuns ==
  ASSUME NEW m0, NEW c, NEW m, NEW R, NEW S, NEW i, NEW rd, NEW v, Does(m0, c, m, R, S),
         i \in Op, rd \in R, v \in Word, Exec(m, i) = Set(m, rd, v)
  PROVE  /\ Does(m0, c \o <<i>>, Run(m0, c \o <<i>>), R, S)
         /\ Sets(m, Run(m0, c \o <<i>>), rd, v)
<1>1. Live(m) /\ rd \in Regs \ {zero}
  BY DEF Does
<1> DEFINE m2 == Set(m, rd, v)
<1>2. Live(m2) /\ Sets(m, m2, rd, v) /\ m2.pc = m.pc /\ m2.stray = m.stray
  BY <1>1, SetRuns
<1> HIDE DEF m2
<1>3. /\ \A r : r \notin R => Reg(m2, r) = Reg(m, r)
      /\ \A a : a \notin S => Mem(m2, a) = Mem(m, a)
  BY <1>2 DEF Sets
<1>4. Exec(m, i) = m2
  BY DEF m2
<1> QED BY <1>2, <1>3, <1>4, DoesOne

\* A register holds a word.
LEMMA RegWord == ASSUME NEW m, NEW r, Live(m), r \in Regs PROVE Reg(m, r) \in Word /\ Reg(m, r) \in Int
<1>1. m.regs \in [Regs -> Word]
  BY DEF Live, Machine
<1>2. Reg(m, r) \in Word
  BY <1>1 DEF Reg
<1> QED BY <1>2, WordNat DEF Word

\* Code leaves a machine alive, and what it may change are registers but zero.
LEMMA DoesRegs ==
  ASSUME NEW m0, NEW c, NEW m, NEW R, NEW S, Does(m0, c, m, R, S)
  PROVE  Live(m) /\ \A r \in R : r \in Regs \ {zero} /\ r \in Regs /\ r \in Int
BY RegNames DEF Does

\* One more add sets rd to the sum.
LEMMA AddRuns ==
  ASSUME NEW m0, NEW c, NEW m, NEW R, NEW S, NEW rd, NEW rs1, NEW rs2,
         Does(m0, c, m, R, S), rd \in R, rs1 \in Regs, rs2 \in Regs
  PROVE  /\ Does(m0, c \o add(rd, rs1, rs2), Run(m0, c \o add(rd, rs1, rs2)), R, S)
         /\ Sets(m, Run(m0, c \o add(rd, rs1, rs2)), rd, Add(Reg(m, rs1), Reg(m, rs2)))
<1> DEFINE i == [op |-> "add", a |-> rd, b |-> rs1, c |-> rs2]
           v == Add(Reg(m, rs1), Reg(m, rs2))
<1>0. Live(m) /\ rd \in Int /\ rs1 \in Int /\ rs2 \in Int
  BY DoesRegs, RegNames
<1>1. i \in Op /\ Live(m)
  BY <1>0 DEF Op
<1>2. v \in Word
  BY <1>1, RegWord, AddWord
<1>3. Exec(m, i) = Set(m, rd, v)
  BY <1>1 DEF Exec, Live, Reg
<1> HIDE DEF v
<1>4. add(rd, rs1, rs2) = <<i>>
  BY DEF add, Base
<1> HIDE DEF i
<1> QED BY <1>1, <1>2, <1>3, <1>4, SetterRuns DEF v

\* One more addi sets rd to the sum.
LEMMA AddiRuns ==
  ASSUME NEW m0, NEW c, NEW m, NEW R, NEW S, NEW rd, NEW rs1, NEW imm,
         Does(m0, c, m, R, S), rd \in R, rs1 \in Regs, imm \in Int
  PROVE  /\ Does(m0, c \o addi(rd, rs1, imm), Run(m0, c \o addi(rd, rs1, imm)), R, S)
         /\ Sets(m, Run(m0, c \o addi(rd, rs1, imm)), rd, Add(Reg(m, rs1), imm))
<1> DEFINE i == [op |-> "addi", a |-> rd, b |-> rs1, c |-> imm]
           v == Add(Reg(m, rs1), imm)
<1>0. Live(m) /\ rd \in Int /\ rs1 \in Int /\ imm \in Int
  BY DoesRegs, RegNames
<1>1. i \in Op /\ Live(m)
  BY <1>0 DEF Op
<1>2. v \in Word
  BY <1>1, RegWord, AddWord
<1>3. Exec(m, i) = Set(m, rd, v)
  BY <1>1 DEF Exec, Live, Reg
<1> HIDE DEF v
<1>4. addi(rd, rs1, imm) = <<i>>
  BY DEF addi, Base
<1> HIDE DEF i
<1> QED BY <1>1, <1>2, <1>3, <1>4, SetterRuns DEF v

\* One more lui sets rd to its immediate.
LEMMA LuiRuns ==
  ASSUME NEW m0, NEW c, NEW m, NEW R, NEW S, NEW rd, NEW imm,
         Does(m0, c, m, R, S), rd \in R, imm \in Word
  PROVE  /\ Does(m0, c \o lui(rd, imm), Run(m0, c \o lui(rd, imm)), R, S)
         /\ Sets(m, Run(m0, c \o lui(rd, imm)), rd, imm)
<1> DEFINE i == [op |-> "lui", a |-> rd, b |-> imm, c |-> 0]
<1>0. Live(m) /\ rd \in Int /\ imm \in Int
  BY DoesRegs, WordNat DEF Word
<1>1. i \in Op /\ Live(m)
  BY <1>0 DEF Op
<1>2. Exec(m, i) = Set(m, rd, imm)
  BY <1>1 DEF Exec, Live, Reg
<1>3. lui(rd, imm) = <<i>>
  BY DEF lui, Base
<1> HIDE DEF i
<1> QED BY <1>1, <1>2, <1>3, SetterRuns

\* One more mv copies a register.
LEMMA MvRuns ==
  ASSUME NEW m0, NEW c, NEW m, NEW R, NEW S, NEW rd, NEW rs,
         Does(m0, c, m, R, S), rd \in R, rs \in Regs
  PROVE  /\ Does(m0, c \o mv(rd, rs), Run(m0, c \o mv(rd, rs)), R, S)
         /\ Sets(m, Run(m0, c \o mv(rd, rs)), rd, Reg(m, rs))
<1> DEFINE n == 0
<1>1. n \in Int /\ mv(rd, rs) = addi(rd, rs, n)
  BY DEF mv
<1>2. Add(Reg(m, rs), n) = Reg(m, rs)
  <2> DEFINE x == Reg(m, rs)
  <2>1. x \in Word
    BY RegWord DEF Does
  <2> HIDE DEF x
  <2>2. x \in Int /\ x + n >= 0 /\ x + n < Modulus /\ x + n = x
    BY <2>1, WordNat
  <2>3. Add(x, n) = x
    BY <1>1, <2>2, AddSmall
  <2> QED BY <2>3 DEF x
<1> HIDE DEF n
<1> QED BY <1>1, <1>2, AddiRuns

\* One more li loads a constant.
LEMMA LiRuns ==
  ASSUME NEW m0, NEW c, NEW m, NEW R, NEW S, NEW rd, NEW n,
         Does(m0, c, m, R, S), rd \in R, n \in Int
  PROVE  /\ Does(m0, c \o li(rd, n), Run(m0, c \o li(rd, n)), R, S)
         /\ Sets(m, Run(m0, c \o li(rd, n)), rd, ToWord(n))
<1>1. li(rd, n) = addi(rd, zero, n) /\ zero \in Regs
  BY RegNames DEF li
<1>2. Add(Reg(m, zero), n) = ToWord(n)
  <2>1. Reg(m, zero) = 0 /\ 0 + n = n
    BY DEF Does, Live
  <2> QED BY <2>1 DEF Add, ToWord
<1> QED BY <1>1, <1>2, AddiRuns, ZenonT(30)

-----------------------------------------------------------------------------
(* 8. The tables *)

\* A byte of the tables.
Ro(a) == Rom[a]

\* Where the tables of gen-lut.c lie.
LEMMA Layout ==
  /\ SameResult = 4096 /\ Check0 = 4104 /\ Slt1 = 4104 + B /\ Sltu1 = 4112 + B
  /\ Or1 = 4120 + B /\ And8 = 4124 + B /\ Or8 = 4124 + B + B * B
  /\ Xor8 = 4124 + B + B * B + B * B /\ Sll8 = 4124 + B + B * B + B * B + B * B
  /\ Srl8 = Sll8 + 128 * B /\ Sra8 = Srl8 + 128 * B /\ RodataEnd = Sra8 + 128 * B
<1> DEFINE B2 == B * B
<1>1. B2 \in Nat /\ B \in Nat
  BY WidthBounds
<1>2. /\ SameResult = 4096 /\ Check0 = 4104 /\ Slt1 = 4104 + B /\ Sltu1 = 4112 + B
      /\ Or1 = 4120 + B /\ And8 = 4124 + B /\ Or8 = 4124 + B + B2
  BY <1>1 DEF Or8, And8, Or1, Sltu1, Slt1, Check0, SameResult, Rodata
<1>3. Xor8 = Or8 + B2 /\ Sll8 = Xor8 + B2
  BY DEF Xor8, Sll8
<1>4. 32 * B * 4 = 128 * B
  BY <1>1
<1>5. Srl8 = Sll8 + 32 * B * 4 /\ Sra8 = Srl8 + 32 * B * 4 /\ RodataEnd = Sra8 + 32 * B * 4
  BY DEF Srl8, Sra8, RodataEnd
<1> HIDE DEF B2
<1> QED BY <1>1, <1>2, <1>3, <1>4, <1>5 DEF B2

\* The tables follow each other.
LEMMA TablePlaces ==
  /\ SameResult \in Nat /\ SameResult = Rodata
  /\ Check0 \in Nat /\ Slt1 \in Nat /\ Sltu1 \in Nat /\ Or1 \in Nat /\ And8 \in Nat /\ Or8 \in Nat
  /\ Xor8 \in Nat /\ Sll8 \in Nat /\ Srl8 \in Nat /\ Sra8 \in Nat /\ RodataEnd \in Nat
  /\ SameResult < Check0 /\ Check0 < Slt1 /\ Slt1 < Sltu1 /\ Sltu1 < Or1 /\ Or1 < And8
  /\ And8 < Or8 /\ Or8 < Xor8 /\ Xor8 < Sll8 /\ Sll8 < Srl8 /\ Srl8 < Sra8 /\ Sra8 < RodataEnd
  /\ RodataEnd < 4124 + 257 * B * 4 + B * B * 3
<1> DEFINE B2 == B * B
<1>1. B2 \in Nat /\ B2 >= 1 /\ B \in Nat /\ B >= 32
  BY WidthBounds
<1>2. /\ SameResult = 4096 /\ Check0 = 4104 /\ Slt1 = 4104 + B /\ Sltu1 = 4112 + B
      /\ Or1 = 4120 + B /\ And8 = 4124 + B /\ Or8 = 4124 + B + B2
      /\ Xor8 = 4124 + B + B2 + B2 /\ Sll8 = 4124 + B + B2 + B2 + B2
      /\ Srl8 = Sll8 + 128 * B /\ Sra8 = Srl8 + 128 * B /\ RodataEnd = Sra8 + 128 * B
  BY Layout
<1> HIDE DEF B2
<1>3. RodataEnd < 4124 + 257 * B * 4 + B2 * 3
  BY <1>1, <1>2
<1> QED BY <1>1, <1>2, <1>3 DEF B2, Rodata

\* What the tables hold, table by table.
LEMMA RomAt ==
  ASSUME NEW a, a \in Tables
  PROVE  /\ a < Check0 => Ro(a) = IF a = SameResult THEN 1 ELSE 0
         /\ a >= Check0 /\ a < Slt1 => Ro(a) = IF a = Check0 THEN 0 ELSE 1
         /\ a >= Slt1 /\ a < Sltu1 => Ro(a) = <<0, 1, 0, 0, 1, 1, 0, 1>>[a - Slt1 + 1]
         /\ a >= Sltu1 /\ a < Or1 => Ro(a) = <<0, 1, 1, 1, 0, 0, 0, 1>>[a - Sltu1 + 1]
         /\ a >= Or1 /\ a < And8 => Ro(a) = <<0, 1, 1, 1>>[a - Or1 + 1]
         /\ a >= And8 /\ a < Or8 => Ro(a) = LogicByte(And, a - And8)
         /\ a >= Or8 /\ a < Xor8 => Ro(a) = LogicByte(Or, a - Or8)
         /\ a >= Xor8 /\ a < Sll8 => Ro(a) = LogicByte(Xor, a - Xor8)
         /\ a >= Sll8 /\ a < Srl8 => Ro(a) = ShiftByte(Shl, a - Sll8)
         /\ a >= Srl8 /\ a < Sra8 => Ro(a) = ShiftByte(SrlRow, a - Srl8)
         /\ a >= Sra8 => Ro(a) = ShiftByte(SraRow, a - Sra8)
<1>1. a \in Int /\ a >= SameResult /\ a < RodataEnd
  BY Places, TablePlaces
<1> DEFINE c1 == IF a = SameResult THEN 1 ELSE 0
           c2 == IF a = Check0 THEN 0 ELSE 1
           c3 == <<0, 1, 0, 0, 1, 1, 0, 1>>[a - Slt1 + 1]
           c4 == <<0, 1, 1, 1, 0, 0, 0, 1>>[a - Sltu1 + 1]
           c5 == <<0, 1, 1, 1>>[a - Or1 + 1]
           c6 == LogicByte(And, a - And8)
           c7 == LogicByte(Or, a - Or8)
           c8 == LogicByte(Xor, a - Xor8)
           c9 == ShiftByte(Shl, a - Sll8)
           c10 == ShiftByte(SrlRow, a - Srl8)
           c11 == ShiftByte(SraRow, a - Sra8)
<1>2. Ro(a) = CASE a < Check0 -> c1
                [] a \in Check0 .. Slt1 - 1  -> c2
                [] a \in Slt1 .. Sltu1 - 1   -> c3
                [] a \in Sltu1 .. Or1 - 1    -> c4
                [] a \in Or1 .. And8 - 1     -> c5
                [] a \in And8 .. Or8 - 1     -> c6
                [] a \in Or8 .. Xor8 - 1     -> c7
                [] a \in Xor8 .. Sll8 - 1    -> c8
                [] a \in Sll8 .. Srl8 - 1    -> c9
                [] a \in Srl8 .. Sra8 - 1    -> c10
                [] a \in Sra8 .. RodataEnd - 1 -> c11
  BY Zenon DEF Ro, Rom
<1> HIDE DEF c1, c2, c3, c4, c5, c6, c7, c8, c9, c10, c11
<1>3. /\ a < Check0 => Ro(a) = c1
      /\ a >= Check0 /\ a < Slt1 => Ro(a) = c2
      /\ a >= Slt1 /\ a < Sltu1 => Ro(a) = c3
      /\ a >= Sltu1 /\ a < Or1 => Ro(a) = c4
      /\ a >= Or1 /\ a < And8 => Ro(a) = c5
      /\ a >= And8 /\ a < Or8 => Ro(a) = c6
      /\ a >= Or8 /\ a < Xor8 => Ro(a) = c7
      /\ a >= Xor8 /\ a < Sll8 => Ro(a) = c8
      /\ a >= Sll8 /\ a < Srl8 => Ro(a) = c9
      /\ a >= Srl8 /\ a < Sra8 => Ro(a) = c10
      /\ a >= Sra8 => Ro(a) = c11
  BY <1>1, <1>2, TablePlaces
<1> QED BY <1>3 DEF c1, c2, c3, c4, c5, c6, c7, c8, c9, c10, c11

\* A byte of a word is a byte.
LEMMA ByteRange == ASSUME NEW w, NEW n, w \in Int, n \in Nat PROVE ByteOf(w, n) \in Byte
<1> DEFINE d == Pow2[ByteWidth * n]
           q == w \div d
<1>1. ByteWidth * n \in Nat
  BY ByteWidthAssumption, SMT
<1>2. d \in Nat \ {0}
  BY <1>1, Pow2Positive
<1> HIDE DEF d
<1>3. q \in Int
  BY <1>2, Division
<1>4. B \in Nat \ {0}
  BY WidthBounds
<1> HIDE DEF q
<1>5. q % B \in 0 .. B - 1
  BY <1>3, <1>4, Division
<1>6. ByteOf(w, n) = q % B
  BY DEF ByteOf, B, q, d
<1> QED BY <1>5, <1>6 DEF Byte

\* A word is its bytes.
LEMMA WordIsBytes ==
  ASSUME NEW w, w \in Word
  PROVE  w = Wd(ByteOf(w, 0), ByteOf(w, 1), ByteOf(w, 2), ByteOf(w, 3))
<1>1. PICK a, b, c, d \in Byte : w = Wd(a, b, c, d)
  BY BytesOfWord
<1> QED BY <1>1, ByteOfWd

\* Bytes are the naturals below B.
LEMMA ByteNat ==
  /\ \A b : b \in Byte => b \in Nat /\ b < B
  /\ \A b : b \in Nat /\ b < B => b \in Byte
BY WidthBounds DEF Byte

\* A pair of bytes as the index of a table.
LEMMA Pair ==
  ASSUME NEW x, NEW y, x \in Nat, y \in Byte
  PROVE  y + B * x \in Nat /\ (y + B * x) \div B = x /\ (y + B * x) % B = y
<1> DEFINE p == y + B * x
<1>1. B \in Nat \ {0} /\ y \in 0 .. B - 1
  BY WidthBounds DEF Byte
<1>2. p \in Nat /\ p = B * x + y /\ p \in Int /\ x \in Int
  BY <1>1, SMT
<1> HIDE DEF p
<1>3. \A q \in Int, r \in 0 .. B - 1, z \in Int : z = B * q + r => z \div B = q /\ z % B = r
  BY <1>1, Divided
<1> QED BY <1>1, <1>2, <1>3 DEF p

\* A byte and a row make an index below the size of the table.
LEMMA PairBelow ==
  ASSUME NEW x, NEW y, NEW n, x \in Nat, n \in Nat, x < n, y \in Byte
  PROVE  y + B * x < B * n
<1>1. B \in Nat /\ y \in Nat /\ y < B
  BY WidthBounds, ByteNat
<1>2. B * x <= B * (n - 1)
  BY <1>1, SMT
<1>3. B * (n - 1) = B * n - B /\ B * x \in Nat /\ B * n \in Nat
  BY <1>1, SMT
<1> QED BY <1>1, <1>2, <1>3

\* The entry of a pair of bytes in and8, or8 and xor8.
LEMMA LogicEntry ==
  ASSUME NEW x, NEW y, x \in Byte, y \in Byte
  PROVE  /\ And8 + (y + B * x) \in Tables /\ Ro(And8 + (y + B * x)) = And(x, y)
         /\ Or8 + (y + B * x) \in Tables /\ Ro(Or8 + (y + B * x)) = Or(x, y)
         /\ Xor8 + (y + B * x) \in Tables /\ Ro(Xor8 + (y + B * x)) = Xor(x, y)
<1> DEFINE p == y + B * x
           B2 == B * B
<1>1. x \in Nat /\ x < B /\ B \in Nat
  BY ByteNat, WidthBounds
<1>2. p \in Nat /\ p \div B = x /\ p % B = y /\ p < B2
  BY <1>1, Pair, PairBelow
<1>3. B2 \in Nat /\ Or8 = And8 + B2 /\ Xor8 = Or8 + B2 /\ Sll8 = Xor8 + B2
  BY <1>1, WidthBounds DEF Or8, Xor8, Sll8
<1> HIDE DEF p, B2
<1>4. /\ \A a \in Int : a >= Rodata /\ a < RodataEnd => a \in Tables
      /\ Rodata \in Nat
  BY Places DEF Rodata
<1>5. And8 + p \in Tables /\ Or8 + p \in Tables /\ Xor8 + p \in Tables
  BY <1>2, <1>3, <1>4, TablePlaces
<1> DEFINE a1 == And8 + p
           a2 == Or8 + p
           a3 == Xor8 + p
<1>6. /\ a1 >= And8 /\ a1 < Or8 /\ a1 - And8 = p /\ a2 >= Or8 /\ a2 < Xor8 /\ a2 - Or8 = p
      /\ a3 >= Xor8 /\ a3 < Sll8 /\ a3 - Xor8 = p
  BY <1>2, <1>3, TablePlaces
<1>7. a1 \in Tables /\ a2 \in Tables /\ a3 \in Tables
  BY <1>5
<1> HIDE DEF a1, a2, a3
<1>8. Ro(a1) = LogicByte(And, p) /\ Ro(a2) = LogicByte(Or, p) /\ Ro(a3) = LogicByte(Xor, p)
  BY <1>6, <1>7, RomAt
<1>9. Ro(a1) = And(x, y) /\ Ro(a2) = Or(x, y) /\ Ro(a3) = Xor(x, y)
  BY <1>2, <1>8 DEF LogicByte
<1> QED BY <1>7, <1>9 DEF a1, a2, a3, p

\* What the tables of the shifts hold are words.
LEMMA ShiftWords ==
  ASSUME NEW b, NEW n, b \in Byte, n \in Nat
  PROVE  Shl(b, n) \in Word /\ SrlRow(b, n) \in Word /\ SraRow(b, n) \in Word
<1> DEFINE W == DATA_WIDTH
           B3 == B * B * B
           x == b * B3
<1>1. b \in Nat /\ b < B /\ W \in Nat /\ B \in Nat
  BY ByteNat, WidthBounds, ByteWidthAssumption, SMT DEF DATA_WIDTH
<1>2. 0 \in Word
  BY WordNat DEF Word
<1>3. ASSUME n < W PROVE Shl(b, n) \in Word /\ Pow2[n] \in Nat \ {0}
  <2> DEFINE l == W - n
             p == Pow2[l]
             q == Pow2[n]
             r == b % p
  <2>1. l \in Nat /\ W = l + n
    BY <1>1, <1>3
  <2> HIDE DEF l
  <2>2. p \in Nat \ {0} /\ q \in Nat \ {0} /\ Modulus = p * q
    BY <2>1, Pow2Positive, Pow2Sum DEF Modulus
  <2> HIDE DEF p, q
  <2>3. r \in Nat /\ r <= p - 1
    BY <1>1, <2>2, Division
  <2>4. Shl(b, n) = r * q
    BY <1>1, <1>3 DEF Shl, r, p, q, l
  <2> HIDE DEF r
  <2>5. r * q <= (p - 1) * q
    BY <2>2, <2>3, SMT
  <2>6. (p - 1) * q = p * q - q /\ r * q \in Nat
    BY <2>2, <2>3, SMT
  <2>7. r * q \in Nat /\ r * q < Modulus
    BY <2>2, <2>5, <2>6
  <2> QED BY <2>2, <2>4, <2>7, WordNat DEF Word, q
<1>4. Shl(b, n) \in Word
  BY <1>1, <1>2, <1>3 DEF Shl
<1>5. x \in Nat /\ x < Modulus /\ b * B * B * B = x
  <2>1. B3 \in Nat /\ Modulus = B * B3
    BY Sizes
  <2>2. b * B * B * B = x
    BY <1>1, SMT
  <2> HIDE DEF B3
  <2>3. b * B3 <= (B - 1) * B3
    BY <1>1, <2>1, SMT
  <2>4. (B - 1) * B3 = B * B3 - B3 /\ b * B3 \in Nat
    BY <1>1, <2>1, SMT
  <2>5. B3 >= 1
    BY Sizes DEF B3
  <2> QED BY <2>1, <2>2, <2>3, <2>4, <2>5
<1> HIDE DEF x, W
<1>6. SrlRow(b, n) \in Word
  <2> DEFINE d == Pow2[n]
  <2>1. d \in Nat \ {0}
    BY Pow2Positive
  <2> HIDE DEF d
  <2>2. x \div d \in Nat /\ x \div d <= x
    <3>1. x \div d \in Int /\ x % d >= 0 /\ x % d < d /\ x = d * (x \div d) + (x % d)
      BY <1>5, <2>1, Division
    <3> DEFINE q == x \div d
               r == x % d
    <3> HIDE DEF q, r
    <3>2. q \in Int /\ r >= 0 /\ r < d /\ r \in Int /\ x = d * q + r
      BY <1>5, <2>1, <3>1, Division DEF q, r
    <3>3. q >= 0
      <4>1. q < 0 => d * q <= -d
        BY <2>1, <3>2, SMT
      <4> QED BY <1>5, <2>1, <3>2, <4>1
    <3>4. d * q >= q
      BY <2>1, <3>2, <3>3, SMT
    <3> QED BY <1>5, <2>1, <3>2, <3>3, <3>4 DEF q
  <2>3. x \div d \in Word
    BY <1>5, <2>2, WordNat DEF Word
  <2>4. SrlRow(b, n) = IF n >= W THEN 0 ELSE x \div d
    BY <1>5 DEF SrlRow, Shr, W, d
  <2> QED BY <1>2, <2>3, <2>4
<1>7. SraRow(b, n) \in Word
  <2> DEFINE k == IF n >= W THEN W ELSE n
             d == Pow2[k]
             y == Signed(x)
  <2>1. k \in Nat
    BY <1>1
  <2>2. d \in Nat \ {0}
    BY <2>1, Pow2Positive
  <2>3. y \in Int
    BY <1>5, WordNat DEF Signed
  <2> HIDE DEF d, y
  <2>4. y \div d \in Int
    BY <2>2, <2>3, Division
  <2>5. SraRow(b, n) = (y \div d) % Modulus
    BY <1>5 DEF SraRow, Sar, W, d, k, y
  <2> QED BY <2>4, <2>5, ModWord
<1> QED BY <1>4, <1>6, <1>7

\* The place of an entry gives back its byte, its shift amount and which byte of the entry it is.
LEMMA ShiftIndex ==
  ASSUME NEW b, NEW n, NEW k, b \in Byte, n \in Nat, n < 32, k \in Nat, k < 4
  PROVE  /\ 4 * (b + B * n) + k \in Nat /\ 4 * (b + B * n) + k < 128 * B
         /\ ((4 * (b + B * n) + k) \div 4) % B = b
         /\ (4 * (b + B * n) + k) \div (4 * B) = n
         /\ (4 * (b + B * n) + k) % 4 = k
<1> DEFINE p == b + B * n
           a == 4 * p + k
           m == 32
<1>1. p \in Nat /\ p \div B = n /\ p % B = b
  BY Pair
<1>2. p < B * 32
  <2>1. m \in Nat /\ n < m
    OBVIOUS
  <2> HIDE DEF m
  <2>2. p < B * m
    BY <2>1, PairBelow
  <2> QED BY <2>2 DEF m
<1> HIDE DEF p
<1>3. a \in Nat /\ a < 128 * B /\ a \div 4 = p /\ a % 4 = k
  BY <1>1, <1>2, WidthBounds
<1> HIDE DEF a
<1>4. a \div (4 * B) = (a \div 4) \div B
  <2> DEFINE f == 4
  <2>1. f \in Nat \ {0} /\ B \in Nat \ {0} /\ a \in Int
    BY <1>3, WidthBounds
  <2> HIDE DEF f
  <2>2. a \div (f * B) = (a \div f) \div B
    BY <2>1, DivisionTwice
  <2> QED BY <2>2 DEF f
<1> QED BY <1>1, <1>3, <1>4 DEF a, p

\* The entry of a byte and a shift amount in sll8, srl8 and sra8.
LEMMA ShiftEntry ==
  ASSUME NEW b, NEW n, NEW k, b \in Byte, n \in Nat, n < 32, k \in Nat, k < 4
  PROVE  /\ Sll8 + (4 * (b + B * n) + k) \in Tables
         /\ Ro(Sll8 + (4 * (b + B * n) + k)) = ByteOf(Shl(b, n), k)
         /\ Srl8 + (4 * (b + B * n) + k) \in Tables
         /\ Ro(Srl8 + (4 * (b + B * n) + k)) = ByteOf(SrlRow(b, n), k)
         /\ Sra8 + (4 * (b + B * n) + k) \in Tables
         /\ Ro(Sra8 + (4 * (b + B * n) + k)) = ByteOf(SraRow(b, n), k)
<1> DEFINE p == 4 * (b + B * n) + k
<1>1. p \in Nat /\ p < 128 * B /\ (p \div 4) % B = b /\ p \div (4 * B) = n /\ p % 4 = k
  BY ShiftIndex
<1> HIDE DEF p
<1>2. Srl8 = Sll8 + 128 * B /\ Sra8 = Srl8 + 128 * B /\ RodataEnd = Sra8 + 128 * B /\ B \in Nat
  BY Layout, WidthBounds
<1>3. /\ \A a \in Int : a >= Rodata /\ a < RodataEnd => a \in Tables
      /\ Rodata \in Nat
  BY Places DEF Rodata
<1> DEFINE a1 == Sll8 + p
           a2 == Srl8 + p
           a3 == Sra8 + p
<1>4. a1 \in Tables /\ a2 \in Tables /\ a3 \in Tables
  BY <1>1, <1>2, <1>3, TablePlaces
<1>5. /\ a1 >= Sll8 /\ a1 < Srl8 /\ a1 - Sll8 = p /\ a2 >= Srl8 /\ a2 < Sra8 /\ a2 - Srl8 = p
      /\ a3 >= Sra8 /\ a3 - Sra8 = p
  BY <1>1, <1>2, TablePlaces
<1> HIDE DEF a1, a2, a3
<1>6. Ro(a1) = ShiftByte(Shl, p) /\ Ro(a2) = ShiftByte(SrlRow, p) /\ Ro(a3) = ShiftByte(SraRow, p)
  BY <1>4, <1>5, RomAt
<1>7. Ro(a1) = ByteOf(Shl(b, n), k) /\ Ro(a2) = ByteOf(SrlRow(b, n), k)
        /\ Ro(a3) = ByteOf(SraRow(b, n), k)
  BY <1>1, <1>6 DEF ShiftByte
<1> QED BY <1>4, <1>7 DEF a1, a2, a3, p

\* The entries of the small tables.
LEMMA SmallEntries ==
  /\ \A k : k \in Nat /\ k < 8 => SameResult + k \in Tables /\ Ro(SameResult + k) = IF k = 0 THEN 1 ELSE 0
  /\ \A k : k \in Nat /\ k < B => Check0 + k \in Tables /\ Ro(Check0 + k) = IF k = 0 THEN 0 ELSE 1
  /\ \A k : k \in Nat /\ k < 8 => Slt1 + k \in Tables
               /\ Ro(Slt1 + k) = IF k = 1 \/ k = 4 \/ k = 5 \/ k = 7 THEN 1 ELSE 0
  /\ \A k : k \in Nat /\ k < 8 => Sltu1 + k \in Tables
               /\ Ro(Sltu1 + k) = IF k = 1 \/ k = 2 \/ k = 3 \/ k = 7 THEN 1 ELSE 0
  /\ \A k : k \in Nat /\ k < 4 => Or1 + k \in Tables /\ Ro(Or1 + k) = IF k = 0 THEN 0 ELSE 1
<1>0. /\ \A a \in Int : a >= Rodata /\ a < RodataEnd => a \in Tables
      /\ Rodata \in Nat
  BY Places DEF Rodata
<1>a. /\ Check0 = SameResult + 8 /\ Slt1 = Check0 + B /\ Sltu1 = Slt1 + 8 /\ Or1 = Sltu1 + 8
      /\ And8 = Or1 + 4 /\ B \in Nat
  BY WidthBounds DEF Check0, Slt1, Sltu1, Or1, And8
<1>1. ASSUME NEW k, k \in Nat /\ k < 8
      PROVE  SameResult + k \in Tables /\ Ro(SameResult + k) = IF k = 0 THEN 1 ELSE 0
  <2> DEFINE a == SameResult + k
  <2>1. a \in Tables /\ a < Check0 /\ (a = SameResult <=> k = 0)
    BY <1>0, <1>1, <1>a, TablePlaces
  <2> HIDE DEF a
  <2>2. Ro(a) = IF a = SameResult THEN 1 ELSE 0
    BY <2>1, RomAt
  <2> QED BY <2>1, <2>2 DEF a
<1>2. ASSUME NEW k, k \in Nat /\ k < B
      PROVE  Check0 + k \in Tables /\ Ro(Check0 + k) = IF k = 0 THEN 0 ELSE 1
  <2> DEFINE a == Check0 + k
  <2>1. a \in Tables /\ a >= Check0 /\ a < Slt1 /\ (a = Check0 <=> k = 0)
    BY <1>0, <1>2, <1>a, TablePlaces
  <2> HIDE DEF a
  <2>2. Ro(a) = IF a = Check0 THEN 0 ELSE 1
    BY <2>1, RomAt
  <2> QED BY <2>1, <2>2 DEF a
<1>3. ASSUME NEW k, k \in Nat /\ k < 8
      PROVE  Slt1 + k \in Tables /\ Ro(Slt1 + k) = IF k = 1 \/ k = 4 \/ k = 5 \/ k = 7 THEN 1 ELSE 0
  <2> DEFINE a == Slt1 + k
  <2>1. a \in Tables /\ a >= Slt1 /\ a < Sltu1 /\ a - Slt1 + 1 = k + 1
    BY <1>0, <1>3, <1>a, TablePlaces
  <2> HIDE DEF a
  <2>2. Ro(a) = <<0, 1, 0, 0, 1, 1, 0, 1>>[k + 1]
    BY <2>1, RomAt
  <2>3. k = 0 \/ k = 1 \/ k = 2 \/ k = 3 \/ k = 4 \/ k = 5 \/ k = 6 \/ k = 7
    BY <1>3
  <2> QED BY <2>1, <2>2, <2>3 DEF a
<1>4. ASSUME NEW k, k \in Nat /\ k < 8
      PROVE  Sltu1 + k \in Tables /\ Ro(Sltu1 + k) = IF k = 1 \/ k = 2 \/ k = 3 \/ k = 7 THEN 1 ELSE 0
  <2> DEFINE a == Sltu1 + k
  <2>1. a \in Tables /\ a >= Sltu1 /\ a < Or1 /\ a - Sltu1 + 1 = k + 1
    BY <1>0, <1>4, <1>a, TablePlaces
  <2> HIDE DEF a
  <2>2. Ro(a) = <<0, 1, 1, 1, 0, 0, 0, 1>>[k + 1]
    BY <2>1, RomAt
  <2>3. k = 0 \/ k = 1 \/ k = 2 \/ k = 3 \/ k = 4 \/ k = 5 \/ k = 6 \/ k = 7
    BY <1>4
  <2> QED BY <2>1, <2>2, <2>3 DEF a
<1>5. ASSUME NEW k, k \in Nat /\ k < 4
      PROVE  Or1 + k \in Tables /\ Ro(Or1 + k) = IF k = 0 THEN 0 ELSE 1
  <2> DEFINE a == Or1 + k
  <2>1. a \in Tables /\ a >= Or1 /\ a < And8 /\ a - Or1 + 1 = k + 1
    BY <1>0, <1>5, <1>a, TablePlaces
  <2> HIDE DEF a
  <2>2. Ro(a) = <<0, 1, 1, 1>>[k + 1]
    BY <2>1, RomAt
  <2>3. k = 0 \/ k = 1 \/ k = 2 \/ k = 3
    BY <1>5
  <2> QED BY <2>1, <2>2, <2>3 DEF a
<1> QED BY <1>1, <1>2, <1>3, <1>4, <1>5

\* The tables hold bytes.
LEMMA RomByte == ASSUME NEW a, a \in Tables PROVE Ro(a) \in Byte
<1>1. a \in Int /\ a >= SameResult /\ a < RodataEnd /\ SameResult \in Nat
  BY Places, TablePlaces
<1>2. 0 \in Byte /\ 1 \in Byte
  BY ByteNat, WidthBounds
<1>3. /\ Check0 = SameResult + 8 /\ Slt1 = Check0 + B /\ Sltu1 = Slt1 + 8 /\ Or1 = Sltu1 + 8
      /\ And8 = Or1 + 4 /\ B \in Nat
  BY WidthBounds DEF Check0, Slt1, Sltu1, Or1, And8
<1>4. CASE a < Check0
  <2> DEFINE k == a - SameResult
  <2>1. k \in Nat /\ k < 8 /\ a = SameResult + k
    BY <1>1, <1>3, <1>4
  <2> HIDE DEF k
  <2> QED BY <2>1, <1>2, SmallEntries
<1>5. CASE a >= Check0 /\ a < Slt1
  <2> DEFINE k == a - Check0
  <2>1. k \in Nat /\ k < B /\ a = Check0 + k
    BY <1>1, <1>3, <1>5
  <2> HIDE DEF k
  <2> QED BY <2>1, <1>2, SmallEntries
<1>6. CASE a >= Slt1 /\ a < Sltu1
  <2> DEFINE k == a - Slt1
  <2>1. k \in Nat /\ k < 8 /\ a = Slt1 + k
    BY <1>1, <1>3, <1>6
  <2> HIDE DEF k
  <2> QED BY <2>1, <1>2, SmallEntries
<1>7. CASE a >= Sltu1 /\ a < Or1
  <2> DEFINE k == a - Sltu1
  <2>1. k \in Nat /\ k < 8 /\ a = Sltu1 + k
    BY <1>1, <1>3, <1>7
  <2> HIDE DEF k
  <2> QED BY <2>1, <1>2, SmallEntries
<1>8. CASE a >= Or1 /\ a < And8
  <2> DEFINE k == a - Or1
  <2>1. k \in Nat /\ k < 4 /\ a = Or1 + k
    BY <1>1, <1>3, <1>8
  <2> HIDE DEF k
  <2> QED BY <2>1, <1>2, SmallEntries
<1>9. CASE a >= And8 /\ a < Sll8
  <2> DEFINE base == IF a < Or8 THEN And8 ELSE IF a < Xor8 THEN Or8 ELSE Xor8
             p == a - base
             B2 == B * B
             n == B
  <2>1. B2 \in Nat /\ Or8 = And8 + B2 /\ Xor8 = Or8 + B2 /\ Sll8 = Xor8 + B2
    BY WidthBounds DEF Or8, Xor8, Sll8
  <2>2. p \in Nat /\ p < B2 /\ a = base + p /\ (base = And8 \/ base = Or8 \/ base = Xor8)
    BY <1>1, <1>9, <2>1, TablePlaces
  <2> HIDE DEF p, base
  <2>3. n \in Nat /\ p \in 0 .. B * n - 1
    BY <2>2, <1>3
  <2> HIDE DEF n
  <2>4. PICK y \in Byte, x \in 0 .. n - 1 : p = B * x + y
    BY <2>3, LowByte
  <2>5. x \in Byte /\ p = y + B * x
    BY <2>3, <2>4, <1>3, ByteNat DEF n, Byte
  <2>6. And(x, y) \in Byte /\ Or(x, y) \in Byte /\ Xor(x, y) \in Byte
    BY <2>5, BitOps, ByteOpRange DEF And, Or, Xor, BothOp, AnyOp, OddOp
  <2> QED BY <2>2, <2>5, <2>6, LogicEntry
<1>10. CASE a >= Sll8
  <2> DEFINE base == IF a < Srl8 THEN Sll8 ELSE IF a < Sra8 THEN Srl8 ELSE Sra8
             p == a - base
             k == p % 4
             q == p \div 4
             n == 32
  <2>1. Srl8 = Sll8 + 128 * B /\ Sra8 = Srl8 + 128 * B /\ RodataEnd = Sra8 + 128 * B
    BY Layout
  <2>2. p \in Nat /\ p < 128 * B /\ a = base + p /\ (base = Sll8 \/ base = Srl8 \/ base = Sra8)
    BY <1>1, <1>3, <1>10, <2>1, TablePlaces
  <2> HIDE DEF p, base
  <2>3. k \in Nat /\ k < 4 /\ q \in Nat /\ p = 4 * q + k
    BY <2>2
  <2> HIDE DEF k, q
  <2>4. n \in Nat /\ q \in 0 .. B * n - 1
    BY <2>2, <2>3, <1>3
  <2> HIDE DEF n
  <2>5. PICK b \in Byte, i \in 0 .. n - 1 : q = B * i + b
    BY <2>4, LowByte
  <2>6. i \in Nat /\ i < 32 /\ q = b + B * i
    BY <2>4, <2>5, <1>3, ByteNat DEF n
  <2>7. \A w : w \in Word => ByteOf(w, k) \in Byte
    <3> TAKE w
    <3> HAVE w \in Word
    <3>1. w \in Int
      BY WordNat DEF Word
    <3> QED BY <2>3, <3>1, ByteRange
  <2>8. Ro(a) \in {ByteOf(Shl(b, i), k), ByteOf(SrlRow(b, i), k), ByteOf(SraRow(b, i), k)}
    <3>1. p = 4 * (b + B * i) + k
      BY <2>3, <2>6
    <3> QED BY <2>2, <2>3, <2>6, <3>1, ShiftEntry
  <2> QED BY <2>6, <2>7, <2>8, ShiftWords
<1> QED BY <1>1, <1>4, <1>5, <1>6, <1>7, <1>8, <1>9, <1>10, TablePlaces

-----------------------------------------------------------------------------
(* 9. Loads and stores *)

\* Memory holds bytes.
LEMMA MemByte == ASSUME NEW m, NEW a, Live(m) PROVE Mem(m, a) \in Byte
<1>1. m.ram \in [Ram -> Byte]
  BY DEF Live, Machine
<1>2. 0 \in Byte
  BY ByteNat, WidthBounds
<1> QED BY <1>1, <1>2 DEF Mem

\* A place is memory or a table.
LEMMA Cells ==
  ASSUME NEW m, NEW a, Live(m)
  PROVE  /\ a \in Ram => ByteIn(m, a) = Mem(m, a)
         /\ a \in Tables => ByteIn(m, a) = Ro(a)
         /\ ByteIn(m, a) \in Byte
<1>1. a \in Ram => ByteIn(m, a) = Mem(m, a) /\ ByteIn(m, a) \in Byte
  BY MemByte DEF ByteIn, Mem
<1>2. a \in Tables => a \notin Ram
  BY WidthBounds DEF Tables, Ram, Scratch, Owned, Rodata, SameArray
<1>3. a \in Tables => ByteIn(m, a) = Ro(a) /\ ByteIn(m, a) \in Byte
  BY <1>2, RomByte DEF ByteIn, Ro
<1>4. a \notin Ram /\ a \notin Tables => ByteIn(m, a) = 0
  BY DEF ByteIn
<1>5. 0 \in Byte
  BY ByteNat, WidthBounds
<1> QED BY <1>1, <1>2, <1>3, <1>4, <1>5

\* A load that stays where memory is.
LEMMA ReadIs ==
  ASSUME NEW m, NEW rd, NEW addr, NEW len, Live(m), rd \in Regs \ {zero},
         \A n \in 0 .. len - 1 : addr + n \in Ram \/ addr + n \in Tables
  PROVE  Read(m, rd, addr, len)
           = Set(m, rd, FromBytes([n \in 0 .. len - 1 |-> ByteIn(m, addr + n)], len))
<1> DEFINE v == FromBytes([n \in 0 .. len - 1 |-> ByteIn(m, addr + n)], len)
           out == \E n \in 0 .. len - 1 : addr + n \notin Ram /\ addr + n \notin Tables
           m2 == Set(m, rd, v)
<1>1. Read(m, rd, addr, len) = [m2 EXCEPT !.stray = @ \/ out]
  BY DEF Read
<1>2. ~ out
  OBVIOUS
<1> HIDE DEF v, out
<1>3. m2 = [m EXCEPT !.regs[rd] = v] /\ m \in Machine
  BY DEF Set, Live
<1>4. DOMAIN m2 = {"regs", "ram", "pc", "jumped", "stray"} /\ m2.stray \in BOOLEAN
        /\ m2 = [regs |-> m2.regs, ram |-> m2.ram, pc |-> m2.pc, jumped |-> m2.jumped,
                 stray |-> m2.stray]
  BY <1>3 DEF Machine
<1> HIDE DEF m2
<1>5. [m2 EXCEPT !.stray = @ \/ out] = m2
  <2>1. (m2.stray \/ out) = m2.stray
    BY <1>2, <1>4
  <2> QED BY <1>4, <2>1
<1> QED BY <1>1, <1>5 DEF v, m2

\* Four places that are loaded make a word.
LEMMA WordLoaded ==
  ASSUME NEW m, NEW addr, Live(m), addr \in Int
  PROVE  FromBytes([n \in 0 .. 3 |-> ByteIn(m, addr + n)], 4)
           = Wd(ByteIn(m, addr), ByteIn(m, addr + 1), ByteIn(m, addr + 2), ByteIn(m, addr + 3))
<1> DEFINE f == [n \in 0 .. 3 |-> ByteIn(m, addr + n)]
<1>1. \A n \in 0 .. 3 : ByteIn(m, addr + n) \in Nat
  BY Cells, ByteNat
<1>2. f \in [0 .. 3 -> Nat]
  BY <1>1
<1>3. f[0] = ByteIn(m, addr + 0) /\ f[1] = ByteIn(m, addr + 1) /\ f[2] = ByteIn(m, addr + 2)
        /\ f[3] = ByteIn(m, addr + 3) /\ addr + 0 = addr
  OBVIOUS
<1> HIDE DEF f
<1>4. FromBytes(f, 4) = Wd(f[0], f[1], f[2], f[3])
  BY <1>2, FromBytesWd
<1> QED BY <1>3, <1>4 DEF f

\* One place that is loaded is itself.
LEMMA ByteLoaded ==
  ASSUME NEW m, NEW addr, Live(m), addr \in Int
  PROVE  FromBytes([n \in 0 .. 0 |-> ByteIn(m, addr + n)], 1) = ByteIn(m, addr)
<1> DEFINE f == [n \in 0 .. 0 |-> ByteIn(m, addr + n)]
<1>1. \A n \in 0 .. 0 : ByteIn(m, addr + n) \in Nat
  BY Cells, ByteNat
<1>2. f \in [0 .. 0 -> Nat]
  BY <1>1
<1>3. f[0] = ByteIn(m, addr + 0) /\ addr + 0 = addr
  OBVIOUS
<1> HIDE DEF f
<1>4. FromBytes(f, 1) = f[0]
  BY <1>2, FromOneByte
<1> QED BY <1>3, <1>4 DEF f

\* lbu and lw at an address.
LEMMA LbuRuns ==
  ASSUME NEW m0, NEW c, NEW m, NEW R, NEW S, NEW rd, NEW off, NEW rs1, NEW a,
         Does(m0, c, m, R, S), rd \in R, rs1 \in Regs, off \in Int,
         a = Add(Reg(m, rs1), off), a \in Int, a \in Ram \/ a \in Tables
  PROVE  /\ Does(m0, c \o lbu(rd, off, rs1), Run(m0, c \o lbu(rd, off, rs1)), R, S)
         /\ Sets(m, Run(m0, c \o lbu(rd, off, rs1)), rd, ByteIn(m, a))
<1> DEFINE i == [op |-> "lbu", a |-> rd, b |-> off, c |-> rs1]
           v == ByteIn(m, a)
           L == 1
<1>0. Live(m) /\ rd \in Int /\ rs1 \in Int /\ rd \in Regs \ {zero}
  BY DoesRegs, RegNames
<1>1. i \in Op
  BY <1>0 DEF Op
<1>2. v \in Word /\ a \in Int
  <2>1. v \in Byte
    BY <1>0, Cells
  <2>2. v \in Nat /\ v < Modulus
    BY <2>1, ByteNat, WidthBounds
  <2> QED BY <2>2, WordNat DEF Word
<1>3. Exec(m, i) = Set(m, rd, v)
  <2>1. Exec(m, i) = Read(m, rd, a, 1)
    BY <1>0 DEF Exec, Live, Reg
  <2>2. L = 1 /\ \A n \in 0 .. L - 1 : a + n \in Ram \/ a + n \in Tables
    <3>1. \A n \in 0 .. 0 : a + n = a
      BY <1>2
    <3> QED BY <3>1
  <2> HIDE DEF L
  <2>3. Read(m, rd, a, L) = Set(m, rd, FromBytes([n \in 0 .. L - 1 |-> ByteIn(m, a + n)], L))
    BY <1>0, <2>2, ReadIs
  <2>4. Read(m, rd, a, 1) = Set(m, rd, FromBytes([n \in 0 .. 0 |-> ByteIn(m, a + n)], 1))
    BY <2>2, <2>3
  <2>5. FromBytes([n \in 0 .. 0 |-> ByteIn(m, a + n)], 1) = v
    BY <1>0, <1>2, ByteLoaded
  <2> QED BY <2>1, <2>4, <2>5
<1> HIDE DEF v
<1>4. lbu(rd, off, rs1) = <<i>>
  BY DEF lbu, Base
<1> HIDE DEF i
<1> QED BY <1>1, <1>2, <1>3, <1>4, SetterRuns DEF v

\* One more lw, from memory or a table.
LEMMA LwRuns ==
  ASSUME NEW m0, NEW c, NEW m, NEW R, NEW S, NEW rd, NEW off, NEW rs1, NEW a,
         Does(m0, c, m, R, S), rd \in R, rs1 \in Regs, off \in Int,
         a = Add(Reg(m, rs1), off), a \in Int, \A n \in 0 .. 3 : a + n \in Ram \/ a + n \in Tables
  PROVE  /\ Does(m0, c \o lw(rd, off, rs1), Run(m0, c \o lw(rd, off, rs1)), R, S)
         /\ Sets(m, Run(m0, c \o lw(rd, off, rs1)), rd,
                 Wd(ByteIn(m, a), ByteIn(m, a + 1), ByteIn(m, a + 2), ByteIn(m, a + 3)))
<1> DEFINE i == [op |-> "lw", a |-> rd, b |-> off, c |-> rs1]
           v == Wd(ByteIn(m, a), ByteIn(m, a + 1), ByteIn(m, a + 2), ByteIn(m, a + 3))
           L == 4
<1>0. Live(m) /\ rd \in Int /\ rs1 \in Int /\ rd \in Regs \ {zero}
  BY DoesRegs, RegNames
<1>1. i \in Op
  BY <1>0 DEF Op
<1>2. v \in Word
  <2>1. ByteIn(m, a) \in Byte /\ ByteIn(m, a + 1) \in Byte /\ ByteIn(m, a + 2) \in Byte
          /\ ByteIn(m, a + 3) \in Byte
    BY <1>0, Cells
  <2> QED BY <2>1, WdWord
<1>3. Exec(m, i) = Set(m, rd, v)
  <2>1. Exec(m, i) = Read(m, rd, a, 4)
    BY <1>0 DEF Exec, Live, Reg
  <2>2. L = 4 /\ \A n \in 0 .. L - 1 : a + n \in Ram \/ a + n \in Tables
    OBVIOUS
  <2> HIDE DEF L
  <2>3. Read(m, rd, a, L) = Set(m, rd, FromBytes([n \in 0 .. L - 1 |-> ByteIn(m, a + n)], L))
    BY <1>0, <2>2, ReadIs
  <2>4. Read(m, rd, a, 4) = Set(m, rd, FromBytes([n \in 0 .. 3 |-> ByteIn(m, a + n)], 4))
    BY <2>2, <2>3
  <2>5. FromBytes([n \in 0 .. 3 |-> ByteIn(m, a + n)], 4) = v
    BY <1>0, WordLoaded
  <2> QED BY <2>1, <2>4, <2>5
<1> HIDE DEF v
<1>4. lw(rd, off, rs1) = <<i>>
  BY DEF lw, Base
<1> HIDE DEF i
<1> QED BY <1>1, <1>2, <1>3, <1>4, SetterRuns DEF v

\* The bytes of a store, one after the other.
LEMMA StoreSteps ==
  ASSUME NEW mc, NEW rs2, NEW addr, NEW len \in Nat
  PROVE  \E f : /\ Store(mc, rs2, addr, len) = f[len] /\ f[0] = mc
                /\ \A n \in 1 .. len : f[n] = StoreByte(f[n - 1], addr + n - 1, ByteOf(mc.regs[rs2], n - 1))
<1> DEFINE next(f, n) == StoreByte(f[n - 1], addr + n - 1, ByteOf(mc.regs[rs2], n - 1))
           Eq(f, k) == f = [n \in 0 .. k |-> IF n = 0 THEN mc ELSE next(f, n)]
           T == {k \in Nat : \E f : Eq(f, k)}
<1>1. 0 \in T
  <2> DEFINE f == [n \in 0 .. 0 |-> mc]
  <2>1. f = [n \in 0 .. 0 |-> IF n = 0 THEN mc ELSE next(f, n)]
    OBVIOUS
  <2> QED BY <2>1
<1>2. ASSUME NEW k \in T PROVE k + 1 \in T
  <2> PICK f : Eq(f, k)
    OBVIOUS
  <2> DEFINE K == k + 1
             g == [n \in 0 .. K |-> IF n = K THEN next(f, K) ELSE f[n]]
             h == [n \in 0 .. K |-> IF n = 0 THEN mc ELSE next(g, n)]
  <2>1. k \in Nat /\ K \in Nat /\ K # 0 /\ K - 1 = k
    OBVIOUS
  <2>2. \A n \in 0 .. K : g[n] = h[n]
    <3> TAKE n \in 0 .. K
    <3>1. CASE n = K
      <4>1. g[n] = next(f, K) /\ g[k] = f[k] /\ h[n] = next(g, n)
        BY <2>1, <3>1
      <4> QED BY <2>1, <3>1, <4>1
    <3>2. CASE n # K
      <4>1. n \in 0 .. k /\ g[n] = f[n] /\ h[n] = IF n = 0 THEN mc ELSE next(g, n)
        BY <2>1, <3>2
      <4>2. f[n] = IF n = 0 THEN mc ELSE next(f, n)
        BY <4>1
      <4>3. n # 0 => g[n - 1] = f[n - 1]
        BY <2>1, <4>1
      <4> HIDE DEF g, h
      <4> QED BY <4>1, <4>2, <4>3
    <3> QED BY <3>1, <3>2
  <2>3. g = [n \in 0 .. K |-> g[n]] /\ h = [n \in 0 .. K |-> h[n]]
    OBVIOUS
  <2>4. g = h
    <3> HIDE DEF g, h
    <3> QED BY <2>2, <2>3
  <2> QED BY <2>1, <2>4
<1> HIDE DEF T
<1>3. T = Nat
  BY <1>1, <1>2, Induction DEF T
<1>4. \E f : Eq(f, len)
  BY <1>3 DEF T
<1> DEFINE f == CHOOSE f : Eq(f, len)
<1>5. Eq(f, len)
  <2> HIDE DEF Eq
  <2> QED BY <1>4
<1>6. Store(mc, rs2, addr, len) = f[len]
  BY DEF Store
<1> HIDE DEF f
<1>7. f[0] = mc /\ \A n \in 1 .. len : f[n] = next(f, n)
  BY <1>5
<1> QED BY <1>6, <1>7

\* StoreByte changes one byte of memory.
LEMMA StoreByteRuns ==
  ASSUME NEW m, NEW a, NEW v, Live(m), a \in Ram, v \in Byte
  PROVE  /\ Live(StoreByte(m, a, v)) /\ Puts(m, StoreByte(m, a, v), a, v)
         /\ StoreByte(m, a, v).pc = m.pc /\ StoreByte(m, a, v).stray = m.stray
<1> DEFINE m2 == StoreByte(m, a, v)
<1>1. m2 = [m EXCEPT !.ram[a] = v]
  BY DEF StoreByte
<1>2. m \in Machine /\ m.ram \in [Ram -> Byte]
  BY DEF Live, Machine
<1>3. /\ m2 \in Machine /\ m2.pc = m.pc /\ m2.stray = m.stray /\ m2.jumped = m.jumped
      /\ m2.regs = m.regs /\ m2.ram = [m.ram EXCEPT ![a] = v]
  BY <1>1, <1>2 DEF Machine
<1> HIDE DEF m2
<1>4. /\ Mem(m2, a) = v /\ \A b : b # a => Mem(m2, b) = Mem(m, b)
      /\ \A r : Reg(m2, r) = Reg(m, r)
  BY <1>2, <1>3 DEF Reg, Mem
<1>5. Reg(m2, zero) = 0
  BY <1>4, RegNames DEF Live
<1> QED BY <1>3, <1>4, <1>5 DEF m2, Live, Puts

\* One more sb changes one byte.
LEMMA SbRuns ==
  ASSUME NEW m0, NEW c, NEW m, NEW R, NEW S, NEW rs2, NEW off, NEW rs1, NEW a,
         Does(m0, c, m, R, S), rs2 \in Regs, rs1 \in Regs, off \in Int,
         a = Add(Reg(m, rs1), off), a \in Int, a \in S
  PROVE  /\ Does(m0, c \o sb(rs2, off, rs1), Run(m0, c \o sb(rs2, off, rs1)), R, S)
         /\ Puts(m, Run(m0, c \o sb(rs2, off, rs1)), a, ByteOf(Reg(m, rs2), 0))
<1> DEFINE i == [op |-> "sb", a |-> rs2, b |-> off, c |-> rs1]
           v == ByteOf(Reg(m, rs2), 0)
           m2 == StoreByte(m, a, v)
<1>0. Live(m) /\ rs2 \in Int /\ rs1 \in Int /\ a \in Ram
  BY RegNames DEF Does
<1>1. i \in Op
  BY <1>0 DEF Op
<1>2. v \in Byte
  BY <1>0, RegWord, ByteRange
<1>3. Exec(m, i) = m2
  <2>1. Exec(m, i) = Store(m, rs2, a, 1)
    BY <1>0 DEF Exec, Live, Reg
  <2>2. PICK f : /\ Store(m, rs2, a, 1) = f[1] /\ f[0] = m
                 /\ \A n \in 1 .. 1 : f[n] = StoreByte(f[n - 1], a + n - 1, ByteOf(m.regs[rs2], n - 1))
    BY StoreSteps
  <2>3. f[1] = StoreByte(f[1 - 1], a + 1 - 1, ByteOf(m.regs[rs2], 1 - 1))
    BY <2>2
  <2>4. 1 - 1 = 0 /\ a + 1 - 1 = a
    OBVIOUS
  <2> QED BY <2>1, <2>2, <2>3, <2>4 DEF Reg
<1>4. sb(rs2, off, rs1) = <<i>>
  BY DEF sb, Base
<1> HIDE DEF v
<1>5. Live(m2) /\ Puts(m, m2, a, v) /\ m2.pc = m.pc /\ m2.stray = m.stray
  BY <1>0, <1>2, StoreByteRuns
<1> HIDE DEF i, m2
<1>6. /\ \A r : r \notin R => Reg(m2, r) = Reg(m, r)
      /\ \A b : b \notin S => Mem(m2, b) = Mem(m, b)
  BY <1>5 DEF Puts
<1> QED BY <1>1, <1>3, <1>4, <1>5, <1>6, DoesOne DEF v

\* One more sw changes four bytes.
LEMMA SwRuns ==
  ASSUME NEW m0, NEW c, NEW m, NEW R, NEW S, NEW rs2, NEW off, NEW rs1, NEW a,
         Does(m0, c, m, R, S), rs2 \in Regs, rs1 \in Regs, off \in Int,
         a = Add(Reg(m, rs1), off), a \in Int,
         a \in S, a + 1 \in S, a + 2 \in S, a + 3 \in S
  PROVE  /\ Does(m0, c \o sw(rs2, off, rs1), Run(m0, c \o sw(rs2, off, rs1)), R, S)
         /\ PutsWord(m, Run(m0, c \o sw(rs2, off, rs1)), a,
                     ByteOf(Reg(m, rs2), 0), ByteOf(Reg(m, rs2), 1),
                     ByteOf(Reg(m, rs2), 2), ByteOf(Reg(m, rs2), 3))
<1> DEFINE i == [op |-> "sw", a |-> rs2, b |-> off, c |-> rs1]
           v(n) == ByteOf(Reg(m, rs2), n)
           w0 == v(0)   w1 == v(1)   w2 == v(2)   w3 == v(3)
           m1 == StoreByte(m, a, w0)
           m2 == StoreByte(m1, a + 1, w1)
           m3 == StoreByte(m2, a + 2, w2)
           m4 == StoreByte(m3, a + 3, w3)
<1>0. /\ Live(m) /\ rs2 \in Int /\ rs1 \in Int
      /\ a \in Ram /\ a + 1 \in Ram /\ a + 2 \in Ram /\ a + 3 \in Ram
  BY RegNames DEF Does
<1>1. i \in Op
  BY <1>0 DEF Op
<1>2. w0 \in Byte /\ w1 \in Byte /\ w2 \in Byte /\ w3 \in Byte
  BY <1>0, RegWord, ByteRange
<1>3. Exec(m, i) = m4
  <2>1. Exec(m, i) = Store(m, rs2, a, 4)
    BY <1>0 DEF Exec, Live, Reg
  <2>2. PICK f : /\ Store(m, rs2, a, 4) = f[4] /\ f[0] = m
                 /\ \A n \in 1 .. 4 : f[n] = StoreByte(f[n - 1], a + n - 1, ByteOf(m.regs[rs2], n - 1))
    BY StoreSteps
  <2>3. /\ f[1] = StoreByte(f[0], a, ByteOf(m.regs[rs2], 0))
        /\ f[2] = StoreByte(f[1], a + 1, ByteOf(m.regs[rs2], 1))
        /\ f[3] = StoreByte(f[2], a + 2, ByteOf(m.regs[rs2], 2))
        /\ f[4] = StoreByte(f[3], a + 3, ByteOf(m.regs[rs2], 3))
    BY <2>2
  <2> QED BY <2>1, <2>2, <2>3 DEF Reg
<1>4. sw(rs2, off, rs1) = <<i>>
  BY DEF sw, Base
<1> HIDE DEF w0, w1, w2, w3
<1>5. Live(m1) /\ Puts(m, m1, a, w0) /\ m1.pc = m.pc /\ m1.stray = m.stray
  BY <1>0, <1>2, StoreByteRuns
<1> HIDE DEF m1
<1>6. Live(m2) /\ Puts(m1, m2, a + 1, w1) /\ m2.pc = m1.pc /\ m2.stray = m1.stray
  BY <1>0, <1>2, <1>5, StoreByteRuns
<1> HIDE DEF m2
<1>7. Live(m3) /\ Puts(m2, m3, a + 2, w2) /\ m3.pc = m2.pc /\ m3.stray = m2.stray
  BY <1>0, <1>2, <1>6, StoreByteRuns
<1> HIDE DEF m3
<1>8. Live(m4) /\ Puts(m3, m4, a + 3, w3) /\ m4.pc = m3.pc /\ m4.stray = m3.stray
  BY <1>0, <1>2, <1>7, StoreByteRuns
<1> HIDE DEF i, m4
<1>9. PutsWord(m, m4, a, w0, w1, w2, w3)
  BY <1>0, <1>5, <1>6, <1>7, <1>8 DEF Puts, PutsWord
<1>10. /\ \A r : r \notin R => Reg(m4, r) = Reg(m, r)
       /\ \A b : b \notin S => Mem(m4, b) = Mem(m, b)
       /\ m4.pc = m.pc /\ m4.stray = m.stray
  BY <1>5, <1>6, <1>7, <1>8, <1>9 DEF PutsWord
<1>11. Run(m0, c \o <<i>>) = m4 /\ Does(m0, c \o <<i>>, Run(m0, c \o <<i>>), R, S)
  BY <1>1, <1>3, <1>8, <1>10, DoesOne
<1> QED BY <1>4, <1>9, <1>11 DEF w0, w1, w2, w3

-----------------------------------------------------------------------------
(* 10. The stack *)

\* The words below the stack pointer: VAR_A .. VAR_D are Slot(4) .. Slot(7).
Slot(n) == StackTop - 4 * n .. StackTop - 4 * n + 3

\* Word w is at a.
Holds(m, a, w) ==
  /\ Mem(m, a) = ByteOf(w, 0) /\ Mem(m, a + 1) = ByteOf(w, 1)
  /\ Mem(m, a + 2) = ByteOf(w, 2) /\ Mem(m, a + 3) = ByteOf(w, 3)

\* A machine that runs an expansion: its stack pointer is at the top of the scratch words.
Ready(m) == Live(m) /\ Reg(m, sp) = StackTop

\* A word is put at a.
Saves(m, m2, a, w) ==
  /\ Holds(m2, a, w)
  /\ \A b : b # a /\ b # a + 1 /\ b # a + 2 /\ b # a + 3 => Mem(m2, b) = Mem(m, b)
  /\ \A r : Reg(m2, r) = Reg(m, r)

\* From sp the offset off is address a, in scratch or in the program's two words.
Spot(off, a) == off \in Int /\ a \in Int /\ a = StackTop + off /\ a >= StackTop - 28 /\ a <= StackTop + 7

\* The word at a is in S.
Block(a, S) == a \in S /\ a + 1 \in S /\ a + 2 \in S /\ a + 3 \in S

\* A spot of the stack frame is memory.
LEMMA StackPlace ==
  ASSUME NEW m, NEW off, NEW a, Ready(m), Spot(off, a)
  PROVE  off \in Int /\ a \in Int /\ a = Add(Reg(m, sp), off) /\ a \in Ram /\ sp \in Regs
<1> DEFINE x == StackTop
<1>1. x \in Int /\ x + off >= 0 /\ x + off < Modulus
  BY WidthBounds DEF Spot
<1>2. Add(x, off) = x + off
  <2> HIDE DEF x
  <2> QED BY <1>1, AddSmall DEF Spot
<1>3. Reg(m, sp) = x
  BY DEF Ready
<1>4. a \in Ram
  BY Places DEF Spot
<1> QED BY <1>2, <1>3, <1>4, RegNames DEF Spot

\* Code that leaves sp alone leaves the stack in place.
LEMMA StaysReady ==
  ASSUME NEW m0, NEW c, NEW m, NEW R, NEW S, Does(m0, c, m, R, S), Ready(m0), sp \notin R
  PROVE  Ready(m)
BY DEF Ready, Does

\* sw to the stack.
LEMMA SwStack ==
  ASSUME NEW m0, NEW c, NEW m, NEW R, NEW S, NEW rs2, NEW off, NEW a,
         Does(m0, c, m, R, S), Ready(m0), sp \notin R, rs2 \in Regs, Spot(off, a), Block(a, S)
  PROVE  /\ Does(m0, c \o sw(rs2, off, sp), Run(m0, c \o sw(rs2, off, sp)), R, S)
         /\ Saves(m, Run(m0, c \o sw(rs2, off, sp)), a, Reg(m, rs2))
<1> DEFINE p == sp
           d == sw(rs2, off, p)
           m2 == Run(m0, c \o d)
           w == Reg(m, rs2)
<1>0. Ready(m)
  BY StaysReady
<1>1. p \in Regs /\ a = Add(Reg(m, p), off) /\ off \in Int /\ a \in Int
  BY <1>0, StackPlace
<1> HIDE DEF p
<1>2. Does(m0, c \o d, m2, R, S)
        /\ PutsWord(m, m2, a, ByteOf(w, 0), ByteOf(w, 1), ByteOf(w, 2), ByteOf(w, 3))
  BY <1>1, SwRuns DEF Block
<1> HIDE DEF d, m2, w
<1>3. Saves(m, m2, a, w)
  BY <1>1, <1>2 DEF Saves, Holds, PutsWord
<1> QED BY <1>2, <1>3 DEF m2, d, w, p

\* sb to the stack.
LEMMA SbStack ==
  ASSUME NEW m0, NEW c, NEW m, NEW R, NEW S, NEW rs2, NEW off, NEW a,
         Does(m0, c, m, R, S), Ready(m0), sp \notin R, rs2 \in Regs, Spot(off, a), a \in S
  PROVE  /\ Does(m0, c \o sb(rs2, off, sp), Run(m0, c \o sb(rs2, off, sp)), R, S)
         /\ Puts(m, Run(m0, c \o sb(rs2, off, sp)), a, ByteOf(Reg(m, rs2), 0))
<1> DEFINE p == sp
<1>0. Ready(m)
  BY StaysReady
<1>1. p \in Regs /\ a = Add(Reg(m, p), off) /\ off \in Int /\ a \in Int
  BY <1>0, StackPlace
<1> HIDE DEF p
<1>2. /\ Does(m0, c \o sb(rs2, off, p), Run(m0, c \o sb(rs2, off, p)), R, S)
      /\ Puts(m, Run(m0, c \o sb(rs2, off, p)), a, ByteOf(Reg(m, rs2), 0))
  BY <1>1, SbRuns
<1> QED BY <1>2 DEF p

\* lbu from the stack.
LEMMA LbuStack ==
  ASSUME NEW m0, NEW c, NEW m, NEW R, NEW S, NEW rd, NEW off, NEW a,
         Does(m0, c, m, R, S), Ready(m0), sp \notin R, rd \in R, Spot(off, a)
  PROVE  /\ Does(m0, c \o lbu(rd, off, sp), Run(m0, c \o lbu(rd, off, sp)), R, S)
         /\ Sets(m, Run(m0, c \o lbu(rd, off, sp)), rd, Mem(m, a))
<1> DEFINE p == sp
<1>0. Ready(m)
  BY StaysReady
<1>1. p \in Regs /\ a = Add(Reg(m, p), off) /\ off \in Int /\ a \in Int /\ a \in Ram
  BY <1>0, StackPlace
<1>2. ByteIn(m, a) = Mem(m, a)
  BY <1>1, <1>0, Cells DEF Ready
<1> HIDE DEF p
<1>3. /\ Does(m0, c \o lbu(rd, off, p), Run(m0, c \o lbu(rd, off, p)), R, S)
      /\ Sets(m, Run(m0, c \o lbu(rd, off, p)), rd, ByteIn(m, a))
  BY <1>1, LbuRuns
<1> QED BY <1>2, <1>3 DEF p

\* The place of a word, and the word that is there.
WordSpot(off, a) == Spot(off, a) /\ a <= StackTop + 4

Loaded(m, a) == Wd(Mem(m, a), Mem(m, a + 1), Mem(m, a + 2), Mem(m, a + 3))

\* lw from the stack.
LEMMA LwStack ==
  ASSUME NEW m0, NEW c, NEW m, NEW R, NEW S, NEW rd, NEW off, NEW a,
         Does(m0, c, m, R, S), Ready(m0), sp \notin R, rd \in R, WordSpot(off, a)
  PROVE  /\ Does(m0, c \o lw(rd, off, sp), Run(m0, c \o lw(rd, off, sp)), R, S)
         /\ Sets(m, Run(m0, c \o lw(rd, off, sp)), rd, Loaded(m, a))
<1> DEFINE p == sp
<1>0. Ready(m)
  BY StaysReady
<1>1. p \in Regs /\ a = Add(Reg(m, p), off) /\ off \in Int /\ a \in Int
  BY <1>0, StackPlace DEF WordSpot
<1>2. a \in Ram /\ a + 1 \in Ram /\ a + 2 \in Ram /\ a + 3 \in Ram
        /\ \A n \in 0 .. 3 : a + n \in Ram
  BY <1>1, Places DEF WordSpot, Spot
<1>3. /\ ByteIn(m, a) = Mem(m, a) /\ ByteIn(m, a + 1) = Mem(m, a + 1)
      /\ ByteIn(m, a + 2) = Mem(m, a + 2) /\ ByteIn(m, a + 3) = Mem(m, a + 3)
  BY <1>2, <1>0, Cells DEF Ready
<1> HIDE DEF p
<1>4. /\ Does(m0, c \o lw(rd, off, p), Run(m0, c \o lw(rd, off, p)), R, S)
      /\ Sets(m, Run(m0, c \o lw(rd, off, p)), rd,
              Wd(ByteIn(m, a), ByteIn(m, a + 1), ByteIn(m, a + 2), ByteIn(m, a + 3)))
  BY <1>1, <1>2, LwRuns
<1> QED BY <1>3, <1>4 DEF p, Loaded

\* A word that was put on the stack comes back.
LEMMA LwBack ==
  ASSUME NEW m0, NEW c, NEW m, NEW R, NEW S, NEW rd, NEW off, NEW a, NEW w,
         Does(m0, c, m, R, S), Ready(m0), sp \notin R, rd \in R, WordSpot(off, a),
         Holds(m, a, w), w \in Word
  PROVE  /\ Does(m0, c \o lw(rd, off, sp), Run(m0, c \o lw(rd, off, sp)), R, S)
         /\ Sets(m, Run(m0, c \o lw(rd, off, sp)), rd, w)
<1>1. Loaded(m, a) = w
  BY WordIsBytes DEF Holds, Loaded
<1>2. /\ Does(m0, c \o lw(rd, off, sp), Run(m0, c \o lw(rd, off, sp)), R, S)
      /\ Sets(m, Run(m0, c \o lw(rd, off, sp)), rd, Loaded(m, a))
  BY LwStack
<1> QED BY <1>1, <1>2

\* Sets of registers and of scratch memory that expansions change.
One(a)               == {a}
Two(a, b)            == {a, b}
Three(a, b, c)       == {a, b, c}
Four(a, b, c, d)     == {a, b, c, d}
Five(a, b, c, d, e)  == {a, b, c, d, e}

Slots2(h, k)       == Slot(h) \cup Slot(k)
Slots3(h, k, l)    == Slot(h) \cup Slots2(k, l)
Slots4(h, k, l, n) == Slot(h) \cup Slots3(k, l, n)

\* An address that la can load.
Linked(addr) == addr \in Nat /\ addr + 4096 <= Modulus

\* What is left alone.
Keeps(m, m2, R, S) ==
  /\ \A r : r \notin R => Reg(m2, r) = Reg(m, r)
  /\ \A a : a \notin S => Mem(m2, a) = Mem(m, a)

\* A piece of code after the other, when what the second does is known by itself.
LEMMA DoesNext ==
  ASSUME NEW m0, NEW c, NEW m, NEW R, NEW S, NEW d, NEW R2, NEW S2,
         Does(m0, c, m, R, S), Does(m, d, Run(m, d), R2, S2), R2 \subseteq R, S2 \subseteq S
  PROVE  /\ Does(m0, c \o d, Run(m0, c \o d), R, S) /\ Run(m0, c \o d) = Run(m, d)
         /\ Keeps(m, Run(m0, c \o d), R2, S2)
<1>1. c \o d \in Code /\ Run(m0, c \o d) = Run(m, d)
  BY RunBoth DEF Does
<1>2. Does(m0, c \o d, Run(m, d), R, S)
  BY DoesBoth
<1>3. Keeps(m, Run(m, d), R2, S2)
  BY DEF Does, Keeps
<1> QED BY <1>1, <1>2, <1>3

\* A register that gets its value back counts as unchanged, and so does a byte.
LEMMA DoesRestores ==
  ASSUME NEW m0, NEW c, NEW m, NEW R, NEW S, NEW R2, NEW S2, Does(m0, c, m, R, S),
         R2 \subseteq R, \A r : r \in R /\ r \notin R2 => Reg(m, r) = Reg(m0, r),
         S2 \subseteq S, \A a : a \in S /\ a \notin S2 => Mem(m, a) = Mem(m0, a)
  PROVE  Does(m0, c, m, R2, S2)
BY DEF Does

\* The spots of the stack frame that the macros use.
LEMMA Spots ==
  /\ Spot(-28, 228) /\ Spot(-27, 229) /\ Spot(-26, 230) /\ Spot(-25, 231)
  /\ Spot(-24, 232) /\ Spot(-23, 233) /\ Spot(-22, 234) /\ Spot(-21, 235)
  /\ Spot(-20, 236) /\ Spot(-19, 237) /\ Spot(-18, 238) /\ Spot(-17, 239)
  /\ Spot(-16, 240) /\ Spot(-15, 241) /\ Spot(-14, 242) /\ Spot(-13, 243)
  /\ Spot(-12, 244) /\ Spot(-8, 248) /\ Spot(-4, 252)
  /\ WordSpot(-28, 228) /\ WordSpot(-24, 232) /\ WordSpot(-20, 236) /\ WordSpot(-16, 240)
  /\ WordSpot(-12, 244) /\ WordSpot(-8, 248) /\ WordSpot(-4, 252)
BY DEF Spot, WordSpot, StackTop

\* The bytes of the words below the stack pointer are scratch.
LEMMA SlotRam ==
  /\ \A n : n \in Nat /\ n >= 1 /\ n <= 7 => Slot(n) \subseteq Ram
  /\ \A n, a : n \in Nat => (a \in Slot(n) <=> a \in Int /\ a >= 256 - 4 * n /\ a <= 259 - 4 * n)
<1>1. ASSUME NEW n, n \in Nat, n >= 1, n <= 7, NEW a, a \in Slot(n) PROVE a \in Ram
  <2>1. a \in Int /\ a >= StackTop - 28 /\ a <= StackTop + 7
    BY <1>1 DEF Slot
  <2> QED BY <2>1, Places
<1>2. \A n, a : n \in Nat => (a \in Slot(n) <=> a \in Int /\ a >= 256 - 4 * n /\ a <= 259 - 4 * n)
  BY DEF Slot
<1> QED BY <1>1, <1>2

\* What the assembler writes is code.
LEMMA Coded ==
  /\ \A rd, rs1, rs2 : rd \in Regs /\ rs1 \in Regs /\ rs2 \in Regs => add(rd, rs1, rs2) \in Code
  /\ \A rd, rs1, n : rd \in Regs /\ rs1 \in Regs /\ n \in Int => addi(rd, rs1, n) \in Code
  /\ \A rd, n, rs1 : rd \in Regs /\ n \in Int /\ rs1 \in Regs =>
       lw(rd, n, rs1) \in Code /\ lbu(rd, n, rs1) \in Code /\ sw(rd, n, rs1) \in Code /\ sb(rd, n, rs1) \in Code
  /\ \A rd, n : rd \in Regs /\ n \in Int => lui(rd, n) \in Code
  /\ \A rd, rs1 : rd \in Regs /\ rs1 \in Regs => jalr(rd, rs1) \in Code
<1>0. \A r : r \in Regs => r \in Int
  BY RegNames
<1>1. ASSUME NEW op, op \in {"add", "addi", "lui", "lw", "lbu", "sw", "sb", "jalr"},
             NEW a, NEW b, NEW c, a \in Int, b \in Int, c \in Int
      PROVE  Base(op, a, b, c) \in Code
  BY <1>1 DEF Base, Code, Op
<1> QED BY <1>0, <1>1 DEF add, addi, lui, lw, lbu, sw, sb, jalr

\* lbu from a table.
LEMMA TableLbu ==
  ASSUME NEW m0, NEW c, NEW m, NEW R, NEW S, NEW rd, NEW rs, NEW a,
         Does(m0, c, m, R, S), rd \in R, rs \in Regs, Reg(m, rs) = a, a \in Tables
  PROVE  /\ Does(m0, c \o lbu(rd, 0, rs), Run(m0, c \o lbu(rd, 0, rs)), R, S)
         /\ Sets(m, Run(m0, c \o lbu(rd, 0, rs)), rd, Ro(a))
<1> DEFINE off == 0
<1>1. Live(m) /\ a \in Int /\ a \in Word
  BY RegWord DEF Does
<1>2. off \in Int /\ a = Add(Reg(m, rs), off) /\ ByteIn(m, a) = Ro(a)
  <2>1. a >= 0 /\ a < Modulus
    BY <1>1, WordNat
  <2>2. off \in Int /\ a + off >= 0 /\ a + off < Modulus /\ a + off = a
    BY <1>1, <2>1
  <2> HIDE DEF off
  <2>3. Add(a, off) = a + off
    BY <1>1, <2>2, AddSmall
  <2> QED BY <1>1, <2>2, <2>3, Cells
<1> HIDE DEF off
<1>3. /\ Does(m0, c \o lbu(rd, off, rs), Run(m0, c \o lbu(rd, off, rs)), R, S)
      /\ Sets(m, Run(m0, c \o lbu(rd, off, rs)), rd, ByteIn(m, a))
  BY <1>1, <1>2, LbuRuns
<1> QED BY <1>2, <1>3 DEF off

\* lbu from the array of seq.
LEMMA ArrayLbu ==
  ASSUME NEW m0, NEW c, NEW m, NEW R, NEW S, NEW rd, NEW rs, NEW a,
         Does(m0, c, m, R, S), rd \in R, rs \in Regs, Reg(m, rs) = a, a \in Ram
  PROVE  /\ Does(m0, c \o lbu(rd, 0, rs), Run(m0, c \o lbu(rd, 0, rs)), R, S)
         /\ Sets(m, Run(m0, c \o lbu(rd, 0, rs)), rd, Mem(m, a))
<1> DEFINE off == 0
<1>1. Live(m) /\ a \in Int /\ a \in Word
  BY RegWord DEF Does
<1>2. off \in Int /\ a = Add(Reg(m, rs), off) /\ ByteIn(m, a) = Mem(m, a)
  <2>1. a >= 0 /\ a < Modulus
    BY <1>1, WordNat
  <2>2. off \in Int /\ a + off >= 0 /\ a + off < Modulus /\ a + off = a
    BY <1>1, <2>1
  <2> HIDE DEF off
  <2>3. Add(a, off) = a + off
    BY <1>1, <2>2, AddSmall
  <2> QED BY <1>1, <2>2, <2>3, Cells
<1> HIDE DEF off
<1>3. /\ Does(m0, c \o lbu(rd, off, rs), Run(m0, c \o lbu(rd, off, rs)), R, S)
      /\ Sets(m, Run(m0, c \o lbu(rd, off, rs)), rd, ByteIn(m, a))
  BY <1>1, <1>2, LbuRuns
<1> QED BY <1>2, <1>3 DEF off

\* sb to the array of seq.
LEMMA ArraySb ==
  ASSUME NEW m0, NEW c, NEW m, NEW R, NEW S, NEW rs2, NEW rs, NEW a,
         Does(m0, c, m, R, S), rs2 \in Regs, rs \in Regs, Reg(m, rs) = a, a \in S
  PROVE  /\ Does(m0, c \o sb(rs2, 0, rs), Run(m0, c \o sb(rs2, 0, rs)), R, S)
         /\ Puts(m, Run(m0, c \o sb(rs2, 0, rs)), a, ByteOf(Reg(m, rs2), 0))
<1> DEFINE off == 0
<1>1. Live(m) /\ a \in Int /\ a \in Word
  BY RegWord DEF Does
<1>2. off \in Int /\ a = Add(Reg(m, rs), off)
  <2>1. a >= 0 /\ a < Modulus
    BY <1>1, WordNat
  <2>2. off \in Int /\ a + off >= 0 /\ a + off < Modulus /\ a + off = a
    BY <1>1, <2>1
  <2> HIDE DEF off
  <2>3. Add(a, off) = a + off
    BY <1>1, <2>2, AddSmall
  <2> QED BY <1>1, <2>2, <2>3
<1> HIDE DEF off
<1>3. /\ Does(m0, c \o sb(rs2, off, rs), Run(m0, c \o sb(rs2, off, rs)), R, S)
      /\ Puts(m, Run(m0, c \o sb(rs2, off, rs)), a, ByteOf(Reg(m, rs2), 0))
  BY <1>1, <1>2, SbRuns
<1> QED BY <1>2, <1>3 DEF off

\* lw from a table.
LEMMA TableLw ==
  ASSUME NEW m0, NEW c, NEW m, NEW R, NEW S, NEW rd, NEW rs, NEW a,
         Does(m0, c, m, R, S), rd \in R, rs \in Regs, Reg(m, rs) = a,
         a \in Tables, a + 1 \in Tables, a + 2 \in Tables, a + 3 \in Tables
  PROVE  /\ Does(m0, c \o lw(rd, 0, rs), Run(m0, c \o lw(rd, 0, rs)), R, S)
         /\ Sets(m, Run(m0, c \o lw(rd, 0, rs)), rd, Wd(Ro(a), Ro(a + 1), Ro(a + 2), Ro(a + 3)))
<1> DEFINE off == 0
<1>1. Live(m) /\ a \in Int /\ a \in Word
  BY RegWord DEF Does
<1>2. off \in Int /\ a = Add(Reg(m, rs), off)
  <2>1. a >= 0 /\ a < Modulus
    BY <1>1, WordNat
  <2>2. off \in Int /\ a + off >= 0 /\ a + off < Modulus /\ a + off = a
    BY <1>1, <2>1
  <2> HIDE DEF off
  <2>3. Add(a, off) = a + off
    BY <1>1, <2>2, AddSmall
  <2> QED BY <1>1, <2>2, <2>3
<1>3. /\ ByteIn(m, a) = Ro(a) /\ ByteIn(m, a + 1) = Ro(a + 1) /\ ByteIn(m, a + 2) = Ro(a + 2)
      /\ ByteIn(m, a + 3) = Ro(a + 3)
  BY <1>1, Cells
<1>4. \A n \in 0 .. 3 : a + n \in Ram \/ a + n \in Tables
  BY <1>1
<1> HIDE DEF off
<1>5. /\ Does(m0, c \o lw(rd, off, rs), Run(m0, c \o lw(rd, off, rs)), R, S)
      /\ Sets(m, Run(m0, c \o lw(rd, off, rs)), rd,
              Wd(ByteIn(m, a), ByteIn(m, a + 1), ByteIn(m, a + 2), ByteIn(m, a + 3)))
  BY <1>1, <1>2, <1>4, LwRuns
<1> QED BY <1>3, <1>5 DEF off

\* la puts an address together from its upper and its lower part.
LEMMA LaDoes ==
  ASSUME NEW m, NEW r, NEW addr, Live(m), r \in Regs \ {zero}, Linked(addr)
  PROVE  /\ Does(m, la(r, addr), Run(m, la(r, addr)), One(r), {})
         /\ Reg(Run(m, la(r, addr)), r) = addr
<1> DEFINE R == One(r)
           S == {}
           low == Sext(addr % 4096, 4096)
           high == addr - low
           c0 == <<>>
           i1 == lui(r, high)
           c1 == c0 \o i1
           m1 == Run(m, c1)
           i2 == addi(r, r, low)
           c2 == c1 \o i2
           m2 == Run(m, c2)
<1>1. low \in Int /\ high \in Nat /\ high < Modulus /\ high + low = addr /\ addr >= 0 /\ addr < Modulus
  BY WidthBounds DEF Sext, Linked
<1>2. high \in Word
  BY <1>1, WordNat DEF Word
<1>3. la(r, addr) = i1 \o i2
  BY DEF la
<1>4. R \subseteq Regs \ {zero} /\ r \in R /\ S \subseteq Ram /\ r \in Regs
  BY DEF One
<1> HIDE DEF low, high
<1>5. i1 \in Code /\ c0 \o i1 = i1
  BY <1>1, Coded, ConcatEmptySeq DEF Code
<1> HIDE DEF R, S, c0, c1, m1, c2, m2
<1>6. Does(m, c0, m, R, S)
  BY <1>4, DoesNothing DEF c0
<1>7. Does(m, c1, m1, R, S) /\ Sets(m, m1, r, high)
  BY <1>2, <1>4, <1>6, LuiRuns DEF c1, m1
<1>8. Does(m, c2, m2, R, S) /\ Sets(m1, m2, r, Add(Reg(m1, r), low))
  BY <1>1, <1>4, <1>7, AddiRuns DEF c2, m2
<1>9. Reg(m2, r) = addr
  <2>1. Reg(m1, r) = high
    BY <1>7 DEF Sets
  <2>2. Add(high, low) = addr
    BY <1>1, AddSmall
  <2>3. Reg(m2, r) = Add(Reg(m1, r), low)
    BY <1>8, Zenon DEF Sets
  <2> QED BY <2>1, <2>2, <2>3
<1>10. c2 = la(r, addr)
  BY <1>3, <1>5 DEF c1, c2
<1> QED BY <1>8, <1>9, <1>10 DEF m2, R, S

\* The tables end before the addresses wrap.
LEMMA TablesFit == RodataEnd + 4096 <= Modulus
<1> DEFINE B2 == B * B
<1>1. B2 \in Nat /\ B2 >= 1024 /\ B2 <= 65536 /\ B \in Nat /\ B >= 32 /\ B <= 256
        /\ Modulus \in Nat /\ Modulus >= 1048576 /\ RodataEnd \in Nat
  BY WidthBounds, TablePlaces
<1>2. RodataEnd < 4124 + 257 * B * 4 + B2 * 3
  BY TablePlaces
<1> HIDE DEF B2
<1> QED BY <1>1, <1>2

-----------------------------------------------------------------------------
(* 11. Bytes of a register and shifts left *)

\* Getbyte leaves byte n of rs1 in rd: the word goes to the stack and a byte comes back.
LEMMA GetbyteDoes ==
  ASSUME NEW m, NEW rd, NEW rs1, NEW n, Ready(m), rd \in Regs \ {zero, sp}, rs1 \in Regs, n \in 0 .. 3
  PROVE  /\ Does(m, Getbyte(rd, rs1, n), Run(m, Getbyte(rd, rs1, n)), One(rd), Slot(6))
         /\ Reg(Run(m, Getbyte(rd, rs1, n)), rd) = ByteOf(Reg(m, rs1), n)
<1> DEFINE R == One(rd)
           S == Slot(6)
           c0 == <<>>
           i1 == sw(rs1, -24, sp)
           c1 == c0 \o i1
           m1 == Run(m, c1)
           off == -24 + n
           at == 232 + n
           i2 == lbu(rd, off, sp)
           c2 == c1 \o i2
           m2 == Run(m, c2)
           v == Reg(m, rs1)
<1>a. S \subseteq Ram /\ Block(232, S) /\ Spot(-24, 232) /\ Spot(off, at)
  BY SlotRam DEF Spot, Block
<1>b. R \subseteq Regs \ {zero} /\ rd \in R /\ sp \notin R /\ Ready(m)
  BY DEF One
<1>c. i1 \in Code /\ c0 \o i1 = i1
  BY RegNames, Coded, ConcatEmptySeq DEF Code
<1>d. Getbyte(rd, rs1, n) = i1 \o i2
  BY DEF Getbyte, VAR_C, Var
<1> HIDE DEF S, R, c0, c1, m1, off, at, c2, m2, v
<1>0. Does(m, c0, m, R, S)
  BY <1>a, <1>b, DoesNothing DEF Ready, c0
<1>1. Does(m, c1, m1, R, S) /\ Saves(m, m1, 232, v)
  BY <1>0, <1>a, <1>b, SwStack DEF c1, m1, v
<1>2. Does(m, c2, m2, R, S) /\ Sets(m1, m2, rd, Mem(m1, at))
  BY <1>1, <1>a, <1>b, LbuStack DEF c2, m2
<1>3. Mem(m1, at) = ByteOf(v, n)
  <2>1. Holds(m1, 232, v) /\ (n = 0 \/ n = 1 \/ n = 2 \/ n = 3)
    BY <1>1 DEF Saves
  <2> HIDE DEF v
  <2> QED BY <2>1 DEF Holds, at
<1>4. c2 = Getbyte(rd, rs1, n)
  BY <1>c, <1>d DEF c2, c1
<1> QED BY <1>2, <1>3, <1>4 DEF Sets, R, S, v, m2

\* Sums and products of words are taken modulo the word.
LEMMA ModApart ==
  ASSUME NEW x, x \in Int
  PROVE  \E q \in Int : x = Modulus * q + (x % Modulus) /\ x % Modulus \in Word
<1>1. Modulus \in Nat \ {0}
  BY WordNat
<1>2. x = Modulus * (x \div Modulus) + (x % Modulus) /\ x \div Modulus \in Int
  BY <1>1, Division
<1> QED BY <1>2, ModWord

\* Numbers a multiple of Modulus apart have the same remainder.
LEMMA ModSame ==
  ASSUME NEW x, NEW y, NEW q, x \in Int, y \in Int, q \in Int, x = Modulus * q + y
  PROVE  x % Modulus = y % Modulus
<1>1. PICK k \in Int : y = Modulus * k + (y % Modulus) /\ y % Modulus \in Word
  BY ModApart
<1> DEFINE r == y % Modulus
           l == q + k
<1>2. r \in 0 .. Modulus - 1 /\ l \in Int /\ r \in Int
  BY <1>1 DEF Word
<1>3. Modulus * q + Modulus * k = Modulus * l
  BY WordNat, SMT
<1>4. x = Modulus * l + r
  <2> DEFINE a == Modulus * q
             b == Modulus * k
             c == Modulus * l
  <2>1. a \in Int /\ b \in Int /\ c \in Int
    BY <1>2, WordNat, SMT
  <2>2. x = a + y /\ y = b + r /\ a + b = c
    BY <1>1, <1>3
  <2> HIDE DEF a, b, c, r, l
  <2>3. x = c + r
    BY <1>2, <2>1, <2>2
  <2> QED BY <2>3 DEF c
<1> HIDE DEF r, l
<1>5. \A i \in Int, e \in 0 .. Modulus - 1, z \in Int : z = Modulus * i + e => z % Modulus = e
  BY WordNat, Divided
<1>6. x % Modulus = r
  BY <1>2, <1>4, <1>5
<1> QED BY <1>6 DEF r

\* Reducing a term does not change a sum.
LEMMA ModSum ==
  ASSUME NEW x, NEW y, x \in Int, y \in Int
  PROVE  /\ Add(x % Modulus, y) = (x + y) % Modulus /\ Add(x, y % Modulus) = (x + y) % Modulus
         /\ Add(x % Modulus, y % Modulus) = (x + y) % Modulus
<1>1. PICK q \in Int : x = Modulus * q + (x % Modulus) /\ x % Modulus \in Word
  BY ModApart
<1>2. PICK k \in Int : y = Modulus * k + (y % Modulus) /\ y % Modulus \in Word
  BY ModApart
<1> DEFINE u == x % Modulus
           v == y % Modulus
           a == Modulus * q
           b == Modulus * k
           l == q + k
           s == x + y
           e1 == u + y
           e2 == x + v
           e3 == u + v
<1>3. u \in Int /\ v \in Int /\ a \in Int /\ b \in Int /\ l \in Int
  BY <1>1, <1>2, WordNat, SMT DEF Word
<1>4. x = a + u /\ y = b + v /\ Modulus * l = a + b
  BY <1>1, <1>2, WordNat, SMT
<1> HIDE DEF u, v, a, b, l
<1>5. s \in Int /\ e1 \in Int /\ e2 \in Int /\ e3 \in Int
        /\ s = a + e1 /\ s = b + e2 /\ s = Modulus * l + e3
  BY <1>3, <1>4
<1> HIDE DEF s, e1, e2, e3
<1>6. s % Modulus = e1 % Modulus /\ s % Modulus = e2 % Modulus /\ s % Modulus = e3 % Modulus
  BY <1>3, <1>5, ModSame DEF a, b
<1> QED BY <1>6 DEF Add, s, e1, e2, e3, u, v

\* .rept
LEMMA RepeatSteps ==
  ASSUME NEW code, NEW len \in Nat
  PROVE  \E f : /\ Repeat(code, len) = f[len] /\ f[0] = <<>>
                /\ \A n \in 1 .. len : f[n] = f[n - 1] \o code
<1> DEFINE none == <<>>
           next(f, n) == f[n - 1] \o code
           Eq(f, k) == f = [n \in 0 .. k |-> IF n = 0 THEN none ELSE next(f, n)]
           T == {k \in Nat : \E f : Eq(f, k)}
<1> HIDE DEF next
<1>1. 0 \in T
  <2> DEFINE f == [n \in 0 .. 0 |-> none]
  <2>1. f = [n \in 0 .. 0 |-> IF n = 0 THEN none ELSE next(f, n)]
    OBVIOUS
  <2> QED BY <2>1
<1>2. ASSUME NEW k \in T PROVE k + 1 \in T
  <2> PICK f : Eq(f, k)
    OBVIOUS
  <2> DEFINE K == k + 1
             g == [n \in 0 .. K |-> IF n = K THEN next(f, K) ELSE f[n]]
             h == [n \in 0 .. K |-> IF n = 0 THEN none ELSE next(g, n)]
  <2>1. k \in Nat /\ K \in Nat /\ K # 0 /\ K - 1 = k
    OBVIOUS
  <2>2. \A n \in 0 .. K : g[n] = h[n]
    <3> TAKE n \in 0 .. K
    <3>1. CASE n = K
      <4>1. g[n] = next(f, K) /\ g[k] = f[k] /\ h[n] = next(g, n)
        BY <2>1, <3>1
      <4> HIDE DEF g, h, K
      <4>2. n - 1 = k
        BY <2>1, <3>1
      <4> QED BY <2>1, <3>1, <4>1, <4>2 DEF next
    <3>2. CASE n # K
      <4>1. n \in 0 .. k /\ g[n] = f[n] /\ h[n] = IF n = 0 THEN none ELSE next(g, n)
        BY <2>1, <3>2
      <4>2. f[n] = IF n = 0 THEN none ELSE next(f, n)
        BY <4>1
      <4>3. n # 0 => g[n - 1] = f[n - 1]
        BY <2>1, <4>1
      <4> HIDE DEF g, h
      <4> QED BY <4>1, <4>2, <4>3 DEF next
    <3> QED BY <3>1, <3>2
  <2>3. g = [n \in 0 .. K |-> g[n]] /\ h = [n \in 0 .. K |-> h[n]]
    OBVIOUS
  <2>4. g = h
    <3> HIDE DEF g, h
    <3> QED BY <2>2, <2>3
  <2> QED BY <2>1, <2>4
<1> HIDE DEF T
<1>3. T = Nat
  BY <1>1, <1>2, Induction DEF T
<1>4. \E f : Eq(f, len)
  BY <1>3 DEF T
<1> DEFINE f == CHOOSE f : Eq(f, len)
<1>5. Eq(f, len)
  <2> HIDE DEF Eq
  <2> QED BY <1>4
<1>6. Repeat(code, len) = f[len]
  BY DEF Repeat, next, none
<1> HIDE DEF f, none
<1>7. f[0] = none /\ \A n \in 1 .. len : f[n] = next(f, n)
  BY <1>5
<1> QED BY <1>6, <1>7 DEF none, next

\* Doubling n times multiplies by 2^n.
LEMMA RepeatDoes ==
  ASSUME NEW m, NEW rd, NEW n, Live(m), rd \in Regs \ {zero}, n \in Nat
  PROVE  /\ Does(m, Repeat(add(rd, rd, rd), n), Run(m, Repeat(add(rd, rd, rd), n)), One(rd), {})
         /\ Reg(Run(m, Repeat(add(rd, rd, rd), n)), rd) = (Reg(m, rd) * Pow2[n]) % Modulus
<1> DEFINE R == One(rd)
           S == {}
           x == Reg(m, rd)
           code == add(rd, rd, rd)
<1>1. R \subseteq Regs \ {zero} /\ rd \in R /\ rd \in Regs /\ S \subseteq Ram
  BY DEF One
<1>2. x \in Word /\ x \in Int
  BY RegWord
<1>3. PICK f : /\ Repeat(code, n) = f[n] /\ f[0] = <<>>
               /\ \A k \in 1 .. n : f[k] = f[k - 1] \o code
  BY RepeatSteps
<1> DEFINE Good(k) == Does(m, f[k], Run(m, f[k]), R, S) /\ Reg(Run(m, f[k]), rd) = (x * Pow2[k]) % Modulus
           T == {k \in Nat : k <= n => Good(k)}
<1> HIDE DEF R, S, code, x
<1>4. 0 \in T
  <2>1. Does(m, <<>>, m, R, S) /\ Run(m, <<>>) = m
    BY <1>1, DoesNothing, RunNone
  <2>2. (x * Pow2[0]) % Modulus = x
    <3>1. Pow2[0] = 1 /\ x * 1 = x
      BY <1>2, Pow2Def
    <3> QED BY <1>2, <3>1, SmallWord
  <2>3. Reg(m, rd) = x
    BY DEF x
  <2> QED BY <1>3, <2>1, <2>2, <2>3
<1>5. ASSUME NEW k \in T PROVE k + 1 \in T
  <2> SUFFICES ASSUME k + 1 <= n PROVE Good(k + 1)
    OBVIOUS
  <2> DEFINE K == k + 1
             c == f[k]
             m2 == Run(m, c)
             m3 == Run(m, c \o code)
             p == x * Pow2[k]
             y == p % Modulus
  <2>1. Does(m, c, m2, R, S) /\ Reg(m2, rd) = y
    OBVIOUS
  <2>2. f[K] = c \o code
    <3>1. K \in 1 .. n /\ K - 1 = k
      OBVIOUS
    <3> QED BY <1>3, <3>1
  <2>3. p \in Int /\ x * Pow2[K] = p + p
    <3>1. Pow2[k] \in Nat /\ Pow2[K] = 2 * Pow2[k]
      BY Pow2Def
    <3> QED BY <1>2, <3>1, SMT
  <2> HIDE DEF m2, m3, c, p, T, K
  <2>4. Does(m, c \o code, m3, R, S) /\ Sets(m2, m3, rd, Add(Reg(m2, rd), Reg(m2, rd)))
    BY <1>1, <2>1, AddRuns DEF code, m3
  <2>5. Add(y, y) = (p + p) % Modulus
    BY <2>3, ModSum
  <2>6. Reg(m3, rd) = (p + p) % Modulus
    BY <2>1, <2>4, <2>5 DEF Sets
  <2>7. Good(K)
    BY <2>2, <2>3, <2>4, <2>6 DEF m3
  <2> QED BY <2>7 DEF K
<1> HIDE DEF T
<1>6. T = Nat
  BY <1>4, <1>5, Induction DEF T
<1>7. Good(n)
  BY <1>6 DEF T
<1> QED BY <1>3, <1>7 DEF R, S, code, x

Scaled(x, n) == (x * Pow2[n]) % Modulus

\* A shift left by few bits is repeated addition.
LEMMA SlliSmallDoes ==
  ASSUME NEW m, NEW rd, NEW rs1, NEW n, Live(m), rd \in Regs \ {zero}, rs1 \in Regs, n \in Nat
  PROVE  /\ Does(m, slliSmall(rd, rs1, n), Run(m, slliSmall(rd, rs1, n)), One(rd), {})
         /\ Reg(Run(m, slliSmall(rd, rs1, n)), rd) = Scaled(Reg(m, rs1), n)
<1> DEFINE R == One(rd)
           S == {}
           x == Reg(m, rs1)
           c0 == <<>>
<1>1. R \subseteq Regs \ {zero} /\ rd \in R /\ rd \in Regs /\ S \subseteq Ram
  BY DEF One
<1>2. x \in Word /\ x \in Int
  BY RegWord
<1>3. (x * Pow2[0]) % Modulus = x
  <2>1. Pow2[0] = 1 /\ x * 1 = x
    BY <1>2, Pow2Def
  <2> QED BY <1>2, <2>1, SmallWord
<1> HIDE DEF R, S, x, c0
<1>0. Does(m, c0, m, R, S)
  BY <1>1, DoesNothing DEF c0
<1>4. CASE n = 0 /\ rd = rs1
  <2>1. slliSmall(rd, rs1, n) = <<>> /\ Run(m, <<>>) = m
    BY <1>4, RunNone DEF slliSmall
  <2> QED BY <1>0, <1>3, <1>4, <2>1 DEF c0, R, S, x, Scaled
<1>5. CASE n = 0 /\ rd # rs1
  <2> DEFINE i1 == mv(rd, rs1)
             m1 == Run(m, c0 \o i1)
  <2>1. slliSmall(rd, rs1, n) = i1 /\ i1 \in Code
    BY <1>1, <1>5, Coded DEF slliSmall, mv
  <2> HIDE DEF m1
  <2>2. Does(m, c0 \o i1, m1, R, S) /\ Sets(m, m1, rd, x)
    BY <1>0, <1>1, MvRuns DEF m1, x
  <2>3. c0 \o i1 = i1
    BY <2>1, ConcatEmptySeq DEF c0, Code
  <2> QED BY <1>3, <1>5, <2>1, <2>2, <2>3 DEF m1, Sets, R, S, x, Scaled
<1>6. CASE n # 0
  <2> DEFINE i1 == add(rd, rs1, rs1)
             c1 == c0 \o i1
             m1 == Run(m, c1)
             k == n - 1
             i2 == Repeat(add(rd, rd, rd), k)
             c2 == c1 \o i2
             m2 == Run(m, c2)
             y == x + x
  <2>1. slliSmall(rd, rs1, n) = i1 \o i2 /\ i1 \in Code /\ k \in Nat
    BY <1>1, <1>6, Coded DEF slliSmall
  <2>2. c0 \o i1 = i1
    BY <2>1, ConcatEmptySeq DEF c0, Code
  <2> HIDE DEF c1, m1, c2, m2, k, y
  <2>3. Does(m, c1, m1, R, S) /\ Sets(m, m1, rd, Add(x, x))
    BY <1>0, <1>1, AddRuns DEF c1, m1, x
  <2>4. Live(m1)
    BY <2>3 DEF Does
  <2>5. Does(m1, i2, Run(m1, i2), R, S) /\ Reg(Run(m1, i2), rd) = (Reg(m1, rd) * Pow2[k]) % Modulus
    BY <2>1, <2>4, RepeatDoes DEF R, S
  <2>6. R \subseteq R /\ S \subseteq S
    OBVIOUS
  <2> HIDE DEF i2
  <2>7. Does(m, c2, m2, R, S) /\ m2 = Run(m1, i2)
    BY <2>3, <2>5, <2>6, DoesNext DEF c2, m2
  <2>8. (Reg(m1, rd) * Pow2[k]) % Modulus = (x * Pow2[n]) % Modulus
    <3> DEFINE p == Pow2[k]
               z == y % Modulus
               a == y * p
               b == z * p
    <3>1. p \in Nat /\ Pow2[n] = 2 * p
      <4>1. k + 1 = n
        BY <1>6 DEF k
      <4> QED BY <2>1, <4>1, Pow2Def
    <3>2. y \in Int /\ y = x + x
      BY <1>2 DEF y
    <3>3. PICK q \in Int : y = Modulus * q + z /\ z \in Word
      BY <3>2, ModApart
    <3> DEFINE l == q * p
    <3>4. z \in Int /\ Modulus \in Nat
      BY <3>3, WordNat DEF Word
    <3> HIDE DEF p, z
    <3>5. a \in Int /\ b \in Int /\ l \in Int /\ a = Modulus * l + b
      BY <3>1, <3>2, <3>3, <3>4, SMT
    <3>6. x * Pow2[n] = a
      BY <1>2, <3>1, <3>2, SMT
    <3> HIDE DEF a, b, l
    <3>7. a % Modulus = b % Modulus
      BY <3>5, ModSame
    <3>8. Reg(m1, rd) = z
      BY <2>3 DEF Sets, Add, z, y
    <3> QED BY <3>6, <3>7, <3>8 DEF b, p
  <2>9. c2 = slliSmall(rd, rs1, n)
    BY <2>1, <2>2 DEF c2, c1
  <2> QED BY <2>5, <2>7, <2>8, <2>9 DEF m2, R, S, x, Scaled
<1> QED BY <1>4, <1>5, <1>6

\* A byte as a word.
LEMMA ByteWord ==
  ASSUME NEW b, b \in Byte
  PROVE  /\ b = Wd(b, 0, 0, 0) /\ b \in Word
         /\ ByteOf(b, 0) = b /\ ByteOf(b, 1) = 0 /\ ByteOf(b, 2) = 0 /\ ByteOf(b, 3) = 0
<1> DEFINE z == 0
<1>1. z \in Byte
  BY ByteNat, WidthBounds
<1>2. Wd(b, 0, 0, 0) = b
  BY ByteNat, Sizes, SMT DEF Wd
<1>3. Wd(b, z, z, z) \in Word /\ ByteOf(Wd(b, z, z, z), 0) = b /\ ByteOf(Wd(b, z, z, z), 1) = z
        /\ ByteOf(Wd(b, z, z, z), 2) = z /\ ByteOf(Wd(b, z, z, z), 3) = z
  <2> HIDE DEF z
  <2> QED BY <1>1, WdWord, ByteOfWd
<1> QED BY <1>2, <1>3

\* Zero is a byte, a word, and made of zeros.
LEMMA ZeroBytes ==
  0 \in Byte /\ 0 \in Word /\ ByteOf(0, 0) = 0 /\ ByteOf(0, 1) = 0 /\ ByteOf(0, 2) = 0 /\ ByteOf(0, 3) = 0
<1> DEFINE z == 0
<1>1. z \in Byte
  BY ByteNat, WidthBounds
<1> HIDE DEF z
<1>2. z \in Word /\ ByteOf(z, 0) = z /\ ByteOf(z, 1) = 0 /\ ByteOf(z, 2) = 0 /\ ByteOf(z, 3) = 0
  BY <1>1, ByteWord
<1> QED BY <1>1, <1>2 DEF z

\* The shift left is a product, however far.
LEMMA ShlMod ==
  ASSUME NEW x, NEW n, x \in Nat, n \in Nat
  PROVE  Shl(x, n) = (x * Pow2[n]) % Modulus
<1> DEFINE W == DATA_WIDTH
           Q == Pow2[n]
           y == x * Q
<1>1. W \in Nat
  BY ByteWidthAssumption DEF DATA_WIDTH
<1>2. Q \in Nat \ {0} /\ y \in Int
  <2>1. Q \in Nat \ {0}
    BY Pow2Positive
  <2> HIDE DEF Q
  <2> QED BY <2>1, SMT
<1>3. CASE n >= W
  <2> DEFINE k == n - W
             p == Pow2[k]
             l == x * p
             z == 0
  <2>1. k \in Nat /\ n = W + k
    BY <1>1, <1>3
  <2>2. p \in Nat /\ Q = Modulus * p
    <3> HIDE DEF k, W
    <3>1. Pow2[n] = Pow2[W] * Pow2[k]
      BY <1>1, <2>1, Pow2Sum
    <3> QED BY <2>1, <3>1, Pow2Positive DEF Modulus, W
  <2> HIDE DEF Q, p
  <2>3. y = Modulus * l + z /\ l \in Int /\ z \in Int
    BY <2>2, WordNat, SMT
  <2> HIDE DEF y, l, z
  <2>4. y % Modulus = z % Modulus
    BY <1>2, <2>3, ModSame
  <2>5. Shl(x, n) = 0
    BY <1>3 DEF Shl, W
  <2>6. z = 0 /\ z \in Word
    BY WordNat DEF z, Word
  <2>7. z % Modulus = z
    BY <2>6, SmallWord
  <2> QED BY <2>4, <2>5, <2>6, <2>7 DEF y, Q
<1>4. CASE n < W
  <2> DEFINE k == W - n
             P == Pow2[k]
             q == x \div P
             r == x % P
             z == r * Q
  <2>1. k \in Nat /\ W = k + n
    BY <1>1, <1>4
  <2>2. P \in Nat \ {0} /\ Modulus = P * Q
    <3> HIDE DEF k, W
    <3>1. Pow2[W] = Pow2[k] * Pow2[n]
      BY <1>1, <2>1, Pow2Sum
    <3> QED BY <2>1, <3>1, Pow2Positive DEF Modulus, W
  <2>3. Shl(x, n) = z
    BY <1>1, <1>4 DEF Shl, W
  <2> HIDE DEF Q, P
  <2>4. q \in Int /\ r \in 0 .. P - 1 /\ x = P * q + r
    <3>1. x \in Int /\ P \in Nat \ {0}
      BY <2>2
    <3> QED BY <3>1, Division
  <2> HIDE DEF q, r
  <2>5. y = Modulus * q + z /\ z \in Nat /\ z < Modulus
    <3>1. z \in Nat /\ z <= (P - 1) * Q
      BY <1>2, <2>2, <2>4, SMT
    <3>2. (P - 1) * Q = P * Q - Q
      BY <1>2, <2>2, SMT
    <3>3. y = (P * Q) * q + r * Q
      BY <1>2, <2>2, <2>4, SMT
    <3> HIDE DEF y, z
    <3>4. z < Modulus
      BY <1>2, <2>2, <3>1, <3>2
    <3> QED BY <2>2, <3>1, <3>3, <3>4 DEF z
  <2> HIDE DEF y, z
  <2>6. y % Modulus = z % Modulus
    <3>1. z \in Int /\ q \in Int /\ y \in Int /\ y = Modulus * q + z
      BY <1>2, <2>4, <2>5 DEF y
    <3> QED BY <3>1, ModSame
  <2>7. z \in Word
    BY <2>5, WordNat DEF Word
  <2> QED BY <2>3, <2>6, <2>7, SmallWord DEF y, Q
<1> QED BY <1>1, <1>3, <1>4

\* Shifted by whole bytes, a word keeps its low bytes; what is left is a small shift.
LEMMA ShlBytes ==
  ASSUME NEW x, NEW k, x \in Word, k \in Nat
  PROVE  /\ (Wd(0, 0, 0, ByteOf(x, 0)) * Pow2[k]) % Modulus = Shl(x, k + 3 * ByteWidth)
         /\ (Wd(0, 0, ByteOf(x, 0), ByteOf(x, 1)) * Pow2[k]) % Modulus = Shl(x, k + 2 * ByteWidth)
<1> DEFINE a == ByteOf(x, 0)
           b == ByteOf(x, 1)
           c == ByteOf(x, 2)
           d == ByteOf(x, 3)
           p == Pow2[k]
           n3 == k + 3 * ByteWidth
           n2 == k + 2 * ByteWidth
<1>1. x \in Nat /\ x = Wd(a, b, c, d)
  BY WordIsBytes, WordNat DEF Word
<1>2. a \in Nat /\ b \in Nat /\ c \in Nat /\ d \in Nat
  <2>1. x \in Int
    BY <1>1
  <2>2. a \in Byte /\ b \in Byte /\ c \in Byte /\ d \in Byte
    BY <2>1, ByteRange
  <2> QED BY <2>2, ByteNat
<1>3. n2 \in Nat /\ n3 \in Nat /\ p \in Nat /\ Pow2[n3] = p * (B * B * B) /\ Pow2[n2] = p * (B * B)
  <2> DEFINE u == 2 * ByteWidth
             v == 3 * ByteWidth
  <2>1. u \in Nat /\ v \in Nat
    BY ByteWidthAssumption
  <2>2. Pow2[u] = B * B /\ Pow2[v] = B * B * B
    BY Widths
  <2> HIDE DEF u, v
  <2>3. Pow2[k + u] = Pow2[k] * Pow2[u] /\ Pow2[k + v] = Pow2[k] * Pow2[v]
    BY <2>1, Pow2Sum
  <2>4. k + u \in Nat /\ k + v \in Nat /\ p \in Nat
    BY <2>1, Pow2Positive
  <2> QED BY <2>2, <2>3, <2>4 DEF u, v
<1>4. Modulus = B * (B * (B * B)) /\ B \in Nat
  BY Sizes, SMT
<1> HIDE DEF a, b, c, d, p, n3, n2
<1> DEFINE x3 == x * (p * (B * B * B))
           y3 == Wd(0, 0, 0, a) * p
           q3 == p * (b + B * c + (B * B) * d)
           x2 == x * (p * (B * B))
           y2 == Wd(0, 0, a, b) * p
           q2 == p * (c + B * d)
<1>5. x3 \in Int /\ y3 \in Int /\ q3 \in Int /\ x3 = Modulus * q3 + y3
  <2>1. x = a + B * (b + B * c + (B * B) * d)
    BY <1>1, <1>2, <1>4, SMT DEF Wd
  <2> DEFINE e == b + B * c + (B * B) * d
             B3 == B * B * B
  <2>2. e \in Nat /\ B3 \in Nat /\ Modulus = B * B3 /\ Wd(0, 0, 0, a) = B3 * a
    BY <1>2, <1>4, SMT DEF Wd
  <2> HIDE DEF e, B3
  <2>3. (a + B * e) * (p * B3) = (B * B3) * (p * e) + (B3 * a) * p /\ (B3 * a) * p \in Int
          /\ p * e \in Int /\ (a + B * e) * (p * B3) \in Int
    BY <1>2, <1>3, <1>4, <2>2, SMT
  <2> QED BY <2>1, <2>2, <2>3 DEF e, B3
<1>6. x2 \in Int /\ y2 \in Int /\ q2 \in Int /\ x2 = Modulus * q2 + y2
  <2>1. x = (a + B * b) + (B * B) * (c + B * d)
    BY <1>1, <1>2, <1>4, SMT DEF Wd
  <2> DEFINE e == c + B * d
             f == a + B * b
             B2 == B * B
  <2>2. e \in Nat /\ f \in Nat /\ B2 \in Nat /\ Modulus = B2 * B2 /\ Wd(0, 0, a, b) = B2 * f
    BY <1>2, <1>4, SMT DEF Wd
  <2> HIDE DEF e, f, B2
  <2>3. (f + B2 * e) * (p * B2) = (B2 * B2) * (p * e) + (B2 * f) * p /\ (B2 * f) * p \in Int
          /\ p * e \in Int /\ (f + B2 * e) * (p * B2) \in Int
    BY <1>3, <2>2, SMT
  <2> QED BY <2>1, <2>2, <2>3 DEF e, f, B2
<1>7. Shl(x, n3) = (x * Pow2[n3]) % Modulus /\ Shl(x, n2) = (x * Pow2[n2]) % Modulus
  BY <1>1, <1>3, ShlMod
<1>8. Shl(x, n3) = x3 % Modulus /\ Shl(x, n2) = x2 % Modulus
  BY <1>3, <1>7
<1> HIDE DEF x3, y3, q3, x2, y2, q2
<1>9. x3 % Modulus = y3 % Modulus /\ x2 % Modulus = y2 % Modulus
  BY <1>5, <1>6, ModSame
<1> QED BY <1>8, <1>9 DEF y3, y2, a, b, p, n3, n2

\* What sh changes on the stack.
HalfA == Slot(6) \cup Two(242, 243)
HalfB == Slot(6) \cup Two(238, 239)

\* The low half of a register as the upper half of the word at VAR_A.
LEMMA ShADoes ==
  ASSUME NEW m, NEW rs,
         Ready(m),
         rs \in Regs
  PROVE  /\ Does(m, sh(rs, -14, sp), Run(m, sh(rs, -14, sp)), One(tp), HalfA)
         /\ Mem(Run(m, sh(rs, -14, sp)), 242) = ByteOf(Reg(m, rs), 0)
         /\ Mem(Run(m, sh(rs, -14, sp)), 243) = ByteOf(Reg(m, rs), 1)
<1> DEFINE x == Reg(m, rs)
           R == One(tp)
           S == HalfA
           c0 == <<>>
           i1 == sb(rs, -14, sp)
           c1 == c0 \o i1
           m1 == Run(m, c1)
           i2 == Getbyte(tp, rs, 1)
           c2 == c1 \o i2
           m2 == Run(m, c2)
           i3 == sb(tp, -13, sp)
           c3 == c2 \o i3
           m3 == Run(m, c3)
<1>s. S \subseteq Ram
  <2>1. Slot(6) \subseteq Ram /\ Slot(4) \subseteq Ram /\ 242 \in Slot(4) /\ 243 \in Slot(4)
    BY SlotRam
  <2> QED BY <2>1 DEF HalfA, Two
<1>a. 242 \in S /\ 243 \in S
  BY DEF HalfA, Two
<1>p. Spot(-14, 242) /\ Spot(-13, 243)
  BY Spots
<1>r. R \subseteq Regs \ {zero}
  BY RegNames DEF One
<1>b. Ready(m) /\ sp \notin R /\ tp \in R /\ tp \in Regs /\ rs \in Regs /\ sp \in Regs
  BY RegNames DEF One
<1>x. x \in Word /\ x \in Int /\ ByteOf(x, 1) \in Byte
  BY RegWord, ByteRange DEF Ready
<1>c. sh(rs, -14, sp) = i1 \o i2 \o i3
  BY DEF sh
<1> HIDE DEF R, S, c0, c1, c2, c3, m1, m2, m3, x
<1>d. i1 \in Code /\ c0 \o i1 = i1
  BY <1>b, RegNames, Coded, ConcatEmptySeq DEF Code, mv, li, c0
<1>0. Does(m, c0, m, R, S) /\ Reg(m, rs) = x
  BY <1>s, <1>r, <1>b, DoesNothing DEF Ready, c0, x
<1>1. Does(m, c1, m1, R, S) /\ Reg(m1, rs) = x /\ Mem(m1, 242) = ByteOf(x, 0)
  <2>1. Does(m, c1, m1, R, S) /\ Puts(m, m1, 242, ByteOf(Reg(m, rs), 0))
    BY <1>0, <1>b, <1>a, <1>p, SbStack DEF c1, m1
  <2> QED BY <2>1, <1>0, <1>b DEF Puts, Holds
<1>2. Does(m, c2, m2, R, S) /\ Reg(m2, tp) = ByteOf(x, 1) /\ Mem(m2, 242) = ByteOf(x, 0)
  <2>1. Ready(m1) /\ Live(m1)
    BY <1>1, <1>b, StaysReady DEF Ready
  <2>2. Does(m1, i2, Run(m1, i2), One(tp), Slot(6)) /\ Reg(Run(m1, i2), tp) = ByteOf(Reg(m1, rs), 1)
    BY <2>1, <1>1, <1>b, GetbyteDoes
  <2> DEFINE R2 == One(tp)
             S2 == Slot(6)
  <2>3. R2 \subseteq R /\ S2 \subseteq S
    BY <1>b DEF One, S, HalfA
  <2> HIDE DEF R2, S2
  <2>4. Does(m, c2, m2, R, S) /\ m2 = Run(m1, i2) /\ Keeps(m1, m2, R2, S2)
    BY <1>1, <2>2, <2>3, DoesNext DEF c2, m2, R2, S2
  <2>5. ByteOf(Reg(m1, rs), 1) = ByteOf(x, 1)
    BY <1>1
  <2> QED BY <2>2, <2>4, <2>5, <1>1, <1>b DEF Keeps, Holds, R2, S2, One, HalfA, Slot
<1>3. Does(m, c3, m3, R, S) /\ Mem(m3, 242) = ByteOf(x, 0) /\ Mem(m3, 243) = ByteOf(x, 1)
  <2>1. Does(m, c3, m3, R, S) /\ Puts(m2, m3, 243, ByteOf(Reg(m2, tp), 0))
    BY <1>2, <1>b, <1>a, <1>p, SbStack DEF c3, m3
  <2>2. ByteOf(Reg(m2, tp), 0) = ByteOf(x, 1)
    BY <1>2, <1>x, ByteWord
  <2> QED BY <2>1, <2>2, <1>2, <1>b DEF Puts, Holds
<1>e. c3 = sh(rs, -14, sp)
  BY <1>c, <1>d DEF c1, c2, c3
<1> QED BY <1>3, <1>e DEF m3, R, S, x

\* The low half of a register as the upper half of the word at VAR_B.
LEMMA ShBDoes ==
  ASSUME NEW m, NEW rs,
         Ready(m),
         rs \in Regs
  PROVE  /\ Does(m, sh(rs, -18, sp), Run(m, sh(rs, -18, sp)), One(tp), HalfB)
         /\ Mem(Run(m, sh(rs, -18, sp)), 238) = ByteOf(Reg(m, rs), 0)
         /\ Mem(Run(m, sh(rs, -18, sp)), 239) = ByteOf(Reg(m, rs), 1)
<1> DEFINE x == Reg(m, rs)
           R == One(tp)
           S == HalfB
           c0 == <<>>
           i1 == sb(rs, -18, sp)
           c1 == c0 \o i1
           m1 == Run(m, c1)
           i2 == Getbyte(tp, rs, 1)
           c2 == c1 \o i2
           m2 == Run(m, c2)
           i3 == sb(tp, -17, sp)
           c3 == c2 \o i3
           m3 == Run(m, c3)
<1>s. S \subseteq Ram
  <2>1. Slot(6) \subseteq Ram /\ Slot(5) \subseteq Ram /\ 238 \in Slot(5) /\ 239 \in Slot(5)
    BY SlotRam
  <2> QED BY <2>1 DEF HalfB, Two
<1>a. 238 \in S /\ 239 \in S
  BY DEF HalfB, Two
<1>p. Spot(-18, 238) /\ Spot(-17, 239)
  BY Spots
<1>r. R \subseteq Regs \ {zero}
  BY RegNames DEF One
<1>b. Ready(m) /\ sp \notin R /\ tp \in R /\ tp \in Regs /\ rs \in Regs /\ sp \in Regs
  BY RegNames DEF One
<1>x. x \in Word /\ x \in Int /\ ByteOf(x, 1) \in Byte
  BY RegWord, ByteRange DEF Ready
<1>c. sh(rs, -18, sp) = i1 \o i2 \o i3
  BY DEF sh
<1> HIDE DEF R, S, c0, c1, c2, c3, m1, m2, m3, x
<1>d. i1 \in Code /\ c0 \o i1 = i1
  BY <1>b, RegNames, Coded, ConcatEmptySeq DEF Code, mv, li, c0
<1>0. Does(m, c0, m, R, S) /\ Reg(m, rs) = x
  BY <1>s, <1>r, <1>b, DoesNothing DEF Ready, c0, x
<1>1. Does(m, c1, m1, R, S) /\ Reg(m1, rs) = x /\ Mem(m1, 238) = ByteOf(x, 0)
  <2>1. Does(m, c1, m1, R, S) /\ Puts(m, m1, 238, ByteOf(Reg(m, rs), 0))
    BY <1>0, <1>b, <1>a, <1>p, SbStack DEF c1, m1
  <2> QED BY <2>1, <1>0, <1>b DEF Puts, Holds
<1>2. Does(m, c2, m2, R, S) /\ Reg(m2, tp) = ByteOf(x, 1) /\ Mem(m2, 238) = ByteOf(x, 0)
  <2>1. Ready(m1) /\ Live(m1)
    BY <1>1, <1>b, StaysReady DEF Ready
  <2>2. Does(m1, i2, Run(m1, i2), One(tp), Slot(6)) /\ Reg(Run(m1, i2), tp) = ByteOf(Reg(m1, rs), 1)
    BY <2>1, <1>1, <1>b, GetbyteDoes
  <2> DEFINE R2 == One(tp)
             S2 == Slot(6)
  <2>3. R2 \subseteq R /\ S2 \subseteq S
    BY <1>b DEF One, S, HalfB
  <2> HIDE DEF R2, S2
  <2>4. Does(m, c2, m2, R, S) /\ m2 = Run(m1, i2) /\ Keeps(m1, m2, R2, S2)
    BY <1>1, <2>2, <2>3, DoesNext DEF c2, m2, R2, S2
  <2>5. ByteOf(Reg(m1, rs), 1) = ByteOf(x, 1)
    BY <1>1
  <2> QED BY <2>2, <2>4, <2>5, <1>1, <1>b DEF Keeps, Holds, R2, S2, One, HalfB, Slot
<1>3. Does(m, c3, m3, R, S) /\ Mem(m3, 238) = ByteOf(x, 0) /\ Mem(m3, 239) = ByteOf(x, 1)
  <2>1. Does(m, c3, m3, R, S) /\ Puts(m2, m3, 239, ByteOf(Reg(m2, tp), 0))
    BY <1>2, <1>b, <1>a, <1>p, SbStack DEF c3, m3
  <2>2. ByteOf(Reg(m2, tp), 0) = ByteOf(x, 1)
    BY <1>2, <1>x, ByteWord
  <2> QED BY <2>1, <2>2, <1>2, <1>b DEF Puts, Holds
<1>e. c3 = sh(rs, -18, sp)
  BY <1>c, <1>d DEF c1, c2, c3
<1> QED BY <1>3, <1>e DEF m3, R, S, x

\* The zero register stays zero.
LEMMA ZeroStays ==
  ASSUME NEW m0, NEW c, NEW m, NEW R, NEW S, Does(m0, c, m, R, S)
  PROVE  Reg(m, zero) = 0 /\ zero \in Regs
BY RegNames DEF Does, Live

\* slliSmall is a shift left.
LEMMA SlliSmallShl ==
  ASSUME NEW m, NEW rd, NEW rs1, NEW n, Live(m), rd \in Regs \ {zero}, rs1 \in Regs, n \in Nat
  PROVE  /\ Does(m, slliSmall(rd, rs1, n), Run(m, slliSmall(rd, rs1, n)), One(rd), {})
         /\ Reg(Run(m, slliSmall(rd, rs1, n)), rd) = Shl(Reg(m, rs1), n)
<1>1. Reg(m, rs1) \in Nat
  BY RegWord, WordNat
<1>2. /\ Does(m, slliSmall(rd, rs1, n), Run(m, slliSmall(rd, rs1, n)), One(rd), {})
      /\ Reg(Run(m, slliSmall(rd, rs1, n)), rd) = Scaled(Reg(m, rs1), n)
  BY SlliSmallDoes
<1>3. Shl(Reg(m, rs1), n) = (Reg(m, rs1) * Pow2[n]) % Modulus
  BY <1>1, ShlMod
<1> QED BY <1>2, <1>3 DEF Scaled

\* A shift left by less than two bytes.
Short(n) == n \in Nat /\ n < 2 * ByteWidth

\* The shift amounts that need only additions.
LEMMA Shorts == Short(1) /\ Short(2) /\ Short(ByteWidth)
BY WidthAssumption DEF Short

\* slli by such an amount.
LEMMA SlliShort ==
  ASSUME NEW m, NEW rd, NEW rs1, NEW n, Live(m), rd \in Regs \ {zero}, rs1 \in Regs, Short(n)
  PROVE  /\ Does(m, slli(rd, rs1, n), Run(m, slli(rd, rs1, n)), One(rd), {})
         /\ Reg(Run(m, slli(rd, rs1, n)), rd) = Shl(Reg(m, rs1), n)
<1>1. ByteWidth \in Nat
  BY ByteWidthAssumption
<1>2. slli(rd, rs1, n) = slliSmall(rd, rs1, n) /\ n \in Nat
  BY <1>1 DEF slli, Short
<1> QED BY <1>2, SlliSmallShl

\* What slli does by way of memory, for three bytes and for two.
Up3(rd, rs1) == sw(zero, Var(VAR_A), sp) \o sb(rs1, Var(VAR_A) + 3, sp) \o lw(rd, Var(VAR_A), sp)
Up2(rd, rs1) == sw(zero, Var(VAR_A), sp) \o sh(rs1, Var(VAR_A) + 2, sp) \o lw(rd, Var(VAR_A), sp)

\* A byte, moved to the top of a word.
LEMMA UpThree ==
  ASSUME NEW m, NEW rd, NEW rs1,
         Ready(m),
         rd \in Regs \ {zero, sp},
         rs1 \in Regs
  PROVE  /\ Does(m, Up3(rd, rs1), Run(m, Up3(rd, rs1)), One(rd), Slot(4))
         /\ Reg(Run(m, Up3(rd, rs1)), rd) = Wd(0, 0, 0, ByteOf(Reg(m, rs1), 0))
<1> DEFINE x == Reg(m, rs1)
           w == Wd(0, 0, 0, ByteOf(x, 0))
           R == One(rd)
           S == Slot(4)
           c0 == <<>>
           i1 == sw(zero, -16, sp)
           c1 == c0 \o i1
           m1 == Run(m, c1)
           i2 == sb(rs1, -13, sp)
           c2 == c1 \o i2
           m2 == Run(m, c2)
           i3 == lw(rd, -16, sp)
           c3 == c2 \o i3
           m3 == Run(m, c3)
<1>s. S \subseteq Ram
  <2>1. Slot(4) \subseteq Ram
    BY SlotRam
  <2> QED BY <2>1
<1>a. Block(240, S) /\ 243 \in S
  <2>1. 240 \in Slot(4) /\ 241 \in Slot(4) /\ 242 \in Slot(4) /\ 243 \in Slot(4)
    BY SlotRam
  <2> QED BY <2>1 DEF Block
<1>p. Spot(-16, 240) /\ Spot(-13, 243) /\ WordSpot(-16, 240)
  BY Spots
<1>r. R \subseteq Regs \ {zero}
  BY RegNames DEF One
<1>b. Ready(m) /\ sp \notin R /\ rd \in R /\ rd \in Regs /\ rs1 \in Regs /\ sp \in Regs /\ zero \in Regs
      /\ tp \in Regs /\ rd # sp
  BY RegNames DEF One
<1>x. x \in Word /\ x \in Int
  BY RegWord DEF Ready
<1>c. Up3(rd, rs1) = i1 \o i2 \o i3
  BY DEF Up3, Var, VAR_A
<1> HIDE DEF R, S, c0, c1, c2, c3, m1, m2, m3, x, w
<1>d. i1 \in Code /\ c0 \o i1 = i1
  BY <1>b, RegNames, Coded, ConcatEmptySeq DEF Code, mv, li, c0
<1>0. Does(m, c0, m, R, S) /\ Reg(m, rs1) = x
  BY <1>s, <1>r, <1>b, DoesNothing DEF Ready, c0, x
<1>1. Does(m, c1, m1, R, S) /\ Reg(m1, rs1) = x /\ Mem(m1, 240) = ByteOf(0, 0) /\ Mem(m1, 241) = ByteOf(0, 1)
      /\ Mem(m1, 242) = ByteOf(0, 2)
  <2>1. Does(m, c1, m1, R, S) /\ Saves(m, m1, 240, Reg(m, zero))
    BY <1>0, <1>b, <1>a, <1>p, SwStack DEF c1, m1
  <2>2. Reg(m, zero) = 0
    BY <1>0, ZeroStays
  <2> QED BY <2>1, <2>2, <1>0, <1>b DEF Saves, Holds
<1>2. Does(m, c2, m2, R, S) /\ Mem(m2, 240) = ByteOf(0, 0) /\ Mem(m2, 241) = ByteOf(0, 1)
      /\ Mem(m2, 242) = ByteOf(0, 2) /\ Mem(m2, 243) = ByteOf(x, 0)
  <2>1. Does(m, c2, m2, R, S) /\ Puts(m1, m2, 243, ByteOf(Reg(m1, rs1), 0))
    BY <1>1, <1>b, <1>a, <1>p, SbStack DEF c2, m2
  <2> QED BY <2>1, <1>1, <1>b DEF Puts, Holds
<1>3. Does(m, c3, m3, R, S) /\ Reg(m3, rd) = w
  <2>1. Does(m, c3, m3, R, S) /\ Sets(m2, m3, rd, Loaded(m2, 240))
    <3>1. Does(m, c2, m2, R, S) /\ Ready(m) /\ sp \notin R /\ rd \in R /\ WordSpot(-16, 240)
      BY <1>2, <1>b, <1>a, <1>p
    <3> QED BY <3>1, LwStack DEF c3, m3
  <2>2. Loaded(m2, 240) = w
    BY <1>2, ZeroBytes DEF Holds, Loaded, w
  <2> QED BY <2>1, <2>2, <1>2, <1>b DEF Sets, Holds
<1>e. c3 = Up3(rd, rs1)
  BY <1>c, <1>d DEF c1, c2, c3
<1> QED BY <1>3, <1>e DEF m3, R, S, x, w

\* Two bytes, moved to the top of a word.
LEMMA UpTwo ==
  ASSUME NEW m, NEW rd, NEW rs1,
         Ready(m),
         rd \in Regs \ {zero, sp},
         rs1 \in Regs
  PROVE  /\ Does(m, Up2(rd, rs1), Run(m, Up2(rd, rs1)), Two(rd, tp), Slots2(4, 6))
         /\ Reg(Run(m, Up2(rd, rs1)), rd) = Wd(0, 0, ByteOf(Reg(m, rs1), 0), ByteOf(Reg(m, rs1), 1))
<1> DEFINE x == Reg(m, rs1)
           w == Wd(0, 0, ByteOf(x, 0), ByteOf(x, 1))
           R == Two(rd, tp)
           S == Slots2(4, 6)
           c0 == <<>>
           i1 == sw(zero, -16, sp)
           c1 == c0 \o i1
           m1 == Run(m, c1)
           i2 == sh(rs1, -14, sp)
           c2 == c1 \o i2
           m2 == Run(m, c2)
           i3 == lw(rd, -16, sp)
           c3 == c2 \o i3
           m3 == Run(m, c3)
<1>s. S \subseteq Ram
  <2>1. Slot(4) \subseteq Ram /\ Slot(6) \subseteq Ram
    BY SlotRam
  <2> QED BY <2>1 DEF Slots2
<1>a. Block(240, S) /\ 242 \in S /\ 243 \in S
  <2>1. 240 \in Slot(4) /\ 241 \in Slot(4) /\ 242 \in Slot(4) /\ 243 \in Slot(4)
    BY SlotRam
  <2> QED BY <2>1 DEF Block, Slots2
<1>p. Spot(-16, 240) /\ WordSpot(-16, 240)
  BY Spots
<1>r. R \subseteq Regs \ {zero}
  BY RegNames DEF Two
<1>b. Ready(m) /\ sp \notin R /\ rd \in R /\ tp \in R /\ rd \in Regs /\ tp \in Regs /\ rs1 \in Regs
      /\ sp \in Regs /\ zero \in Regs /\ rd # sp
  BY RegNames DEF Two
<1>x. x \in Word /\ x \in Int
  BY RegWord DEF Ready
<1>c. Up2(rd, rs1) = i1 \o i2 \o i3
  BY DEF Up2, Var, VAR_A
<1> HIDE DEF R, S, c0, c1, c2, c3, m1, m2, m3, x, w
<1>d. i1 \in Code /\ c0 \o i1 = i1
  BY <1>b, RegNames, Coded, ConcatEmptySeq DEF Code, mv, li, c0
<1>0. Does(m, c0, m, R, S) /\ Reg(m, rs1) = x
  BY <1>s, <1>r, <1>b, DoesNothing DEF Ready, c0, x
<1>1. Does(m, c1, m1, R, S) /\ Reg(m1, rs1) = x /\ Mem(m1, 240) = ByteOf(0, 0) /\ Mem(m1, 241) = ByteOf(0, 1)
  <2>1. Does(m, c1, m1, R, S) /\ Saves(m, m1, 240, Reg(m, zero))
    BY <1>0, <1>b, <1>a, <1>p, SwStack DEF c1, m1
  <2>2. Reg(m, zero) = 0
    BY <1>0, ZeroStays
  <2> QED BY <2>1, <2>2, <1>0, <1>b DEF Saves, Holds
<1>2. Does(m, c2, m2, R, S) /\ Mem(m2, 240) = ByteOf(0, 0) /\ Mem(m2, 241) = ByteOf(0, 1)
      /\ Mem(m2, 242) = ByteOf(x, 0) /\ Mem(m2, 243) = ByteOf(x, 1)
  <2>1. Ready(m1) /\ Live(m1)
    BY <1>1, <1>b, StaysReady DEF Ready
  <2>2. Does(m1, i2, Run(m1, i2), One(tp), HalfA) /\ Mem(Run(m1, i2), 242) = ByteOf(Reg(m1, rs1), 0)
        /\ Mem(Run(m1, i2), 243) = ByteOf(Reg(m1, rs1), 1)
    BY <2>1, <1>1, <1>b, ShADoes
  <2> DEFINE R2 == One(tp)
             S2 == HalfA
  <2>3. R2 \subseteq R /\ S2 \subseteq S
    BY <1>b, <1>a DEF One, S, HalfA, Two, Slots2
  <2> HIDE DEF R2, S2
  <2>4. Does(m, c2, m2, R, S) /\ m2 = Run(m1, i2) /\ Keeps(m1, m2, R2, S2)
    BY <1>1, <2>2, <2>3, DoesNext DEF c2, m2, R2, S2
  <2>5. ByteOf(Reg(m1, rs1), 0) = ByteOf(x, 0)
    BY <1>1
  <2>6. ByteOf(Reg(m1, rs1), 1) = ByteOf(x, 1)
    BY <1>1
  <2> QED BY <2>2, <2>4, <2>5, <2>6, <1>1, <1>b DEF Keeps, Holds, R2, S2, One, HalfA, Two, Slot
<1>3. Does(m, c3, m3, R, S) /\ Reg(m3, rd) = w
  <2>1. Does(m, c3, m3, R, S) /\ Sets(m2, m3, rd, Loaded(m2, 240))
    BY <1>2, <1>b, <1>a, <1>p, LwStack DEF c3, m3
  <2>2. Loaded(m2, 240) = w
    BY <1>2, ZeroBytes DEF Holds, Loaded, w
  <2> QED BY <2>1, <2>2, <1>2, <1>b DEF Sets, Holds
<1>e. c3 = Up2(rd, rs1)
  BY <1>c, <1>d DEF c1, c2, c3
<1> QED BY <1>3, <1>e DEF m3, R, S, x, w

\* A shift left.
LEMMA SlliDoes ==
  ASSUME NEW m, NEW rd, NEW rs1, NEW n, Ready(m), rd \in Regs \ {zero, sp}, rs1 \in Regs, n \in Nat
  PROVE  /\ Does(m, slli(rd, rs1, n), Run(m, slli(rd, rs1, n)), Two(rd, tp), Slots2(4, 6))
         /\ Reg(Run(m, slli(rd, rs1, n)), rd) = Shl(Reg(m, rs1), n)
<1> DEFINE R == Two(rd, tp)
           S == Slots2(4, 6)
           x == Reg(m, rs1)
           R1 == One(rd)
           S1 == Slot(4)
           N == {}
<1>1. ByteWidth \in Nat /\ R \subseteq Regs \ {zero}
  BY ByteWidthAssumption, RegNames DEF Two
<1>2. S \subseteq Ram /\ R1 \subseteq R /\ S1 \subseteq S /\ N \subseteq S
  <2>1. Slot(4) \subseteq Ram /\ Slot(6) \subseteq Ram
    BY SlotRam
  <2> QED BY <2>1 DEF One, Two, Slots2
<1>3. x \in Word /\ Live(m)
  BY RegWord DEF Ready
<1> HIDE DEF R, S, R1, S1, N, x
<1>4. CASE n < 2 * ByteWidth
  <2>1. Does(m, slli(rd, rs1, n), Run(m, slli(rd, rs1, n)), R1, N)
          /\ Reg(Run(m, slli(rd, rs1, n)), rd) = Shl(x, n)
    <3>1. Short(n)
      BY <1>4 DEF Short
    <3>2. Does(m, slli(rd, rs1, n), Run(m, slli(rd, rs1, n)), One(rd), {})
            /\ Reg(Run(m, slli(rd, rs1, n)), rd) = Shl(Reg(m, rs1), n)
      BY <1>3, <3>1, SlliShort
    <3> QED BY <3>2 DEF R1, N, x
  <2>2. Does(m, slli(rd, rs1, n), Run(m, slli(rd, rs1, n)), R, S)
    BY <1>1, <1>2, <2>1, DoesMore
  <2> QED BY <2>1, <2>2 DEF R, S, x
<1>5. ASSUME NEW c, NEW k, k \in Nat, Does(m, c, Run(m, c), R, S), slli(rd, rs1, n) = c \o slliSmall(rd, rd, k),
             Shl(Reg(Run(m, c), rd), k) = Shl(x, n)
      PROVE  Does(m, slli(rd, rs1, n), Run(m, slli(rd, rs1, n)), R, S)
               /\ Reg(Run(m, slli(rd, rs1, n)), rd) = Shl(x, n)
  <2> DEFINE m1 == Run(m, c)
             d == slliSmall(rd, rd, k)
  <2>1. Live(m1)
    BY <1>5 DEF Does
  <2> HIDE DEF m1
  <2>2. Does(m1, d, Run(m1, d), R1, N) /\ Reg(Run(m1, d), rd) = Shl(Reg(m1, rd), k)
    <3>1. Does(m1, d, Run(m1, d), One(rd), {}) /\ Reg(Run(m1, d), rd) = Shl(Reg(m1, rd), k)
      BY <1>5, <2>1, SlliSmallShl
    <3> QED BY <3>1 DEF R1, N
  <2> HIDE DEF d
  <2>3. Does(m, c, m1, R, S)
    BY <1>5 DEF m1
  <2>4. Does(m, c \o d, Run(m, c \o d), R, S) /\ Run(m, c \o d) = Run(m1, d)
    BY <1>2, <2>2, <2>3, DoesNext
  <2> QED BY <1>5, <2>2, <2>4 DEF d, m1
<1>6. CASE n >= 3 * ByteWidth
  <2> DEFINE k == n - 3 * ByteWidth
             c == Up3(rd, rs1)
  <2>1. k \in Nat /\ n = k + 3 * ByteWidth
    BY <1>1, <1>6
  <2> HIDE DEF c
  <2>2. Does(m, c, Run(m, c), R1, S1) /\ Reg(Run(m, c), rd) = Wd(0, 0, 0, ByteOf(x, 0))
    BY UpThree DEF c, R1, S1, x
  <2>3. Does(m, c, Run(m, c), R, S)
    BY <1>1, <1>2, <2>2, DoesMore
  <2>4. slli(rd, rs1, n) = c \o slliSmall(rd, rd, k)
    <3>1. c \o slliSmall(rd, rd, k) = Up3(rd, rs1) \o slliSmall(rd, rd, n - 3 * ByteWidth)
      BY DEF c, k
    <3> QED BY <1>6, <3>1 DEF slli, Up3
  <2> HIDE DEF k
  <2>6. Live(Run(m, c)) /\ rd \in Regs
    BY <2>2 DEF Does
  <2>5. Shl(Reg(Run(m, c), rd), k) = Shl(x, n)
    <3>1. Reg(Run(m, c), rd) \in Nat
      BY <2>2, <2>6, RegWord, WordNat
    <3> QED BY <1>3, <2>1, <2>2, <3>1, ShlBytes, ShlMod
  <2> QED BY <1>5, <2>1, <2>3, <2>4, <2>5 DEF R, S, x
<1>7. CASE n >= 2 * ByteWidth /\ ~ n >= 3 * ByteWidth
  <2> DEFINE k == n - 2 * ByteWidth
             c == Up2(rd, rs1)
  <2>1. k \in Nat /\ n = k + 2 * ByteWidth
    BY <1>1, <1>7
  <2> HIDE DEF c
  <2>2. Does(m, c, Run(m, c), R, S) /\ Reg(Run(m, c), rd) = Wd(0, 0, ByteOf(x, 0), ByteOf(x, 1))
    BY UpTwo DEF c, R, S, x
  <2>4. slli(rd, rs1, n) = c \o slliSmall(rd, rd, k)
    <3>1. c \o slliSmall(rd, rd, k) = Up2(rd, rs1) \o slliSmall(rd, rd, n - 2 * ByteWidth)
      BY DEF c, k
    <3> QED BY <1>7, <3>1 DEF slli, Up2
  <2> HIDE DEF k
  <2>6. Live(Run(m, c)) /\ rd \in Regs
    BY <2>2 DEF Does
  <2>5. Shl(Reg(Run(m, c), rd), k) = Shl(x, n)
    <3>1. Reg(Run(m, c), rd) \in Nat
      BY <2>2, <2>6, RegWord, WordNat
    <3> QED BY <1>3, <2>1, <2>2, <3>1, ShlBytes, ShlMod
  <2> QED BY <1>5, <2>1, <2>2, <2>4, <2>5 DEF R, S, x
<1> QED BY <1>1, <1>4, <1>6, <1>7 DEF R, S, x

\* The sign of a word, and the byte where slli leaves it.
Sign(x) == IF x >= Modulus \div 2 THEN 1 ELSE 0

\* The top byte shifted left by one has the sign in its second byte.
LEMMA SignByte ==
  ASSUME NEW x, x \in Word
  PROVE  ByteOf(Shl(ByteOf(x, 3), 1), 1) = Sign(x)
<1> DEFINE a == ByteOf(x, 0)
           b == ByteOf(x, 1)
           c == ByteOf(x, 2)
           d == ByteOf(x, 3)
           B3 == B * B * B
           h == B \div 2
           low == a + B * b + (B * B) * c
<1>1. x \in Int /\ x = Wd(a, b, c, d)
  BY WordIsBytes, WordNat DEF Word
<1>2. a \in Byte /\ b \in Byte /\ c \in Byte /\ d \in Byte
  BY <1>1, ByteRange
<1>3. a \in Nat /\ a < B /\ b \in Nat /\ b < B /\ c \in Nat /\ c < B /\ d \in Nat /\ d < B
  BY <1>2, ByteNat
<1> HIDE DEF a, b, c, d
<1>4. B \in Nat /\ h \in Nat /\ B = 2 * h /\ h >= 16
  BY Widths
<1>5. B3 \in Nat /\ low \in Nat /\ low < B3 /\ x = low + B3 * d
  <2>1. a + B * b \in Nat /\ a + B * b <= B * B - 1
    BY <1>3, <1>4, SMT
  <2>2. B * B \in Nat /\ B3 = (B * B) * B /\ B3 \in Nat
    BY <1>4, SMT
  <2>3. (B * B) * c \in Nat /\ (B * B) * c <= (B * B) * B - B * B
    <3> DEFINE P == B * B
    <3> HIDE DEF P
    <3>1. P * c \in Nat /\ P * c <= P * B - P
      <4>1. P \in Nat
        BY <2>2 DEF P
      <4> QED BY <1>3, <1>4, <4>1, SMT
    <3> QED BY <3>1 DEF P
  <2>4. low \in Nat /\ low < B3
    BY <2>1, <2>2, <2>3
  <2> QED BY <1>1, <2>2, <2>4 DEF Wd
<1>6. Modulus \div 2 = B3 * h
  <2>1. Modulus = 2 * (B3 * h)
    BY <1>4, <1>5, Sizes, SMT
  <2> DEFINE y == B3 * h
  <2>2. y \in Nat
    BY <1>4, <1>5, SMT
  <2> HIDE DEF y
  <2>3. (2 * y) \div 2 = y
    BY <2>2
  <2> QED BY <2>1, <2>3 DEF y
<1> HIDE DEF B3, h, low
<1>7. Shl(d, 1) = 2 * d /\ 2 * d \in Word
  <2>1. Pow2[0 + 1] = 2 * Pow2[0] /\ 0 + 1 = 1
    BY Pow2Def
  <2>2. Pow2[1] = 2
    BY <2>1, Pow2Def
  <2>3. Shl(d, 1) = (2 * d) % Modulus
    BY <1>3, <2>2, ShlMod
  <2>4. 2 * d \in Word
    BY <1>3, WidthBounds DEF Word
  <2> DEFINE y == 2 * d
  <2> HIDE DEF y
  <2>5. y \in Word => y % Modulus = y
    BY SmallWord
  <2> QED BY <2>3, <2>4, <2>5 DEF y
<1>8. CASE d >= h
  <2> DEFINE e == 2 * d - B
  <2>1. e \in Byte /\ 1 \in Byte /\ 0 \in Byte
    BY <1>3, <1>4, <1>8, ByteNat
  <2>2. 2 * d = Wd(e, 1, 0, 0)
    BY <1>3, <1>4, SMT DEF Wd
  <2> HIDE DEF e
  <2>3. ByteOf(2 * d, 1) = 1
    BY <2>1, <2>2, ByteOfWd
  <2>4. B3 * d >= B3 * h /\ B3 * d \in Nat /\ B3 * h \in Nat
    BY <1>3, <1>4, <1>5, <1>8, SMT
  <2>5. x >= Modulus \div 2
    BY <1>5, <1>6, <2>4
  <2> QED BY <1>7, <2>3, <2>5 DEF Sign, d
<1>9. CASE d < h
  <2> DEFINE e == 2 * d
  <2>1. e \in Byte /\ 0 \in Byte
    BY <1>3, <1>4, <1>9, ByteNat
  <2> HIDE DEF e
  <2>2. ByteOf(e, 1) = 0
    BY <2>1, ByteWord
  <2>4. B3 * d + B3 <= B3 * h /\ B3 * d \in Nat /\ B3 * h \in Nat
    BY <1>3, <1>4, <1>5, <1>9, SMT
  <2>5. ~ x >= Modulus \div 2
    BY <1>5, <1>6, <2>4
  <2> QED BY <1>7, <2>2, <2>5 DEF Sign, d, e
<1> QED BY <1>3, <1>4, <1>8, <1>9

\* The sign of a register.
LEMMA MsbDoes ==
  ASSUME NEW m, NEW rd, NEW rs1,
         Ready(m),
         rd \in Regs \ {zero, sp},
         rs1 \in Regs
  PROVE  /\ Does(m, msb(rd, rs1), Run(m, msb(rd, rs1)), One(rd), Slot(6))
         /\ Reg(Run(m, msb(rd, rs1)), rd) = Sign(Reg(m, rs1))
<1> DEFINE x == Reg(m, rs1)
           d == ByteOf(x, 3)
           R == One(rd)
           S == Slot(6)
           c0 == <<>>
           i1 == Getbyte(rd, rs1, 3)
           c1 == c0 \o i1
           m1 == Run(m, c1)
           i2 == slli(rd, rd, 1)
           c2 == c1 \o i2
           m2 == Run(m, c2)
           i3 == Getbyte(rd, rd, 1)
           c3 == c2 \o i3
           m3 == Run(m, c3)
<1>s. S \subseteq Ram
  <2>1. Slot(6) \subseteq Ram
    BY SlotRam
  <2> QED BY <2>1
<1>r. R \subseteq Regs \ {zero}
  BY RegNames DEF One
<1>b. Ready(m) /\ sp \notin R /\ rd \in R /\ rd \in Regs /\ rs1 \in Regs /\ sp \in Regs /\ rd # sp
      /\ rd # zero
  BY RegNames DEF One
<1>x. x \in Word /\ x \in Int
  BY RegWord DEF Ready
<1>c. msb(rd, rs1) = i1 \o i2 \o i3
  BY DEF msb
<1> HIDE DEF R, S, c0, c1, c2, c3, m1, m2, m3, x, d
<1>0. Does(m, c0, m, R, S) /\ Reg(m, rs1) = x
  BY <1>s, <1>r, <1>b, DoesNothing DEF Ready, c0, x
<1>1. Does(m, c1, m1, R, S) /\ Reg(m1, rd) = d
  <2>1. Ready(m) /\ Live(m)
    BY <1>b DEF Ready
  <2>2. Does(m, i1, Run(m, i1), One(rd), Slot(6)) /\ Reg(Run(m, i1), rd) = ByteOf(Reg(m, rs1), 3)
    BY <2>1, <1>0, <1>b, GetbyteDoes
  <2> DEFINE R2 == One(rd)
             S2 == Slot(6)
  <2>3. R2 \subseteq R /\ S2 \subseteq S
    BY <1>b DEF One, S
  <2> HIDE DEF R2, S2
  <2>4. Does(m, c1, m1, R, S) /\ m1 = Run(m, i1) /\ Keeps(m, m1, R2, S2)
    BY <1>0, <2>2, <2>3, DoesNext DEF c1, m1, R2, S2
  <2>5. ByteOf(Reg(m, rs1), 3) = d
    BY <1>0 DEF d
  <2> QED BY <2>2, <2>4, <2>5, <1>0, <1>b DEF Keeps, Holds, R2, S2, One, Slot
<1>d. i1 \in Code /\ c0 \o i1 = i1
  <2>1. Ready(m) /\ Live(m)
    BY <1>b DEF Ready
  <2>2. Does(m, i1, Run(m, i1), One(rd), Slot(6))
    BY <2>1, <1>b, GetbyteDoes
  <2>3. i1 \in Code
    BY <2>2 DEF Does
  <2> QED BY <2>3, ConcatEmptySeq DEF Code, c0
<1>2. Does(m, c2, m2, R, S) /\ Reg(m2, rd) = Shl(d, 1)
  <2>1. Ready(m1) /\ Live(m1)
    BY <1>1, <1>b, StaysReady DEF Ready
  <2>2. Does(m1, i2, Run(m1, i2), One(rd), {}) /\ Reg(Run(m1, i2), rd) = Shl(Reg(m1, rd), 1)
    BY <2>1, <1>1, <1>b, Shorts, SlliShort
  <2> DEFINE R2 == One(rd)
             S2 == {}
  <2>3. R2 \subseteq R /\ S2 \subseteq S
    BY <1>b DEF One
  <2> HIDE DEF R2, S2
  <2>4. Does(m, c2, m2, R, S) /\ m2 = Run(m1, i2) /\ Keeps(m1, m2, R2, S2)
    BY <1>1, <2>2, <2>3, DoesNext DEF c2, m2, R2, S2
  <2>5. Shl(Reg(m1, rd), 1) = Shl(d, 1)
    BY <1>1
  <2> QED BY <2>2, <2>4, <2>5, <1>1, <1>b DEF Keeps, Holds, R2, S2, One
<1>3. Does(m, c3, m3, R, S) /\ Reg(m3, rd) = Sign(x)
  <2>1. Ready(m2) /\ Live(m2)
    BY <1>2, <1>b, StaysReady DEF Ready
  <2>2. Does(m2, i3, Run(m2, i3), One(rd), Slot(6)) /\ Reg(Run(m2, i3), rd) = ByteOf(Reg(m2, rd), 1)
    BY <2>1, <1>2, <1>b, GetbyteDoes
  <2> DEFINE R2 == One(rd)
             S2 == Slot(6)
  <2>3. R2 \subseteq R /\ S2 \subseteq S
    BY <1>b DEF One, S
  <2> HIDE DEF R2, S2
  <2>4. Does(m, c3, m3, R, S) /\ m3 = Run(m2, i3) /\ Keeps(m2, m3, R2, S2)
    BY <1>2, <2>2, <2>3, DoesNext DEF c3, m3, R2, S2
  <2>5. ByteOf(Reg(m2, rd), 1) = Sign(x)
    BY <1>2, <1>x, SignByte DEF d
  <2> QED BY <2>2, <2>4, <2>5, <1>2, <1>b DEF Keeps, Holds, R2, S2, One, Slot
<1>e. c3 = msb(rd, rs1)
  BY <1>c, <1>d DEF c1, c2, c3
<1> QED BY <1>3, <1>e DEF m3, R, S, x

-----------------------------------------------------------------------------
(* 12. not and sub *)

\* Byte n of the word in slot k.
At(k, n, a) == /\ k \in Nat /\ k >= 1 /\ k <= 7 /\ n \in Nat /\ n <= 3
               /\ a \in Nat /\ a = StackTop - 4 * k + n

\* Where the bytes of the stack variables lie.
LEMMA Ats ==
  /\ At(7, 0, 228) /\ At(7, 1, 229) /\ At(7, 2, 230) /\ At(7, 3, 231)
  /\ At(6, 0, 232) /\ At(6, 1, 233) /\ At(6, 2, 234) /\ At(6, 3, 235)
  /\ At(5, 0, 236) /\ At(5, 1, 237) /\ At(5, 2, 238) /\ At(5, 3, 239)
  /\ At(4, 0, 240) /\ At(4, 1, 241) /\ At(4, 2, 242) /\ At(4, 3, 243)
BY DEF At, StackTop

\* Such a byte is a spot of the stack frame.
LEMMA AtSpot ==
  ASSUME NEW k, NEW n, NEW a, At(k, n, a)
  PROVE  Spot(Var(k) + n, a) /\ a \in Ram /\ a \in Slot(k)
<1>1. Spot(Var(k) + n, a) /\ a \in Slot(k)
  BY DEF At, Spot, Var, Slot, StackTop
<1>2. a \in Int /\ a >= StackTop - 28 /\ a <= StackTop + 7
  BY DEF At, StackTop
<1> QED BY <1>1, <1>2, Places

\* The complement of a word, byte by byte.
LEMMA NotBytes ==
  ASSUME NEW x, x \in Word
  PROVE  /\ Modulus - 1 - x \in Word
         /\ ByteOf(Modulus - 1 - x, 0) = B - 1 - ByteOf(x, 0)
         /\ ByteOf(Modulus - 1 - x, 1) = B - 1 - ByteOf(x, 1)
         /\ ByteOf(Modulus - 1 - x, 2) = B - 1 - ByteOf(x, 2)
         /\ ByteOf(Modulus - 1 - x, 3) = B - 1 - ByteOf(x, 3)
<1> DEFINE a == ByteOf(x, 0)
           b == ByteOf(x, 1)
           c == ByteOf(x, 2)
           d == ByteOf(x, 3)
           a1 == B - 1 - a
           b1 == B - 1 - b
           c1 == B - 1 - c
           d1 == B - 1 - d
<1>1. x \in Int /\ x = Wd(a, b, c, d)
  BY WordIsBytes, WordNat DEF Word
<1>2. a \in Byte /\ b \in Byte /\ c \in Byte /\ d \in Byte
  BY <1>1, ByteRange
<1>3. a \in Nat /\ a < B /\ b \in Nat /\ b < B /\ c \in Nat /\ c < B /\ d \in Nat /\ d < B /\ B \in Nat
  BY <1>2, ByteNat, WidthBounds
<1>4. Modulus = B * (B * B * B)
  BY Sizes
<1> HIDE DEF a, b, c, d
<1>5. a1 \in Byte /\ b1 \in Byte /\ c1 \in Byte /\ d1 \in Byte
  BY <1>3, ByteNat
<1>6. Modulus - 1 - x = Wd(a1, b1, c1, d1)
  BY <1>1, <1>3, <1>4, SMT DEF Wd
<1> HIDE DEF a1, b1, c1, d1
<1>7. Wd(a1, b1, c1, d1) \in Word
  BY <1>5, WdWord
<1> QED BY <1>5, <1>6, <1>7, ByteOfWd DEF a, b, c, d, a1, b1, c1, d1

\* One byte of Not.
TurnRow == Xor8 + (B - 1) * B
Turned(b) == B - 1 - b

NotByte(n) ==
  lbu(gp, Var(VAR_C) + n, sp) \o add(gp, gp, tp) \o lbu(gp, 0, gp) \o sb(gp, Var(VAR_D) + n, sp)

\* One byte of Not turns over.
LEMMA NotByteDoes ==
  ASSUME NEW m, NEW n, NEW p, NEW q,
         Ready(m),
         At(6, n, p),
         At(7, n, q),
         Reg(m, tp) = TurnRow
  PROVE  /\ Does(m, NotByte(n), Run(m, NotByte(n)), One(gp), One(q))
         /\ Mem(Run(m, NotByte(n)), q) = Turned(Mem(m, p))
<1> DEFINE y == Mem(m, p)
           z == B - 1 - y
           t == TurnRow
           a == Xor8 + (y + B * (B - 1))
           off == Var(6) + n
           to == Var(7) + n
           R == One(gp)
           S == One(q)
           c0 == <<>>
           i1 == lbu(gp, off, sp)
           c1 == c0 \o i1
           m1 == Run(m, c1)
           i2 == add(gp, gp, tp)
           c2 == c1 \o i2
           m2 == Run(m, c2)
           i3 == lbu(gp, 0, gp)
           c3 == c2 \o i3
           m3 == Run(m, c3)
           i4 == sb(gp, to, sp)
           c4 == c3 \o i4
           m4 == Run(m, c4)
<1>s. S \subseteq Ram
  BY AtSpot DEF One
<1>a. q \in S
  BY DEF One
<1>r. R \subseteq Regs \ {zero}
  BY RegNames DEF One
<1>b. Ready(m) /\ sp \notin R /\ gp \in R /\ gp \in Regs /\ sp \in Regs /\ tp \in Regs /\ Spot(off, p)
      /\ Spot(to, q)
  BY RegNames, AtSpot DEF One
<1>o. off \in Int
  BY <1>b DEF Spot
<1>y. y \in Byte /\ y \in Nat /\ y < B
  BY MemByte, ByteNat DEF Ready
<1>z. z \in Byte /\ B - 1 \in Byte
  BY <1>y, ByteNat, WidthBounds
<1>t. a \in Tables /\ Ro(a) = z
  <2> DEFINE x == B - 1
  <2>1. x \in Byte
    BY <1>z
  <2> HIDE DEF x, y
  <2>2. Xor8 + (y + B * x) \in Tables /\ Ro(Xor8 + (y + B * x)) = Xor(x, y)
    BY <1>y, <2>1, LogicEntry
  <2>3. Xor(B - 1, y) = B - 1 - y
    BY <1>y, XorOnes
  <2> QED BY <2>2, <2>3 DEF x
<1>s2. Add(y, t) = a
  <2> HIDE DEF y
  <2>0. y \in Nat /\ Xor8 \in Nat /\ B \in Nat
    BY <1>y, TablePlaces, WidthBounds
  <2>1. y \in Int /\ t \in Int /\ y + t = a
    BY <2>0, SMT DEF TurnRow
  <2> HIDE DEF a, t
  <2>2. a \in Int /\ a >= 0 /\ a < Modulus
    BY <1>t, Places
  <2> QED BY <2>1, <2>2, AddSmall
<1>c. NotByte(n) = i1 \o i2 \o i3 \o i4
  BY DEF NotByte, VAR_C, VAR_D
<1> HIDE DEF R, S, c0, c1, c2, c3, c4, m1, m2, m3, m4, y, z, t, a, off, to
<1>d. i1 \in Code /\ c0 \o i1 = i1
  BY <1>o, <1>b, RegNames, Coded, ConcatEmptySeq DEF Code, mv, li, c0
<1>0. Does(m, c0, m, R, S) /\ Reg(m, tp) = t /\ Mem(m, p) = y
  BY <1>s, <1>r, <1>b, DoesNothing DEF Ready, c0, y, t
<1>1. Does(m, c1, m1, R, S) /\ Reg(m1, tp) = t /\ Reg(m1, gp) = y
  <2>1. Does(m, c1, m1, R, S) /\ Sets(m, m1, gp, Mem(m, p))
    BY <1>0, <1>b, <1>a, LbuStack DEF c1, m1
  <2> QED BY <2>1, <1>0, <1>b DEF Sets, Holds
<1>2. Does(m, c2, m2, R, S) /\ Reg(m2, gp) = a
  <2>1. Does(m, c2, m2, R, S) /\ Sets(m1, m2, gp, Add(Reg(m1, gp), Reg(m1, tp)))
    BY <1>1, <1>b, <1>a, AddRuns DEF c2, m2
  <2>2. Add(Reg(m1, gp), Reg(m1, tp)) = a
    BY <1>1, <1>s2
  <2> QED BY <2>1, <2>2, <1>1, <1>b DEF Sets, Holds
<1>3. Does(m, c3, m3, R, S) /\ Reg(m3, gp) = z
  <2>1. Does(m, c3, m3, R, S) /\ Sets(m2, m3, gp, Ro(a))
    BY <1>2, <1>b, <1>a, TableLbu, <1>t DEF c3, m3
  <2>2. Ro(a) = z
    BY <1>2, <1>t
  <2> QED BY <2>1, <2>2, <1>2, <1>b DEF Sets, Holds
<1>4. Does(m, c4, m4, R, S) /\ Mem(m4, q) = z
  <2>1. Does(m, c4, m4, R, S) /\ Puts(m3, m4, q, ByteOf(Reg(m3, gp), 0))
    BY <1>3, <1>b, <1>a, SbStack DEF c4, m4
  <2>2. ByteOf(Reg(m3, gp), 0) = z
    BY <1>3, <1>z, ByteWord
  <2> QED BY <2>1, <2>2, <1>3, <1>b DEF Puts, Holds
<1>e. c4 = NotByte(n)
  BY <1>c, <1>d DEF c1, c2, c3, c4
<1> QED BY <1>4, <1>e DEF m4, R, S, y, z, Turned

\* The complement of a register.
LEMMA NotDoes ==
  ASSUME NEW m, NEW rd, NEW rs1,
         Ready(m),
         rd \in Regs \ {zero, sp},
         rs1 \in Regs
  PROVE  /\ Does(m, Not(rd, rs1), Run(m, Not(rd, rs1)), Two(rd, tp), Slots3(3, 6, 7))
         /\ Reg(Run(m, Not(rd, rs1)), rd) = Modulus - 1 - Reg(m, rs1)
<1> DEFINE x == Reg(m, rs1)
           g == Reg(m, gp)
           t == TurnRow
           w == Modulus - 1 - x
           R == Three(gp, tp, rd)
           S == Slots3(3, 6, 7)
           c0 == <<>>
           i1 == sw(gp, -12, sp)
           c1 == c0 \o i1
           m1 == Run(m, c1)
           i2 == sw(rs1, -24, sp)
           c2 == c1 \o i2
           m2 == Run(m, c2)
           i3 == la(tp, t)
           c3 == c2 \o i3
           m3 == Run(m, c3)
           i4 == NotByte(3)
           c4 == c3 \o i4
           m4 == Run(m, c4)
           i5 == NotByte(2)
           c5 == c4 \o i5
           m5 == Run(m, c5)
           i6 == NotByte(1)
           c6 == c5 \o i6
           m6 == Run(m, c6)
           i7 == NotByte(0)
           c7 == c6 \o i7
           m7 == Run(m, c7)
           i8 == lw(gp, -12, sp)
           c8 == c7 \o i8
           m8 == Run(m, c8)
           i9 == lw(rd, -28, sp)
           c9 == c8 \o i9
           m9 == Run(m, c9)
<1>s. S \subseteq Ram
  <2>1. Slot(3) \subseteq Ram /\ Slot(6) \subseteq Ram /\ Slot(7) \subseteq Ram
    BY SlotRam
  <2> QED BY <2>1 DEF Slots3, Slots2
<1>a. Block(244, S) /\ Block(232, S) /\ 231 \in S /\ 230 \in S /\ 229 \in S /\ 228 \in S
  <2>1. 244 \in Slot(3) /\ 245 \in Slot(3) /\ 246 \in Slot(3) /\ 247 \in Slot(3) /\ 232 \in Slot(6)
        /\ 233 \in Slot(6) /\ 234 \in Slot(6) /\ 235 \in Slot(6) /\ 231 \in Slot(7) /\ 230 \in Slot(7)
        /\ 229 \in Slot(7) /\ 228 \in Slot(7)
    BY SlotRam
  <2> QED BY <2>1 DEF Block, Slots3, Slots2
<1>p. Spot(-12, 244) /\ Spot(-24, 232) /\ WordSpot(-12, 244) /\ WordSpot(-28, 228)
  BY Spots
<1>r. R \subseteq Regs \ {zero}
  BY RegNames DEF Three
<1>b. Ready(m) /\ sp \notin R /\ gp \in R /\ tp \in R /\ rd \in R /\ gp \in Regs /\ tp \in Regs /\ rd \in Regs
      /\ sp \in Regs /\ rs1 \in Regs /\ rd # sp
  BY RegNames DEF Three
<1>x. x \in Word /\ g \in Word
  BY RegWord, RegNames DEF Ready
<1>w. w \in Word /\ ByteOf(w, 0) = B - 1 - ByteOf(x, 0) /\ ByteOf(w, 1) = B - 1 - ByteOf(x, 1)
      /\ ByteOf(w, 2) = B - 1 - ByteOf(x, 2) /\ ByteOf(w, 3) = B - 1 - ByteOf(x, 3)
  BY <1>x, NotBytes
<1>t. Linked(t)
  <2>1. t \in Nat /\ t <= Sll8
    BY TablePlaces, WidthBounds, Layout, SMT DEF TurnRow
  <2> HIDE DEF t
  <2> QED BY <2>1, TablePlaces, TablesFit, WordNat DEF Linked
<1>c. Not(rd, rs1) = i1 \o i2 \o i3 \o i4 \o i5 \o i6 \o i7 \o i8 \o i9
  BY DEF TurnRow, Not, NotByte, Push, Pop, Var, VAR_C, VAR_D, t
<1> HIDE DEF R, S, c0, c1, c2, c3, c4, c5, c6, c7, c8, c9, m1, m2, m3, m4, m5, m6, m7, m8, m9, x, g, t, w
<1>d. i1 \in Code /\ c0 \o i1 = i1
  BY <1>b, RegNames, Coded, ConcatEmptySeq DEF Code, mv, li, c0
<1>0. Does(m, c0, m, R, S) /\ Reg(m, rs1) = x /\ Reg(m, gp) = g
  BY <1>s, <1>r, <1>b, DoesNothing DEF Ready, c0, x, g
<1>1. Does(m, c1, m1, R, S) /\ Reg(m1, rs1) = x /\ Holds(m1, 244, g)
  <2>1. Does(m, c1, m1, R, S) /\ Saves(m, m1, 244, Reg(m, gp))
    BY <1>0, <1>b, <1>a, <1>p, SwStack DEF c1, m1
  <2> QED BY <2>1, <1>0, <1>b DEF Saves, Holds
<1>2. Does(m, c2, m2, R, S) /\ Holds(m2, 232, x) /\ Holds(m2, 244, g)
  <2>1. Does(m, c2, m2, R, S) /\ Saves(m1, m2, 232, Reg(m1, rs1))
    BY <1>1, <1>b, <1>a, <1>p, SwStack DEF c2, m2
  <2> QED BY <2>1, <1>1, <1>b DEF Saves, Holds
<1>3. Does(m, c3, m3, R, S) /\ Reg(m3, tp) = t /\ Holds(m3, 232, x) /\ Holds(m3, 244, g)
  <2>1. Ready(m2) /\ Live(m2)
    BY <1>2, <1>b, StaysReady DEF Ready
  <2>2. Does(m2, i3, Run(m2, i3), One(tp), {}) /\ Reg(Run(m2, i3), tp) = t
    BY <2>1, <1>2, <1>b, <1>t, LaDoes
  <2> DEFINE R2 == One(tp)
             S2 == {}
  <2>3. R2 \subseteq R /\ S2 \subseteq S
    BY <1>b DEF One
  <2> HIDE DEF R2, S2
  <2>4. Does(m, c3, m3, R, S) /\ m3 = Run(m2, i3) /\ Keeps(m2, m3, R2, S2)
    BY <1>2, <2>2, <2>3, DoesNext DEF c3, m3, R2, S2
  <2> QED BY <2>2, <2>4, <1>2, <1>b DEF Keeps, Holds, R2, S2, One
<1>4. Does(m, c4, m4, R, S) /\ Reg(m4, tp) = t /\ Mem(m4, 231) = ByteOf(w, 3) /\ Mem(m4, 232) = ByteOf(x, 0)
      /\ Mem(m4, 233) = ByteOf(x, 1) /\ Mem(m4, 234) = ByteOf(x, 2) /\ Holds(m4, 244, g)
  <2>1. Ready(m3) /\ Live(m3)
    BY <1>3, <1>b, StaysReady DEF Ready
  <2>2. Does(m3, i4, Run(m3, i4), One(gp), One(231)) /\ Mem(Run(m3, i4), 231) = Turned(Mem(m3, 235))
    BY <2>1, <1>3, <1>b, Ats, NotByteDoes DEF t
  <2> DEFINE R2 == One(gp)
             S2 == One(231)
  <2>3. R2 \subseteq R /\ S2 \subseteq S
    BY <1>b, <1>a DEF One
  <2> HIDE DEF R2, S2
  <2>4. Does(m, c4, m4, R, S) /\ m4 = Run(m3, i4) /\ Keeps(m3, m4, R2, S2)
    BY <1>3, <2>2, <2>3, DoesNext DEF c4, m4, R2, S2
  <2>5. Turned(Mem(m3, 235)) = ByteOf(w, 3)
    BY <1>3, <1>w DEF Holds, Turned
  <2> QED BY <2>2, <2>4, <2>5, <1>3, <1>b DEF Keeps, Holds, R2, S2, One
<1>5. Does(m, c5, m5, R, S) /\ Reg(m5, tp) = t /\ Mem(m5, 230) = ByteOf(w, 2) /\ Mem(m5, 231) = ByteOf(w, 3)
      /\ Mem(m5, 232) = ByteOf(x, 0) /\ Mem(m5, 233) = ByteOf(x, 1) /\ Holds(m5, 244, g)
  <2>1. Ready(m4) /\ Live(m4)
    BY <1>4, <1>b, StaysReady DEF Ready
  <2>2. Does(m4, i5, Run(m4, i5), One(gp), One(230)) /\ Mem(Run(m4, i5), 230) = Turned(Mem(m4, 234))
    BY <2>1, <1>4, <1>b, Ats, NotByteDoes DEF t
  <2> DEFINE R2 == One(gp)
             S2 == One(230)
  <2>3. R2 \subseteq R /\ S2 \subseteq S
    BY <1>b, <1>a DEF One
  <2> HIDE DEF R2, S2
  <2>4. Does(m, c5, m5, R, S) /\ m5 = Run(m4, i5) /\ Keeps(m4, m5, R2, S2)
    BY <1>4, <2>2, <2>3, DoesNext DEF c5, m5, R2, S2
  <2>5. Turned(Mem(m4, 234)) = ByteOf(w, 2)
    BY <1>4, <1>w DEF Holds, Turned
  <2> QED BY <2>2, <2>4, <2>5, <1>4, <1>b DEF Keeps, Holds, R2, S2, One
<1>6. Does(m, c6, m6, R, S) /\ Reg(m6, tp) = t /\ Mem(m6, 229) = ByteOf(w, 1) /\ Mem(m6, 230) = ByteOf(w, 2)
      /\ Mem(m6, 231) = ByteOf(w, 3) /\ Mem(m6, 232) = ByteOf(x, 0) /\ Holds(m6, 244, g)
  <2>1. Ready(m5) /\ Live(m5)
    BY <1>5, <1>b, StaysReady DEF Ready
  <2>2. Does(m5, i6, Run(m5, i6), One(gp), One(229)) /\ Mem(Run(m5, i6), 229) = Turned(Mem(m5, 233))
    BY <2>1, <1>5, <1>b, Ats, NotByteDoes DEF t
  <2> DEFINE R2 == One(gp)
             S2 == One(229)
  <2>3. R2 \subseteq R /\ S2 \subseteq S
    BY <1>b, <1>a DEF One
  <2> HIDE DEF R2, S2
  <2>4. Does(m, c6, m6, R, S) /\ m6 = Run(m5, i6) /\ Keeps(m5, m6, R2, S2)
    BY <1>5, <2>2, <2>3, DoesNext DEF c6, m6, R2, S2
  <2>5. Turned(Mem(m5, 233)) = ByteOf(w, 1)
    BY <1>5, <1>w DEF Holds, Turned
  <2> QED BY <2>2, <2>4, <2>5, <1>5, <1>b DEF Keeps, Holds, R2, S2, One
<1>7. Does(m, c7, m7, R, S) /\ Holds(m7, 228, w) /\ Holds(m7, 244, g)
  <2>1. Ready(m6) /\ Live(m6)
    BY <1>6, <1>b, StaysReady DEF Ready
  <2>2. Does(m6, i7, Run(m6, i7), One(gp), One(228)) /\ Mem(Run(m6, i7), 228) = Turned(Mem(m6, 232))
    BY <2>1, <1>6, <1>b, Ats, NotByteDoes DEF t
  <2> DEFINE R2 == One(gp)
             S2 == One(228)
  <2>3. R2 \subseteq R /\ S2 \subseteq S
    BY <1>b, <1>a DEF One
  <2> HIDE DEF R2, S2
  <2>4. Does(m, c7, m7, R, S) /\ m7 = Run(m6, i7) /\ Keeps(m6, m7, R2, S2)
    BY <1>6, <2>2, <2>3, DoesNext DEF c7, m7, R2, S2
  <2>5. Turned(Mem(m6, 232)) = ByteOf(w, 0)
    BY <1>6, <1>w DEF Holds, Turned
  <2> QED BY <2>2, <2>4, <2>5, <1>6, <1>b DEF Keeps, Holds, R2, S2, One
<1>8. Does(m, c8, m8, R, S) /\ Reg(m8, gp) = g /\ Holds(m8, 228, w)
  <2>1. Does(m, c8, m8, R, S) /\ Sets(m7, m8, gp, g)
    BY <1>7, <1>b, <1>a, <1>p, LwBack, <1>x DEF c8, m8
  <2> QED BY <2>1, <1>7, <1>b DEF Sets, Holds
<1>9. Does(m, c9, m9, R, S) /\ (rd # gp => Reg(m9, gp) = g) /\ Reg(m9, rd) = w
  <2>1. Does(m, c9, m9, R, S) /\ Sets(m8, m9, rd, w)
    BY <1>8, <1>b, <1>a, <1>p, LwBack, <1>w DEF c9, m9
  <2> QED BY <2>1, <1>8, <1>b DEF Sets, Holds
<1>e. c9 = Not(rd, rs1)
  BY <1>c, <1>d DEF c1, c2, c3, c4, c5, c6, c7, c8, c9
<1> DEFINE Q == Two(rd, tp)
           T == Slots3(3, 6, 7)
<1>f. /\ Q \subseteq R /\ \A r : r \in R /\ r \notin Q => Reg(m9, r) = Reg(m, r)
      /\ T \subseteq S /\ \A a : a \in S /\ a \notin T => Mem(m9, a) = Mem(m, a)
  BY <1>9, <1>b DEF R, S, Three, Two, Slots3, Slots2, x, g
<1> HIDE DEF Q, T
<1>g. Does(m, c9, m9, Q, T)
  BY <1>9, <1>f, DoesRestores
<1> QED BY <1>9, <1>e, <1>g DEF m9, Q, T, w, x


\* x - y is x plus the inverse of y plus one.
LEMMA SubMod ==
  ASSUME NEW x, NEW y, x \in Word, y \in Word
  PROVE  Add(Add(x, Modulus - 1 - y), 1) = Sub(x, y)
<1> DEFINE z == x + (Modulus - 1 - y)
           u == z + 1
           v == x - y
<1>1. z \in Int /\ u \in Int /\ v \in Int /\ 1 \in Int /\ u = Modulus * 1 + v
  BY WordNat DEF Word
<1>2. Add(x, Modulus - 1 - y) = z % Modulus /\ Sub(x, y) = v % Modulus
  BY DEF Add, Sub
<1> HIDE DEF z, u, v
<1>3. Add(z % Modulus, 1) = (z + 1) % Modulus
  BY <1>1, ModSum
<1>4. u % Modulus = v % Modulus
  BY <1>1, ModSame
<1> QED BY <1>2, <1>3, <1>4 DEF u

\* The difference of two registers; rd may be the stack pointer.
LEMMA SubDoes ==
  ASSUME NEW m, NEW rd, NEW rs1, NEW rs2,
         Ready(m),
         rd \in Regs \ {zero},
         rs1 \in Regs \ {tp},
         rs2 \in Regs
  PROVE  /\ Does(m, sub(rd, rs1, rs2), Run(m, sub(rd, rs1, rs2)), Two(rd, tp), Slots3(3, 6, 7))
         /\ Reg(Run(m, sub(rd, rs1, rs2)), rd) = Sub(Reg(m, rs1), Reg(m, rs2))
<1> DEFINE x == Reg(m, rs1)
           y == Reg(m, rs2)
           w == Modulus - 1 - y
           R == Two(rd, tp)
           S == Slots3(3, 6, 7)
           c0 == <<>>
           i1 == Not(tp, rs2)
           c1 == c0 \o i1
           m1 == Run(m, c1)
           i2 == add(rd, rs1, tp)
           c2 == c1 \o i2
           m2 == Run(m, c2)
           n3 == 1
           i3 == addi(rd, rd, n3)
           c3 == c2 \o i3
           m3 == Run(m, c3)
<1>s. S \subseteq Ram
  <2>1. Slot(3) \subseteq Ram /\ Slot(6) \subseteq Ram /\ Slot(7) \subseteq Ram
    BY SlotRam
  <2> QED BY <2>1 DEF Slots3, Slots2
<1>r. R \subseteq Regs \ {zero}
  BY RegNames DEF Two
<1>b. Ready(m) /\ rd \in R /\ tp \in R /\ rd \in Regs /\ tp \in Regs /\ rs1 \in Regs /\ rs2 \in Regs
      /\ tp # sp /\ rs1 # tp /\ tp # zero /\ n3 \in Int
  BY RegNames DEF Two
<1>x. x \in Word /\ y \in Word
  BY RegWord DEF Ready
<1>c. sub(rd, rs1, rs2) = i1 \o i2 \o i3
  BY DEF sub
<1> HIDE DEF R, S, c0, c1, c2, c3, m1, m2, m3, n3, x, y, w
<1>0. Does(m, c0, m, R, S) /\ Reg(m, rs1) = x /\ Reg(m, rs2) = y
  BY <1>s, <1>r, <1>b, DoesNothing DEF Ready, c0, x, y
<1>1. Does(m, c1, m1, R, S) /\ Reg(m1, rs1) = x /\ Reg(m1, tp) = w
  <2>1. Ready(m) /\ Live(m)
    BY <1>b DEF Ready
  <2>2. Does(m, i1, Run(m, i1), Two(tp, tp), Slots3(3, 6, 7))
        /\ Reg(Run(m, i1), tp) = Modulus - 1 - Reg(m, rs2)
    BY <2>1, <1>0, <1>b, NotDoes
  <2> DEFINE R2 == Two(tp, tp)
             S2 == Slots3(3, 6, 7)
  <2>3. R2 \subseteq R /\ S2 \subseteq S
    BY <1>b DEF Two, S, Slots3, Slots2
  <2> HIDE DEF R2, S2
  <2>4. Does(m, c1, m1, R, S) /\ m1 = Run(m, i1) /\ Keeps(m, m1, R2, S2)
    BY <1>0, <2>2, <2>3, DoesNext DEF c1, m1, R2, S2
  <2>5. Modulus - 1 - Reg(m, rs2) = w
    BY <1>0 DEF w
  <2> QED BY <2>2, <2>4, <2>5, <1>0, <1>b DEF Keeps, Holds, R2, S2, Two, Slots3, Slots2, Slot
<1>d. i1 \in Code /\ c0 \o i1 = i1
  <2>1. Ready(m) /\ Live(m)
    BY <1>b DEF Ready
  <2>2. Does(m, i1, Run(m, i1), Two(tp, tp), Slots3(3, 6, 7))
    BY <2>1, <1>b, NotDoes
  <2>3. i1 \in Code
    BY <2>2 DEF Does
  <2> QED BY <2>3, ConcatEmptySeq DEF Code, c0
<1>2. Does(m, c2, m2, R, S) /\ Reg(m2, rd) = Add(x, w)
  <2>1. Does(m, c2, m2, R, S) /\ Sets(m1, m2, rd, Add(Reg(m1, rs1), Reg(m1, tp)))
    BY <1>1, <1>b, AddRuns DEF c2, m2
  <2>2. Add(Reg(m1, rs1), Reg(m1, tp)) = Add(x, w)
    BY <1>1
  <2> QED BY <2>1, <2>2, <1>1, <1>b DEF Sets, Holds
<1>3. Does(m, c3, m3, R, S) /\ Reg(m3, rd) = Sub(x, y)
  <2>1. Does(m, c3, m3, R, S) /\ Sets(m2, m3, rd, Add(Reg(m2, rd), n3))
    BY <1>2, <1>b, AddiRuns DEF c3, m3
  <2>2. Add(Reg(m2, rd), n3) = Sub(x, y)
    BY <1>2, <1>x, SubMod DEF w, n3
  <2> QED BY <2>1, <2>2, <1>2, <1>b DEF Sets, Holds
<1>e. c3 = sub(rd, rs1, rs2)
  BY <1>c, <1>d DEF c1, c2, c3
<1> QED BY <1>3, <1>e DEF m3, R, S, x, y

-----------------------------------------------------------------------------
(* 13. slt, sltu and seqz *)

\* The stack variables are scratch.
LEMMA ScratchPlaces ==
  /\ Block(228, Scratch) /\ Block(232, Scratch) /\ Block(236, Scratch) /\ Block(240, Scratch)
  /\ Block(244, Scratch) /\ Block(248, Scratch) /\ Block(252, Scratch)
  /\ 228 \in Scratch /\ 229 \in Scratch /\ 230 \in Scratch /\ 231 \in Scratch
  /\ 232 \in Scratch /\ 233 \in Scratch /\ 234 \in Scratch /\ 235 \in Scratch
  /\ 236 \in Scratch /\ 237 \in Scratch /\ 238 \in Scratch /\ 239 \in Scratch
  /\ 240 \in Scratch /\ 241 \in Scratch /\ 242 \in Scratch /\ 243 \in Scratch
  /\ Slot(4) \subseteq Scratch /\ Slot(6) \subseteq Scratch
  /\ Slots2(4, 6) \subseteq Scratch /\ Slots3(3, 6, 7) \subseteq Scratch
<1> DEFINE Array == SameArray .. SameArray + B - 1
<1> HIDE DEF Array
<1>1. Scratch = (228 .. 255) \cup Array
  BY DEF Scratch, StackTop, Array
<1>2. \A n : n \in Nat /\ n >= 1 /\ n <= 7 => Slot(n) \subseteq 228 .. 255
  BY DEF Slot, StackTop
<1>3. /\ Slot(3) \subseteq Scratch /\ Slot(4) \subseteq Scratch /\ Slot(6) \subseteq Scratch
      /\ Slot(7) \subseteq Scratch
  BY <1>1, <1>2
<1>4. Slots2(4, 6) \subseteq Scratch /\ Slots3(3, 6, 7) \subseteq Scratch
  BY <1>3 DEF Slots2, Slots3
<1>5. \A a : a \in Int /\ a >= 228 /\ a <= 255 => a \in Scratch
  BY <1>1
<1> QED BY <1>3, <1>4, <1>5 DEF Block

\* The index of the comparison tables: the signs of the operands and of their difference.
Index(x, y) == 4 * Sign(x) + 2 * Sign(y) + Sign(Sub(x, y))

Picks(lut, x, y) == lut + Index(x, y) \in Tables

\* A difference is a word.
LEMMA SubWord == ASSUME NEW x, NEW y, x \in Word, y \in Word PROVE Sub(x, y) \in Word
<1> DEFINE d == x - y
<1>1. d \in Int
  BY WordNat DEF Word
<1> HIDE DEF d
<1>2. d % Modulus \in Word
  BY <1>1, ModWord
<1> QED BY <1>2 DEF Sub, d

\* A sign is 0 or 1.
LEMMA SignBit == ASSUME NEW x PROVE Sign(x) \in Int /\ Sign(x) >= 0 /\ Sign(x) <= 1
BY DEF Sign

\* Shifting a small number by one doubles it.
LEMMA Doubled ==
  ASSUME NEW v, v \in Nat, v < 8
  PROVE  Shl(v, 1) = 2 * v
<1> DEFINE w == v * 2
<1>1. Pow2[1] = 2
  BY Pow2Def
<1>2. Shl(v, 1) = w % Modulus
  BY <1>1, ShlMod
<1>3. w \in Nat /\ w < 16 /\ w = 2 * v
  OBVIOUS
<1> HIDE DEF w
<1>4. w \in Word
  BY <1>3, WidthBounds DEF Word
<1> QED BY <1>2, <1>3, <1>4, SmallWord

\* What slt and sltu share: the table entry for the signs.
LEMMA TemplateDoes ==
  ASSUME NEW m, NEW lut, NEW rd, NEW rs1, NEW rs2,
         Ready(m),
         rd \in Regs \ {zero, sp},
         rs1 \in Regs,
         rs2 \in Regs,
         Linked(lut),
         Picks(lut, Reg(m, rs1), Reg(m, rs2))
  PROVE  /\ Does(m, slt_template(lut, rd, rs1, rs2), Run(m, slt_template(lut, rd, rs1, rs2)),
                 Three(rd, gp, tp), Scratch)
         /\ Reg(Run(m, slt_template(lut, rd, rs1, rs2)), rd) = Ro(lut + Index(Reg(m, rs1), Reg(m, rs2)))
<1> DEFINE x == Reg(m, rs1)
           y == Reg(m, rs2)
           u == Reg(m, s0)
           v == Reg(m, s1)
           d == Sub(x, y)
           sx == Sign(x)
           sy == Sign(y)
           sd == Sign(d)
           a2 == 2 * sx
           h == a2 + sy
           h2 == 2 * h
           k == h2 + sd
           e == lut + k
           R == Five(s0, s1, gp, tp, rd)
           S == Scratch
           c0 == <<>>
           i1 == sw(s0, -4, sp)
           c1 == c0 \o i1
           m1 == Run(m, c1)
           i2 == sw(s1, -8, sp)
           c2 == c1 \o i2
           m2 == Run(m, c2)
           i3 == sw(rs2, -16, sp)
           c3 == c2 \o i3
           m3 == Run(m, c3)
           i4 == mv(s0, rs1)
           c4 == c3 \o i4
           m4 == Run(m, c4)
           i5 == lw(s1, -16, sp)
           c5 == c4 \o i5
           m5 == Run(m, c5)
           i6 == msb(gp, s0)
           c6 == c5 \o i6
           m6 == Run(m, c6)
           i7 == slli(gp, gp, 1)
           c7 == c6 \o i7
           m7 == Run(m, c7)
           i8 == msb(tp, s1)
           c8 == c7 \o i8
           m8 == Run(m, c8)
           i9 == add(gp, gp, tp)
           c9 == c8 \o i9
           m9 == Run(m, c9)
           i10 == slli(gp, gp, 1)
           c10 == c9 \o i10
           m10 == Run(m, c10)
           i11 == sub(tp, s0, s1)
           c11 == c10 \o i11
           m11 == Run(m, c11)
           i12 == msb(tp, tp)
           c12 == c11 \o i12
           m12 == Run(m, c12)
           i13 == add(gp, gp, tp)
           c13 == c12 \o i13
           m13 == Run(m, c13)
           i14 == la(tp, lut)
           c14 == c13 \o i14
           m14 == Run(m, c14)
           i15 == add(tp, tp, gp)
           c15 == c14 \o i15
           m15 == Run(m, c15)
           i16 == lw(s1, -8, sp)
           c16 == c15 \o i16
           m16 == Run(m, c16)
           i17 == lw(s0, -4, sp)
           c17 == c16 \o i17
           m17 == Run(m, c17)
           i18 == lbu(rd, 0, tp)
           c18 == c17 \o i18
           m18 == Run(m, c18)
<1>s. S \subseteq Ram
  BY DEF Ram
<1>a. Block(252, S) /\ Block(248, S) /\ Block(240, S) /\ Slot(6) \subseteq S /\ Slots2(4, 6) \subseteq S
      /\ Slots3(3, 6, 7) \subseteq S
  BY ScratchPlaces
<1>p. Spot(-4, 252) /\ Spot(-8, 248) /\ Spot(-16, 240) /\ WordSpot(-16, 240) /\ WordSpot(-8, 248)
      /\ WordSpot(-4, 252)
  BY Spots
<1>r. R \subseteq Regs \ {zero}
  BY RegNames DEF Five
<1>b. Ready(m) /\ sp \notin R /\ s0 \in R /\ s1 \in R /\ gp \in R /\ tp \in R /\ rd \in R /\ s0 \in Regs
      /\ s1 \in Regs /\ gp \in Regs /\ tp \in Regs /\ rd \in Regs /\ sp \in Regs /\ rs1 \in Regs
      /\ rs2 \in Regs
  BY RegNames DEF Five
<1>x. x \in Word /\ y \in Word /\ u \in Word /\ v \in Word
  BY RegWord, RegNames DEF Ready
<1>y. d \in Word
  BY <1>x, SubWord
<1>k. /\ sx \in Int /\ sx >= 0 /\ sx <= 1 /\ sy \in Int /\ sy >= 0 /\ sy <= 1 /\ sd \in Int /\ sd >= 0 /\ sd <= 1
      /\ Index(x, y) = k
  <2>1. Index(x, y) = 4 * sx + 2 * sy + sd
    BY DEF Index
  <2>2. /\ sx \in Int /\ sx >= 0 /\ sx <= 1 /\ sy \in Int /\ sy >= 0 /\ sy <= 1
        /\ sd \in Int /\ sd >= 0 /\ sd <= 1
    BY SignBit
  <2> HIDE DEF sx, sy, sd
  <2> QED BY <2>1, <2>2
<1> HIDE DEF x, y, u, v, d, sx, sy, sd
<1>k2. /\ Shl(sx, 1) = a2 /\ Shl(h, 1) = h2 /\ Add(a2, sy) = h /\ Add(h2, sd) = k /\ k \in Int /\ k >= 0 /\ k < 8
  <2>1. a2 \in Nat /\ h \in Nat /\ h < 8 /\ h2 \in Nat /\ k \in Nat /\ k < 8 /\ h < Modulus /\ k < Modulus
    BY <1>k, WidthBounds
  <2>2. Shl(sx, 1) = a2
    BY <1>k, Doubled
  <2>3. Add(a2, sy) = a2 + sy
    BY <1>k, <2>1, AddSmall
  <2>4. Shl(h, 1) = h2
    BY <2>1, Doubled
  <2>5. Add(h2, sd) = h2 + sd
    BY <1>k, <2>1, AddSmall
  <2> QED BY <2>1, <2>2, <2>3, <2>4, <2>5
<1>z. e \in Tables /\ Add(lut, k) = e
  <2>1. e \in Tables
    BY <1>k DEF Picks, x, y
  <2> HIDE DEF k
  <2>2. lut \in Int /\ lut >= 0 /\ lut + 4096 <= Modulus /\ Modulus \in Nat
    BY WidthBounds DEF Linked
  <2>3. Add(lut, k) = e
    BY <1>k2, <2>2, AddSmall
  <2> QED BY <2>1, <2>3
<1>c. slt_template(lut, rd, rs1, rs2)
        = i1 \o i2 \o i3 \o i4 \o i5 \o i6 \o i7 \o i8 \o i9 \o i10 \o i11 \o i12 \o i13 \o i14 \o i15
          \o i16 \o i17 \o i18
  BY DEF slt_template, Push, Pop, Var, VAR_A
<1> HIDE DEF R, S, c0, c1, c2, c3, c4, c5, c6, c7, c8, c9, c10, c11, c12, c13, c14, c15, c16, c17, c18, m1,
        m2, m3, m4, m5, m6, m7, m8, m9, m10, m11, m12, m13, m14, m15, m16, m17, m18, x, y, u, v, a2, h, h2,
        k, e
<1>d. i1 \in Code /\ c0 \o i1 = i1
  BY <1>b, RegNames, Coded, ConcatEmptySeq DEF Code, mv, li, c0
<1>0. Does(m, c0, m, R, S) /\ Reg(m, rs1) = x /\ Reg(m, rs2) = y /\ Reg(m, s0) = u /\ Reg(m, s1) = v
  BY <1>s, <1>r, <1>b, DoesNothing DEF Ready, c0, x, y, u, v
<1>1. Does(m, c1, m1, R, S) /\ Reg(m1, rs1) = x /\ Reg(m1, rs2) = y /\ Reg(m1, s1) = v /\ Holds(m1, 252, u)
  <2>1. Does(m, c1, m1, R, S) /\ Saves(m, m1, 252, Reg(m, s0))
    BY <1>0, <1>b, <1>a, <1>p, SwStack DEF c1, m1
  <2> QED BY <2>1, <1>0, <1>b DEF Saves, Holds
<1>2. Does(m, c2, m2, R, S) /\ Reg(m2, rs1) = x /\ Reg(m2, rs2) = y /\ Holds(m2, 248, v) /\ Holds(m2, 252, u)
  <2>1. Does(m, c2, m2, R, S) /\ Saves(m1, m2, 248, Reg(m1, s1))
    BY <1>1, <1>b, <1>a, <1>p, SwStack DEF c2, m2
  <2> QED BY <2>1, <1>1, <1>b DEF Saves, Holds
<1>3. Does(m, c3, m3, R, S) /\ Reg(m3, rs1) = x /\ Holds(m3, 240, y) /\ Holds(m3, 248, v) /\ Holds(m3, 252, u)
  <2>1. Does(m, c3, m3, R, S) /\ Saves(m2, m3, 240, Reg(m2, rs2))
    BY <1>2, <1>b, <1>a, <1>p, SwStack DEF c3, m3
  <2> QED BY <2>1, <1>2, <1>b DEF Saves, Holds
<1>4. Does(m, c4, m4, R, S) /\ Reg(m4, s0) = x /\ Holds(m4, 240, y) /\ Holds(m4, 248, v) /\ Holds(m4, 252, u)
  <2>1. Does(m, c4, m4, R, S) /\ Sets(m3, m4, s0, Reg(m3, rs1))
    BY <1>3, <1>b, <1>a, <1>p, MvRuns DEF c4, m4
  <2> QED BY <2>1, <1>3, <1>b DEF Sets, Holds
<1>5. Does(m, c5, m5, R, S) /\ Reg(m5, s0) = x /\ Reg(m5, s1) = y /\ Holds(m5, 248, v) /\ Holds(m5, 252, u)
  <2>1. Does(m, c5, m5, R, S) /\ Sets(m4, m5, s1, y)
    BY <1>4, <1>b, <1>a, <1>p, LwBack, <1>x DEF c5, m5
  <2> QED BY <2>1, <1>4, <1>b DEF Sets, Holds
<1>6. Does(m, c6, m6, R, S) /\ Reg(m6, s0) = x /\ Reg(m6, s1) = y /\ Reg(m6, gp) = sx /\ Holds(m6, 248, v)
      /\ Holds(m6, 252, u)
  <2>1. Ready(m5) /\ Live(m5)
    BY <1>5, <1>b, StaysReady DEF Ready
  <2>2. Does(m5, i6, Run(m5, i6), One(gp), Slot(6)) /\ Reg(Run(m5, i6), gp) = Sign(Reg(m5, s0))
    BY <2>1, <1>5, <1>b, MsbDoes
  <2> DEFINE R2 == One(gp)
             S2 == Slot(6)
  <2>3. R2 \subseteq R /\ S2 \subseteq S
    BY <1>b, <1>a DEF One
  <2> HIDE DEF R2, S2
  <2>4. Does(m, c6, m6, R, S) /\ m6 = Run(m5, i6) /\ Keeps(m5, m6, R2, S2)
    BY <1>5, <2>2, <2>3, DoesNext DEF c6, m6, R2, S2
  <2>5. Sign(Reg(m5, s0)) = sx
    BY <1>5 DEF sx
  <2> QED BY <2>2, <2>4, <2>5, <1>5, <1>b DEF Keeps, Holds, R2, S2, One, Slot
<1>7. Does(m, c7, m7, R, S) /\ Reg(m7, s0) = x /\ Reg(m7, s1) = y /\ Reg(m7, gp) = a2 /\ Holds(m7, 248, v)
      /\ Holds(m7, 252, u)
  <2>1. Ready(m6) /\ Live(m6)
    BY <1>6, <1>b, StaysReady DEF Ready
  <2>2. Does(m6, i7, Run(m6, i7), Two(gp, tp), Slots2(4, 6)) /\ Reg(Run(m6, i7), gp) = Shl(Reg(m6, gp), 1)
    BY <2>1, <1>6, <1>b, SlliDoes
  <2> DEFINE R2 == Two(gp, tp)
             S2 == Slots2(4, 6)
  <2>3. R2 \subseteq R /\ S2 \subseteq S
    BY <1>b, <1>a DEF Two
  <2> HIDE DEF R2, S2
  <2>4. Does(m, c7, m7, R, S) /\ m7 = Run(m6, i7) /\ Keeps(m6, m7, R2, S2)
    BY <1>6, <2>2, <2>3, DoesNext DEF c7, m7, R2, S2
  <2>5. Shl(Reg(m6, gp), 1) = a2
    BY <1>6, <1>k2
  <2> QED BY <2>2, <2>4, <2>5, <1>6, <1>b DEF Keeps, Holds, R2, S2, Two, Slots2, Slot
<1>8. Does(m, c8, m8, R, S) /\ Reg(m8, s0) = x /\ Reg(m8, s1) = y /\ Reg(m8, gp) = a2 /\ Reg(m8, tp) = sy
      /\ Holds(m8, 248, v) /\ Holds(m8, 252, u)
  <2>1. Ready(m7) /\ Live(m7)
    BY <1>7, <1>b, StaysReady DEF Ready
  <2>2. Does(m7, i8, Run(m7, i8), One(tp), Slot(6)) /\ Reg(Run(m7, i8), tp) = Sign(Reg(m7, s1))
    BY <2>1, <1>7, <1>b, MsbDoes
  <2> DEFINE R2 == One(tp)
             S2 == Slot(6)
  <2>3. R2 \subseteq R /\ S2 \subseteq S
    BY <1>b, <1>a DEF One
  <2> HIDE DEF R2, S2
  <2>4. Does(m, c8, m8, R, S) /\ m8 = Run(m7, i8) /\ Keeps(m7, m8, R2, S2)
    BY <1>7, <2>2, <2>3, DoesNext DEF c8, m8, R2, S2
  <2>5. Sign(Reg(m7, s1)) = sy
    BY <1>7 DEF sy
  <2> QED BY <2>2, <2>4, <2>5, <1>7, <1>b DEF Keeps, Holds, R2, S2, One, Slot
<1>9. Does(m, c9, m9, R, S) /\ Reg(m9, s0) = x /\ Reg(m9, s1) = y /\ Reg(m9, gp) = h /\ Holds(m9, 248, v)
      /\ Holds(m9, 252, u)
  <2>1. Does(m, c9, m9, R, S) /\ Sets(m8, m9, gp, Add(Reg(m8, gp), Reg(m8, tp)))
    BY <1>8, <1>b, <1>a, <1>p, AddRuns DEF c9, m9
  <2>2. Add(Reg(m8, gp), Reg(m8, tp)) = h
    BY <1>8, <1>k2
  <2> QED BY <2>1, <2>2, <1>8, <1>b DEF Sets, Holds
<1>10. Does(m, c10, m10, R, S) /\ Reg(m10, s0) = x /\ Reg(m10, s1) = y /\ Reg(m10, gp) = h2
      /\ Holds(m10, 248, v) /\ Holds(m10, 252, u)
  <2>1. Ready(m9) /\ Live(m9)
    BY <1>9, <1>b, StaysReady DEF Ready
  <2>2. Does(m9, i10, Run(m9, i10), Two(gp, tp), Slots2(4, 6)) /\ Reg(Run(m9, i10), gp) = Shl(Reg(m9, gp), 1)
    BY <2>1, <1>9, <1>b, SlliDoes
  <2> DEFINE R2 == Two(gp, tp)
             S2 == Slots2(4, 6)
  <2>3. R2 \subseteq R /\ S2 \subseteq S
    BY <1>b, <1>a DEF Two
  <2> HIDE DEF R2, S2
  <2>4. Does(m, c10, m10, R, S) /\ m10 = Run(m9, i10) /\ Keeps(m9, m10, R2, S2)
    BY <1>9, <2>2, <2>3, DoesNext DEF c10, m10, R2, S2
  <2>5. Shl(Reg(m9, gp), 1) = h2
    BY <1>9, <1>k2
  <2> QED BY <2>2, <2>4, <2>5, <1>9, <1>b DEF Keeps, Holds, R2, S2, Two, Slots2, Slot
<1>11. Does(m, c11, m11, R, S) /\ Reg(m11, gp) = h2 /\ Reg(m11, tp) = d /\ Holds(m11, 248, v)
      /\ Holds(m11, 252, u)
  <2>1. Ready(m10) /\ Live(m10)
    BY <1>10, <1>b, StaysReady DEF Ready
  <2>2. Does(m10, i11, Run(m10, i11), Two(tp, tp), Slots3(3, 6, 7))
        /\ Reg(Run(m10, i11), tp) = Sub(Reg(m10, s0), Reg(m10, s1))
    BY <2>1, <1>10, <1>b, SubDoes
  <2> DEFINE R2 == Two(tp, tp)
             S2 == Slots3(3, 6, 7)
  <2>3. R2 \subseteq R /\ S2 \subseteq S
    BY <1>b, <1>a DEF Two
  <2> HIDE DEF R2, S2
  <2>4. Does(m, c11, m11, R, S) /\ m11 = Run(m10, i11) /\ Keeps(m10, m11, R2, S2)
    BY <1>10, <2>2, <2>3, DoesNext DEF c11, m11, R2, S2
  <2>5. Sub(Reg(m10, s0), Reg(m10, s1)) = d
    BY <1>10 DEF d
  <2> QED BY <2>2, <2>4, <2>5, <1>10, <1>b DEF Keeps, Holds, R2, S2, Two, Slots3, Slots2, Slot
<1>12. Does(m, c12, m12, R, S) /\ Reg(m12, gp) = h2 /\ Reg(m12, tp) = sd /\ Holds(m12, 248, v)
      /\ Holds(m12, 252, u)
  <2>1. Ready(m11) /\ Live(m11)
    BY <1>11, <1>b, StaysReady DEF Ready
  <2>2. Does(m11, i12, Run(m11, i12), One(tp), Slot(6)) /\ Reg(Run(m11, i12), tp) = Sign(Reg(m11, tp))
    BY <2>1, <1>11, <1>b, MsbDoes
  <2> DEFINE R2 == One(tp)
             S2 == Slot(6)
  <2>3. R2 \subseteq R /\ S2 \subseteq S
    BY <1>b, <1>a DEF One
  <2> HIDE DEF R2, S2
  <2>4. Does(m, c12, m12, R, S) /\ m12 = Run(m11, i12) /\ Keeps(m11, m12, R2, S2)
    BY <1>11, <2>2, <2>3, DoesNext DEF c12, m12, R2, S2
  <2>5. Sign(Reg(m11, tp)) = sd
    BY <1>11 DEF sd
  <2> QED BY <2>2, <2>4, <2>5, <1>11, <1>b DEF Keeps, Holds, R2, S2, One, Slot
<1>13. Does(m, c13, m13, R, S) /\ Reg(m13, gp) = k /\ Holds(m13, 248, v) /\ Holds(m13, 252, u)
  <2>1. Does(m, c13, m13, R, S) /\ Sets(m12, m13, gp, Add(Reg(m12, gp), Reg(m12, tp)))
    BY <1>12, <1>b, <1>a, <1>p, AddRuns DEF c13, m13
  <2>2. Add(Reg(m12, gp), Reg(m12, tp)) = k
    BY <1>12, <1>k2
  <2> QED BY <2>1, <2>2, <1>12, <1>b DEF Sets, Holds
<1>14. Does(m, c14, m14, R, S) /\ Reg(m14, gp) = k /\ Reg(m14, tp) = lut /\ Holds(m14, 248, v)
      /\ Holds(m14, 252, u)
  <2>1. Ready(m13) /\ Live(m13)
    BY <1>13, <1>b, StaysReady DEF Ready
  <2>2. Does(m13, i14, Run(m13, i14), One(tp), {}) /\ Reg(Run(m13, i14), tp) = lut
    BY <2>1, <1>13, <1>b, LaDoes
  <2> DEFINE R2 == One(tp)
             S2 == {}
  <2>3. R2 \subseteq R /\ S2 \subseteq S
    BY <1>b DEF One
  <2> HIDE DEF R2, S2
  <2>4. Does(m, c14, m14, R, S) /\ m14 = Run(m13, i14) /\ Keeps(m13, m14, R2, S2)
    BY <1>13, <2>2, <2>3, DoesNext DEF c14, m14, R2, S2
  <2> QED BY <2>2, <2>4, <1>13, <1>b DEF Keeps, Holds, R2, S2, One
<1>15. Does(m, c15, m15, R, S) /\ Reg(m15, tp) = e /\ Holds(m15, 248, v) /\ Holds(m15, 252, u)
  <2>1. Does(m, c15, m15, R, S) /\ Sets(m14, m15, tp, Add(Reg(m14, tp), Reg(m14, gp)))
    BY <1>14, <1>b, <1>a, <1>p, AddRuns DEF c15, m15
  <2>2. Add(Reg(m14, tp), Reg(m14, gp)) = e
    BY <1>14, <1>z
  <2> QED BY <2>1, <2>2, <1>14, <1>b DEF Sets, Holds
<1>16. Does(m, c16, m16, R, S) /\ Reg(m16, tp) = e /\ Reg(m16, s1) = v /\ Holds(m16, 252, u)
  <2>1. Does(m, c16, m16, R, S) /\ Sets(m15, m16, s1, v)
    BY <1>15, <1>b, <1>a, <1>p, LwBack, <1>x DEF c16, m16
  <2> QED BY <2>1, <1>15, <1>b DEF Sets, Holds
<1>17. Does(m, c17, m17, R, S) /\ Reg(m17, tp) = e /\ Reg(m17, s1) = v /\ Reg(m17, s0) = u
  <2>1. Does(m, c17, m17, R, S) /\ Sets(m16, m17, s0, u)
    BY <1>16, <1>b, <1>a, <1>p, LwBack, <1>x DEF c17, m17
  <2> QED BY <2>1, <1>16, <1>b DEF Sets, Holds
<1>18. Does(m, c18, m18, R, S) /\ (rd # s1 => Reg(m18, s1) = v) /\ (rd # s0 => Reg(m18, s0) = u)
      /\ Reg(m18, rd) = Ro(e)
  <2>1. Does(m, c18, m18, R, S) /\ Sets(m17, m18, rd, Ro(e))
    BY <1>17, <1>b, <1>a, <1>p, TableLbu, <1>z DEF c18, m18
  <2> QED BY <2>1, <1>17, <1>b DEF Sets, Holds
<1>e. c18 = slt_template(lut, rd, rs1, rs2)
  BY <1>c, <1>d DEF c1, c2, c3, c4, c5, c6, c7, c8, c9, c10, c11, c12, c13, c14, c15, c16, c17, c18
<1> DEFINE Q == Three(rd, gp, tp)
           T == Scratch
<1>f. /\ Q \subseteq R /\ \A r : r \in R /\ r \notin Q => Reg(m18, r) = Reg(m, r)
      /\ T \subseteq S /\ \A a : a \in S /\ a \notin T => Mem(m18, a) = Mem(m, a)
  BY <1>18, <1>b DEF R, S, Five, Three, x, y, u, v
<1> HIDE DEF Q, T
<1>g. Does(m, c18, m18, Q, T)
  BY <1>18, <1>f, DoesRestores
<1> QED BY <1>18, <1>e, <1>g, <1>k DEF m18, Q, T, e, x, y

\* What slt and sltu leave in rd.
Less(x, y)         == IF Signed(x) < Signed(y) THEN 1 ELSE 0
LessUnsigned(x, y) == IF x < y THEN 1 ELSE 0

\* The index of slt_template, made of two signs and the sign of the difference, picks the entry that says which is less.
LEMMA IndexMeans ==
  ASSUME NEW x, NEW y, x \in Word, y \in Word
  PROVE  /\ Picks(Slt1, x, y) /\ Ro(Slt1 + Index(x, y)) = Less(x, y)
         /\ Picks(Sltu1, x, y) /\ Ro(Sltu1 + Index(x, y)) = LessUnsigned(x, y)
<1> DEFINE H == Modulus \div 2
           a == Sign(x)
           b == Sign(y)
           c == Sign(Sub(x, y))
           k == 4 * a + 2 * b + c
<1>1. x \in Int /\ y \in Int /\ x >= 0 /\ y >= 0 /\ x < Modulus /\ y < Modulus
  BY WordNat DEF Word
<1>2. Modulus \in Int /\ H \in Int /\ Modulus = 2 * H
  <2> DEFINE B3 == B * B * B
             h == B \div 2
  <2>1. B3 \in Int /\ Modulus = B * B3
    BY Sizes
  <2>2. B \in Int /\ h \in Int /\ B = 2 * h
    BY Widths
  <2> HIDE DEF B3, h
  <2>3. h * B3 \in Int /\ B * B3 = 2 * (h * B3)
    BY <2>1, <2>2
  <2> HIDE DEF H
  <2>4. Modulus \in Int /\ Modulus = 2 * (h * B3)
    BY <2>1, <2>3
  <2> QED BY <2>3, <2>4 DEF H
<1> HIDE DEF H
<1>3. Sub(x, y) = IF x >= y THEN x - y ELSE x - y + Modulus
  <2> DEFINE d == x - y
  <2>1. d \in Int /\ d > - Modulus /\ d < Modulus /\ (d >= 0 <=> x >= y)
    BY <1>1, <1>2
  <2> HIDE DEF d
  <2>2. d % Modulus = IF d >= 0 THEN d ELSE d + Modulus
    BY <1>2, <2>1
  <2> QED BY <2>1, <2>2 DEF Sub, d
<1>4. /\ a = IF x >= H THEN 1 ELSE 0
      /\ b = IF y >= H THEN 1 ELSE 0
      /\ c = IF Sub(x, y) >= H THEN 1 ELSE 0
      /\ Signed(x) = IF x >= H THEN x - Modulus ELSE x
      /\ Signed(y) = IF y >= H THEN y - Modulus ELSE y
  BY DEF Sign, Signed, H
<1>5. Index(x, y) = k
  BY DEF Index
<1> HIDE DEF a, b, c
<1>6. /\ Less(x, y) = IF k = 1 \/ k = 4 \/ k = 5 \/ k = 7 THEN 1 ELSE 0
      /\ LessUnsigned(x, y) = IF k = 1 \/ k = 2 \/ k = 3 \/ k = 7 THEN 1 ELSE 0
      /\ k \in Nat /\ k < 8
  <2>1. CASE x >= H /\ y >= H
    BY <1>1, <1>2, <1>3, <1>4, <2>1, SMT DEF Less, LessUnsigned
  <2>2. CASE x >= H /\ ~ (y >= H)
    BY <1>1, <1>2, <1>3, <1>4, <2>2, SMT DEF Less, LessUnsigned
  <2>3. CASE ~ (x >= H) /\ y >= H
    BY <1>1, <1>2, <1>3, <1>4, <2>3, SMT DEF Less, LessUnsigned
  <2>4. CASE ~ (x >= H) /\ ~ (y >= H)
    BY <1>1, <1>2, <1>3, <1>4, <2>4, SMT DEF Less, LessUnsigned
  <2> QED BY <2>1, <2>2, <2>3, <2>4
<1> HIDE DEF k
<1>7. /\ Slt1 + k \in Tables /\ Ro(Slt1 + k) = IF k = 1 \/ k = 4 \/ k = 5 \/ k = 7 THEN 1 ELSE 0
      /\ Sltu1 + k \in Tables /\ Ro(Sltu1 + k) = IF k = 1 \/ k = 2 \/ k = 3 \/ k = 7 THEN 1 ELSE 0
  BY <1>6, SmallEntries
<1> QED BY <1>5, <1>6, <1>7 DEF Picks

\* The tables have addresses that la can load.
LEMMA TablesLinked ==
  /\ Linked(SameResult) /\ Linked(Check0) /\ Linked(Slt1) /\ Linked(Sltu1) /\ Linked(Or1)
  /\ Linked(And8) /\ Linked(Or8) /\ Linked(Xor8) /\ Linked(Sll8) /\ Linked(Srl8) /\ Linked(Sra8)
BY TablePlaces, TablesFit, WordNat DEF Linked

\* slt leaves whether rs1 is less than rs2, as signed numbers.
LEMMA SltDoes ==
  ASSUME NEW m, NEW rd, NEW rs1, NEW rs2,
         Ready(m), rd \in Regs \ {zero, sp}, rs1 \in Regs, rs2 \in Regs
  PROVE  /\ Does(m, slt(rd, rs1, rs2), Run(m, slt(rd, rs1, rs2)), Three(rd, gp, tp), Scratch)
         /\ Reg(Run(m, slt(rd, rs1, rs2)), rd) = Less(Reg(m, rs1), Reg(m, rs2))
<1>1. Reg(m, rs1) \in Word /\ Reg(m, rs2) \in Word
  BY RegWord DEF Ready
<1>2. /\ Picks(Slt1, Reg(m, rs1), Reg(m, rs2))
      /\ Ro(Slt1 + Index(Reg(m, rs1), Reg(m, rs2))) = Less(Reg(m, rs1), Reg(m, rs2))
  BY <1>1, IndexMeans
<1> DEFINE code == slt_template(Slt1, rd, rs1, rs2)
<1>3. /\ Does(m, code, Run(m, code), Three(rd, gp, tp), Scratch)
      /\ Reg(Run(m, code), rd) = Ro(Slt1 + Index(Reg(m, rs1), Reg(m, rs2)))
  BY <1>2, TablesLinked, TemplateDoes
<1> QED BY <1>2, <1>3 DEF slt

\* sltu leaves whether rs1 is less than rs2, as unsigned numbers.
LEMMA SltuDoes ==
  ASSUME NEW m, NEW rd, NEW rs1, NEW rs2,
         Ready(m), rd \in Regs \ {zero, sp}, rs1 \in Regs, rs2 \in Regs
  PROVE  /\ Does(m, sltu(rd, rs1, rs2), Run(m, sltu(rd, rs1, rs2)), Three(rd, gp, tp), Scratch)
         /\ Reg(Run(m, sltu(rd, rs1, rs2)), rd) = LessUnsigned(Reg(m, rs1), Reg(m, rs2))
<1>1. Reg(m, rs1) \in Word /\ Reg(m, rs2) \in Word
  BY RegWord DEF Ready
<1>2. /\ Picks(Sltu1, Reg(m, rs1), Reg(m, rs2))
      /\ Ro(Sltu1 + Index(Reg(m, rs1), Reg(m, rs2))) = LessUnsigned(Reg(m, rs1), Reg(m, rs2))
  BY <1>1, IndexMeans
<1> DEFINE code == slt_template(Sltu1, rd, rs1, rs2)
<1>3. /\ Does(m, code, Run(m, code), Three(rd, gp, tp), Scratch)
      /\ Reg(Run(m, code), rd) = Ro(Sltu1 + Index(Reg(m, rs1), Reg(m, rs2)))
  BY <1>2, TablesLinked, TemplateDoes
<1> QED BY <1>2, <1>3 DEF sltu

\* The address of an entry does not wrap.
LEMMA EntryAdd ==
  ASSUME NEW t, NEW k, t \in Nat, k \in Nat, t + k \in Tables
  PROVE  Add(t, k) = t + k /\ Add(k, t) = t + k
<1> DEFINE a == t + k
<1>1. a \in Nat /\ a \in Tables
  OBVIOUS
<1> HIDE DEF a
<1>2. a < Modulus
  BY <1>1, Places
<1>3. t + k >= 0 /\ t + k < Modulus /\ t \in Int /\ k \in Int
  BY <1>2 DEF a
<1>4. Add(t, k) = t + k
  BY <1>3, AddSmall
<1>5. Add(k, t) = k + t
  BY <1>3, AddSmall
<1> QED BY <1>4, <1>5

\* One byte of seqz.
NonZero(b) == IF b = 0 THEN 0 ELSE 1

\* One byte of seqz.
LEMMA CheckZeroDoes ==
  ASSUME NEW m, NEW rd, NEW n, NEW q,
         Ready(m),
         rd \in Regs \ {zero, sp, s0},
         At(4, n, q),
         Reg(m, s0) = Check0
  PROVE  /\ Does(m, check_8bit_0(s0, rd, n), Run(m, check_8bit_0(s0, rd, n)), One(rd), {})
         /\ Reg(Run(m, check_8bit_0(s0, rd, n)), rd) = NonZero(Mem(m, q))
<1> DEFINE y == Mem(m, q)
           z == NonZero(y)
           t == Check0 + y
           off == Var(4) + n
           R == One(rd)
           S == {}
           c0 == <<>>
           i1 == lbu(rd, off, sp)
           c1 == c0 \o i1
           m1 == Run(m, c1)
           i2 == add(rd, s0, rd)
           c2 == c1 \o i2
           m2 == Run(m, c2)
           i3 == lbu(rd, 0, rd)
           c3 == c2 \o i3
           m3 == Run(m, c3)
<1>s. S \subseteq Ram
  OBVIOUS
<1>r. R \subseteq Regs \ {zero}
  BY RegNames DEF One
<1>b. Ready(m) /\ sp \notin R /\ rd \in R /\ rd \in Regs /\ sp \in Regs /\ s0 \in Regs /\ Spot(off, q)
      /\ rd # s0
  BY RegNames, AtSpot DEF One
<1>o. off \in Int
  BY <1>b DEF Spot
<1>y. y \in Byte /\ y \in Nat /\ y < B
  BY MemByte, ByteNat DEF Ready
<1>t. t \in Tables /\ Ro(t) = z
  BY <1>y, SmallEntries DEF NonZero
<1>s2. Add(Check0, y) = t
  <2> HIDE DEF y
  <2>1. y \in Nat /\ Check0 \in Nat /\ Check0 + y \in Tables
    BY <1>y, <1>t, TablePlaces
  <2> QED BY <2>1, EntryAdd
<1>c. check_8bit_0(s0, rd, n) = i1 \o i2 \o i3
  BY DEF check_8bit_0, VAR_A
<1> HIDE DEF R, S, c0, c1, c2, c3, m1, m2, m3, y, z, t, off
<1>d. i1 \in Code /\ c0 \o i1 = i1
  BY <1>o, <1>b, RegNames, Coded, ConcatEmptySeq DEF Code, mv, li, c0
<1>0. Does(m, c0, m, R, S) /\ Reg(m, s0) = Check0 /\ Mem(m, q) = y
  BY <1>s, <1>r, <1>b, DoesNothing DEF Ready, c0, y
<1>1. Does(m, c1, m1, R, S) /\ Reg(m1, s0) = Check0 /\ Reg(m1, rd) = y
  <2>1. Does(m, c1, m1, R, S) /\ Sets(m, m1, rd, Mem(m, q))
    BY <1>0, <1>b, LbuStack DEF c1, m1
  <2> QED BY <2>1, <1>0, <1>b DEF Sets, Holds
<1>2. Does(m, c2, m2, R, S) /\ Reg(m2, rd) = t
  <2>1. Does(m, c2, m2, R, S) /\ Sets(m1, m2, rd, Add(Reg(m1, s0), Reg(m1, rd)))
    BY <1>1, <1>b, AddRuns DEF c2, m2
  <2>2. Add(Reg(m1, s0), Reg(m1, rd)) = t
    BY <1>1, <1>s2
  <2> QED BY <2>1, <2>2, <1>1, <1>b DEF Sets, Holds
<1>3. Does(m, c3, m3, R, S) /\ Reg(m3, rd) = z
  <2>1. Does(m, c3, m3, R, S) /\ Sets(m2, m3, rd, Ro(t))
    BY <1>2, <1>b, TableLbu, <1>t DEF c3, m3
  <2>2. Ro(t) = z
    BY <1>2, <1>t
  <2> QED BY <2>1, <2>2, <1>2, <1>b DEF Sets, Holds
<1>e. c3 = check_8bit_0(s0, rd, n)
  BY <1>c, <1>d DEF c1, c2, c3
<1> QED BY <1>3, <1>e DEF m3, R, S, y, z


Same(x, y) == IF x = y THEN 1 ELSE 0

\* The words that have the same bytes are the same.
LEMMA SameBytes ==
  ASSUME NEW x, NEW y, x \in Word, y \in Word,
         ByteOf(x, 0) = ByteOf(y, 0), ByteOf(x, 1) = ByteOf(y, 1),
         ByteOf(x, 2) = ByteOf(y, 2), ByteOf(x, 3) = ByteOf(y, 3)
  PROVE  x = y
BY WordIsBytes

\* Is a register zero?  rd is not s0, which seqz restores after it has written rd.
LEMMA SeqzDoes ==
  ASSUME NEW m, NEW rd, NEW rs1,
         Ready(m),
         rd \in Regs \ {zero, sp, s0},
         rs1 \in Regs
  PROVE  /\ Does(m, seqz(rd, rs1), Run(m, seqz(rd, rs1)), Three(rd, gp, tp), Scratch)
         /\ Reg(Run(m, seqz(rd, rs1)), rd) = Same(Reg(m, rs1), 0)
<1> DEFINE x == Reg(m, rs1)
           u == Reg(m, s0)
           z0 == NonZero(ByteOf(x, 0))
           z1 == NonZero(ByteOf(x, 1))
           z2 == NonZero(ByteOf(x, 2))
           z3 == NonZero(ByteOf(x, 3))
           t1 == z0 + z1
           t2 == t1 + z2
           t3 == t2 + z3
           e == SameResult + t3
           w == Same(x, 0)
           R == Four(rd, gp, tp, s0)
           S == Scratch
           c0 == <<>>
           i1 == sw(rs1, -16, sp)
           c1 == c0 \o i1
           m1 == Run(m, c1)
           i2 == sw(s0, -4, sp)
           c2 == c1 \o i2
           m2 == Run(m, c2)
           i3 == la(s0, Check0)
           c3 == c2 \o i3
           m3 == Run(m, c3)
           i4 == check_8bit_0(s0, gp, 0)
           c4 == c3 \o i4
           m4 == Run(m, c4)
           i5 == check_8bit_0(s0, tp, 1)
           c5 == c4 \o i5
           m5 == Run(m, c5)
           i6 == add(gp, gp, tp)
           c6 == c5 \o i6
           m6 == Run(m, c6)
           i7 == check_8bit_0(s0, tp, 2)
           c7 == c6 \o i7
           m7 == Run(m, c7)
           i8 == add(gp, gp, tp)
           c8 == c7 \o i8
           m8 == Run(m, c8)
           i9 == check_8bit_0(s0, tp, 3)
           c9 == c8 \o i9
           m9 == Run(m, c9)
           i10 == add(gp, gp, tp)
           c10 == c9 \o i10
           m10 == Run(m, c10)
           i11 == la(tp, SameResult)
           c11 == c10 \o i11
           m11 == Run(m, c11)
           i12 == add(tp, tp, gp)
           c12 == c11 \o i12
           m12 == Run(m, c12)
           i13 == lbu(rd, 0, tp)
           c13 == c12 \o i13
           m13 == Run(m, c13)
           i14 == lw(s0, -4, sp)
           c14 == c13 \o i14
           m14 == Run(m, c14)
<1>s. S \subseteq Ram
  BY DEF Ram
<1>a. Block(240, S) /\ Block(252, S)
  BY ScratchPlaces
<1>p. Spot(-16, 240) /\ Spot(-4, 252) /\ WordSpot(-4, 252)
  BY Spots
<1>r. R \subseteq Regs \ {zero}
  BY RegNames DEF Four
<1>b. Ready(m) /\ sp \notin R /\ rd \in R /\ gp \in R /\ tp \in R /\ s0 \in R /\ rd \in Regs /\ gp \in Regs
      /\ tp \in Regs /\ s0 \in Regs /\ rs1 \in Regs /\ rd # s0
  BY RegNames DEF Four
<1>x. x \in Word /\ u \in Word
  BY RegWord, RegNames DEF Ready
<1>z. /\ z0 \in Int /\ z0 >= 0 /\ z0 <= 1 /\ z1 \in Int /\ z1 >= 0 /\ z1 <= 1
      /\ z2 \in Int /\ z2 >= 0 /\ z2 <= 1 /\ z3 \in Int /\ z3 >= 0 /\ z3 <= 1
  BY DEF NonZero
<1>y. w = IF t3 = 0 THEN 1 ELSE 0
  <2>1. x = 0 => z0 = 0 /\ z1 = 0 /\ z2 = 0 /\ z3 = 0
    BY ZeroBytes DEF NonZero
  <2>2. z0 = 0 /\ z1 = 0 /\ z2 = 0 /\ z3 = 0 => x = 0
    BY <1>x, ZeroBytes, SameBytes DEF NonZero
  <2> HIDE DEF z0, z1, z2, z3
  <2>3. t3 = 0 <=> z0 = 0 /\ z1 = 0 /\ z2 = 0 /\ z3 = 0
    BY <1>z
  <2> HIDE DEF t3
  <2> QED BY <2>1, <2>2, <2>3 DEF Same
<1> HIDE DEF z0, z1, z2, z3, w
<1>t. /\ Add(z0, z1) = t1 /\ Add(t1, z2) = t2 /\ Add(t2, z3) = t3
      /\ t3 \in Nat /\ t3 < 8
  <2>1. /\ t1 \in Int /\ t2 \in Int /\ t3 \in Nat /\ t3 < 8 /\ t1 >= 0 /\ t1 < Modulus /\ t2 >= 0
        /\ t2 < Modulus /\ t3 < Modulus
    BY <1>z, WidthBounds
  <2>2. Add(z0, z1) = z0 + z1
    BY <1>z, <2>1, AddSmall
  <2>3. Add(t1, z2) = t1 + z2
    BY <1>z, <2>1, AddSmall
  <2>4. Add(t2, z3) = t2 + z3
    BY <1>z, <2>1, AddSmall
  <2> QED BY <2>1, <2>2, <2>3, <2>4
<1>q. e \in Tables /\ Ro(e) = w /\ Add(SameResult, t3) = e
  <2> HIDE DEF t3
  <2>1. e \in Tables /\ Ro(e) = w
    BY <1>t, <1>y, SmallEntries
  <2>2. SameResult \in Nat /\ t3 \in Nat /\ SameResult + t3 \in Tables
    BY <1>t, <2>1, TablePlaces
  <2>3. Add(SameResult, t3) = e
    BY <2>2, EntryAdd
  <2> QED BY <2>1, <2>3
<1>c. seqz(rd, rs1) = i1 \o i2 \o i3 \o i4 \o i5 \o i6 \o i7 \o i8 \o i9 \o i10 \o i11 \o i12 \o i13 \o i14
  BY DEF seqz, Push, Pop, Var, VAR_A
<1> HIDE DEF R, S, c0, c1, c2, c3, c4, c5, c6, c7, c8, c9, c10, c11, c12, c13, c14, m1, m2, m3, m4, m5, m6,
        m7, m8, m9, m10, m11, m12, m13, m14, x, u, t1, t2, t3, e
<1>d. i1 \in Code /\ c0 \o i1 = i1
  BY <1>b, RegNames, Coded, ConcatEmptySeq DEF Code, mv, li, c0
<1>0. Does(m, c0, m, R, S) /\ Reg(m, rs1) = x /\ Reg(m, s0) = u
  BY <1>s, <1>r, <1>b, DoesNothing DEF Ready, c0, x, u
<1>1. Does(m, c1, m1, R, S) /\ Reg(m1, s0) = u /\ Holds(m1, 240, x)
  <2>1. Does(m, c1, m1, R, S) /\ Saves(m, m1, 240, Reg(m, rs1))
    BY <1>0, <1>b, <1>a, <1>p, SwStack DEF c1, m1
  <2> QED BY <2>1, <1>0, <1>b DEF Saves, Holds
<1>2. Does(m, c2, m2, R, S) /\ Holds(m2, 240, x) /\ Holds(m2, 252, u)
  <2>1. Does(m, c2, m2, R, S) /\ Saves(m1, m2, 252, Reg(m1, s0))
    BY <1>1, <1>b, <1>a, <1>p, SwStack DEF c2, m2
  <2> QED BY <2>1, <1>1, <1>b DEF Saves, Holds
<1>3. Does(m, c3, m3, R, S) /\ Reg(m3, s0) = Check0 /\ Holds(m3, 240, x) /\ Holds(m3, 252, u)
  <2>1. Ready(m2) /\ Live(m2)
    BY <1>2, <1>b, StaysReady DEF Ready
  <2>2. Does(m2, i3, Run(m2, i3), One(s0), {}) /\ Reg(Run(m2, i3), s0) = Check0
    BY <2>1, <1>2, <1>b, TablesLinked, LaDoes
  <2> DEFINE R2 == One(s0)
             S2 == {}
  <2>3. R2 \subseteq R /\ S2 \subseteq S
    BY <1>b DEF One
  <2> HIDE DEF R2, S2
  <2>4. Does(m, c3, m3, R, S) /\ m3 = Run(m2, i3) /\ Keeps(m2, m3, R2, S2)
    BY <1>2, <2>2, <2>3, DoesNext DEF c3, m3, R2, S2
  <2> QED BY <2>2, <2>4, <1>2, <1>b DEF Keeps, Holds, R2, S2, One
<1>4. Does(m, c4, m4, R, S) /\ Reg(m4, s0) = Check0 /\ Reg(m4, gp) = z0 /\ Mem(m4, 241) = ByteOf(x, 1)
      /\ Mem(m4, 242) = ByteOf(x, 2) /\ Mem(m4, 243) = ByteOf(x, 3) /\ Holds(m4, 252, u)
  <2>1. Ready(m3) /\ Live(m3)
    BY <1>3, <1>b, StaysReady DEF Ready
  <2>2. Does(m3, i4, Run(m3, i4), One(gp), {}) /\ Reg(Run(m3, i4), gp) = NonZero(Mem(m3, 240))
    BY <2>1, <1>3, <1>b, Ats, CheckZeroDoes
  <2> DEFINE R2 == One(gp)
             S2 == {}
  <2>3. R2 \subseteq R /\ S2 \subseteq S
    BY <1>b DEF One
  <2> HIDE DEF R2, S2
  <2>4. Does(m, c4, m4, R, S) /\ m4 = Run(m3, i4) /\ Keeps(m3, m4, R2, S2)
    BY <1>3, <2>2, <2>3, DoesNext DEF c4, m4, R2, S2
  <2>5. NonZero(Mem(m3, 240)) = z0
    BY <1>3 DEF Holds, z0
  <2> QED BY <2>2, <2>4, <2>5, <1>3, <1>b DEF Keeps, Holds, R2, S2, One
<1>5. Does(m, c5, m5, R, S) /\ Reg(m5, s0) = Check0 /\ Reg(m5, gp) = z0 /\ Reg(m5, tp) = z1
      /\ Mem(m5, 242) = ByteOf(x, 2) /\ Mem(m5, 243) = ByteOf(x, 3) /\ Holds(m5, 252, u)
  <2>1. Ready(m4) /\ Live(m4)
    BY <1>4, <1>b, StaysReady DEF Ready
  <2>2. Does(m4, i5, Run(m4, i5), One(tp), {}) /\ Reg(Run(m4, i5), tp) = NonZero(Mem(m4, 241))
    BY <2>1, <1>4, <1>b, Ats, CheckZeroDoes
  <2> DEFINE R2 == One(tp)
             S2 == {}
  <2>3. R2 \subseteq R /\ S2 \subseteq S
    BY <1>b DEF One
  <2> HIDE DEF R2, S2
  <2>4. Does(m, c5, m5, R, S) /\ m5 = Run(m4, i5) /\ Keeps(m4, m5, R2, S2)
    BY <1>4, <2>2, <2>3, DoesNext DEF c5, m5, R2, S2
  <2>5. NonZero(Mem(m4, 241)) = z1
    BY <1>4 DEF Holds, z1
  <2> QED BY <2>2, <2>4, <2>5, <1>4, <1>b DEF Keeps, Holds, R2, S2, One
<1>6. Does(m, c6, m6, R, S) /\ Reg(m6, s0) = Check0 /\ Reg(m6, gp) = t1 /\ Mem(m6, 242) = ByteOf(x, 2)
      /\ Mem(m6, 243) = ByteOf(x, 3) /\ Holds(m6, 252, u)
  <2>1. Does(m, c6, m6, R, S) /\ Sets(m5, m6, gp, Add(Reg(m5, gp), Reg(m5, tp)))
    BY <1>5, <1>b, <1>a, <1>p, AddRuns DEF c6, m6
  <2>2. Add(Reg(m5, gp), Reg(m5, tp)) = t1
    BY <1>5, <1>t
  <2> QED BY <2>1, <2>2, <1>5, <1>b DEF Sets, Holds
<1>7. Does(m, c7, m7, R, S) /\ Reg(m7, s0) = Check0 /\ Reg(m7, gp) = t1 /\ Reg(m7, tp) = z2
      /\ Mem(m7, 243) = ByteOf(x, 3) /\ Holds(m7, 252, u)
  <2>1. Ready(m6) /\ Live(m6)
    BY <1>6, <1>b, StaysReady DEF Ready
  <2>2. Does(m6, i7, Run(m6, i7), One(tp), {}) /\ Reg(Run(m6, i7), tp) = NonZero(Mem(m6, 242))
    BY <2>1, <1>6, <1>b, Ats, CheckZeroDoes
  <2> DEFINE R2 == One(tp)
             S2 == {}
  <2>3. R2 \subseteq R /\ S2 \subseteq S
    BY <1>b DEF One
  <2> HIDE DEF R2, S2
  <2>4. Does(m, c7, m7, R, S) /\ m7 = Run(m6, i7) /\ Keeps(m6, m7, R2, S2)
    BY <1>6, <2>2, <2>3, DoesNext DEF c7, m7, R2, S2
  <2>5. NonZero(Mem(m6, 242)) = z2
    BY <1>6 DEF Holds, z2
  <2> QED BY <2>2, <2>4, <2>5, <1>6, <1>b DEF Keeps, Holds, R2, S2, One
<1>8. Does(m, c8, m8, R, S) /\ Reg(m8, s0) = Check0 /\ Reg(m8, gp) = t2 /\ Mem(m8, 243) = ByteOf(x, 3)
      /\ Holds(m8, 252, u)
  <2>1. Does(m, c8, m8, R, S) /\ Sets(m7, m8, gp, Add(Reg(m7, gp), Reg(m7, tp)))
    BY <1>7, <1>b, <1>a, <1>p, AddRuns DEF c8, m8
  <2>2. Add(Reg(m7, gp), Reg(m7, tp)) = t2
    BY <1>7, <1>t
  <2> QED BY <2>1, <2>2, <1>7, <1>b DEF Sets, Holds
<1>9. Does(m, c9, m9, R, S) /\ Reg(m9, gp) = t2 /\ Reg(m9, tp) = z3 /\ Holds(m9, 252, u)
  <2>1. Ready(m8) /\ Live(m8)
    BY <1>8, <1>b, StaysReady DEF Ready
  <2>2. Does(m8, i9, Run(m8, i9), One(tp), {}) /\ Reg(Run(m8, i9), tp) = NonZero(Mem(m8, 243))
    BY <2>1, <1>8, <1>b, Ats, CheckZeroDoes
  <2> DEFINE R2 == One(tp)
             S2 == {}
  <2>3. R2 \subseteq R /\ S2 \subseteq S
    BY <1>b DEF One
  <2> HIDE DEF R2, S2
  <2>4. Does(m, c9, m9, R, S) /\ m9 = Run(m8, i9) /\ Keeps(m8, m9, R2, S2)
    BY <1>8, <2>2, <2>3, DoesNext DEF c9, m9, R2, S2
  <2>5. NonZero(Mem(m8, 243)) = z3
    BY <1>8 DEF Holds, z3
  <2> QED BY <2>2, <2>4, <2>5, <1>8, <1>b DEF Keeps, Holds, R2, S2, One
<1>10. Does(m, c10, m10, R, S) /\ Reg(m10, gp) = t3 /\ Holds(m10, 252, u)
  <2>1. Does(m, c10, m10, R, S) /\ Sets(m9, m10, gp, Add(Reg(m9, gp), Reg(m9, tp)))
    BY <1>9, <1>b, <1>a, <1>p, AddRuns DEF c10, m10
  <2>2. Add(Reg(m9, gp), Reg(m9, tp)) = t3
    BY <1>9, <1>t
  <2> QED BY <2>1, <2>2, <1>9, <1>b DEF Sets, Holds
<1>11. Does(m, c11, m11, R, S) /\ Reg(m11, gp) = t3 /\ Reg(m11, tp) = SameResult /\ Holds(m11, 252, u)
  <2>1. Ready(m10) /\ Live(m10)
    BY <1>10, <1>b, StaysReady DEF Ready
  <2>2. Does(m10, i11, Run(m10, i11), One(tp), {}) /\ Reg(Run(m10, i11), tp) = SameResult
    BY <2>1, <1>10, <1>b, TablesLinked, LaDoes
  <2> DEFINE R2 == One(tp)
             S2 == {}
  <2>3. R2 \subseteq R /\ S2 \subseteq S
    BY <1>b DEF One
  <2> HIDE DEF R2, S2
  <2>4. Does(m, c11, m11, R, S) /\ m11 = Run(m10, i11) /\ Keeps(m10, m11, R2, S2)
    BY <1>10, <2>2, <2>3, DoesNext DEF c11, m11, R2, S2
  <2> QED BY <2>2, <2>4, <1>10, <1>b DEF Keeps, Holds, R2, S2, One
<1>12. Does(m, c12, m12, R, S) /\ Reg(m12, tp) = e /\ Holds(m12, 252, u)
  <2>1. Does(m, c12, m12, R, S) /\ Sets(m11, m12, tp, Add(Reg(m11, tp), Reg(m11, gp)))
    BY <1>11, <1>b, <1>a, <1>p, AddRuns DEF c12, m12
  <2>2. Add(Reg(m11, tp), Reg(m11, gp)) = e
    BY <1>11, <1>q
  <2> QED BY <2>1, <2>2, <1>11, <1>b DEF Sets, Holds
<1>13. Does(m, c13, m13, R, S) /\ Reg(m13, rd) = w /\ Holds(m13, 252, u)
  <2>1. Does(m, c13, m13, R, S) /\ Sets(m12, m13, rd, Ro(e))
    BY <1>12, <1>b, <1>a, <1>p, TableLbu, <1>q DEF c13, m13
  <2>2. Ro(e) = w
    BY <1>12, <1>q
  <2> QED BY <2>1, <2>2, <1>12, <1>b DEF Sets, Holds
<1>14. Does(m, c14, m14, R, S) /\ Reg(m14, rd) = w /\ Reg(m14, s0) = u
  <2>1. Does(m, c14, m14, R, S) /\ Sets(m13, m14, s0, u)
    BY <1>13, <1>b, <1>a, <1>p, LwBack, <1>x DEF c14, m14
  <2> QED BY <2>1, <1>13, <1>b DEF Sets, Holds
<1>e. c14 = seqz(rd, rs1)
  BY <1>c, <1>d DEF c1, c2, c3, c4, c5, c6, c7, c8, c9, c10, c11, c12, c13, c14
<1> DEFINE Q == Three(rd, gp, tp)
           T == Scratch
<1>f. /\ Q \subseteq R /\ \A r : r \in R /\ r \notin Q => Reg(m14, r) = Reg(m, r)
      /\ T \subseteq S /\ \A a : a \in S /\ a \notin T => Mem(m14, a) = Mem(m, a)
  BY <1>14, <1>b DEF R, S, Four, Three, x, u
<1> HIDE DEF Q, T
<1>g. Does(m, c14, m14, Q, T)
  BY <1>14, <1>f, DoesRestores
<1> QED BY <1>14, <1>e, <1>g DEF m14, Q, T, x, w

-----------------------------------------------------------------------------
(* 14. seq *)

\* The array that seq writes.
ArrayBytes == SameArray .. SameArray + B - 1

\* The array of seq is scratch memory, away from the stack frame.
LEMMA ArrayPlaces ==
  /\ ArrayBytes \subseteq Ram /\ ArrayBytes \subseteq Scratch
  /\ Linked(SameArray) /\ SameArray \in Nat
  /\ \A k : k \in Nat /\ k < B => SameArray + k \in ArrayBytes
  /\ \A a : a \in Int /\ a <= 255 => a \notin ArrayBytes
<1>1. B \in Nat /\ SameArray \in Nat /\ SameArray = 1024
  BY WidthBounds DEF SameArray
<1> HIDE DEF SameArray
<1>2. ArrayBytes \subseteq Scratch
  BY DEF ArrayBytes, Scratch
<1>3. Linked(SameArray)
  BY <1>1, WidthBounds DEF Linked
<1>4. ArrayBytes \subseteq Ram
  BY <1>2 DEF Ram
<1>5. \A k : k \in Nat /\ k < B => SameArray + k \in ArrayBytes
  BY <1>1 DEF ArrayBytes
<1>6. \A a : a \in Int /\ a <= 255 => a \notin ArrayBytes
  BY <1>1 DEF ArrayBytes
<1> QED BY <1>1, <1>2, <1>3, <1>4, <1>5, <1>6

\* The address of an element of the array does not wrap.
LEMMA ArrayAdd ==
  ASSUME NEW k, k \in Nat, k < B
  PROVE  Add(SameArray, k) = SameArray + k
<1> DEFINE a == SameArray + k
<1>1. a \in ArrayBytes /\ SameArray \in Nat
  BY ArrayPlaces
<1> HIDE DEF a
<1>2. a < Modulus
  BY <1>1, ArrayPlaces, Places
<1>3. SameArray \in Int /\ k \in Int /\ SameArray + k >= 0 /\ SameArray + k < Modulus
  BY <1>1, <1>2 DEF a
<1> QED BY <1>3, AddSmall

\* One byte of seq.
Differ(a, b) == IF a = b THEN 0 ELSE 1

\* One byte of seq: the second write is to the place of the first.
LEMMA CheckSameDoes ==
  ASSUME NEW m, NEW rd, NEW n, NEW p, NEW q,
         Ready(m),
         rd \in Regs \ {zero, sp, s0, tp},
         At(4, n, p),
         At(5, n, q),
         Reg(m, s0) = SameArray
  PROVE  /\ Does(m, check_8bit_same(s0, rd, n), Run(m, check_8bit_same(s0, rd, n)), Two(rd, tp), ArrayBytes)
         /\ Reg(Run(m, check_8bit_same(s0, rd, n)), rd) = Differ(Mem(m, p), Mem(m, q))
<1> DEFINE x == Mem(m, p)
           y == Mem(m, q)
           t == SameArray + x
           u == SameArray + y
           from == Var(4) + n
           to == Var(5) + n
           w == Differ(x, y)
           R == Two(rd, tp)
           S == ArrayBytes
           c0 == <<>>
           i1 == lbu(rd, from, sp)
           c1 == c0 \o i1
           m1 == Run(m, c1)
           i2 == add(tp, s0, rd)
           c2 == c1 \o i2
           m2 == Run(m, c2)
           n3 == 1
           i3 == li(rd, n3)
           c3 == c2 \o i3
           m3 == Run(m, c3)
           i4 == sb(rd, 0, tp)
           c4 == c3 \o i4
           m4 == Run(m, c4)
           i5 == lbu(rd, to, sp)
           c5 == c4 \o i5
           m5 == Run(m, c5)
           i6 == add(rd, s0, rd)
           c6 == c5 \o i6
           m6 == Run(m, c6)
           i7 == sb(zero, 0, rd)
           c7 == c6 \o i7
           m7 == Run(m, c7)
           i8 == lbu(rd, 0, tp)
           c8 == c7 \o i8
           m8 == Run(m, c8)
<1>s. S \subseteq Ram
  BY ArrayPlaces
<1>a. t \in S /\ u \in S /\ t # p /\ t # q /\ (u # t <=> x # y)
  <2>1. x \in Nat /\ x < B /\ y \in Nat /\ y < B
    BY MemByte, ByteNat DEF Ready
  <2> HIDE DEF x, y
  <2>2. t \in S /\ u \in S
    BY <2>1, ArrayPlaces
  <2>3. p \notin S /\ q \notin S
    BY ArrayPlaces DEF At, StackTop
  <2>4. u # t <=> x # y
    BY <2>1, ArrayPlaces
  <2> HIDE DEF S, t, u
  <2> QED BY <2>2, <2>3, <2>4
<1>r. R \subseteq Regs \ {zero}
  BY RegNames DEF Two
<1>b. Ready(m) /\ sp \notin R /\ rd \in R /\ tp \in R /\ rd \in Regs /\ tp \in Regs /\ sp \in Regs
      /\ s0 \in Regs /\ zero \in Regs /\ Spot(from, p) /\ Spot(to, q) /\ rd # s0 /\ rd # tp /\ n3 \in Int
  BY RegNames, AtSpot DEF Two
<1>o. from \in Int /\ to \in Int
  BY <1>b DEF Spot
<1>x. x \in Byte /\ x \in Nat /\ x < B /\ y \in Byte /\ y \in Nat /\ y < B
  BY MemByte, ByteNat DEF Ready
<1>t. Add(SameArray, x) = t /\ Add(SameArray, y) = u
  <2> HIDE DEF x, y
  <2> QED BY <1>x, ArrayAdd
<1>o1. ToWord(1) = 1 /\ ByteOf(1, 0) = 1 /\ ByteOf(0, 0) = 0
  <2>1. 1 \in Byte
    BY ByteNat, WidthBounds
  <2>2. 1 \in Word
    BY <2>1, ByteWord
  <2> QED BY <2>1, <2>2, ByteWord, ZeroBytes, SmallWord DEF ToWord
<1>t2. t \in Ram /\ u \in Ram
  BY <1>s, <1>a
<1>w2. w = IF u = t THEN 0 ELSE 1
  BY <1>a DEF Differ
<1>c. check_8bit_same(s0, rd, n) = i1 \o i2 \o i3 \o i4 \o i5 \o i6 \o i7 \o i8
  BY DEF check_8bit_same, VAR_A, VAR_B
<1> HIDE DEF R, S, c0, c1, c2, c3, c4, c5, c6, c7, c8, m1, m2, m3, m4, m5, m6, m7, m8, n3, x, y, t, u,
        from, to, w
<1>d. i1 \in Code /\ c0 \o i1 = i1
  BY <1>o, <1>b, RegNames, Coded, ConcatEmptySeq DEF Code, mv, li, c0
<1>0. Does(m, c0, m, R, S) /\ Reg(m, s0) = SameArray /\ Mem(m, p) = x /\ Mem(m, q) = y
  BY <1>s, <1>r, <1>b, DoesNothing DEF Ready, c0, x, y
<1>1. Does(m, c1, m1, R, S) /\ Reg(m1, s0) = SameArray /\ Reg(m1, rd) = x /\ Mem(m1, q) = y
  <2>1. Does(m, c1, m1, R, S) /\ Sets(m, m1, rd, Mem(m, p))
    BY <1>0, <1>b, <1>a, LbuStack DEF c1, m1
  <2> QED BY <2>1, <1>0, <1>b DEF Sets, Holds
<1>2. Does(m, c2, m2, R, S) /\ Reg(m2, s0) = SameArray /\ Reg(m2, tp) = t /\ Mem(m2, q) = y
  <2>1. Does(m, c2, m2, R, S) /\ Sets(m1, m2, tp, Add(Reg(m1, s0), Reg(m1, rd)))
    BY <1>1, <1>b, <1>a, AddRuns DEF c2, m2
  <2>2. Add(Reg(m1, s0), Reg(m1, rd)) = t
    BY <1>1, <1>t
  <2> QED BY <2>1, <2>2, <1>1, <1>b DEF Sets, Holds
<1>3. Does(m, c3, m3, R, S) /\ Reg(m3, s0) = SameArray /\ Reg(m3, tp) = t /\ Reg(m3, rd) = 1 /\ Mem(m3, q) = y
  <2>1. Does(m, c3, m3, R, S) /\ Sets(m2, m3, rd, ToWord(n3))
    BY <1>2, <1>b, <1>a, LiRuns DEF c3, m3
  <2>2. ToWord(n3) = 1
    BY <1>2, <1>o1 DEF n3
  <2> QED BY <2>1, <2>2, <1>2, <1>b DEF Sets, Holds
<1>4. Does(m, c4, m4, R, S) /\ Reg(m4, s0) = SameArray /\ Reg(m4, tp) = t /\ Mem(m4, q) = y /\ Mem(m4, t) = 1
  <2>1. Does(m, c4, m4, R, S) /\ Puts(m3, m4, t, ByteOf(Reg(m3, rd), 0))
    BY <1>3, <1>b, <1>a, ArraySb, RegNames DEF c4, m4
  <2>2. ByteOf(Reg(m3, rd), 0) = 1
    BY <1>3, <1>o1
  <2> QED BY <2>1, <2>2, <1>3, <1>b, <1>a DEF Puts, Holds
<1>5. Does(m, c5, m5, R, S) /\ Reg(m5, s0) = SameArray /\ Reg(m5, tp) = t /\ Reg(m5, rd) = y /\ Mem(m5, t) = 1
  <2>1. Does(m, c5, m5, R, S) /\ Sets(m4, m5, rd, Mem(m4, q))
    BY <1>4, <1>b, <1>a, LbuStack DEF c5, m5
  <2> QED BY <2>1, <1>4, <1>b DEF Sets, Holds
<1>6. Does(m, c6, m6, R, S) /\ Reg(m6, tp) = t /\ Reg(m6, rd) = u /\ Mem(m6, t) = 1
  <2>1. Does(m, c6, m6, R, S) /\ Sets(m5, m6, rd, Add(Reg(m5, s0), Reg(m5, rd)))
    BY <1>5, <1>b, <1>a, AddRuns DEF c6, m6
  <2>2. Add(Reg(m5, s0), Reg(m5, rd)) = u
    BY <1>5, <1>t
  <2> QED BY <2>1, <2>2, <1>5, <1>b DEF Sets, Holds
<1>7. Does(m, c7, m7, R, S) /\ Reg(m7, tp) = t /\ Mem(m7, t) = w
  <2>1. Does(m, c7, m7, R, S) /\ Puts(m6, m7, u, ByteOf(Reg(m6, zero), 0))
    BY <1>6, <1>b, <1>a, ArraySb, RegNames DEF c7, m7
  <2>2. Reg(m6, zero) = 0
    BY <1>6, ZeroStays
  <2>3. ByteOf(Reg(m6, zero), 0) = 0
    BY <1>6, <2>2, <1>o1
  <2> QED BY <2>1, <2>2, <2>3, <1>6, <1>b, <1>a, <1>w2 DEF Puts, Holds
<1>8. Does(m, c8, m8, R, S) /\ Reg(m8, rd) = w
  <2>1. Does(m, c8, m8, R, S) /\ Sets(m7, m8, rd, Mem(m7, t))
    BY <1>7, <1>b, <1>a, ArrayLbu, <1>t2 DEF c8, m8
  <2>2. Mem(m7, t) = w
    BY <1>7, <1>t2
  <2> QED BY <2>1, <2>2, <1>7, <1>b DEF Sets, Holds
<1>e. c8 = check_8bit_same(s0, rd, n)
  BY <1>c, <1>d DEF c1, c2, c3, c4, c5, c6, c7, c8
<1> QED BY <1>8, <1>e DEF m8, R, S, w, x, y

\* Are two registers the same?
LEMMA SeqDoes ==
  ASSUME NEW m, NEW rd, NEW rs1, NEW rs2,
         Ready(m),
         rd \in Regs \ {zero, sp, s0, s1},
         rs1 \in Regs,
         rs2 \in Regs
  PROVE  /\ Does(m, seq(rd, rs1, rs2), Run(m, seq(rd, rs1, rs2)), Three(rd, gp, tp), Scratch)
         /\ Reg(Run(m, seq(rd, rs1, rs2)), rd) = Same(Reg(m, rs1), Reg(m, rs2))
<1> DEFINE x == Reg(m, rs1)
           y == Reg(m, rs2)
           u == Reg(m, s0)
           v == Reg(m, s1)
           z0 == Differ(ByteOf(x, 0), ByteOf(y, 0))
           z1 == Differ(ByteOf(x, 1), ByteOf(y, 1))
           z2 == Differ(ByteOf(x, 2), ByteOf(y, 2))
           z3 == Differ(ByteOf(x, 3), ByteOf(y, 3))
           t1 == z0 + z1
           t2 == t1 + z2
           t3 == t2 + z3
           e == SameResult + t3
           w == Same(x, y)
           R == Five(rd, gp, tp, s0, s1)
           S == Scratch
           c0 == <<>>
           i1 == sw(rs1, -16, sp)
           c1 == c0 \o i1
           m1 == Run(m, c1)
           i2 == sw(rs2, -20, sp)
           c2 == c1 \o i2
           m2 == Run(m, c2)
           i3 == sw(s0, -4, sp)
           c3 == c2 \o i3
           m3 == Run(m, c3)
           i4 == sw(s1, -8, sp)
           c4 == c3 \o i4
           m4 == Run(m, c4)
           i5 == la(s0, SameArray)
           c5 == c4 \o i5
           m5 == Run(m, c5)
           i6 == check_8bit_same(s0, gp, 0)
           c6 == c5 \o i6
           m6 == Run(m, c6)
           i7 == check_8bit_same(s0, s1, 1)
           c7 == c6 \o i7
           m7 == Run(m, c7)
           i8 == add(gp, gp, s1)
           c8 == c7 \o i8
           m8 == Run(m, c8)
           i9 == check_8bit_same(s0, s1, 2)
           c9 == c8 \o i9
           m9 == Run(m, c9)
           i10 == add(gp, gp, s1)
           c10 == c9 \o i10
           m10 == Run(m, c10)
           i11 == check_8bit_same(s0, s1, 3)
           c11 == c10 \o i11
           m11 == Run(m, c11)
           i12 == add(gp, gp, s1)
           c12 == c11 \o i12
           m12 == Run(m, c12)
           i13 == la(tp, SameResult)
           c13 == c12 \o i13
           m13 == Run(m, c13)
           i14 == add(tp, tp, gp)
           c14 == c13 \o i14
           m14 == Run(m, c14)
           i15 == lbu(rd, 0, tp)
           c15 == c14 \o i15
           m15 == Run(m, c15)
           i16 == lw(s1, -8, sp)
           c16 == c15 \o i16
           m16 == Run(m, c16)
           i17 == lw(s0, -4, sp)
           c17 == c16 \o i17
           m17 == Run(m, c17)
<1>s. S \subseteq Ram
  BY DEF Ram
<1>a. Block(240, S) /\ Block(236, S) /\ Block(252, S) /\ Block(248, S) /\ ArrayBytes \subseteq S
  BY ScratchPlaces, ArrayPlaces
<1>p. Spot(-16, 240) /\ Spot(-20, 236) /\ Spot(-4, 252) /\ Spot(-8, 248) /\ WordSpot(-8, 248)
      /\ WordSpot(-4, 252)
  BY Spots
<1>r. R \subseteq Regs \ {zero}
  BY RegNames DEF Five
<1>b. Ready(m) /\ sp \notin R /\ rd \in R /\ gp \in R /\ tp \in R /\ s0 \in R /\ s1 \in R /\ rd \in Regs
      /\ gp \in Regs /\ tp \in Regs /\ s0 \in Regs /\ s1 \in Regs /\ rs1 \in Regs /\ rs2 \in Regs /\ rd # s0
      /\ rd # s1
  BY RegNames DEF Five
<1>x. x \in Word /\ y \in Word /\ u \in Word /\ v \in Word
  BY RegWord, RegNames DEF Ready
<1>z. /\ z0 \in Int /\ z0 >= 0 /\ z0 <= 1 /\ z1 \in Int /\ z1 >= 0 /\ z1 <= 1
      /\ z2 \in Int /\ z2 >= 0 /\ z2 <= 1 /\ z3 \in Int /\ z3 >= 0 /\ z3 <= 1
  BY DEF Differ
<1>y. w = IF t3 = 0 THEN 1 ELSE 0
  <2>1. x = y => z0 = 0 /\ z1 = 0 /\ z2 = 0 /\ z3 = 0
    BY DEF Differ
  <2>2. z0 = 0 /\ z1 = 0 /\ z2 = 0 /\ z3 = 0 => x = y
    BY <1>x, SameBytes DEF Differ
  <2> HIDE DEF z0, z1, z2, z3
  <2>3. t3 = 0 <=> z0 = 0 /\ z1 = 0 /\ z2 = 0 /\ z3 = 0
    BY <1>z
  <2> HIDE DEF t3
  <2> QED BY <2>1, <2>2, <2>3 DEF Same
<1> HIDE DEF z0, z1, z2, z3, w
<1>t. /\ Add(z0, z1) = t1 /\ Add(t1, z2) = t2 /\ Add(t2, z3) = t3
      /\ t3 \in Nat /\ t3 < 8
  <2>1. /\ t1 \in Int /\ t2 \in Int /\ t3 \in Nat /\ t3 < 8 /\ t1 >= 0 /\ t1 < Modulus /\ t2 >= 0
        /\ t2 < Modulus /\ t3 < Modulus
    BY <1>z, WidthBounds
  <2>2. Add(z0, z1) = z0 + z1
    BY <1>z, <2>1, AddSmall
  <2>3. Add(t1, z2) = t1 + z2
    BY <1>z, <2>1, AddSmall
  <2>4. Add(t2, z3) = t2 + z3
    BY <1>z, <2>1, AddSmall
  <2> QED BY <2>1, <2>2, <2>3, <2>4
<1>q. e \in Tables /\ Ro(e) = w /\ Add(SameResult, t3) = e
  <2> HIDE DEF t3
  <2>1. e \in Tables /\ Ro(e) = w
    BY <1>t, <1>y, SmallEntries
  <2>2. SameResult \in Nat /\ t3 \in Nat /\ SameResult + t3 \in Tables
    BY <1>t, <2>1, TablePlaces
  <2>3. Add(SameResult, t3) = e
    BY <2>2, EntryAdd
  <2> QED BY <2>1, <2>3
<1>c. seq(rd, rs1, rs2)
        = i1 \o i2 \o i3 \o i4 \o i5 \o i6 \o i7 \o i8 \o i9 \o i10 \o i11 \o i12 \o i13 \o i14 \o i15
          \o i16 \o i17
  BY DEF seq, Push, Pop, Var, VAR_A, VAR_B
<1> HIDE DEF R, S, c0, c1, c2, c3, c4, c5, c6, c7, c8, c9, c10, c11, c12, c13, c14, c15, c16, c17, m1, m2,
        m3, m4, m5, m6, m7, m8, m9, m10, m11, m12, m13, m14, m15, m16, m17, x, y, u, v, t1, t2, t3, e
<1>d. i1 \in Code /\ c0 \o i1 = i1
  BY <1>b, RegNames, Coded, ConcatEmptySeq DEF Code, mv, li, c0
<1>0. Does(m, c0, m, R, S) /\ Reg(m, rs1) = x /\ Reg(m, rs2) = y /\ Reg(m, s0) = u /\ Reg(m, s1) = v
  BY <1>s, <1>r, <1>b, DoesNothing DEF Ready, c0, x, y, u, v
<1>1. Does(m, c1, m1, R, S) /\ Reg(m1, rs2) = y /\ Reg(m1, s0) = u /\ Reg(m1, s1) = v /\ Holds(m1, 240, x)
  <2>1. Does(m, c1, m1, R, S) /\ Saves(m, m1, 240, Reg(m, rs1))
    BY <1>0, <1>b, <1>a, <1>p, SwStack DEF c1, m1
  <2> QED BY <2>1, <1>0, <1>b DEF Saves, Holds
<1>2. Does(m, c2, m2, R, S) /\ Reg(m2, s0) = u /\ Reg(m2, s1) = v /\ Holds(m2, 236, y) /\ Holds(m2, 240, x)
  <2>1. Does(m, c2, m2, R, S) /\ Saves(m1, m2, 236, Reg(m1, rs2))
    BY <1>1, <1>b, <1>a, <1>p, SwStack DEF c2, m2
  <2> QED BY <2>1, <1>1, <1>b DEF Saves, Holds
<1>3. Does(m, c3, m3, R, S) /\ Reg(m3, s1) = v /\ Holds(m3, 236, y) /\ Holds(m3, 240, x) /\ Holds(m3, 252, u)
  <2>1. Does(m, c3, m3, R, S) /\ Saves(m2, m3, 252, Reg(m2, s0))
    BY <1>2, <1>b, <1>a, <1>p, SwStack DEF c3, m3
  <2> QED BY <2>1, <1>2, <1>b DEF Saves, Holds
<1>4. Does(m, c4, m4, R, S) /\ Holds(m4, 236, y) /\ Holds(m4, 240, x) /\ Holds(m4, 248, v)
      /\ Holds(m4, 252, u)
  <2>1. Does(m, c4, m4, R, S) /\ Saves(m3, m4, 248, Reg(m3, s1))
    BY <1>3, <1>b, <1>a, <1>p, SwStack DEF c4, m4
  <2> QED BY <2>1, <1>3, <1>b DEF Saves, Holds
<1>5. Does(m, c5, m5, R, S) /\ Reg(m5, s0) = SameArray /\ Holds(m5, 236, y) /\ Holds(m5, 240, x)
      /\ Holds(m5, 248, v) /\ Holds(m5, 252, u)
  <2>1. Ready(m4) /\ Live(m4)
    BY <1>4, <1>b, StaysReady DEF Ready
  <2>2. Does(m4, i5, Run(m4, i5), One(s0), {}) /\ Reg(Run(m4, i5), s0) = SameArray
    BY <2>1, <1>4, <1>b, ArrayPlaces, LaDoes
  <2> DEFINE R2 == One(s0)
             S2 == {}
  <2>3. R2 \subseteq R /\ S2 \subseteq S
    BY <1>b DEF One
  <2> HIDE DEF R2, S2
  <2>4. Does(m, c5, m5, R, S) /\ m5 = Run(m4, i5) /\ Keeps(m4, m5, R2, S2)
    BY <1>4, <2>2, <2>3, DoesNext DEF c5, m5, R2, S2
  <2> QED BY <2>2, <2>4, <1>4, <1>b DEF Keeps, Holds, R2, S2, One
<1>6. Does(m, c6, m6, R, S) /\ Reg(m6, s0) = SameArray /\ Reg(m6, gp) = z0 /\ Mem(m6, 237) = ByteOf(y, 1)
      /\ Mem(m6, 238) = ByteOf(y, 2) /\ Mem(m6, 239) = ByteOf(y, 3) /\ Mem(m6, 241) = ByteOf(x, 1)
      /\ Mem(m6, 242) = ByteOf(x, 2) /\ Mem(m6, 243) = ByteOf(x, 3) /\ Holds(m6, 248, v) /\ Holds(m6, 252, u)
  <2>1. Ready(m5) /\ Live(m5)
    BY <1>5, <1>b, StaysReady DEF Ready
  <2>2. Does(m5, i6, Run(m5, i6), Two(gp, tp), ArrayBytes)
        /\ Reg(Run(m5, i6), gp) = Differ(Mem(m5, 240), Mem(m5, 236))
    BY <2>1, <1>5, <1>b, Ats, CheckSameDoes
  <2> DEFINE R2 == Two(gp, tp)
             S2 == ArrayBytes
  <2>3. R2 \subseteq R /\ S2 \subseteq S
    BY <1>b, <1>a DEF Two
  <2> HIDE DEF R2, S2
  <2>4. Does(m, c6, m6, R, S) /\ m6 = Run(m5, i6) /\ Keeps(m5, m6, R2, S2)
    BY <1>5, <2>2, <2>3, DoesNext DEF c6, m6, R2, S2
  <2>5. Differ(Mem(m5, 240), Mem(m5, 236)) = z0
    BY <1>5 DEF Holds, z0
  <2> QED BY <2>2, <2>4, <2>5, <1>5, <1>b, ArrayPlaces DEF Keeps, Holds, R2, S2, Two
<1>7. Does(m, c7, m7, R, S) /\ Reg(m7, s0) = SameArray /\ Reg(m7, gp) = z0 /\ Reg(m7, s1) = z1
      /\ Mem(m7, 238) = ByteOf(y, 2) /\ Mem(m7, 239) = ByteOf(y, 3) /\ Mem(m7, 242) = ByteOf(x, 2)
      /\ Mem(m7, 243) = ByteOf(x, 3) /\ Holds(m7, 248, v) /\ Holds(m7, 252, u)
  <2>1. Ready(m6) /\ Live(m6)
    BY <1>6, <1>b, StaysReady DEF Ready
  <2>2. Does(m6, i7, Run(m6, i7), Two(s1, tp), ArrayBytes)
        /\ Reg(Run(m6, i7), s1) = Differ(Mem(m6, 241), Mem(m6, 237))
    BY <2>1, <1>6, <1>b, Ats, CheckSameDoes
  <2> DEFINE R2 == Two(s1, tp)
             S2 == ArrayBytes
  <2>3. R2 \subseteq R /\ S2 \subseteq S
    BY <1>b, <1>a DEF Two
  <2> HIDE DEF R2, S2
  <2>4. Does(m, c7, m7, R, S) /\ m7 = Run(m6, i7) /\ Keeps(m6, m7, R2, S2)
    BY <1>6, <2>2, <2>3, DoesNext DEF c7, m7, R2, S2
  <2>5. Differ(Mem(m6, 241), Mem(m6, 237)) = z1
    BY <1>6 DEF Holds, z1
  <2> QED BY <2>2, <2>4, <2>5, <1>6, <1>b, ArrayPlaces DEF Keeps, Holds, R2, S2, Two
<1>8. Does(m, c8, m8, R, S) /\ Reg(m8, s0) = SameArray /\ Reg(m8, gp) = t1 /\ Mem(m8, 238) = ByteOf(y, 2)
      /\ Mem(m8, 239) = ByteOf(y, 3) /\ Mem(m8, 242) = ByteOf(x, 2) /\ Mem(m8, 243) = ByteOf(x, 3)
      /\ Holds(m8, 248, v) /\ Holds(m8, 252, u)
  <2>1. Does(m, c8, m8, R, S) /\ Sets(m7, m8, gp, Add(Reg(m7, gp), Reg(m7, s1)))
    BY <1>7, <1>b, <1>a, <1>p, AddRuns DEF c8, m8
  <2>2. Add(Reg(m7, gp), Reg(m7, s1)) = t1
    BY <1>7, <1>t
  <2> QED BY <2>1, <2>2, <1>7, <1>b DEF Sets, Holds
<1>9. Does(m, c9, m9, R, S) /\ Reg(m9, s0) = SameArray /\ Reg(m9, gp) = t1 /\ Reg(m9, s1) = z2
      /\ Mem(m9, 239) = ByteOf(y, 3) /\ Mem(m9, 243) = ByteOf(x, 3) /\ Holds(m9, 248, v) /\ Holds(m9, 252, u)
  <2>1. Ready(m8) /\ Live(m8)
    BY <1>8, <1>b, StaysReady DEF Ready
  <2>2. Does(m8, i9, Run(m8, i9), Two(s1, tp), ArrayBytes)
        /\ Reg(Run(m8, i9), s1) = Differ(Mem(m8, 242), Mem(m8, 238))
    BY <2>1, <1>8, <1>b, Ats, CheckSameDoes
  <2> DEFINE R2 == Two(s1, tp)
             S2 == ArrayBytes
  <2>3. R2 \subseteq R /\ S2 \subseteq S
    BY <1>b, <1>a DEF Two
  <2> HIDE DEF R2, S2
  <2>4. Does(m, c9, m9, R, S) /\ m9 = Run(m8, i9) /\ Keeps(m8, m9, R2, S2)
    BY <1>8, <2>2, <2>3, DoesNext DEF c9, m9, R2, S2
  <2>5. Differ(Mem(m8, 242), Mem(m8, 238)) = z2
    BY <1>8 DEF Holds, z2
  <2> QED BY <2>2, <2>4, <2>5, <1>8, <1>b, ArrayPlaces DEF Keeps, Holds, R2, S2, Two
<1>10. Does(m, c10, m10, R, S) /\ Reg(m10, s0) = SameArray /\ Reg(m10, gp) = t2
      /\ Mem(m10, 239) = ByteOf(y, 3) /\ Mem(m10, 243) = ByteOf(x, 3) /\ Holds(m10, 248, v)
      /\ Holds(m10, 252, u)
  <2>1. Does(m, c10, m10, R, S) /\ Sets(m9, m10, gp, Add(Reg(m9, gp), Reg(m9, s1)))
    BY <1>9, <1>b, <1>a, <1>p, AddRuns DEF c10, m10
  <2>2. Add(Reg(m9, gp), Reg(m9, s1)) = t2
    BY <1>9, <1>t
  <2> QED BY <2>1, <2>2, <1>9, <1>b DEF Sets, Holds
<1>11. Does(m, c11, m11, R, S) /\ Reg(m11, gp) = t2 /\ Reg(m11, s1) = z3 /\ Holds(m11, 248, v)
      /\ Holds(m11, 252, u)
  <2>1. Ready(m10) /\ Live(m10)
    BY <1>10, <1>b, StaysReady DEF Ready
  <2>2. Does(m10, i11, Run(m10, i11), Two(s1, tp), ArrayBytes)
        /\ Reg(Run(m10, i11), s1) = Differ(Mem(m10, 243), Mem(m10, 239))
    BY <2>1, <1>10, <1>b, Ats, CheckSameDoes
  <2> DEFINE R2 == Two(s1, tp)
             S2 == ArrayBytes
  <2>3. R2 \subseteq R /\ S2 \subseteq S
    BY <1>b, <1>a DEF Two
  <2> HIDE DEF R2, S2
  <2>4. Does(m, c11, m11, R, S) /\ m11 = Run(m10, i11) /\ Keeps(m10, m11, R2, S2)
    BY <1>10, <2>2, <2>3, DoesNext DEF c11, m11, R2, S2
  <2>5. Differ(Mem(m10, 243), Mem(m10, 239)) = z3
    BY <1>10 DEF Holds, z3
  <2> QED BY <2>2, <2>4, <2>5, <1>10, <1>b, ArrayPlaces DEF Keeps, Holds, R2, S2, Two
<1>12. Does(m, c12, m12, R, S) /\ Reg(m12, gp) = t3 /\ Holds(m12, 248, v) /\ Holds(m12, 252, u)
  <2>1. Does(m, c12, m12, R, S) /\ Sets(m11, m12, gp, Add(Reg(m11, gp), Reg(m11, s1)))
    BY <1>11, <1>b, <1>a, <1>p, AddRuns DEF c12, m12
  <2>2. Add(Reg(m11, gp), Reg(m11, s1)) = t3
    BY <1>11, <1>t
  <2> QED BY <2>1, <2>2, <1>11, <1>b DEF Sets, Holds
<1>13. Does(m, c13, m13, R, S) /\ Reg(m13, gp) = t3 /\ Reg(m13, tp) = SameResult /\ Holds(m13, 248, v)
      /\ Holds(m13, 252, u)
  <2>1. Ready(m12) /\ Live(m12)
    BY <1>12, <1>b, StaysReady DEF Ready
  <2>2. Does(m12, i13, Run(m12, i13), One(tp), {}) /\ Reg(Run(m12, i13), tp) = SameResult
    BY <2>1, <1>12, <1>b, TablesLinked, LaDoes
  <2> DEFINE R2 == One(tp)
             S2 == {}
  <2>3. R2 \subseteq R /\ S2 \subseteq S
    BY <1>b DEF One
  <2> HIDE DEF R2, S2
  <2>4. Does(m, c13, m13, R, S) /\ m13 = Run(m12, i13) /\ Keeps(m12, m13, R2, S2)
    BY <1>12, <2>2, <2>3, DoesNext DEF c13, m13, R2, S2
  <2> QED BY <2>2, <2>4, <1>12, <1>b DEF Keeps, Holds, R2, S2, One
<1>14. Does(m, c14, m14, R, S) /\ Reg(m14, tp) = e /\ Holds(m14, 248, v) /\ Holds(m14, 252, u)
  <2>1. Does(m, c14, m14, R, S) /\ Sets(m13, m14, tp, Add(Reg(m13, tp), Reg(m13, gp)))
    BY <1>13, <1>b, <1>a, <1>p, AddRuns DEF c14, m14
  <2>2. Add(Reg(m13, tp), Reg(m13, gp)) = e
    BY <1>13, <1>q
  <2> QED BY <2>1, <2>2, <1>13, <1>b DEF Sets, Holds
<1>15. Does(m, c15, m15, R, S) /\ Reg(m15, rd) = w /\ Holds(m15, 248, v) /\ Holds(m15, 252, u)
  <2>1. Does(m, c15, m15, R, S) /\ Sets(m14, m15, rd, Ro(e))
    BY <1>14, <1>b, <1>a, <1>p, TableLbu, <1>q DEF c15, m15
  <2>2. Ro(e) = w
    BY <1>14, <1>q
  <2> QED BY <2>1, <2>2, <1>14, <1>b DEF Sets, Holds
<1>16. Does(m, c16, m16, R, S) /\ Reg(m16, rd) = w /\ Reg(m16, s1) = v /\ Holds(m16, 252, u)
  <2>1. Does(m, c16, m16, R, S) /\ Sets(m15, m16, s1, v)
    BY <1>15, <1>b, <1>a, <1>p, LwBack, <1>x DEF c16, m16
  <2> QED BY <2>1, <1>15, <1>b DEF Sets, Holds
<1>17. Does(m, c17, m17, R, S) /\ Reg(m17, rd) = w /\ Reg(m17, s1) = v /\ Reg(m17, s0) = u
  <2>1. Does(m, c17, m17, R, S) /\ Sets(m16, m17, s0, u)
    BY <1>16, <1>b, <1>a, <1>p, LwBack, <1>x DEF c17, m17
  <2> QED BY <2>1, <1>16, <1>b DEF Sets, Holds
<1>e. c17 = seq(rd, rs1, rs2)
  BY <1>c, <1>d DEF c1, c2, c3, c4, c5, c6, c7, c8, c9, c10, c11, c12, c13, c14, c15, c16, c17
<1> DEFINE Q == Three(rd, gp, tp)
           T == Scratch
<1>f. /\ Q \subseteq R /\ \A r : r \in R /\ r \notin Q => Reg(m17, r) = Reg(m, r)
      /\ T \subseteq S /\ \A a : a \in S /\ a \notin T => Mem(m17, a) = Mem(m, a)
  BY <1>17, <1>b DEF R, S, Five, Three, x, y, u, v
<1> HIDE DEF Q, T
<1>g. Does(m, c17, m17, Q, T)
  BY <1>17, <1>f, DoesRestores
<1> QED BY <1>17, <1>e, <1>g DEF m17, Q, T, x, y, w

-----------------------------------------------------------------------------
(* 15. Jumps and branches *)

\* Code c takes m0 to m, which jumps to t, and changes the registers R and the bytes S.
Jumps(m0, c, m, R, S, t) ==
  /\ c \in Code /\ m = Run(m0, c)
  /\ m.jumped /\ m.pc = t /\ m.stray = m0.stray
  /\ \A r : r \notin R => Reg(m, r) = Reg(m0, r)
  /\ \A a : a \notin S => Mem(m, a) = Mem(m0, a)

\* After a jump nothing runs.
LEMMA JumpedStays ==
  ASSUME NEW m, NEW c, c \in Code, m.jumped
  PROVE  Run(m, c) = m
<1> PICK f : Passes(f, m, c) /\ Run(m, c) = f[Len(c)]
  BY RunSteps
<1> DEFINE T == {n \in Nat : n <= Len(c) => f[n] = m}
<1>0. Len(c) \in Nat
  BY DEF Code
<1>1. 0 \in T
  BY DEF Passes
<1>2. ASSUME NEW n \in T PROVE n + 1 \in T
  <2> SUFFICES ASSUME n + 1 <= Len(c) PROVE f[n + 1] = m
    OBVIOUS
  <2>1. n \in Nat /\ n + 1 \in 1 .. Len(c) /\ (n + 1) - 1 = n /\ f[n] = m
    BY <1>0
  <2>2. f[n + 1] = Exec(m, c[n + 1])
    BY <2>1 DEF Passes
  <2> QED BY <2>2 DEF Exec
<1> HIDE DEF T
<1>3. T = Nat
  BY <1>1, <1>2, Induction DEF T
<1> QED BY <1>0, <1>3 DEF T

\* Code after a jump does not run.
LEMMA JumpsOn ==
  ASSUME NEW m0, NEW c, NEW m, NEW R, NEW S, NEW t, Jumps(m0, c, m, R, S, t),
         NEW d, d \in Code
  PROVE  Jumps(m0, c \o d, m, R, S, t)
<1>1. c \in Code /\ m = Run(m0, c) /\ m.jumped
  BY DEF Jumps
<1>2. c \o d \in Code /\ Run(m0, c \o d) = Run(m, d)
  BY <1>1, RunBoth
<1>3. Run(m, d) = m
  BY <1>1, JumpedStays
<1> QED BY <1>2, <1>3 DEF Jumps

\* Code that jumps after code that does not.
LEMMA JumpsAfter ==
  ASSUME NEW m0, NEW c, NEW m, NEW R, NEW S, Does(m0, c, m, R, S),
         NEW d, NEW m2, NEW R2, NEW S2, NEW t, Jumps(m, d, m2, R2, S2, t), R2 \subseteq R, S2 \subseteq S
  PROVE  Jumps(m0, c \o d, m2, R, S, t)
<1>1. c \in Code /\ m = Run(m0, c) /\ d \in Code /\ m2 = Run(m, d)
  BY DEF Does, Jumps
<1>2. c \o d \in Code /\ Run(m0, c \o d) = m2
  BY <1>1, RunBoth
<1>3. m2.jumped /\ m2.pc = t /\ m2.stray = m0.stray
  BY DEF Does, Jumps
<1>4. \A r : r \notin R => Reg(m2, r) = Reg(m0, r)
  BY DEF Does, Jumps
<1>5. \A a : a \notin S => Mem(m2, a) = Mem(m0, a)
  BY DEF Does, Jumps
<1> QED BY <1>2, <1>3, <1>4, <1>5 DEF Jumps

\* jalr jumps to what its register holds.
LEMMA JumpRuns ==
  ASSUME NEW m0, NEW c, NEW m, NEW R, NEW S, NEW rs, Does(m0, c, m, R, S), rs \in Regs
  PROVE  Jumps(m0, c \o jalr(zero, rs), Run(m0, c \o jalr(zero, rs)), R, S, Reg(m, rs))
<1> DEFINE i == [op |-> "jalr", a |-> zero, b |-> rs, c |-> 0]
           m2 == [m EXCEPT !.pc = m.regs[rs], !.jumped = TRUE]
<1>1. i \in Op /\ jalr(zero, rs) = <<i>>
  BY RegNames DEF jalr, Base, Op
<1>2. m \in Machine /\ ~ m.jumped /\ c \in Code /\ m = Run(m0, c)
  BY DEF Does, Live
<1>3. Exec(m, i) = m2
  BY <1>2 DEF Exec, Set
<1>4. <<i>> \in Code /\ Run(m, <<i>>) = m2
  BY <1>1, <1>3, RunOne
<1>5. c \o <<i>> \in Code /\ Run(m0, c \o <<i>>) = m2
  BY <1>2, <1>4, RunBoth
<1>6. m2.jumped /\ m2.pc = Reg(m, rs) /\ m2.stray = m.stray /\ m2.regs = m.regs /\ m2.ram = m.ram
  BY <1>2 DEF Machine, Reg
<1>7. (\A r : Reg(m2, r) = Reg(m, r)) /\ (\A a : Mem(m2, a) = Mem(m, a))
  BY <1>6 DEF Reg, Mem
<1> HIDE DEF m2, i
<1>8. /\ m.stray = m0.stray
      /\ \A r : r \notin R => Reg(m, r) = Reg(m0, r)
      /\ \A a : a \notin S => Mem(m, a) = Mem(m0, a)
  BY DEF Does
<1> QED BY <1>1, <1>5, <1>6, <1>7, <1>8 DEF Jumps

\* A call: the register of the address gets the return address.
LEMMA CallRuns ==
  ASSUME NEW m0, NEW c, NEW m, NEW R, NEW S, NEW rd, Does(m0, c, m, R, S), rd \in R
  PROVE  /\ Jumps(m0, c \o jalr(rd, rd), Run(m0, c \o jalr(rd, rd)), R, S, Reg(m, rd))
         /\ Reg(Run(m0, c \o jalr(rd, rd)), rd) = After
<1> DEFINE i == [op |-> "jalr", a |-> rd, b |-> rd, c |-> 0]
           m1 == Set(m, rd, After)
           m2 == [m1 EXCEPT !.pc = m.regs[rd], !.jumped = TRUE]
<1>0. rd \in Regs \ {zero} /\ rd \in Int
  BY RegNames DEF Does
<1>1. i \in Op /\ jalr(rd, rd) = <<i>>
  BY <1>0 DEF jalr, Base, Op
<1>2. Live(m) /\ ~ m.jumped /\ c \in Code /\ m = Run(m0, c)
  BY DEF Does, Live
<1>3. Exec(m, i) = m2
  BY <1>2 DEF Exec
<1>4. <<i>> \in Code /\ Run(m, <<i>>) = m2
  BY <1>1, <1>3, RunOne
<1>5. c \o <<i>> \in Code /\ Run(m0, c \o <<i>>) = m2
  BY <1>2, <1>4, RunBoth
<1>6. After \in Word
  BY WidthBounds DEF After, Word
<1>7. Live(m1) /\ Sets(m, m1, rd, After) /\ m1.stray = m.stray
  BY <1>0, <1>2, <1>6, SetRuns
<1> HIDE DEF m1
<1>8. m2.jumped /\ m2.pc = Reg(m, rd) /\ m2.stray = m1.stray /\ m2.regs = m1.regs /\ m2.ram = m1.ram
  BY <1>0, <1>7 DEF Machine, Reg, Live
<1>9. (\A r : Reg(m2, r) = Reg(m1, r)) /\ (\A a : Mem(m2, a) = Mem(m1, a))
  BY <1>8 DEF Reg, Mem
<1> HIDE DEF m2, i
<1>10. /\ m.stray = m0.stray
       /\ \A r : r \notin R => Reg(m, r) = Reg(m0, r)
       /\ \A a : a \notin S => Mem(m, a) = Mem(m0, a)
  BY DEF Does
<1>11. /\ Reg(m2, rd) = After
       /\ \A r : r \notin R => Reg(m2, r) = Reg(m0, r)
       /\ \A a : a \notin S => Mem(m2, a) = Mem(m0, a)
  BY <1>7, <1>9, <1>10 DEF Sets
<1> QED BY <1>1, <1>5, <1>7, <1>8, <1>10, <1>11 DEF Jumps

\* The word that a branch picks: tp is above the stack pointer by no or one word.
Flag(k) == k = 0 \/ k = 1

PickBase(k) == StackTop + 4 * k

Picked(k, high, low) == IF k = 1 THEN high ELSE low

\* The load of branch_resolve, by the flag, takes one of the two addresses on the stack.
LEMMA LwPick ==
  ASSUME NEW m0, NEW c, NEW m, NEW R, NEW S, NEW k, NEW high, NEW low,
         Does(m0, c, m, R, S), tp \in R, Flag(k), Reg(m, tp) = PickBase(k),
         Holds(m, 240, high), Holds(m, 236, low), high \in Word, low \in Word
  PROVE  /\ Does(m0, c \o lw(tp, -20, tp), Run(m0, c \o lw(tp, -20, tp)), R, S)
         /\ Sets(m, Run(m0, c \o lw(tp, -20, tp)), tp, Picked(k, high, low))
<1> DEFINE w == IF k = 1 THEN high ELSE low
           a == 236 + 4 * k
           off == -20
<1>1. k \in Int /\ off \in Int /\ a \in Int /\ a >= 236 /\ a <= 240
  BY DEF Flag
<1>2. PickBase(k) + off = a /\ PickBase(k) \in Int
  BY <1>1 DEF PickBase
<1>3. /\ w \in Word /\ Holds(m, a, w)
  BY DEF Flag
<1> HIDE DEF w, a, off
<1>4. Modulus \in Int /\ a < Modulus
  BY <1>1, WidthBounds
<1>5. a = Add(Reg(m, tp), off)
  BY <1>1, <1>2, <1>4, AddSmall
<1>6. a \in Ram /\ a + 1 \in Ram /\ a + 2 \in Ram /\ a + 3 \in Ram
  BY <1>1, Places
<1>7. \A n \in 0 .. 3 : a + n \in Ram \/ a + n \in Tables
  BY <1>1, Places
<1>8. tp \in Regs /\ Live(m)
  BY RegNames DEF Does
<1>9. /\ Does(m0, c \o lw(tp, off, tp), Run(m0, c \o lw(tp, off, tp)), R, S)
      /\ Sets(m, Run(m0, c \o lw(tp, off, tp)), tp,
              Wd(ByteIn(m, a), ByteIn(m, a + 1), ByteIn(m, a + 2), ByteIn(m, a + 3)))
  BY <1>1, <1>5, <1>7, <1>8, LwRuns
<1>10. /\ ByteIn(m, a) = ByteOf(w, 0) /\ ByteIn(m, a + 1) = ByteOf(w, 1)
       /\ ByteIn(m, a + 2) = ByteOf(w, 2) /\ ByteIn(m, a + 3) = ByteOf(w, 3)
  BY <1>3, <1>6, <1>8, Cells DEF Holds
<1>11. Wd(ByteOf(w, 0), ByteOf(w, 1), ByteOf(w, 2), ByteOf(w, 3)) = w
  BY <1>3, WordIsBytes
<1> QED BY <1>9, <1>10, <1>11 DEF w, off, Picked

\* A flag shifted by two is 0 or 4.
LEMMA FourTimes == ASSUME NEW k, Flag(k) PROVE Shl(k, 2) = 4 * k
<1> DEFINE w == k * 4
<1>1. k \in Nat /\ w \in Nat /\ w < 8 /\ w = 4 * k
  BY DEF Flag
<1>2. Pow2[2] = 4
  BY Pow2Def
<1>3. Shl(k, 2) = w % Modulus
  BY <1>1, <1>2, ShlMod
<1> HIDE DEF w
<1>4. w \in Word
  BY <1>1, WidthBounds DEF Word
<1> QED BY <1>1, <1>3, <1>4, SmallWord

PickCode(high, low) ==
  slli(tp, tp, 2) \o add(tp, sp, tp) \o la(gp, high) \o sw(gp, Var(VAR_A), sp)
    \o la(gp, low) \o sw(gp, Var(VAR_B), sp) \o lw(tp, Var(VAR_B), tp)

\* branch_resolve leaves in tp the address that the flag picks.
LEMMA PickDoes ==
  ASSUME NEW m, NEW k, NEW high, NEW low,
         Ready(m),
         Reg(m, tp) = k,
         Flag(k),
         Linked(high),
         Linked(low)
  PROVE  /\ Does(m, PickCode(high, low), Run(m, PickCode(high, low)), Two(gp, tp), Scratch)
         /\ Reg(Run(m, PickCode(high, low)), tp) = Picked(k, high, low)
<1> DEFINE k4 == 4 * k
           t == PickBase(k)
           w == Picked(k, high, low)
           R == Two(gp, tp)
           S == Scratch
           c0 == <<>>
           i1 == slli(tp, tp, 2)
           c1 == c0 \o i1
           m1 == Run(m, c1)
           i2 == add(tp, sp, tp)
           c2 == c1 \o i2
           m2 == Run(m, c2)
           i3 == la(gp, high)
           c3 == c2 \o i3
           m3 == Run(m, c3)
           i4 == sw(gp, -16, sp)
           c4 == c3 \o i4
           m4 == Run(m, c4)
           i5 == la(gp, low)
           c5 == c4 \o i5
           m5 == Run(m, c5)
           i6 == sw(gp, -20, sp)
           c6 == c5 \o i6
           m6 == Run(m, c6)
           i7 == lw(tp, -20, tp)
           c7 == c6 \o i7
           m7 == Run(m, c7)
<1>s. S \subseteq Ram
  BY DEF Ram
<1>a. Block(240, S) /\ Block(236, S) /\ Slots2(4, 6) \subseteq S
  BY ScratchPlaces
<1>p. Spot(-16, 240) /\ Spot(-20, 236)
  BY Spots
<1>r. R \subseteq Regs \ {zero}
  BY RegNames DEF Two
<1>b. Ready(m) /\ sp \notin R /\ gp \in R /\ tp \in R /\ gp \in Regs /\ tp \in Regs /\ sp \in Regs
  BY RegNames DEF Two
<1>x. high \in Word /\ low \in Word
  BY WordNat DEF Linked, Word
<1>t. Shl(k, 2) = k4 /\ Add(StackTop, k4) = t
  <2>1. Shl(k, 2) = k4
    BY FourTimes
  <2>2. k4 \in Int /\ k4 >= 0 /\ k4 <= 4 /\ Modulus \in Int /\ 256 + k4 < Modulus
    BY WidthBounds DEF Flag
  <2>3. t = 256 + k4
    BY DEF PickBase
  <2> HIDE DEF k4
  <2>4. Add(256, k4) = 256 + k4
    BY <2>2, AddSmall
  <2> QED BY <2>1, <2>3, <2>4
<1>u. t = PickBase(k)
  OBVIOUS
<1>c. PickCode(high, low) = i1 \o i2 \o i3 \o i4 \o i5 \o i6 \o i7
  BY DEF PickCode, Var, VAR_A, VAR_B
<1> HIDE DEF R, S, c0, c1, c2, c3, c4, c5, c6, c7, m1, m2, m3, m4, m5, m6, m7, k4, t, w
<1>0. Does(m, c0, m, R, S) /\ Reg(m, tp) = k
  BY <1>s, <1>r, <1>b, DoesNothing DEF Ready, c0
<1>1. Does(m, c1, m1, R, S) /\ Reg(m1, tp) = k4
  <2>1. Ready(m) /\ Live(m)
    BY <1>b DEF Ready
  <2>2. Does(m, i1, Run(m, i1), Two(tp, tp), Slots2(4, 6)) /\ Reg(Run(m, i1), tp) = Shl(Reg(m, tp), 2)
    BY <2>1, <1>0, <1>b, SlliDoes
  <2> DEFINE R2 == Two(tp, tp)
             S2 == Slots2(4, 6)
  <2>3. R2 \subseteq R /\ S2 \subseteq S
    BY <1>b, <1>a DEF Two
  <2> HIDE DEF R2, S2
  <2>4. Does(m, c1, m1, R, S) /\ m1 = Run(m, i1) /\ Keeps(m, m1, R2, S2)
    BY <1>0, <2>2, <2>3, DoesNext DEF c1, m1, R2, S2
  <2>5. Shl(Reg(m, tp), 2) = k4
    BY <1>0, <1>t
  <2> QED BY <2>2, <2>4, <2>5, <1>0, <1>b DEF Keeps, Holds, R2, S2, Two, Slots2, Slot
<1>d. i1 \in Code /\ c0 \o i1 = i1
  <2>1. Ready(m) /\ Live(m)
    BY <1>b DEF Ready
  <2>2. Does(m, i1, Run(m, i1), Two(tp, tp), Slots2(4, 6))
    BY <2>1, <1>b, SlliDoes
  <2>3. i1 \in Code
    BY <2>2 DEF Does
  <2> QED BY <2>3, ConcatEmptySeq DEF Code, c0
<1>2. Does(m, c2, m2, R, S) /\ Reg(m2, tp) = t
  <2>1. Does(m, c2, m2, R, S) /\ Sets(m1, m2, tp, Add(Reg(m1, sp), Reg(m1, tp)))
    BY <1>1, <1>b, AddRuns DEF c2, m2
  <2>2. Add(Reg(m1, sp), Reg(m1, tp)) = t
    BY <1>1, <1>b, <1>t, StaysReady DEF Ready
  <2> QED BY <2>1, <2>2, <1>1, <1>b DEF Sets, Holds
<1>3. Does(m, c3, m3, R, S) /\ Reg(m3, tp) = t /\ Reg(m3, gp) = high
  <2>1. Ready(m2) /\ Live(m2)
    BY <1>2, <1>b, StaysReady DEF Ready
  <2>2. Does(m2, i3, Run(m2, i3), One(gp), {}) /\ Reg(Run(m2, i3), gp) = high
    BY <2>1, <1>2, <1>b, LaDoes
  <2> DEFINE R2 == One(gp)
             S2 == {}
  <2>3. R2 \subseteq R /\ S2 \subseteq S
    BY <1>b DEF One
  <2> HIDE DEF R2, S2
  <2>4. Does(m, c3, m3, R, S) /\ m3 = Run(m2, i3) /\ Keeps(m2, m3, R2, S2)
    BY <1>2, <2>2, <2>3, DoesNext DEF c3, m3, R2, S2
  <2> QED BY <2>2, <2>4, <1>2, <1>b DEF Keeps, Holds, R2, S2, One
<1>4. Does(m, c4, m4, R, S) /\ Reg(m4, tp) = t /\ Holds(m4, 240, high)
  <2>1. Does(m, c4, m4, R, S) /\ Saves(m3, m4, 240, Reg(m3, gp))
    BY <1>3, <1>b, <1>a, <1>p, SwStack DEF c4, m4
  <2> QED BY <2>1, <1>3, <1>b DEF Saves, Holds
<1>5. Does(m, c5, m5, R, S) /\ Reg(m5, tp) = t /\ Reg(m5, gp) = low /\ Holds(m5, 240, high)
  <2>1. Ready(m4) /\ Live(m4)
    BY <1>4, <1>b, StaysReady DEF Ready
  <2>2. Does(m4, i5, Run(m4, i5), One(gp), {}) /\ Reg(Run(m4, i5), gp) = low
    BY <2>1, <1>4, <1>b, LaDoes
  <2> DEFINE R2 == One(gp)
             S2 == {}
  <2>3. R2 \subseteq R /\ S2 \subseteq S
    BY <1>b DEF One
  <2> HIDE DEF R2, S2
  <2>4. Does(m, c5, m5, R, S) /\ m5 = Run(m4, i5) /\ Keeps(m4, m5, R2, S2)
    BY <1>4, <2>2, <2>3, DoesNext DEF c5, m5, R2, S2
  <2> QED BY <2>2, <2>4, <1>4, <1>b DEF Keeps, Holds, R2, S2, One
<1>6. Does(m, c6, m6, R, S) /\ Reg(m6, tp) = t /\ Holds(m6, 236, low) /\ Holds(m6, 240, high)
  <2>1. Does(m, c6, m6, R, S) /\ Saves(m5, m6, 236, Reg(m5, gp))
    BY <1>5, <1>b, <1>a, <1>p, SwStack DEF c6, m6
  <2> QED BY <2>1, <1>5, <1>b DEF Saves, Holds
<1>7. Does(m, c7, m7, R, S) /\ Reg(m7, tp) = w
  <2>1. Does(m, c7, m7, R, S) /\ Sets(m6, m7, tp, Picked(k, high, low))
    BY <1>6, <1>b, LwPick, <1>x, <1>u DEF c7, m7
  <2>2. Picked(k, high, low) = w
    BY <1>6 DEF w
  <2> QED BY <2>1, <2>2, <1>6, <1>b DEF Sets, Holds
<1>e. c7 = PickCode(high, low)
  BY <1>c, <1>d DEF c1, c2, c3, c4, c5, c6, c7
<1> QED BY <1>7, <1>e DEF m7, R, S, w


\* branch_resolve jumps to the target when the flag is as wanted, and else goes on.
LEMMA BranchJumps ==
  ASSUME NEW m, NEW target, NEW sel, Ready(m), Flag(Reg(m, tp)), Linked(target), sel \in BOOLEAN
  PROVE  Jumps(m, branch_resolve(target, sel), Run(m, branch_resolve(target, sel)), Two(gp, tp), Scratch,
               IF (Reg(m, tp) = 1) = sel THEN target ELSE After)
<1> DEFINE k == Reg(m, tp)
           high == IF sel THEN target ELSE After
           low == IF sel THEN After ELSE target
           c == PickCode(high, low)
           m1 == Run(m, c)
<1>1. Linked(high) /\ Linked(low)
  BY WidthBounds DEF Linked, After
<1>2. Does(m, c, m1, Two(gp, tp), Scratch) /\ Reg(m1, tp) = Picked(k, high, low)
  BY <1>1, PickDoes
<1>3. branch_resolve(target, sel) = c \o jalr(zero, tp)
  <2> DEFINE d1 == slli(tp, tp, 2)
             d2 == add(tp, sp, tp)
             d3 == la(gp, high)
             d4 == sw(gp, Var(VAR_A), sp)
             d5 == la(gp, low)
             d6 == sw(gp, Var(VAR_B), sp)
             d7 == lw(tp, Var(VAR_B), tp)
  <2>1. c = d1 \o d2 \o d3 \o d4 \o d5 \o d6 \o d7
    BY DEF PickCode
  <2>2. branch_resolve(target, sel) = d1 \o d2 \o d3 \o d4 \o d5 \o d6 \o d7 \o jalr(zero, tp)
    BY DEF branch_resolve
  <2> QED BY <2>1, <2>2
<1> HIDE DEF high, low, c
<1>4. Jumps(m, c \o jalr(zero, tp), Run(m, c \o jalr(zero, tp)), Two(gp, tp), Scratch, Reg(m1, tp))
  BY <1>2, JumpRuns, RegNames
<1>5. (Picked(k, high, low)) = IF (k = 1) = sel THEN target ELSE After
  BY DEF high, low, Picked
<1> QED BY <1>2, <1>3, <1>4, <1>5

\* Is a register not positive?
LEMMA NotPositiveDoes ==
  ASSUME NEW m, NEW rs2,
         Ready(m),
         rs2 \in Regs \ {gp}
  PROVE  /\ Does(m, NotPositive(rs2), Run(m, NotPositive(rs2)), Two(gp, tp), Scratch)
         /\ Reg(Run(m, NotPositive(rs2)), tp) = IF Signed(Reg(m, rs2)) > 0 THEN 0 ELSE 1
<1> DEFINE y == Reg(m, rs2)
           y1 == Add(y, -1)
           a1 == Sign(y)
           a2 == Sign(y1)
           k == a1 + a2
           e == Or1 + k
           w == IF Signed(y) > 0 THEN 0 ELSE 1
           R == Two(gp, tp)
           S == Scratch
           c0 == <<>>
           i1 == msb(gp, rs2)
           c1 == c0 \o i1
           m1 == Run(m, c1)
           n2 == -1
           i2 == addi(tp, rs2, n2)
           c2 == c1 \o i2
           m2 == Run(m, c2)
           i3 == msb(tp, tp)
           c3 == c2 \o i3
           m3 == Run(m, c3)
           i4 == add(gp, gp, tp)
           c4 == c3 \o i4
           m4 == Run(m, c4)
           i5 == la(tp, Or1)
           c5 == c4 \o i5
           m5 == Run(m, c5)
           i6 == add(tp, gp, tp)
           c6 == c5 \o i6
           m6 == Run(m, c6)
           i7 == lbu(tp, 0, tp)
           c7 == c6 \o i7
           m7 == Run(m, c7)
<1>s. S \subseteq Ram
  BY DEF Ram
<1>a. Slot(6) \subseteq S
  BY ScratchPlaces
<1>r. R \subseteq Regs \ {zero}
  BY RegNames DEF Two
<1>b. Ready(m) /\ sp \notin R /\ gp \in R /\ tp \in R /\ gp \in Regs /\ tp \in Regs /\ rs2 \in Regs
      /\ rs2 # gp /\ n2 \in Int
  BY RegNames DEF Two
<1>y. y \in Word /\ y \in Int /\ y >= 0 /\ y < Modulus
  BY RegWord, WordNat DEF Ready
<1>y1. y1 \in Word
  BY <1>y, AddWord
<1>w. w = (IF k = 0 THEN 0 ELSE 1) /\ k \in Nat /\ k < 4 /\ a1 \in Int /\ a2 \in Int /\ a1 >= 0 /\ a2 >= 0
  <2> DEFINE H == Modulus \div 2
  <2> HIDE DEF y
  <2>1. Modulus \in Int /\ H \in Int /\ H >= 1 /\ H < Modulus
    BY WidthBounds
  <2> HIDE DEF H
  <2>2. y = 0 => y1 = Modulus - 1
    <3>1. (-1) % Modulus = Modulus - 1
      BY <2>1
    <3> QED BY <3>1 DEF Add
  <2>3. y # 0 => y1 = y - 1
    BY <1>y, <2>1, AddSmall
  <2> HIDE DEF y1
  <2>4. a1 = (IF y >= H THEN 1 ELSE 0) /\ a2 = (IF y1 >= H THEN 1 ELSE 0)
    BY DEF Sign, H
  <2>5. Signed(y) = IF y >= H THEN y - Modulus ELSE y
    BY DEF Signed, H
  <2> HIDE DEF a1, a2
  <2>6. CASE y = 0
    BY <1>y, <2>1, <2>2, <2>4, <2>5, <2>6
  <2>7. CASE y # 0
    BY <1>y, <2>1, <2>3, <2>4, <2>5, <2>7
  <2> QED BY <2>6, <2>7
<1> HIDE DEF a1, a2, w
<1>q. e \in Tables /\ Ro(e) = w /\ Add(k, Or1) = e
  <2> HIDE DEF k
  <2>1. e \in Tables /\ Ro(e) = w
    BY <1>w, SmallEntries
  <2>2. Or1 \in Nat /\ Or1 + k \in Tables
    BY <2>1, TablePlaces
  <2>3. Add(k, Or1) = e
    BY <1>w, <2>2, EntryAdd
  <2> QED BY <2>1, <2>3
<1>k. Add(a1, a2) = k
  <2>1. a1 + a2 < Modulus
    BY <1>w, WidthBounds
  <2> QED BY <1>w, <2>1, AddSmall
<1>c. NotPositive(rs2) = i1 \o i2 \o i3 \o i4 \o i5 \o i6 \o i7
  BY DEF NotPositive
<1> HIDE DEF R, S, c0, c1, c2, c3, c4, c5, c6, c7, m1, m2, m3, m4, m5, m6, m7, n2, y, y1, k, e
<1>0. Does(m, c0, m, R, S) /\ Reg(m, rs2) = y
  BY <1>s, <1>r, <1>b, DoesNothing DEF Ready, c0, y
<1>1. Does(m, c1, m1, R, S) /\ Reg(m1, rs2) = y /\ Reg(m1, gp) = a1
  <2>1. Ready(m) /\ Live(m)
    BY <1>b DEF Ready
  <2>2. Does(m, i1, Run(m, i1), One(gp), Slot(6)) /\ Reg(Run(m, i1), gp) = Sign(Reg(m, rs2))
    BY <2>1, <1>0, <1>b, MsbDoes
  <2> DEFINE R2 == One(gp)
             S2 == Slot(6)
  <2>3. R2 \subseteq R /\ S2 \subseteq S
    BY <1>b, <1>a DEF One
  <2> HIDE DEF R2, S2
  <2>4. Does(m, c1, m1, R, S) /\ m1 = Run(m, i1) /\ Keeps(m, m1, R2, S2)
    BY <1>0, <2>2, <2>3, DoesNext DEF c1, m1, R2, S2
  <2>5. Sign(Reg(m, rs2)) = a1
    BY <1>0 DEF a1
  <2> QED BY <2>2, <2>4, <2>5, <1>0, <1>b DEF Keeps, Holds, R2, S2, One, Slot
<1>d. i1 \in Code /\ c0 \o i1 = i1
  <2>1. Ready(m) /\ Live(m)
    BY <1>b DEF Ready
  <2>2. Does(m, i1, Run(m, i1), One(gp), Slot(6))
    BY <2>1, <1>b, MsbDoes
  <2>3. i1 \in Code
    BY <2>2 DEF Does
  <2> QED BY <2>3, ConcatEmptySeq DEF Code, c0
<1>2. Does(m, c2, m2, R, S) /\ Reg(m2, gp) = a1 /\ Reg(m2, tp) = y1
  <2>1. Does(m, c2, m2, R, S) /\ Sets(m1, m2, tp, Add(Reg(m1, rs2), n2))
    BY <1>1, <1>b, AddiRuns DEF c2, m2
  <2>2. Add(Reg(m1, rs2), n2) = y1
    BY <1>1 DEF y1, n2
  <2> QED BY <2>1, <2>2, <1>1, <1>b DEF Sets, Holds
<1>3. Does(m, c3, m3, R, S) /\ Reg(m3, gp) = a1 /\ Reg(m3, tp) = a2
  <2>1. Ready(m2) /\ Live(m2)
    BY <1>2, <1>b, StaysReady DEF Ready
  <2>2. Does(m2, i3, Run(m2, i3), One(tp), Slot(6)) /\ Reg(Run(m2, i3), tp) = Sign(Reg(m2, tp))
    BY <2>1, <1>2, <1>b, MsbDoes
  <2> DEFINE R2 == One(tp)
             S2 == Slot(6)
  <2>3. R2 \subseteq R /\ S2 \subseteq S
    BY <1>b, <1>a DEF One
  <2> HIDE DEF R2, S2
  <2>4. Does(m, c3, m3, R, S) /\ m3 = Run(m2, i3) /\ Keeps(m2, m3, R2, S2)
    BY <1>2, <2>2, <2>3, DoesNext DEF c3, m3, R2, S2
  <2>5. Sign(Reg(m2, tp)) = a2
    BY <1>2 DEF a2
  <2> QED BY <2>2, <2>4, <2>5, <1>2, <1>b DEF Keeps, Holds, R2, S2, One, Slot
<1>4. Does(m, c4, m4, R, S) /\ Reg(m4, gp) = k
  <2>1. Does(m, c4, m4, R, S) /\ Sets(m3, m4, gp, Add(Reg(m3, gp), Reg(m3, tp)))
    BY <1>3, <1>b, AddRuns DEF c4, m4
  <2>2. Add(Reg(m3, gp), Reg(m3, tp)) = k
    BY <1>3, <1>k
  <2> QED BY <2>1, <2>2, <1>3, <1>b DEF Sets, Holds
<1>5. Does(m, c5, m5, R, S) /\ Reg(m5, gp) = k /\ Reg(m5, tp) = Or1
  <2>1. Ready(m4) /\ Live(m4)
    BY <1>4, <1>b, StaysReady DEF Ready
  <2>2. Does(m4, i5, Run(m4, i5), One(tp), {}) /\ Reg(Run(m4, i5), tp) = Or1
    BY <2>1, <1>4, <1>b, TablesLinked, LaDoes
  <2> DEFINE R2 == One(tp)
             S2 == {}
  <2>3. R2 \subseteq R /\ S2 \subseteq S
    BY <1>b DEF One
  <2> HIDE DEF R2, S2
  <2>4. Does(m, c5, m5, R, S) /\ m5 = Run(m4, i5) /\ Keeps(m4, m5, R2, S2)
    BY <1>4, <2>2, <2>3, DoesNext DEF c5, m5, R2, S2
  <2> QED BY <2>2, <2>4, <1>4, <1>b DEF Keeps, Holds, R2, S2, One
<1>6. Does(m, c6, m6, R, S) /\ Reg(m6, tp) = e
  <2>1. Does(m, c6, m6, R, S) /\ Sets(m5, m6, tp, Add(Reg(m5, gp), Reg(m5, tp)))
    BY <1>5, <1>b, AddRuns DEF c6, m6
  <2>2. Add(Reg(m5, gp), Reg(m5, tp)) = e
    BY <1>5, <1>q
  <2> QED BY <2>1, <2>2, <1>5, <1>b DEF Sets, Holds
<1>7. Does(m, c7, m7, R, S) /\ Reg(m7, tp) = w
  <2>1. Does(m, c7, m7, R, S) /\ Sets(m6, m7, tp, Ro(e))
    BY <1>6, <1>b, TableLbu, <1>q DEF c7, m7
  <2>2. Ro(e) = w
    BY <1>6, <1>q
  <2> QED BY <2>1, <2>2, <1>6, <1>b DEF Sets, Holds
<1>e. c7 = NotPositive(rs2)
  BY <1>c, <1>d DEF c1, c2, c3, c4, c5, c6, c7
<1> QED BY <1>7, <1>e DEF m7, R, S, y, w

\* A branch: a test leaves a flag in tp, and the branch is resolved.
LEMMA BranchAfter ==
  ASSUME NEW m, NEW c, NEW R, NEW S, NEW k, NEW target, NEW sel,
         Ready(m), Does(m, c, Run(m, c), R, S), R \subseteq Two(gp, tp), S \subseteq Scratch,
         Reg(Run(m, c), tp) = k, Flag(k), Linked(target), sel \in BOOLEAN
  PROVE  Jumps(m, c \o branch_resolve(target, sel), Run(m, c \o branch_resolve(target, sel)),
               Two(gp, tp), Scratch, IF (k = 1) = sel THEN target ELSE After)
<1> DEFINE m1 == Run(m, c)
           d == branch_resolve(target, sel)
           m2 == Run(m1, d)
           Q == Two(gp, tp)
           t == IF (k = 1) = sel THEN target ELSE After
<1>1. sp \notin R /\ Q \subseteq Regs \ {zero} /\ Scratch \subseteq Ram
  BY RegNames DEF Two, Ram
<1>2. Ready(m1)
  BY <1>1, StaysReady
<1>3. Jumps(m1, d, m2, Q, Scratch, t)
  BY <1>2, BranchJumps
<1> HIDE DEF Q
<1>4. Does(m, c, m1, Q, Scratch)
  BY <1>1, DoesMore DEF Q
<1> HIDE DEF m1, d, m2, t
<1>5. Jumps(m, c \o d, m2, Q, Scratch, t)
  BY <1>3, <1>4, JumpsAfter
<1>6. m2 = Run(m, c \o d)
  BY <1>5 DEF Jumps
<1> QED BY <1>5, <1>6 DEF d, Q, t

\* zero and sp hold what they should.
LEMMA ZeroReg == ASSUME NEW m, Ready(m) PROVE Reg(m, zero) = 0 /\ Reg(m, sp) = StackTop
BY DEF Ready, Live

\* The results of the tests are flags.
LEMMA Flags ==
  /\ \A x, y : Flag(Same(x, y)) /\ Flag(Less(x, y)) /\ Flag(LessUnsigned(x, y))
  /\ \A x : Flag(Sign(x))
BY DEF Flag, Same, Less, LessUnsigned, Sign

\* The registers that a test for the branches may change.
LEMMA TwoThree == Three(tp, gp, tp) = Two(gp, tp) /\ One(tp) \subseteq Two(gp, tp)
BY DEF Two, Three, One

\* SetEqual leaves in tp whether two registers are the same.
LEMMA SetEqualDoes ==
  ASSUME NEW m, NEW rs1, NEW rs2, Ready(m), rs1 \in Regs, rs2 \in Regs
  PROVE  /\ Does(m, SetEqual(rs1, rs2), Run(m, SetEqual(rs1, rs2)), Two(gp, tp), Scratch)
         /\ Reg(Run(m, SetEqual(rs1, rs2)), tp) = Same(Reg(m, rs1), Reg(m, rs2))
<1>1. tp \in Regs \ {zero, sp, s0, s1} /\ tp \in Regs \ {zero, sp, s0}
  BY RegNames
<1>2. CASE rs2 = zero
  <2>1. SetEqual(rs1, rs2) = seqz(tp, rs1)
    BY <1>2 DEF SetEqual
  <2>2. Reg(m, rs2) = 0
    BY <1>2, ZeroReg
  <2> QED BY <1>1, <2>1, <2>2, SeqzDoes, TwoThree
<1>3. CASE rs1 = zero /\ rs2 # zero
  <2>1. SetEqual(rs1, rs2) = seqz(tp, rs2)
    BY <1>3 DEF SetEqual
  <2>2. Reg(m, rs1) = 0 /\ Same(Reg(m, rs2), 0) = Same(0, Reg(m, rs2))
    BY <1>3, ZeroReg DEF Same
  <2> QED BY <1>1, <2>1, <2>2, SeqzDoes, TwoThree
<1>4. CASE rs1 # zero /\ rs2 # zero
  <2>1. SetEqual(rs1, rs2) = seq(tp, rs1, rs2)
    BY <1>4 DEF SetEqual
  <2> QED BY <1>1, <2>1, SeqDoes, TwoThree
<1> QED BY <1>2, <1>3, <1>4

\* A word with its sign set is negative.
LEMMA SignedZero ==
  ASSUME NEW x, x \in Word
  PROVE  /\ Signed(0) = 0 /\ Signed(x) \in Int
         /\ Sign(x) = 1 <=> Signed(x) < 0
<1> DEFINE H == Modulus \div 2
<1>1. Modulus \in Int /\ H \in Int /\ H > 0
  BY WidthBounds
<1>2. x \in Int /\ x >= 0 /\ x < Modulus
  BY WordNat DEF Word
<1> HIDE DEF H
<1>3. /\ Signed(0) = (IF 0 >= H THEN 0 - Modulus ELSE 0)
      /\ Signed(x) = (IF x >= H THEN x - Modulus ELSE x) /\ Sign(x) = (IF x >= H THEN 1 ELSE 0)
  BY DEF Signed, Sign, H
<1> QED BY <1>1, <1>2, <1>3

\* What the six branches do: t is where the program goes on.
Branch(m, code, t) == Jumps(m, code, Run(m, code), Two(gp, tp), Scratch, t)

Where(taken) == IF taken THEN Target ELSE After

\* The targets of jumps have addresses that la can load.
LEMMA PlacesLinked == Linked(Target) /\ Linked(After)
BY WidthBounds DEF Linked, Target, After


\* beq and bne go where they should.
LEMMA EqualBranches ==
  ASSUME NEW m, NEW rs1, NEW rs2, Ready(m), rs1 \in Regs, rs2 \in Regs
  PROVE  /\ Branch(m, beq(rs1, rs2, Target), Where(Reg(m, rs1) = Reg(m, rs2)))
         /\ Branch(m, bne(rs1, rs2, Target), Where(Reg(m, rs1) # Reg(m, rs2)))
<1> DEFINE c == SetEqual(rs1, rs2)
           k == Same(Reg(m, rs1), Reg(m, rs2))
           R == Two(gp, tp)
<1>1. Does(m, c, Run(m, c), R, Scratch) /\ Reg(Run(m, c), tp) = k /\ Flag(k)
  BY SetEqualDoes, Flags
<1>2. beq(rs1, rs2, Target) = c \o branch_resolve(Target, TRUE)
  BY DEF beq
<1>3. bne(rs1, rs2, Target) = c \o branch_resolve(Target, FALSE)
  BY DEF bne
<1>4. (k = 1) <=> Reg(m, rs1) = Reg(m, rs2)
  BY DEF Same
<1> HIDE DEF c, k
<1>5. /\ Branch(m, c \o branch_resolve(Target, TRUE), IF (k = 1) = TRUE THEN Target ELSE After)
      /\ Branch(m, c \o branch_resolve(Target, FALSE), IF (k = 1) = FALSE THEN Target ELSE After)
  BY <1>1, BranchAfter, PlacesLinked, ZenonT(30) DEF Branch
<1> QED BY <1>2, <1>3, <1>4, <1>5 DEF Where

\* bltu and bgeu go where they should.
LEMMA UnsignedBranches ==
  ASSUME NEW m, NEW rs1, NEW rs2, Ready(m), rs1 \in Regs, rs2 \in Regs
  PROVE  /\ Branch(m, bltu(rs1, rs2, Target), Where(Reg(m, rs1) < Reg(m, rs2)))
         /\ Branch(m, bgeu(rs1, rs2, Target), Where(~ (Reg(m, rs1) < Reg(m, rs2))))
<1> DEFINE c == sltu(tp, rs1, rs2)
           k == LessUnsigned(Reg(m, rs1), Reg(m, rs2))
           R == Two(gp, tp)
<1>1. Does(m, c, Run(m, c), R, Scratch) /\ Reg(Run(m, c), tp) = k /\ Flag(k)
  BY SltuDoes, Flags, TwoThree, RegNames
<1>2. bltu(rs1, rs2, Target) = c \o branch_resolve(Target, TRUE)
  BY DEF bltu
<1>3. bgeu(rs1, rs2, Target) = c \o branch_resolve(Target, FALSE)
  BY DEF bgeu
<1>4. (k = 1) <=> Reg(m, rs1) < Reg(m, rs2)
  BY DEF LessUnsigned
<1> HIDE DEF c, k
<1>5. /\ Branch(m, c \o branch_resolve(Target, TRUE), IF (k = 1) = TRUE THEN Target ELSE After)
      /\ Branch(m, c \o branch_resolve(Target, FALSE), IF (k = 1) = FALSE THEN Target ELSE After)
  BY <1>1, BranchAfter, PlacesLinked, ZenonT(30) DEF Branch
<1> QED BY <1>2, <1>3, <1>4, <1>5 DEF Where

\* slt, msb and NotPositive as the test of a signed branch.
LEMMA SignedTests ==
  ASSUME NEW m, NEW c, NEW R, NEW S, NEW k, NEW t,
         Ready(m), Does(m, c, Run(m, c), R, S), R \subseteq Two(gp, tp), S \subseteq Scratch,
         Reg(Run(m, c), tp) = k, Flag(k), t \in BOOLEAN
  PROVE  /\ ((k = 1) <=> t) => Branch(m, c \o branch_resolve(Target, TRUE), Where(t))
                               /\ Branch(m, c \o branch_resolve(Target, FALSE), Where(~ t))
         /\ ((k = 1) <=> ~ t) => Branch(m, c \o branch_resolve(Target, FALSE), Where(t))
                                 /\ Branch(m, c \o branch_resolve(Target, TRUE), Where(~ t))
<1>1. /\ Branch(m, c \o branch_resolve(Target, TRUE), IF (k = 1) = TRUE THEN Target ELSE After)
      /\ Branch(m, c \o branch_resolve(Target, FALSE), IF (k = 1) = FALSE THEN Target ELSE After)
  BY BranchAfter, PlacesLinked, ZenonT(30) DEF Branch
<1> QED BY <1>1 DEF Where

\* blt and bge go where they should.
LEMMA SignedBranches ==
  ASSUME NEW m, NEW rs1, NEW rs2, Ready(m), rs1 \in Regs, rs2 \in Regs \ {gp}
  PROVE  /\ Branch(m, blt(rs1, rs2, Target), Where(Signed(Reg(m, rs1)) < Signed(Reg(m, rs2))))
         /\ Branch(m, bge(rs1, rs2, Target), Where(~ (Signed(Reg(m, rs1)) < Signed(Reg(m, rs2)))))
<1> DEFINE x == Reg(m, rs1)
           y == Reg(m, rs2)
           t == Signed(x) < Signed(y)
           R == Two(gp, tp)
           sltc == slt(tp, rs1, rs2)
           msbc == msb(tp, rs1)
           posc == NotPositive(rs2)
           yes == branch_resolve(Target, TRUE)
           no == branch_resolve(Target, FALSE)
<1>1. x \in Word /\ y \in Word /\ (rs1 = zero => x = 0) /\ (rs2 = zero => y = 0)
  BY RegWord, ZeroReg DEF Ready
<1>2. /\ Does(m, sltc, Run(m, sltc), R, Scratch) /\ Reg(Run(m, sltc), tp) = Less(x, y)
      /\ Flag(Less(x, y))
  BY SltDoes, Flags, TwoThree, RegNames
<1>3. /\ Does(m, msbc, Run(m, msbc), One(tp), Slot(6)) /\ Reg(Run(m, msbc), tp) = Sign(x)
      /\ Flag(Sign(x))
  BY MsbDoes, Flags, RegNames
<1>4. /\ Does(m, posc, Run(m, posc), R, Scratch)
      /\ Reg(Run(m, posc), tp) = IF Signed(y) > 0 THEN 0 ELSE 1
  BY NotPositiveDoes
<1>5. R \subseteq Two(gp, tp) /\ One(tp) \subseteq Two(gp, tp) /\ Slot(6) \subseteq Scratch
  BY TwoThree, ScratchPlaces
<1> HIDE DEF R, sltc, msbc, posc
<1>6. (Less(x, y) = 1) <=> t
  BY DEF Less
<1>7. rs2 = zero => ((Sign(x) = 1) <=> t)
  BY <1>1, SignedZero
<1>8. /\ (IF Signed(y) > 0 THEN 0 ELSE 1) = 1 <=> ~ (Signed(y) > 0)
      /\ Flag(IF Signed(y) > 0 THEN 0 ELSE 1)
      /\ rs1 = zero => (t <=> Signed(y) > 0)
  <2>1. Signed(0) = 0 /\ Signed(y) \in Int
    BY <1>1, SignedZero
  <2>2. rs1 = zero => (t <=> 0 < Signed(y))
    BY <1>1, <2>1
  <2>3. 0 < Signed(y) <=> Signed(y) > 0
    BY <2>1
  <2> QED BY <2>2, <2>3 DEF Flag
<1> DEFINE k == IF Signed(y) > 0 THEN 0 ELSE 1
<1>9. Reg(Run(m, posc), tp) = k /\ Flag(k) /\ (rs1 = zero => ((k = 1) <=> ~ t)) /\ t \in BOOLEAN
  BY <1>4, <1>8
<1> HIDE DEF t, k, x, y
<1>10. Branch(m, sltc \o yes, Where(t)) /\ Branch(m, sltc \o no, Where(~ t))
  BY <1>2, <1>5, <1>6, <1>9, SignedTests, ZenonT(30)
<1>11. rs2 = zero => Branch(m, msbc \o yes, Where(t))
  BY <1>3, <1>5, <1>7, <1>9, SignedTests
<1>12. rs1 = zero => Branch(m, posc \o no, Where(t)) /\ Branch(m, posc \o yes, Where(~ t))
  BY <1>4, <1>5, <1>9, SignedTests
<1> HIDE DEF yes, no
<1>13. Branch(m, blt(rs1, rs2, Target), Where(t))
  BY <1>10, <1>11, <1>12 DEF blt, sltc, msbc, posc, yes, no
<1>14. Branch(m, bge(rs1, rs2, Target), Where(~ t))
  BY <1>10, <1>12 DEF bge, sltc, posc, yes, no
<1> QED BY <1>13, <1>14 DEF t, x, y

\* Jumps and calls.
LEMMA JumpDoes ==
  ASSUME NEW m, NEW addr, Live(m), Linked(addr)
  PROVE  Jumps(m, j(addr), Run(m, j(addr)), One(tp), {}, addr)
<1>1. /\ Does(m, la(tp, addr), Run(m, la(tp, addr)), One(tp), {})
      /\ Reg(Run(m, la(tp, addr)), tp) = addr
  BY LaDoes, RegNames
<1>2. j(addr) = la(tp, addr) \o jalr(zero, tp)
  BY DEF j
<1> QED BY <1>1, <1>2, JumpRuns, RegNames

\* A call jumps and leaves the address after it.
LEMMA CallDoes ==
  ASSUME NEW m, NEW rd, NEW addr, Live(m), rd \in Regs \ {zero}, Linked(addr)
  PROVE  /\ Jumps(m, call_template(rd, addr), Run(m, call_template(rd, addr)), One(rd), {}, addr)
         /\ Reg(Run(m, call_template(rd, addr)), rd) = After
<1>1. /\ Does(m, la(rd, addr), Run(m, la(rd, addr)), One(rd), {})
      /\ Reg(Run(m, la(rd, addr)), rd) = addr
  BY LaDoes
<1>2. call_template(rd, addr) = la(rd, addr) \o jalr(rd, rd)
  BY DEF call_template
<1>3. rd \in One(rd)
  BY DEF One
<1> QED BY <1>1, <1>2, <1>3, CallRuns

\* tail jumps, and changes tp only.
LEMMA TailDoes ==
  ASSUME NEW m, NEW addr, Live(m), Linked(addr)
  PROVE  Jumps(m, tail(addr), Run(m, tail(addr)), One(tp), {}, addr)
<1> DEFINE d == call_template(1, addr)
           low == Sext(addr % 4096, 4096)
           high == addr - low
           i1 == lui(1, high)
           i2 == addi(1, 1, low)
           i3 == jalr(1, 1)
<1>1. low \in Int /\ high \in Int
  BY DEF Sext, Linked
<1>2. d = i1 \o i2 \o i3
  BY DEF call_template, la
<1> HIDE DEF low, high
<1>3. i1 \in Code /\ i2 \in Code /\ i3 \in Code
  BY <1>1 DEF lui, addi, jalr, Base, Code, Op
<1> HIDE DEF i1, i2, i3
<1>4. d \in Code
  <2>1. i1 \o i2 \in Code
    BY <1>3, RunBoth
  <2>2. (i1 \o i2) \o i3 \in Code
    BY <1>3, <2>1, RunBoth
  <2> QED BY <1>2, <2>2
<1> HIDE DEF d
<1>5. Jumps(m, j(addr), Run(m, j(addr)), One(tp), {}, addr)
  BY JumpDoes
<1>6. tail(addr) = j(addr) \o d
  BY DEF tail, j, d
<1>7. Jumps(m, j(addr) \o d, Run(m, j(addr)), One(tp), {}, addr)
  BY <1>4, <1>5, JumpsOn
<1>8. Run(m, j(addr) \o d) = Run(m, j(addr))
  BY <1>7 DEF Jumps
<1> QED BY <1>6, <1>7, <1>8

-----------------------------------------------------------------------------
(* 16. and, or and xor *)

\* The tables of and, or and xor, and the word made of their entries.
Logic(lut) == lut = And8 \/ lut = Or8 \/ lut = Xor8

Entry(lut, a, b) == Ro(lut + (b + B * a))

LogicWord(lut, x, y) ==
  Wd(Entry(lut, ByteOf(x, 0), ByteOf(y, 0)), Entry(lut, ByteOf(x, 1), ByteOf(y, 1)),
     Entry(lut, ByteOf(x, 2), ByteOf(y, 2)), Entry(lut, ByteOf(x, 3), ByteOf(y, 3)))

\* Slot 5 holds neither of the first two bytes of slot 7.
LEMMA AtHigh == ASSUME NEW n, NEW a, At(5, n, a) PROVE a # 228 /\ a # 229
BY DEF At, StackTop

\* The place of a pair of bytes in a table of and, or and xor.
LEMMA LogicPlace ==
  ASSUME NEW lut, NEW a, NEW b, Logic(lut), a \in Byte, b \in Byte
  PROVE  /\ lut \in Nat /\ b + B * a \in Nat /\ lut + (b + B * a) \in Tables
         /\ Entry(lut, a, b) \in Byte /\ Add(lut, b + B * a) = lut + (b + B * a)
         /\ Wd(b, a, 0, 0) = b + B * a
<1> DEFINE k == b + B * a
<1>1. lut \in Nat
  BY TablePlaces DEF Logic
<1>2. a \in Nat /\ b \in Nat /\ B \in Nat
  BY ByteNat, WidthBounds
<1>3. k \in Nat
  BY <1>2, Pair
<1>4. lut + k \in Tables
  BY LogicEntry DEF Logic
<1>5. Wd(b, a, 0, 0) = k
  BY <1>2 DEF Wd
<1> HIDE DEF k
<1>6. Ro(lut + k) \in Byte
  BY <1>4, RomByte
<1>7. Add(lut, k) = lut + k
  BY <1>1, <1>3, <1>4, EntryAdd
<1> QED BY <1>1, <1>3, <1>4, <1>5, <1>6, <1>7 DEF Entry, k

\* The word made of table entries is the bitwise operator.
LEMMA LogicMeans ==
  ASSUME NEW x, NEW y, x \in Word, y \in Word
  PROVE  /\ LogicWord(And8, x, y) = And(x, y)
         /\ LogicWord(Or8, x, y) = Or(x, y)
         /\ LogicWord(Xor8, x, y) = Xor(x, y)
<1> DEFINE x0 == ByteOf(x, 0)
           x1 == ByteOf(x, 1)
           x2 == ByteOf(x, 2)
           x3 == ByteOf(x, 3)
           y0 == ByteOf(y, 0)
           y1 == ByteOf(y, 1)
           y2 == ByteOf(y, 2)
           y3 == ByteOf(y, 3)
<1>1. x = Wd(x0, x1, x2, x3) /\ y = Wd(y0, y1, y2, y3) /\ x \in Int /\ y \in Int
  BY WordIsBytes, WordNat DEF Word
<1>2. /\ x0 \in Byte /\ x1 \in Byte /\ x2 \in Byte /\ x3 \in Byte
      /\ y0 \in Byte /\ y1 \in Byte /\ y2 \in Byte /\ y3 \in Byte
  BY <1>1, ByteRange
<1>3. /\ LogicWord(And8, x, y) = Wd(Entry(And8, x0, y0), Entry(And8, x1, y1), Entry(And8, x2, y2), Entry(And8, x3, y3))
      /\ LogicWord(Or8, x, y) = Wd(Entry(Or8, x0, y0), Entry(Or8, x1, y1), Entry(Or8, x2, y2), Entry(Or8, x3, y3))
      /\ LogicWord(Xor8, x, y) = Wd(Entry(Xor8, x0, y0), Entry(Xor8, x1, y1), Entry(Xor8, x2, y2), Entry(Xor8, x3, y3))
  BY DEF LogicWord
<1> HIDE DEF x0, x1, x2, x3, y0, y1, y2, y3
<1>4. \A a, b : a \in Byte /\ b \in Byte =>
        /\ Entry(And8, a, b) = Bitwise(BothOp, a, b)
        /\ Entry(Or8, a, b) = Bitwise(AnyOp, a, b)
        /\ Entry(Xor8, a, b) = Bitwise(OddOp, a, b)
  BY LogicEntry DEF Entry, And, Or, Xor, BothOp, AnyOp, OddOp
<1>5. /\ And(x, y) = Bitwise(BothOp, x, y) /\ Or(x, y) = Bitwise(AnyOp, x, y)
      /\ Xor(x, y) = Bitwise(OddOp, x, y)
  BY DEF And, Or, Xor, BothOp, AnyOp, OddOp
<1>6. ASSUME NEW op, Bytewise(op)
      PROVE  Bitwise(op, x, y)
               = Wd(Bitwise(op, x0, y0), Bitwise(op, x1, y1), Bitwise(op, x2, y2), Bitwise(op, x3, y3))
  BY <1>1, <1>2, <1>6 DEF Bytewise
<1>7. Bytewise(BothOp) /\ Bytewise(AnyOp) /\ Bytewise(OddOp)
  BY BitOps, BitwiseWd
<1> HIDE DEF BothOp, AnyOp, OddOp
<1> QED BY <1>2, <1>3, <1>4, <1>5, <1>6, <1>7

\* One byte of a logical instruction.
LEMMA LogicByteDoes ==
  ASSUME NEW m, NEW lutr, NEW n, NEW lut, NEW p, NEW q, NEW s,
         Ready(m),
         lutr \in Regs \ {tp},
         Reg(m, lutr) = lut,
         Logic(lut),
         At(4, n, p),
         At(5, n, q),
         At(6, n, s),
         Mem(m, 230) = 0,
         Mem(m, 231) = 0
  PROVE  /\ Does(m, logic8_byte(lutr, n), Run(m, logic8_byte(lutr, n)), One(tp), Three(228, 229, s))
         /\ Mem(Run(m, logic8_byte(lutr, n)), s) = Entry(lut, Mem(m, p), Mem(m, q))
<1> DEFINE x == Mem(m, p)
           y == Mem(m, q)
           k == y + B * x
           a == lut + k
           z == Ro(a)
           from == Var(4) + n
           from2 == Var(5) + n
           to == Var(6) + n
           R == One(tp)
           S == Three(228, 229, s)
           c0 == <<>>
           i1 == lbu(tp, from, sp)
           c1 == c0 \o i1
           m1 == Run(m, c1)
           i2 == sb(tp, -27, sp)
           c2 == c1 \o i2
           m2 == Run(m, c2)
           i3 == lbu(tp, from2, sp)
           c3 == c2 \o i3
           m3 == Run(m, c3)
           i4 == sb(tp, -28, sp)
           c4 == c3 \o i4
           m4 == Run(m, c4)
           i5 == lw(tp, -28, sp)
           c5 == c4 \o i5
           m5 == Run(m, c5)
           i6 == add(tp, lutr, tp)
           c6 == c5 \o i6
           m6 == Run(m, c6)
           i7 == lbu(tp, 0, tp)
           c7 == c6 \o i7
           m7 == Run(m, c7)
           i8 == sb(tp, to, sp)
           c8 == c7 \o i8
           m8 == Run(m, c8)
<1>s. S \subseteq Ram
  BY AtSpot, Places DEF Three
<1>a. 229 \in S /\ 228 \in S /\ s \in S
  BY DEF Three
<1>p. Spot(-27, 229) /\ Spot(-28, 228) /\ WordSpot(-28, 228)
  BY Spots
<1>r. R \subseteq Regs \ {zero}
  BY RegNames DEF One
<1>b. Ready(m) /\ sp \notin R /\ tp \in R /\ tp \in Regs /\ sp \in Regs /\ lutr \in Regs /\ lutr # tp
      /\ Spot(from, p) /\ Spot(from2, q) /\ Spot(to, s) /\ q # 229 /\ q # 228
  BY RegNames, AtSpot, AtHigh DEF One
<1>o. from \in Int /\ from2 \in Int
  BY <1>b DEF Spot
<1>x. x \in Byte /\ y \in Byte
  BY MemByte DEF Ready
<1>t. /\ a \in Tables /\ z \in Byte /\ Add(lut, k) = a /\ Wd(y, x, 0, 0) = k /\ Ro(a) = z
  <2> HIDE DEF x, y
  <2> QED BY <1>x, LogicPlace DEF Entry
<1>c. logic8_byte(lutr, n) = i1 \o i2 \o i3 \o i4 \o i5 \o i6 \o i7 \o i8
  BY DEF logic8_byte, VAR_A, VAR_B, VAR_C, VAR_D, Var
<1> HIDE DEF R, S, c0, c1, c2, c3, c4, c5, c6, c7, c8, m1, m2, m3, m4, m5, m6, m7, m8, x, y, z, k, a, from,
        from2, to
<1>d. i1 \in Code /\ c0 \o i1 = i1
  BY <1>o, <1>b, RegNames, Coded, ConcatEmptySeq DEF Code, mv, li, c0
<1>0. Does(m, c0, m, R, S) /\ Reg(m, lutr) = lut /\ Mem(m, p) = x /\ Mem(m, q) = y /\ Mem(m, 230) = 0
      /\ Mem(m, 231) = 0
  BY <1>s, <1>r, <1>b, DoesNothing DEF Ready, c0, x, y
<1>1. Does(m, c1, m1, R, S) /\ Reg(m1, lutr) = lut /\ Reg(m1, tp) = x /\ Mem(m1, q) = y /\ Mem(m1, 230) = 0
      /\ Mem(m1, 231) = 0
  <2>1. Does(m, c1, m1, R, S) /\ Sets(m, m1, tp, Mem(m, p))
    BY <1>0, <1>b, <1>a, <1>p, LbuStack DEF c1, m1
  <2> QED BY <2>1, <1>0, <1>b DEF Sets, Holds
<1>2. Does(m, c2, m2, R, S) /\ Reg(m2, lutr) = lut /\ Mem(m2, q) = y /\ Mem(m2, 229) = x /\ Mem(m2, 230) = 0
      /\ Mem(m2, 231) = 0
  <2>1. Does(m, c2, m2, R, S) /\ Puts(m1, m2, 229, ByteOf(Reg(m1, tp), 0))
    BY <1>1, <1>b, <1>a, <1>p, SbStack DEF c2, m2
  <2>2. ByteOf(Reg(m1, tp), 0) = x
    BY <1>1, <1>x, ByteWord
  <2> QED BY <2>1, <2>2, <1>1, <1>b DEF Puts, Holds
<1>3. Does(m, c3, m3, R, S) /\ Reg(m3, lutr) = lut /\ Reg(m3, tp) = y /\ Mem(m3, 229) = x /\ Mem(m3, 230) = 0
      /\ Mem(m3, 231) = 0
  <2>1. Does(m, c3, m3, R, S) /\ Sets(m2, m3, tp, Mem(m2, q))
    BY <1>2, <1>b, <1>a, <1>p, LbuStack DEF c3, m3
  <2> QED BY <2>1, <1>2, <1>b DEF Sets, Holds
<1>4. Does(m, c4, m4, R, S) /\ Reg(m4, lutr) = lut /\ Mem(m4, 228) = y /\ Mem(m4, 229) = x /\ Mem(m4, 230) = 0
      /\ Mem(m4, 231) = 0
  <2>1. Does(m, c4, m4, R, S) /\ Puts(m3, m4, 228, ByteOf(Reg(m3, tp), 0))
    BY <1>3, <1>b, <1>a, <1>p, SbStack DEF c4, m4
  <2>2. ByteOf(Reg(m3, tp), 0) = y
    BY <1>3, <1>x, ByteWord
  <2> QED BY <2>1, <2>2, <1>3, <1>b DEF Puts, Holds
<1>5. Does(m, c5, m5, R, S) /\ Reg(m5, lutr) = lut /\ Reg(m5, tp) = k
  <2>1. Does(m, c5, m5, R, S) /\ Sets(m4, m5, tp, Loaded(m4, 228))
    BY <1>4, <1>b, <1>a, <1>p, LwStack DEF c5, m5
  <2>2. Loaded(m4, 228) = k
    BY <1>4, <1>t DEF Holds, Loaded
  <2> QED BY <2>1, <2>2, <1>4, <1>b DEF Sets, Holds
<1>6. Does(m, c6, m6, R, S) /\ Reg(m6, tp) = a
  <2>1. Does(m, c6, m6, R, S) /\ Sets(m5, m6, tp, Add(Reg(m5, lutr), Reg(m5, tp)))
    BY <1>5, <1>b, AddRuns DEF c6, m6
  <2>2. Add(Reg(m5, lutr), Reg(m5, tp)) = a
    BY <1>5, <1>t
  <2> QED BY <2>1, <2>2, <1>5, <1>b DEF Sets, Holds
<1>7. Does(m, c7, m7, R, S) /\ Reg(m7, tp) = z
  <2>1. Does(m, c7, m7, R, S) /\ Sets(m6, m7, tp, Ro(a))
    BY <1>6, <1>b, TableLbu, <1>t DEF c7, m7
  <2>2. Ro(a) = z
    BY <1>6, <1>t
  <2> QED BY <2>1, <2>2, <1>6, <1>b DEF Sets, Holds
<1>8. Does(m, c8, m8, R, S) /\ Mem(m8, s) = z
  <2>1. Does(m, c8, m8, R, S) /\ Puts(m7, m8, s, ByteOf(Reg(m7, tp), 0))
    BY <1>7, <1>b, <1>a, <1>p, SbStack DEF c8, m8
  <2>2. ByteOf(Reg(m7, tp), 0) = z
    BY <1>7, <1>t, ByteWord
  <2> QED BY <2>1, <2>2, <1>7, <1>b DEF Puts, Holds
<1>e. c8 = logic8_byte(lutr, n)
  BY <1>c, <1>d DEF c1, c2, c3, c4, c5, c6, c7, c8
<1> QED BY <1>8, <1>e DEF m8, R, S, x, y, z, a, k, Entry

\* A logical instruction.
LEMMA LogicDoes ==
  ASSUME NEW m, NEW lut, NEW rd, NEW rs1, NEW rs2,
         Ready(m),
         rd \in Regs \ {zero, sp, tp},
         rs1 \in Regs,
         rs2 \in Regs,
         Logic(lut)
  PROVE  /\ Does(m, logic(lut, rd, rs1, rs2), Run(m, logic(lut, rd, rs1, rs2)), Two(rd, tp), Scratch)
         /\ Reg(Run(m, logic(lut, rd, rs1, rs2)), rd) = LogicWord(lut, Reg(m, rs1), Reg(m, rs2))
<1> DEFINE x == Reg(m, rs1)
           y == Reg(m, rs2)
           e0 == Entry(lut, ByteOf(x, 0), ByteOf(y, 0))
           e1 == Entry(lut, ByteOf(x, 1), ByteOf(y, 1))
           e2 == Entry(lut, ByteOf(x, 2), ByteOf(y, 2))
           e3 == Entry(lut, ByteOf(x, 3), ByteOf(y, 3))
           w == LogicWord(lut, x, y)
           R == Two(rd, tp)
           S == Scratch
           c0 == <<>>
           i1 == sw(rs1, -16, sp)
           c1 == c0 \o i1
           m1 == Run(m, c1)
           i2 == sw(rs2, -20, sp)
           c2 == c1 \o i2
           m2 == Run(m, c2)
           i3 == la(rd, lut)
           c3 == c2 \o i3
           m3 == Run(m, c3)
           i4 == sw(zero, -28, sp)
           c4 == c3 \o i4
           m4 == Run(m, c4)
           i5 == logic8_byte(rd, 3)
           c5 == c4 \o i5
           m5 == Run(m, c5)
           i6 == logic8_byte(rd, 2)
           c6 == c5 \o i6
           m6 == Run(m, c6)
           i7 == logic8_byte(rd, 1)
           c7 == c6 \o i7
           m7 == Run(m, c7)
           i8 == logic8_byte(rd, 0)
           c8 == c7 \o i8
           m8 == Run(m, c8)
           i9 == lw(rd, -24, sp)
           c9 == c8 \o i9
           m9 == Run(m, c9)
<1>s. S \subseteq Ram
  BY DEF Ram
<1>a. Block(240, S) /\ Block(236, S) /\ Block(228, S) /\ 228 \in S /\ 229 \in S /\ 235 \in S /\ 234 \in S
      /\ 233 \in S /\ 232 \in S
  BY ScratchPlaces
<1>p. Spot(-16, 240) /\ Spot(-20, 236) /\ Spot(-28, 228) /\ WordSpot(-24, 232)
  BY Spots
<1>r. R \subseteq Regs \ {zero}
  BY RegNames DEF Two
<1>b. Ready(m) /\ sp \notin R /\ rd \in R /\ tp \in R /\ rd \in Regs /\ tp \in Regs /\ sp \in Regs
      /\ rs1 \in Regs /\ rs2 \in Regs /\ zero \in Regs /\ rd # tp /\ rd # sp /\ rd # zero /\ Logic(lut)
  BY RegNames DEF Two
<1>x. x \in Word /\ y \in Word /\ x \in Int /\ y \in Int
  BY RegWord DEF Ready
<1>k. Linked(lut)
  BY TablesLinked DEF Logic
<1>w. w \in Word /\ ByteOf(w, 0) = e0 /\ ByteOf(w, 1) = e1 /\ ByteOf(w, 2) = e2 /\ ByteOf(w, 3) = e3
  <2> HIDE DEF x, y
  <2>1. e0 \in Byte /\ e1 \in Byte /\ e2 \in Byte /\ e3 \in Byte
    BY <1>x, ByteRange, LogicPlace
  <2>2. w = Wd(e0, e1, e2, e3)
    BY DEF LogicWord
  <2> HIDE DEF e0, e1, e2, e3, w
  <2> QED BY <2>1, <2>2, WdWord, ByteOfWd
<1>c. logic(lut, rd, rs1, rs2) = i1 \o i2 \o i3 \o i4 \o i5 \o i6 \o i7 \o i8 \o i9
  <2>1. rd # zero
    BY <1>b
  <2> QED BY <2>1, SMTT(30) DEF logic, Var, VAR_A, VAR_B, VAR_C, VAR_D
<1> HIDE DEF R, S, c0, c1, c2, c3, c4, c5, c6, c7, c8, c9, m1, m2, m3, m4, m5, m6, m7, m8, m9, x, y, w, e0,
        e1, e2, e3
<1>d. i1 \in Code /\ c0 \o i1 = i1
  BY <1>b, RegNames, Coded, ConcatEmptySeq DEF Code, mv, li, c0
<1>0. Does(m, c0, m, R, S) /\ Reg(m, rs1) = x /\ Reg(m, rs2) = y
  BY <1>s, <1>r, <1>b, DoesNothing DEF Ready, c0, x, y
<1>1. Does(m, c1, m1, R, S) /\ Reg(m1, rs2) = y /\ Holds(m1, 240, x)
  <2>1. Does(m, c1, m1, R, S) /\ Saves(m, m1, 240, Reg(m, rs1))
    BY <1>0, <1>b, <1>a, <1>p, SwStack DEF c1, m1
  <2> QED BY <2>1, <1>0, <1>b DEF Saves, Holds
<1>2. Does(m, c2, m2, R, S) /\ Holds(m2, 236, y) /\ Holds(m2, 240, x)
  <2>1. Does(m, c2, m2, R, S) /\ Saves(m1, m2, 236, Reg(m1, rs2))
    BY <1>1, <1>b, <1>a, <1>p, SwStack DEF c2, m2
  <2> QED BY <2>1, <1>1, <1>b DEF Saves, Holds
<1>3. Does(m, c3, m3, R, S) /\ Reg(m3, rd) = lut /\ Holds(m3, 236, y) /\ Holds(m3, 240, x)
  <2>1. Ready(m2) /\ Live(m2)
    BY <1>2, <1>b, StaysReady DEF Ready
  <2>2. Does(m2, i3, Run(m2, i3), One(rd), {}) /\ Reg(Run(m2, i3), rd) = lut
    BY <2>1, <1>2, <1>b, <1>k, LaDoes
  <2> DEFINE R2 == One(rd)
             S2 == {}
  <2>3. R2 \subseteq R /\ S2 \subseteq S
    BY <1>b DEF One
  <2> HIDE DEF R2, S2
  <2>4. Does(m, c3, m3, R, S) /\ m3 = Run(m2, i3) /\ Keeps(m2, m3, R2, S2)
    BY <1>2, <2>2, <2>3, DoesNext DEF c3, m3, R2, S2
  <2> QED BY <2>2, <2>4, <1>2, <1>b DEF Keeps, Holds, R2, S2, One
<1>4. Does(m, c4, m4, R, S) /\ Reg(m4, rd) = lut /\ Mem(m4, 230) = ByteOf(0, 2) /\ Mem(m4, 231) = ByteOf(0, 3)
      /\ Holds(m4, 236, y) /\ Holds(m4, 240, x)
  <2>1. Does(m, c4, m4, R, S) /\ Saves(m3, m4, 228, Reg(m3, zero))
    BY <1>3, <1>b, <1>a, <1>p, SwStack DEF c4, m4
  <2>2. Reg(m3, zero) = 0
    BY <1>3, ZeroStays
  <2> QED BY <2>1, <2>2, <1>3, <1>b DEF Saves, Holds
<1>5. Does(m, c5, m5, R, S) /\ Reg(m5, rd) = lut /\ Mem(m5, 230) = ByteOf(0, 2) /\ Mem(m5, 231) = ByteOf(0, 3)
      /\ Mem(m5, 235) = ByteOf(w, 3) /\ Mem(m5, 236) = ByteOf(y, 0) /\ Mem(m5, 237) = ByteOf(y, 1)
      /\ Mem(m5, 238) = ByteOf(y, 2) /\ Mem(m5, 240) = ByteOf(x, 0) /\ Mem(m5, 241) = ByteOf(x, 1)
      /\ Mem(m5, 242) = ByteOf(x, 2)
  <2>1. Ready(m4) /\ Live(m4)
    BY <1>4, <1>b, StaysReady DEF Ready
  <2>2. Does(m4, i5, Run(m4, i5), One(tp), Three(228, 229, 235))
        /\ Mem(Run(m4, i5), 235) = Entry(lut, Mem(m4, 243), Mem(m4, 239))
    BY <2>1, <1>4, <1>b, Ats, ZeroBytes, LogicByteDoes DEF Holds
  <2> DEFINE R2 == One(tp)
             S2 == Three(228, 229, 235)
  <2>3. R2 \subseteq R /\ S2 \subseteq S
    BY <1>b, <1>a DEF One, One, Three
  <2> HIDE DEF R2, S2
  <2>4. Does(m, c5, m5, R, S) /\ m5 = Run(m4, i5) /\ Keeps(m4, m5, R2, S2)
    BY <1>4, <2>2, <2>3, DoesNext DEF c5, m5, R2, S2
  <2>5. Entry(lut, Mem(m4, 243), Mem(m4, 239)) = ByteOf(w, 3)
    BY <1>4, <1>w DEF Holds, e3
  <2> QED BY <2>2, <2>4, <2>5, <1>4, <1>b DEF Keeps, Holds, R2, S2, One, Three
<1>6. Does(m, c6, m6, R, S) /\ Reg(m6, rd) = lut /\ Mem(m6, 230) = ByteOf(0, 2) /\ Mem(m6, 231) = ByteOf(0, 3)
      /\ Mem(m6, 234) = ByteOf(w, 2) /\ Mem(m6, 235) = ByteOf(w, 3) /\ Mem(m6, 236) = ByteOf(y, 0)
      /\ Mem(m6, 237) = ByteOf(y, 1) /\ Mem(m6, 240) = ByteOf(x, 0) /\ Mem(m6, 241) = ByteOf(x, 1)
  <2>1. Ready(m5) /\ Live(m5)
    BY <1>5, <1>b, StaysReady DEF Ready
  <2>2. Does(m5, i6, Run(m5, i6), One(tp), Three(228, 229, 234))
        /\ Mem(Run(m5, i6), 234) = Entry(lut, Mem(m5, 242), Mem(m5, 238))
    BY <2>1, <1>5, <1>b, Ats, ZeroBytes, LogicByteDoes DEF Holds
  <2> DEFINE R2 == One(tp)
             S2 == Three(228, 229, 234)
  <2>3. R2 \subseteq R /\ S2 \subseteq S
    BY <1>b, <1>a DEF One, One, Three
  <2> HIDE DEF R2, S2
  <2>4. Does(m, c6, m6, R, S) /\ m6 = Run(m5, i6) /\ Keeps(m5, m6, R2, S2)
    BY <1>5, <2>2, <2>3, DoesNext DEF c6, m6, R2, S2
  <2>5. Entry(lut, Mem(m5, 242), Mem(m5, 238)) = ByteOf(w, 2)
    BY <1>5, <1>w DEF Holds, e2
  <2> QED BY <2>2, <2>4, <2>5, <1>5, <1>b DEF Keeps, Holds, R2, S2, One, Three
<1>7. Does(m, c7, m7, R, S) /\ Reg(m7, rd) = lut /\ Mem(m7, 230) = ByteOf(0, 2) /\ Mem(m7, 231) = ByteOf(0, 3)
      /\ Mem(m7, 233) = ByteOf(w, 1) /\ Mem(m7, 234) = ByteOf(w, 2) /\ Mem(m7, 235) = ByteOf(w, 3)
      /\ Mem(m7, 236) = ByteOf(y, 0) /\ Mem(m7, 240) = ByteOf(x, 0)
  <2>1. Ready(m6) /\ Live(m6)
    BY <1>6, <1>b, StaysReady DEF Ready
  <2>2. Does(m6, i7, Run(m6, i7), One(tp), Three(228, 229, 233))
        /\ Mem(Run(m6, i7), 233) = Entry(lut, Mem(m6, 241), Mem(m6, 237))
    BY <2>1, <1>6, <1>b, Ats, ZeroBytes, LogicByteDoes DEF Holds
  <2> DEFINE R2 == One(tp)
             S2 == Three(228, 229, 233)
  <2>3. R2 \subseteq R /\ S2 \subseteq S
    BY <1>b, <1>a DEF One, One, Three
  <2> HIDE DEF R2, S2
  <2>4. Does(m, c7, m7, R, S) /\ m7 = Run(m6, i7) /\ Keeps(m6, m7, R2, S2)
    BY <1>6, <2>2, <2>3, DoesNext DEF c7, m7, R2, S2
  <2>5. Entry(lut, Mem(m6, 241), Mem(m6, 237)) = ByteOf(w, 1)
    BY <1>6, <1>w DEF Holds, e1
  <2> QED BY <2>2, <2>4, <2>5, <1>6, <1>b DEF Keeps, Holds, R2, S2, One, Three
<1>8. Does(m, c8, m8, R, S) /\ Holds(m8, 232, w)
  <2>1. Ready(m7) /\ Live(m7)
    BY <1>7, <1>b, StaysReady DEF Ready
  <2>2. Does(m7, i8, Run(m7, i8), One(tp), Three(228, 229, 232))
        /\ Mem(Run(m7, i8), 232) = Entry(lut, Mem(m7, 240), Mem(m7, 236))
    BY <2>1, <1>7, <1>b, Ats, ZeroBytes, LogicByteDoes DEF Holds
  <2> DEFINE R2 == One(tp)
             S2 == Three(228, 229, 232)
  <2>3. R2 \subseteq R /\ S2 \subseteq S
    BY <1>b, <1>a DEF One, One, Three
  <2> HIDE DEF R2, S2
  <2>4. Does(m, c8, m8, R, S) /\ m8 = Run(m7, i8) /\ Keeps(m7, m8, R2, S2)
    BY <1>7, <2>2, <2>3, DoesNext DEF c8, m8, R2, S2
  <2>5. Entry(lut, Mem(m7, 240), Mem(m7, 236)) = ByteOf(w, 0)
    BY <1>7, <1>w DEF Holds, e0
  <2> QED BY <2>2, <2>4, <2>5, <1>7, <1>b DEF Keeps, Holds, R2, S2, One, Three
<1>9. Does(m, c9, m9, R, S) /\ Reg(m9, rd) = w
  <2>1. Does(m, c9, m9, R, S) /\ Sets(m8, m9, rd, w)
    BY <1>8, <1>b, <1>a, <1>p, LwBack, <1>w DEF c9, m9
  <2> QED BY <2>1, <1>8, <1>b DEF Sets, Holds
<1>e. c9 = logic(lut, rd, rs1, rs2)
  BY <1>c, <1>d DEF c1, c2, c3, c4, c5, c6, c7, c8, c9
<1> QED BY <1>9, <1>e DEF m9, R, S, w, x, y

=============================================================================
