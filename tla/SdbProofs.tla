------------------------------ MODULE SdbProofs ------------------------------
(***************************************************************************)
(* Proofs about the simple debugger: its watchpoint pool and its           *)
(* expressions.                                                            *)
(*                                                                         *)
(* The pool, for every size and every set of expressions and values: type  *)
(* correctness, the partition of the pool, the absence of cycles, and the  *)
(* refinement of WatchpointSet.  The inductive invariant says that there   *)
(* are a set A of nodes and a rank for every node such that `head' starts  *)
(* a chain through A and `free_' one through the rest, ranks growing along *)
(* each.  new_wp and free_wp are each one removal from a chain followed by *)
(* one push on the other, so the proof rests on a lemma for a pop, one for *)
(* an unlink and one for a push.                                           *)
(*                                                                         *)
(* The expressions, of every length: get_main_op() never searches past the *)
(* end of its range, and what eval() gives is what C's grammar says.       *)
(* eval(), the loops of get_main_op() and tokenise(), and the grammar are  *)
(* recursive functions, so the proofs first show that there are functions  *)
(* which do what these do (every call is smaller than its caller), and     *)
(* then, by induction on the same measures, what they return.              *)
(***************************************************************************)
EXTENDS Watchpoint, Expr, TLAPS, WellFoundedInduction, FiniteSetTheorems, SequenceTheorems

USE PoolAssumption

-----------------------------------------------------------------------------
(* Minima, for ranks of nodes and measures of calls *)

LessThan == {ss \in Nat \X Nat : ss[1] < ss[2]}

\* A non-empty set of naturals has a least element.
LEMMA NatMin ==
  ASSUME NEW T \in SUBSET Nat, T # {}
  PROVE  \E m \in T : \A k \in T : m <= k
<1>1. IsWellFoundedOn(LessThan, Nat)
  BY NatLessThanWellFounded DEF OpToRel, LessThan
<1>2. PICK m \in T : \A k \in T : ~ (<<k, m>> \in LessThan)
  BY <1>1, WFMin
<1>3. ASSUME NEW k \in T PROVE m <= k
  <2>1. k \in Nat /\ m \in Nat
    OBVIOUS
  <2>2. <<k, m>> \in Nat \X Nat
    BY <2>1
  <2>3. ~ (k < m)
    BY <1>2, <2>2 DEF LessThan
  <2> QED BY <2>1, <2>3
<1> QED BY <1>3

-----------------------------------------------------------------------------
(* Chains *)

Links == [WPs -> WPs \cup {NULL}]
Ranks == [WPs -> Nat]

\* Ranks with n put below everything else.
Below(r, n) == [i \in WPs |-> IF i = n THEN 0 ELSE r[i] + 1]

\* A walk along a chain visits the nodes of the chain and no others.
LEMMA ReachChain ==
  ASSUME NEW nx \in Links, NEW p, NEW S \in SUBSET WPs, NEW r \in Ranks,
         Chain(nx, p, S, r)
  PROVE  Reach(nx, p) = S
<1>1. ClosedFrom(nx, p, S)
  BY DEF Chain, ClosedFrom
<1>2. ASSUME NEW T \in SUBSET WPs, ClosedFrom(nx, p, T)
      PROVE  S \subseteq T
  <2> SUFFICES ASSUME S \ T # {} PROVE FALSE
    OBVIOUS
  <2> DEFINE D == {r[i] : i \in S \ T}
  <2>1. D \in SUBSET Nat /\ D # {}
    BY DEF Ranks
  <2>2. PICK m \in D : \A k \in D : m <= k
    BY <2>1, NatMin
  <2>3. PICK i \in S \ T : m = r[i]
    BY <2>2
  <2>4. PICK j \in S : nx[j] = i
    BY <2>3, <1>2 DEF Chain, ClosedFrom
  <2>5. r[j] < r[i]
    BY <2>3, <2>4 DEF Chain
  <2>6. j \notin T
    BY <2>3, <2>4, <1>2 DEF ClosedFrom
  <2>7. r[i] <= r[j]
    BY <2>2, <2>3, <2>4, <2>6
  <2>8. r[i] \in Nat /\ r[j] \in Nat
    BY <2>3, <2>4 DEF Ranks
  <2> QED BY <2>5, <2>7, <2>8
<1> QED BY <1>1, <1>2 DEF Reach

\* A walk that leaves a node of a chain does not come back to it.
LEMMA ChainEnds ==
  ASSUME NEW nx \in Links, NEW p, NEW S \in SUBSET WPs, NEW r \in Ranks,
         Chain(nx, p, S, r), NEW i \in S
  PROVE  i \notin Reach(nx, nx[i])
<1> DEFINE T == {j \in S : r[i] < r[j]}
<1>1. ASSUME NEW j \in T PROVE nx[j] \in T \cup {NULL}
  <2>1. r[i] < r[j] /\ j \in S /\ nx[j] \in S \cup {NULL}
    BY DEF Chain
  <2>2. CASE nx[j] # NULL
    <3>1. r[j] < r[nx[j]] /\ nx[j] \in S
      BY <2>1, <2>2 DEF Chain
    <3>2. r[i] \in Nat /\ r[j] \in Nat /\ r[nx[j]] \in Nat
      BY <2>1, <3>1 DEF Ranks
    <3> QED BY <2>1, <3>1, <3>2
  <2> QED BY <2>2
<1>2. nx[i] \in T \cup {NULL}
  BY DEF Chain
<1>3. T \in SUBSET WPs /\ i \notin T
  BY DEF Ranks
<1>4. ClosedFrom(nx, nx[i], T)
  BY <1>1, <1>2 DEF ClosedFrom
<1> HIDE DEF T
<1> QED BY <1>3, <1>4 DEF Reach

\* Taking the first node off a chain leaves a chain.
LEMMA PopChain ==
  ASSUME NEW nx \in Links, NEW p \in WPs, NEW S \in SUBSET WPs,
         NEW r \in Ranks, Chain(nx, p, S, r)
  PROVE  Chain(nx, nx[p], S \ {p}, r)
<1>1. p \in S
  BY DEF Chain
<1>2. \A i \in S : nx[i] # p
  BY <1>1 DEF Chain
<1>3. nx[p] \in (S \ {p}) \cup {NULL}
  BY <1>1, <1>2 DEF Chain
<1>4. \A i \in S \ {p} : nx[i] # NULL => nx[i] # nx[p]
  BY <1>1 DEF Chain
<1> QED BY <1>1, <1>2, <1>3, <1>4 DEF Chain

\* Linking the node before n to the node after it leaves a chain without n.
LEMMA UnlinkChain ==
  ASSUME NEW nx \in Links, NEW p, NEW S \in SUBSET WPs, NEW r \in Ranks,
         Chain(nx, p, S, r), NEW pre \in S, NEW n \in WPs, nx[pre] = n
  PROVE  /\ n \in S /\ n # p /\ n # pre
         /\ Chain([nx EXCEPT ![pre] = nx[n]], p, S \ {n}, r)
<1> DEFINE nx2 == [nx EXCEPT ![pre] = nx[n]]
<1>0. \A i \in WPs : nx2[i] = IF i = pre THEN nx[n] ELSE nx[i]
  BY DEF Links
<1>1. n \in S /\ n # p /\ r[pre] < r[n]
  BY DEF Chain
<1>2. n # pre
  BY <1>1 DEF Ranks
<1>3. ASSUME nx[n] # NULL
      PROVE  nx[n] \in S /\ nx[n] # p /\ r[n] < r[nx[n]] /\ nx[n] # n
             /\ r[pre] < r[nx[n]]
  <2>1. nx[n] \in S /\ nx[n] # p /\ r[n] < r[nx[n]]
    BY <1>1, <1>3 DEF Chain
  <2>2. r[n] \in Nat /\ r[pre] \in Nat /\ r[nx[n]] \in Nat
    BY <2>1 DEF Ranks
  <2> QED BY <1>1, <2>1, <2>2
<1>4. \A i \in S : nx[i] = n => i = pre
  BY DEF Chain
<1> HIDE DEF nx2
<1>5. \A i \in S \ {n} : nx2[i] \in (S \ {n}) \cup {NULL}
  BY <1>0, <1>1, <1>3, <1>4 DEF Chain
<1>6. \A i \in S \ {n} : i = p \/ \E j \in S \ {n} : nx2[j] = i
  <2> SUFFICES ASSUME NEW i \in S \ {n}, i # p
               PROVE  \E j \in S \ {n} : nx2[j] = i
    OBVIOUS
  <2>1. PICK j \in S : nx[j] = i
    BY DEF Chain
  <2>2. CASE j = n
    BY <1>0, <1>1, <1>2, <2>1, <2>2
  <2>3. CASE j # n
    BY <1>0, <2>1, <2>3
  <2> QED BY <2>2, <2>3
<1>7. \A i \in S \ {n} : nx2[i] # NULL => nx2[i] # p /\ r[i] < r[nx2[i]]
  BY <1>0, <1>3 DEF Chain
<1>8. ASSUME NEW i \in S \ {n}, NEW j \in S \ {n},
             nx2[i] = nx2[j], nx2[i] # NULL
      PROVE  i = j
  <2>1. \A k \in S : nx[k] = nx[n] /\ nx[n] # NULL => k = n
    BY <1>1 DEF Chain
  <2>2. \A k, l \in S : nx[k] = nx[l] /\ nx[k] # NULL => k = l
    BY DEF Chain
  <2> QED BY <1>0, <1>8, <2>1, <2>2
<1>9. p \in (S \ {n}) \cup {NULL}
  BY <1>1 DEF Chain
<1>10. Chain(nx2, p, S \ {n}, r)
  BY <1>5, <1>6, <1>7, <1>8, <1>9 DEF Chain
<1> QED BY <1>1, <1>2, <1>10 DEF nx2

\* Pushing a node in front of a chain makes a chain.
LEMMA PushChain ==
  ASSUME NEW nx \in Links, NEW p, NEW S \in SUBSET WPs, NEW r \in Ranks,
         Chain(nx, p, S, r), NEW n \in WPs \ S
  PROVE  Chain([nx EXCEPT ![n] = p], n, S \cup {n}, Below(r, n))
<1> DEFINE nx2 == [nx EXCEPT ![n] = p]
           r2  == Below(r, n)
<1>0. \A i \in WPs : nx2[i] = IF i = n THEN p ELSE nx[i]
  BY DEF Links
<1>1. \A i \in WPs : r2[i] = IF i = n THEN 0 ELSE r[i] + 1
  BY DEF Below
<1>2. p \in S \cup {NULL}
  BY DEF Chain
<1> HIDE DEF nx2, r2
<1>3. \A i \in S \cup {n} : nx2[i] \in S \cup {NULL}
  BY <1>0, <1>2 DEF Chain
<1>4. \A i \in S \cup {n} : i = n \/ \E j \in S \cup {n} : nx2[j] = i
  <2> SUFFICES ASSUME NEW i \in S
               PROVE  \E j \in S \cup {n} : nx2[j] = i
    OBVIOUS
  <2>1. CASE i = p
    BY <1>0, <2>1
  <2>2. CASE i # p
    <3>1. PICK j \in S : nx[j] = i
      BY <2>2 DEF Chain
    <3> QED BY <1>0, <3>1
  <2> QED BY <2>1, <2>2
<1>5. ASSUME NEW i \in S \cup {n}, nx2[i] # NULL
      PROVE  nx2[i] # n /\ r2[i] < r2[nx2[i]]
  <2>1. nx2[i] \in S /\ nx2[i] \in WPs /\ nx2[i] # n
    BY <1>3, <1>5
  <2>2. r2[nx2[i]] = r[nx2[i]] + 1 /\ r[nx2[i]] \in Nat
    BY <1>1, <2>1 DEF Ranks
  <2>3. CASE i = n
    BY <1>1, <2>1, <2>2, <2>3
  <2>4. CASE i # n
    <3>1. i \in S /\ nx2[i] = nx[i] /\ nx[i] # NULL
      BY <1>0, <1>5, <2>4
    <3>2. r[i] < r[nx[i]]
      BY <3>1 DEF Chain
    <3>3. r2[i] = r[i] + 1 /\ r[i] \in Nat
      BY <1>1, <2>4 DEF Ranks
    <3> QED BY <2>1, <2>2, <3>1, <3>2, <3>3
  <2> QED BY <2>3, <2>4
<1>6. ASSUME NEW i \in S \cup {n}, NEW j \in S \cup {n},
             nx2[i] = nx2[j], nx2[i] # NULL
      PROVE  i = j
  <2>1. \A k \in S : nx[k] # NULL => nx[k] # p
    BY DEF Chain
  <2>2. \A k, l \in S : nx[k] = nx[l] /\ nx[k] # NULL => k = l
    BY DEF Chain
  <2> QED BY <1>0, <1>6, <2>1, <2>2
<1>7. Chain(nx2, n, S \cup {n}, r2)
  BY <1>3, <1>4, <1>5, <1>6 DEF Chain
<1> QED BY <1>7 DEF nx2, r2

\* A chain does not depend on the links of other nodes ...
LEMMA FrameChain ==
  ASSUME NEW nx \in Links, NEW nx2 \in Links, NEW p, NEW S \in SUBSET WPs,
         NEW r \in Ranks, Chain(nx, p, S, r), \A i \in S : nx2[i] = nx[i]
  PROVE  Chain(nx2, p, S, r)
BY DEF Chain

\* ... nor on a rank put below its own.
LEMMA BelowChain ==
  ASSUME NEW nx \in Links, NEW p, NEW S \in SUBSET WPs, NEW r \in Ranks,
         Chain(nx, p, S, r), NEW n \in WPs \ S
  PROVE  Chain(nx, p, S, Below(r, n))
<1>1. ASSUME NEW i \in S, nx[i] # NULL
      PROVE  Below(r, n)[i] < Below(r, n)[nx[i]]
  <2>1. nx[i] \in S /\ r[i] < r[nx[i]]
    BY <1>1 DEF Chain
  <2>2. r[i] \in Nat /\ r[nx[i]] \in Nat
    BY <2>1 DEF Ranks
  <2> QED BY <2>1, <2>2 DEF Below
<1> QED BY <1>1 DEF Chain

LEMMA BelowRanks ==
  ASSUME NEW r \in Ranks, NEW n \in WPs
  PROVE  Below(r, n) \in Ranks
BY DEF Ranks, Below

-----------------------------------------------------------------------------
(* The pool: A in use, the rest free *)

PoolIs(nx, h, f, A) ==
  \E r \in Ranks : Chain(nx, h, A, r) /\ Chain(nx, f, WPs \ A, r)

\* What the walks from `head' and `free_' visit.
LEMMA PoolReach ==
  ASSUME NEW nx \in Links, NEW h, NEW f, NEW A \in SUBSET WPs,
         PoolIs(nx, h, f, A)
  PROVE  Reach(nx, h) = A /\ Reach(nx, f) = WPs \ A
BY ReachChain DEF PoolIs

\* init_wp_pool: node i has rank i and everything is free.
LEMMA InitPool ==
  ASSUME Init
  PROVE  TypeOK /\ PoolIs(next, head, free_, {})
<1>1. TypeOK
  BY DEF Init, TypeOK, WPs
<1> DEFINE r == [i \in WPs |-> i]
<1>2. r \in Ranks
  BY DEF Ranks, WPs
<1>3. Chain(next, head, {}, r)
  BY DEF Init, Chain
<1>4. Chain(next, free_, WPs, r)
  <2>0. next = [i \in WPs |-> IF i = NR_WP - 1 THEN NULL ELSE i + 1] /\ free_ = 0
    BY DEF Init
  <2>1. 0 \in WPs
    BY DEF WPs
  <2>2. \A i \in WPs : next[i] = IF i = NR_WP - 1 THEN NULL ELSE i + 1
    BY <2>0
  <2>3. \A i \in WPs : next[i] \in WPs \cup {NULL}
    BY <2>2 DEF WPs
  <2>4. ASSUME NEW i \in WPs, i # 0 PROVE \E j \in WPs : next[j] = i
    <3>1. i - 1 \in WPs /\ i - 1 # NR_WP - 1 /\ (i - 1) + 1 = i
      BY <2>4 DEF WPs
    <3> QED BY <2>2, <3>1
  <2>5. ASSUME NEW i \in WPs, next[i] # NULL
        PROVE  next[i] # 0 /\ r[i] < r[next[i]]
    <3>1. next[i] = i + 1 /\ i + 1 \in WPs
      BY <2>2, <2>3, <2>5
    <3> QED BY <3>1 DEF WPs
  <2>6. ASSUME NEW i \in WPs, NEW j \in WPs, next[i] = next[j], next[i] # NULL
        PROVE  i = j
    <3>1. next[i] = i + 1 /\ next[j] = j + 1
      BY <2>2, <2>6
    <3>2. i \in Int /\ j \in Int
      BY DEF WPs
    <3>3. i + 1 = j + 1
      BY <2>6, <3>1
    <3> QED BY <3>2, <3>3
  <2> HIDE DEF r
  <2> QED BY <2>0, <2>1, <2>3, <2>4, <2>5, <2>6 DEF Chain
<1>5. WPs \ {} = WPs
  OBVIOUS
<1> QED BY <1>1, <1>2, <1>3, <1>4, <1>5 DEF PoolIs

\* new_wp moves the first free node to the list in use.
LEMMA NewWpPool ==
  ASSUME TypeOK, NEW A \in SUBSET WPs, PoolIs(next, head, free_, A), NewWp
  PROVE  /\ free_ \in WPs \ A
         /\ next' \in Links
         /\ PoolIs(next', head', free_', A \cup {free_})
<1>1. next \in Links /\ free_ \in WPs
  BY DEF TypeOK, Links, NewWp
<1>2. PICK r \in Ranks : Chain(next, head, A, r) /\ Chain(next, free_, WPs \ A, r)
  BY DEF PoolIs
<1>3. free_ \in WPs \ A
  BY <1>1, <1>2 DEF Chain
<1> DEFINE F == (WPs \ A) \ {free_}
           r2 == Below(r, free_)
<1>4. Chain(next, next[free_], F, r)
  BY <1>1, <1>2, PopChain
<1>5. r2 \in Ranks /\ next' \in Links
  BY <1>1, <1>2, BelowRanks DEF NewWp, TypeOK, Links
<1>6. Chain(next', free_, A \cup {free_}, r2)
  BY <1>1, <1>2, <1>3, PushChain DEF NewWp
<1>7. Chain(next, next[free_], F, r2)
  <2>1. F \in SUBSET WPs /\ free_ \in WPs \ F
    BY <1>1
  <2> HIDE DEF F, r2
  <2> QED BY <1>1, <1>4, <2>1, BelowChain DEF r2
<1>8. Chain(next', next[free_], F, r2)
  <2>1. F \in SUBSET WPs /\ \A i \in F : next'[i] = next[i]
    BY <1>1 DEF NewWp, Links
  <2> HIDE DEF F, r2
  <2> QED BY <1>1, <1>5, <1>7, <2>1, FrameChain
<1>9. F = WPs \ (A \cup {free_})
  OBVIOUS
<1>10. head' = free_ /\ free_' = next[free_]
  BY DEF NewWp
<1> HIDE DEF F, r2
<1> QED BY <1>3, <1>5, <1>6, <1>8, <1>9, <1>10 DEF PoolIs

\* A free_wp that finds n moves n to the free list.
LEMMA FreeHeadPool ==
  ASSUME TypeOK, NEW A \in SUBSET WPs, PoolIs(next, head, free_, A),
         NEW n, FreeHead(n)
  PROVE  /\ n \in A
         /\ next' \in Links
         /\ PoolIs(next', head', free_', A \ {n})
<1>1. next \in Links /\ n \in WPs /\ head = n
  BY DEF TypeOK, Links, FreeHead
<1>2. PICK r \in Ranks : Chain(next, head, A, r) /\ Chain(next, free_, WPs \ A, r)
  BY DEF PoolIs
<1>3. n \in A
  BY <1>1, <1>2 DEF Chain
<1> DEFINE B == A \ {n}
           r2 == Below(r, n)
<1>4. Chain(next, next[n], B, r)
  BY <1>1, <1>2, PopChain
<1>5. r2 \in Ranks /\ next' \in Links /\ next' = [next EXCEPT ![n] = free_]
  BY <1>1, <1>2, BelowRanks DEF FreeHead, TypeOK, Links
<1>6. n \in WPs \ (WPs \ A) /\ WPs \ A \in SUBSET WPs
  BY <1>1, <1>3
<1>7. Chain(next', n, (WPs \ A) \cup {n}, r2)
  BY <1>1, <1>2, <1>5, <1>6, PushChain
<1>8. Chain(next', next[n], B, r2)
  <2>1. B \in SUBSET WPs /\ n \in WPs \ B /\ \A i \in B : next'[i] = next[i]
    BY <1>1, <1>5 DEF Links
  <2> HIDE DEF B, r2
  <2>2. Chain(next, next[n], B, r2)
    BY <1>1, <1>4, <2>1, BelowChain DEF r2
  <2> QED BY <1>1, <1>5, <2>1, <2>2, FrameChain
<1>9. (WPs \ A) \cup {n} = WPs \ B
  BY <1>1
<1>10. head' = next[n] /\ free_' = n
  BY <1>1 DEF FreeHead
<1> HIDE DEF r2
<1> QED BY <1>3, <1>5, <1>7, <1>8, <1>9, <1>10 DEF PoolIs

LEMMA FreeInnerPool ==
  ASSUME TypeOK, NEW A \in SUBSET WPs, PoolIs(next, head, free_, A),
         NEW n \in Args, FreeInner(n)
  PROVE  /\ n \in A
         /\ next' \in Links
         /\ PoolIs(next', head', free_', A \ {n})
<1>1. next \in Links
  BY DEF TypeOK, Links
<1>2. PICK r \in Ranks : Chain(next, head, A, r) /\ Chain(next, free_, WPs \ A, r)
  BY DEF PoolIs
<1>3. Active = A
  BY <1>1, PoolReach DEF Active
<1>4. PICK pre \in A : /\ next[pre] = n
                       /\ next' = [next EXCEPT ![pre] = next[n], ![n] = free_]
  BY <1>3 DEF FreeInner
<1>5. n \in WPs /\ n # NULL
  BY <1>1, <1>4 DEF Links
<1> DEFINE B   == A \ {n}
           nx1 == [next EXCEPT ![pre] = next[n]]
           r2  == Below(r, n)
<1>6. n \in A /\ n # head /\ n # pre /\ Chain(nx1, head, B, r)
  BY <1>1, <1>2, <1>4, <1>5, UnlinkChain
<1>7. nx1 \in Links /\ next' = [nx1 EXCEPT ![n] = free_] /\ next' \in Links
  <2>1. free_ \in WPs \cup {NULL} /\ next[n] \in WPs \cup {NULL}
    BY <1>1, <1>5 DEF TypeOK, Links
  <2> QED BY <1>1, <1>4, <1>5, <1>6, <2>1 DEF Links
<1>8. r2 \in Ranks
  BY <1>2, <1>5, BelowRanks
<1> HIDE DEF nx1, r2
<1>9. Chain(nx1, free_, WPs \ A, r)
  <2>1. WPs \ A \in SUBSET WPs /\ \A i \in WPs \ A : nx1[i] = next[i]
    BY <1>1, <1>4 DEF nx1, Links
  <2> QED BY <1>1, <1>2, <1>7, <2>1, FrameChain
<1>10. Chain(next', n, (WPs \ A) \cup {n}, r2)
  <2>1. n \in WPs \ (WPs \ A) /\ WPs \ A \in SUBSET WPs
    BY <1>5, <1>6
  <2> QED BY <1>2, <1>7, <1>9, <2>1, PushChain DEF r2
<1>11. Chain(next', head, B, r2)
  <2>1. B \in SUBSET WPs /\ n \in WPs \ B /\ \A i \in B : next'[i] = nx1[i]
    BY <1>5, <1>7 DEF Links
  <2> HIDE DEF B
  <2>2. Chain(nx1, head, B, r2)
    BY <1>2, <1>6, <1>7, <2>1, BelowChain DEF r2
  <2> QED BY <1>7, <1>8, <2>1, <2>2, FrameChain
<1>12. (WPs \ A) \cup {n} = WPs \ B
  BY <1>5
<1>13. head' = head /\ free_' = n
  BY DEF FreeInner
<1> QED BY <1>6, <1>7, <1>8, <1>10, <1>11, <1>12, <1>13 DEF PoolIs

-----------------------------------------------------------------------------
(* Safety *)

\* Every watchpoint in use has an expression the evaluator accepts, and at
\* the prompt its present value.
WatchesInv ==
  \A i \in Active :
    pc # "bad_expr" => /\ str[i] \in Exprs
                       /\ pc = "prompt" => last_value[i] = mem[str[i]]

\* The inductive invariant.
IInv ==
  /\ TypeOK
  /\ \E A \in SUBSET WPs : PoolIs(next, head, free_, A)
  /\ WatchesInv

LEMMA InitIInv == Init => IInv
<1> SUFFICES ASSUME Init PROVE IInv
  OBVIOUS
<1>1. TypeOK /\ PoolIs(next, head, free_, {})
  BY InitPool
<1>2. Active = {}
  BY <1>1, PoolReach DEF Active, TypeOK, Links
<1> QED BY <1>1, <1>2 DEF IInv, WatchesInv

\* What every action does to the pool, to the set of watchpoints in use and
\* to its type: the part of the step lemmas all of them share.
LEMMA StepActive ==
  ASSUME TypeOK, NEW A \in SUBSET WPs, PoolIs(next, head, free_, A),
         next' \in Links, NEW B \in SUBSET WPs,
         PoolIs(next', head', free_', B)
  PROVE  Active = A /\ Active' = B
<1>1. next \in Links
  BY DEF TypeOK, Links
<1> QED BY <1>1, PoolReach DEF Active

LEMMA CmdWIInv ==
  ASSUME IInv, NEW e \in Exprs, CmdW(e)
  PROVE  IInv'
<1> USE DEF IInv
<1>1. PICK A \in SUBSET WPs : PoolIs(next, head, free_, A)
  OBVIOUS
<1> DEFINE B == A \cup {free_}
<1>2. free_ \in WPs \ A /\ next' \in Links /\ PoolIs(next', head', free_', B)
  BY <1>1, NewWpPool DEF CmdW
<1>3. Active = A /\ Active' = B
  BY <1>1, <1>2, StepActive
<1>4. TypeOK'
  BY <1>2 DEF TypeOK, CmdW, NewWp, Links
<1>5. WatchesInv'
  BY <1>2, <1>3 DEF WatchesInv, CmdW, TypeOK
<1> QED BY <1>2, <1>4, <1>5

LEMMA CmdWBadIInv ==
  ASSUME IInv, NEW e \in BadExprs, CmdWBad(e)
  PROVE  IInv'
<1> USE DEF IInv
<1>1. PICK A \in SUBSET WPs : PoolIs(next, head, free_, A)
  OBVIOUS
<1>2. free_ \in WPs \ A /\ next' \in Links /\ PoolIs(next', head', free_', A \cup {free_})
  BY <1>1, NewWpPool DEF CmdWBad
<1>3. TypeOK'
  BY <1>2 DEF TypeOK, CmdWBad, NewWp, Links
<1>4. WatchesInv'
  BY DEF WatchesInv, CmdWBad
<1> QED BY <1>2, <1>3, <1>4

LEMMA CmdDIInv ==
  ASSUME IInv, NEW n \in Args, CmdD(n)
  PROVE  IInv'
<1> USE DEF IInv
<1>1. PICK A \in SUBSET WPs : PoolIs(next, head, free_, A)
  OBVIOUS
<1>2. CASE FreeHead(n) \/ FreeInner(n)
  <2>1. n \in A /\ next' \in Links /\ PoolIs(next', head', free_', A \ {n})
    BY <1>1, <1>2, FreeHeadPool, FreeInnerPool
  <2>2. Active = A /\ Active' = A \ {n}
    BY <1>1, <2>1, StepActive
  <2>3. TypeOK'
    BY <1>2, <2>1 DEF TypeOK, CmdD, FreeHead, FreeInner, Links
  <2>4. WatchesInv'
    BY <2>2 DEF WatchesInv, CmdD
  <2> QED BY <2>1, <2>3, <2>4
<1>3. CASE FreeNone(n)
  BY <1>1, <1>3 DEF FreeNone, CmdD, pool, TypeOK, WatchesInv, Active
<1> QED BY <1>2, <1>3 DEF CmdD, FreeWp

LEMMA CheckIInv ==
  ASSUME IInv, Check
  PROVE  IInv'
<1> USE DEF IInv
<1>1. Active \subseteq WPs /\ Active' = Active
  BY DEF Active, Reach, Check, pool
<1>2. \A i \in Active : str[i] \in Exprs
  BY DEF WatchesInv, Check
<1>3. TypeOK'
  BY <1>1, <1>2 DEF TypeOK, Check, CheckWp, pool
<1>4. WatchesInv'
  BY <1>1, <1>2 DEF WatchesInv, Check, CheckWp
<1> QED BY <1>3, <1>4 DEF Check, pool

LEMMA NextIInv == IInv /\ [Next]_vars => IInv'
<1> SUFFICES ASSUME IInv, [Next]_vars PROVE IInv'
  OBVIOUS
<1>1. ASSUME NEW e \in Exprs, CmdW(e) PROVE IInv'
  BY <1>1, CmdWIInv
<1>2. CASE CmdWNoFree
  BY <1>2 DEF CmdWNoFree, pool, IInv, TypeOK, WatchesInv, Active
<1>3. ASSUME NEW e \in BadExprs, CmdWBad(e) PROVE IInv'
  BY <1>3, CmdWBadIInv
<1>4. ASSUME NEW n \in Args, CmdD(n) PROVE IInv'
  BY <1>4, CmdDIInv
<1>5. CASE Instruction
  BY <1>5 DEF Instruction, pool, IInv, TypeOK, WatchesInv, Active
<1>6. CASE Check
  BY <1>6, CheckIInv
<1>7. CASE UNCHANGED vars
  BY <1>7 DEF vars, IInv, TypeOK, WatchesInv, Active
<1> QED BY <1>1, <1>2, <1>3, <1>4, <1>5, <1>6, <1>7 DEF Next

\* The inductive invariant holds of the pool of watchpoint.c.
THEOREM Invariance == Spec => []IInv
BY InitIInv, NextIInv, PTL DEF Spec

\* Every variable keeps its type.
THEOREM TypeCorrect == Spec => []TypeOK
<1>1. IInv => TypeOK
  BY DEF IInv
<1> QED BY <1>1, Invariance, PTL

\* The two lists partition the pool, whatever `w' and `d' are given.
THEOREM Partition == Spec => []PoolPartition
<1>1. IInv => PoolPartition
  <2> SUFFICES ASSUME IInv PROVE PoolPartition
    OBVIOUS
  <2>1. PICK A \in SUBSET WPs : PoolIs(next, head, free_, A)
    BY DEF IInv
  <2>2. Active = A /\ Free = WPs \ A
    BY <2>1, PoolReach DEF Active, Free, IInv, TypeOK, Links
  <2> QED BY <2>2 DEF PoolPartition
<1> QED BY <1>1, Invariance, PTL

\* The walks along both lists end.
THEOREM NoCycle == Spec => []ListsEnd
<1>1. IInv => ListsEnd
  <2> SUFFICES ASSUME IInv, NEW i \in WPs PROVE i \notin Reach(next, next[i])
    BY DEF ListsEnd
  <2>1. PICK A \in SUBSET WPs : PoolIs(next, head, free_, A)
    BY DEF IInv
  <2>2. PICK r \in Ranks : Chain(next, head, A, r) /\ Chain(next, free_, WPs \ A, r)
    BY <2>1 DEF PoolIs
  <2>3. next \in Links
    BY DEF IInv, TypeOK, Links
  <2> QED BY <2>2, <2>3, ChainEnds
<1> QED BY <1>1, Invariance, PTL

\* At the prompt a watchpoint in use holds the present value of its
\* expression.
THEOREM Current == Spec => []WatchesCurrent
<1>1. IInv => WatchesCurrent
  BY DEF IInv, WatchesInv, WatchesCurrent
<1> QED BY <1>1, Invariance, PTL

-----------------------------------------------------------------------------
(* Refinement *)

\* The map the pool stands for, before and after a step from A to B.
LEMMA WatchedStep ==
  ASSUME TypeOK, NEW A \in SUBSET WPs, PoolIs(next, head, free_, A),
         next' \in Links, NEW B \in SUBSET WPs,
         PoolIs(next', head', free_', B)
  PROVE  /\ watched = [i \in A |-> [expr |-> str[i], last |-> last_value[i]]]
         /\ watched' = [i \in B |-> [expr |-> str'[i], last |-> last_value'[i]]]
BY StepActive DEF watched

LEMMA CmdWRefines ==
  ASSUME IInv, NEW e \in Exprs, CmdW(e)
  PROVE  Abs!Set(e)
<1>1. PICK A \in SUBSET WPs : PoolIs(next, head, free_, A)
  BY DEF IInv
<1> DEFINE B == A \cup {free_}
<1>2. free_ \in WPs \ A /\ next' \in Links /\ PoolIs(next', head', free_', B)
  BY <1>1, NewWpPool DEF CmdW, IInv
<1>3. /\ watched = [i \in A |-> [expr |-> str[i], last |-> last_value[i]]]
      /\ watched' = [i \in B |-> [expr |-> str'[i], last |-> last_value'[i]]]
  BY <1>1, <1>2, WatchedStep DEF IInv
<1>4. \A i \in B : /\ str'[i] = IF i = free_ THEN e ELSE str[i]
                   /\ last_value'[i] = IF i = free_ THEN mem[e] ELSE last_value[i]
  BY <1>2 DEF CmdW, IInv, TypeOK
<1>5. watched' = [i \in DOMAIN watched \cup {free_} |->
                    IF i = free_ THEN Abs!Entry(e, mem[e]) ELSE watched[i]]
  BY <1>3, <1>4 DEF Abs!Entry
<1>6. free_ \in Abs!Numbers \ DOMAIN watched
  BY <1>2, <1>3 DEF Abs!Numbers, WPs
<1> QED BY <1>5, <1>6 DEF Abs!Set, CmdW

LEMMA CmdWBadRefines ==
  ASSUME IInv, NEW e \in BadExprs, CmdWBad(e)
  PROVE  Abs!SetBad
<1>1. PICK A \in SUBSET WPs : PoolIs(next, head, free_, A)
  BY DEF IInv
<1> DEFINE B == A \cup {free_}
<1>2. free_ \in WPs \ A /\ next' \in Links /\ PoolIs(next', head', free_', B)
  BY <1>1, NewWpPool DEF CmdWBad, IInv
<1>3. /\ watched = [i \in A |-> [expr |-> str[i], last |-> last_value[i]]]
      /\ watched' = [i \in B |-> [expr |-> str'[i], last |-> last_value'[i]]]
  BY <1>1, <1>2, WatchedStep DEF IInv
<1>4. \A i \in B : /\ str'[i] = IF i = free_ THEN e ELSE str[i]
                   /\ last_value'[i] = IF i = free_ THEN 0 ELSE last_value[i]
  BY <1>2 DEF CmdWBad, IInv, TypeOK
<1>5. watched' = [i \in DOMAIN watched \cup {free_} |->
                    IF i = free_ THEN Abs!Entry(e, 0) ELSE watched[i]]
  BY <1>3, <1>4 DEF Abs!Entry
<1>6. free_ \in Abs!Numbers \ DOMAIN watched
  BY <1>2, <1>3 DEF Abs!Numbers, WPs
<1> QED BY <1>5, <1>6 DEF Abs!SetBad, CmdWBad

\* new_wp() runs out only when every number is in use.
LEMMA CmdWNoFreeRefines ==
  ASSUME IInv, CmdWNoFree
  PROVE  Abs!SetExhausted
<1>1. PICK A \in SUBSET WPs : PoolIs(next, head, free_, A)
  BY DEF IInv
<1>2. Active = A /\ Free = WPs \ A
  BY <1>1, PoolReach DEF Active, Free, IInv, TypeOK, Links
<1>3. Free = {}
  <2>1. ClosedFrom(next, free_, {})
    BY DEF ClosedFrom, CmdWNoFree
  <2> QED BY <2>1 DEF Free, Reach
<1>4. DOMAIN watched = Abs!Numbers
  BY <1>2, <1>3 DEF watched, Abs!Numbers, WPs
<1>5. watched' = watched
  BY DEF watched, Active, CmdWNoFree, pool
<1> QED BY <1>4, <1>5 DEF Abs!SetExhausted, CmdWNoFree

LEMMA CmdDRefines ==
  ASSUME IInv, NEW n \in Args, CmdD(n)
  PROVE  Abs!Delete(n)
<1>1. PICK A \in SUBSET WPs : PoolIs(next, head, free_, A)
  BY DEF IInv
<1>2. CASE FreeHead(n) \/ FreeInner(n)
  <2>1. n \in A /\ next' \in Links /\ PoolIs(next', head', free_', A \ {n})
    BY <1>1, <1>2, FreeHeadPool, FreeInnerPool DEF IInv
  <2>2. /\ watched = [i \in A |-> [expr |-> str[i], last |-> last_value[i]]]
        /\ watched' = [i \in A \ {n} |-> [expr |-> str'[i], last |-> last_value'[i]]]
    BY <1>1, <2>1, WatchedStep DEF IInv
  <2>3. watched' = [i \in DOMAIN watched \ {n} |-> watched[i]]
    BY <2>2 DEF CmdD
  <2> QED BY <2>3 DEF Abs!Delete, CmdD
<1>3. CASE FreeNone(n)
  <2>1. watched' = watched
    BY <1>3 DEF watched, Active, FreeNone, CmdD, pool
  <2>2. DOMAIN watched = Active /\ n \notin Active
    BY <1>3 DEF watched, FreeNone
  <2>3. watched = [i \in DOMAIN watched \ {n} |-> watched[i]]
    BY <2>2 DEF watched
  <2> QED BY <2>1, <2>3 DEF Abs!Delete, CmdD
<1> QED BY <1>2, <1>3 DEF CmdD, FreeWp

LEMMA CheckRefines ==
  ASSUME IInv, Check
  PROVE  Abs!Check
<1>1. Active' = Active /\ Active \subseteq WPs
  BY DEF Active, Reach, Check, pool
<1>2. DOMAIN watched = Active
  BY DEF watched
<1>3. \A i \in Active : watched[i].expr = str[i] /\ watched[i].last = last_value[i]
  BY DEF watched
<1>4. watched' = [i \in Active |-> Abs!Entry(str[i], mem[str[i]])]
  BY <1>1 DEF watched, Check, CheckWp, Abs!Entry
<1>5. watched' = [i \in DOMAIN watched |->
                    Abs!Entry(watched[i].expr, mem[watched[i].expr])]
  BY <1>2, <1>3, <1>4
<1>6. reported' = {i \in DOMAIN watched : watched[i].last # mem[watched[i].expr]}
  BY <1>2, <1>3 DEF Check, CheckWp
<1> QED BY <1>5, <1>6 DEF Abs!Check, Check

LEMMA NextRefines == IInv /\ [Next]_vars => [Abs!Next]_(Abs!vars)
<1> SUFFICES ASSUME IInv, [Next]_vars PROVE [Abs!Next]_(Abs!vars)
  OBVIOUS
<1>1. ASSUME NEW e \in Exprs, CmdW(e) PROVE Abs!Next
  BY <1>1, CmdWRefines DEF Abs!Next
<1>2. CASE CmdWNoFree
  BY <1>2, CmdWNoFreeRefines DEF Abs!Next
<1>3. ASSUME NEW e \in BadExprs, CmdWBad(e) PROVE Abs!Next
  BY <1>3, CmdWBadRefines DEF Abs!Next
<1>4. ASSUME NEW n \in Args, CmdD(n) PROVE Abs!Next
  BY <1>4, CmdDRefines DEF Abs!Next
<1>5. CASE Instruction
  <2>1. watched' = watched
    BY <1>5 DEF watched, Active, Instruction, pool
  <2> QED BY <1>5, <2>1 DEF Abs!Next, Abs!Instruction, Instruction
<1>6. CASE Check
  BY <1>6, CheckRefines DEF Abs!Next
<1>7. CASE UNCHANGED vars
  <2>1. watched' = watched
    BY <1>7 DEF vars, watched, Active
  <2> QED BY <1>7, <2>1 DEF vars, Abs!vars
<1> QED BY <1>1, <1>2, <1>3, <1>4, <1>5, <1>6, <1>7 DEF Next

\* The linked pool of watchpoint.c implements the map from numbers to
\* watched expressions: `w' hands out an unused number, `d n' forgets n and
\* nothing else, and the check after an instruction reports exactly the
\* watchpoints whose value moved.
THEOREM Refinement == Spec => AbsSpec
<1>1. Init => Abs!Init
  <2> SUFFICES ASSUME Init PROVE Abs!Init
    OBVIOUS
  <2>1. Active = {}
    BY InitPool, PoolReach DEF Active, TypeOK, Links
  <2>2. watched = [n \in {} |-> Abs!Entry(0, 0)]
    BY <2>1 DEF watched
  <2> QED BY <2>2 DEF Init, Abs!Init
<1> QED BY <1>1, Invariance, NextRefines, PTL DEF Spec, AbsSpec, Abs!Spec

-----------------------------------------------------------------------------
(* Expressions: parentheses *)

HIDE PoolAssumption

\* The parentheses of one kind in a range.
Paren(t, type, p, i) == {j \in p .. i : t[j].type = type}

LEMMA ParenFinite ==
  ASSUME NEW t, NEW type, NEW p \in Int, NEW i \in Int
  PROVE  IsFiniteSet(Paren(t, type, p, i)) /\ Cardinality(Paren(t, type, p, i)) \in Nat
<1>1. IsFiniteSet(p .. i)
  BY FS_Interval
<1>2. Paren(t, type, p, i) \in SUBSET (p .. i)
  BY DEF Paren
<1>3. IsFiniteSet(Paren(t, type, p, i))
  BY <1>1, <1>2, FS_Subset
<1> QED BY <1>3, FS_CardinalityType

LEMMA DepthIs ==
  ASSUME NEW t, NEW p, NEW i
  PROVE  Depth(t, p, i) = Cardinality(Paren(t, "(", p, i)) - Cardinality(Paren(t, ")", p, i))
BY DEF Depth, Paren

\* The depth of a range is the sum of the depths of its parts.
LEMMA ParenSplit ==
  ASSUME NEW t, NEW type, NEW p \in Int, NEW i \in Int, NEW j \in Int, p <= i, i - 1 <= j
  PROVE  Cardinality(Paren(t, type, p, j))
           = Cardinality(Paren(t, type, p, i - 1)) + Cardinality(Paren(t, type, i, j))
<1> DEFINE L == Paren(t, type, p, i - 1)
           R == Paren(t, type, i, j)
<1>1. IsFiniteSet(L) /\ IsFiniteSet(R) /\ Cardinality(L) \in Nat /\ Cardinality(R) \in Nat
  BY ParenFinite
<1>2. Paren(t, type, p, j) = L \cup R /\ L \cap R = {}
  BY SMT DEF Paren
<1>3. Cardinality(L \cup R) = Cardinality(L) + Cardinality(R) - Cardinality(L \cap R)
  BY <1>1, FS_Union
<1>4. Cardinality(L \cap R) = 0
  BY <1>2, FS_EmptySet
<1> HIDE DEF L, R
<1> QED BY <1>1, <1>2, <1>3, <1>4 DEF L, R

LEMMA DepthSplit ==
  ASSUME NEW t, NEW p \in Int, NEW i \in Int, NEW j \in Int, p <= i, i - 1 <= j
  PROVE  Depth(t, p, j) = Depth(t, p, i - 1) + Depth(t, i, j)
<1>1. /\ Cardinality(Paren(t, "(", p, j))
           = Cardinality(Paren(t, "(", p, i - 1)) + Cardinality(Paren(t, "(", i, j))
      /\ Cardinality(Paren(t, ")", p, j))
           = Cardinality(Paren(t, ")", p, i - 1)) + Cardinality(Paren(t, ")", i, j))
  BY ParenSplit
<1>2. \A type : /\ Cardinality(Paren(t, type, p, i - 1)) \in Nat
                /\ Cardinality(Paren(t, type, i, j)) \in Nat
  BY ParenFinite
<1> QED BY <1>1, <1>2, DepthIs

LEMMA DepthInt == ASSUME NEW t, NEW p \in Int, NEW i \in Int PROVE Depth(t, p, i) \in Int
<1>1. \A type : Cardinality(Paren(t, type, p, i)) \in Nat
  BY ParenFinite
<1> QED BY <1>1, DepthIs

\* The depth of one token, and of none.
LEMMA DepthOne ==
  ASSUME NEW t, NEW i \in Int
  PROVE  /\ Depth(t, i, i - 1) = 0
         /\ Depth(t, i, i) = IF t[i].type = "(" THEN 1 ELSE IF t[i].type = ")" THEN -1 ELSE 0
<1>1. Cardinality({}) = 0 /\ Cardinality({i}) = 1
  BY FS_EmptySet, FS_Singleton
<1>2. \A type : Paren(t, type, i, i - 1) = {}
  BY SMT DEF Paren
<1>3. \A type : Paren(t, type, i, i) = IF t[i].type = type THEN {i} ELSE {}
  BY SMT DEF Paren
<1>4. \A type : /\ Cardinality(Paren(t, type, i, i - 1)) = 0
                /\ Cardinality(Paren(t, type, i, i)) = IF t[i].type = type THEN 1 ELSE 0
  BY <1>1, <1>2, <1>3, Zenon
<1>5. "(" # ")"
  OBVIOUS
<1> QED BY <1>4, <1>5, DepthIs, SMT

\* A place of the range where no parenthesis is open.
Outside(t, p, q, i) == i \in p .. q + 1 /\ Depth(t, p, i - 1) = 0

\* In a range whose parentheses match, the search that check_parentheses() is
\* called for in get_main_op() ends inside the range, at a place outside.
LEMMA SearchEnds ==
  ASSUME NEW t, NEW p \in Int, NEW q \in Int, ~ IsBad(t, p, q),
         NEW i \in p .. q, Outside(t, p, q, i), t[i].type \in {"(", ")"}
  PROVE  \E j \in i + 1 .. q : CheckParentheses(t, i, j)
<1>1. p <= q /\ Depth(t, p, q) = 0 /\ \A k \in p .. q : ~ (Depth(t, p, k) < 0)
  BY SMT DEF IsBad
<1>2. \A k \in i .. q : Depth(t, i, k) = Depth(t, p, k) /\ Depth(t, i, k) \in Int
  <2> SUFFICES ASSUME NEW k \in i .. q
               PROVE  Depth(t, i, k) = Depth(t, p, k) /\ Depth(t, i, k) \in Int
    OBVIOUS
  <2>1. Depth(t, p, k) = Depth(t, p, i - 1) + Depth(t, i, k)
    BY DepthSplit
  <2>2. Depth(t, i, k) \in Int /\ Depth(t, p, i - 1) = 0
    BY DepthInt DEF Outside
  <2> QED BY <2>1, <2>2
<1>3. t[i].type = "(" /\ Depth(t, i, i) = 1
  BY <1>1, <1>2, DepthOne
<1> DEFINE Ends == {n \in Nat : i + n \in i .. q /\ Depth(t, i, i + n) = 0}
<1>4. Ends # {}
  <2>1. q - i \in Nat /\ i + (q - i) = q
    BY SMT
  <2>2. Depth(t, i, q) = 0
    BY <1>1, <1>2
  <2>3. q - i \in Ends
    BY <2>1, <2>2
  <2> QED BY <2>3
<1>5. PICK n \in Ends : \A k \in Ends : n <= k
  <2> HIDE DEF Ends
  <2>1. Ends \in SUBSET Nat
    BY DEF Ends
  <2> QED BY <1>4, <2>1, NatMin
<1>6. n \in Nat /\ i + n \in i .. q /\ Depth(t, i, i + n) = 0 /\ n # 0
  BY <1>3, <1>5
<1>7. \A k \in i .. i + n - 1 : Depth(t, i, k) # 0
  <2> SUFFICES ASSUME NEW k \in i .. i + n - 1, Depth(t, i, k) = 0 PROVE FALSE
    OBVIOUS
  <2>1. k - i \in Nat /\ i + (k - i) = k /\ k \in i .. q /\ k - i < n
    BY <1>6, SMT
  <2>2. k - i \in Ends
    BY <2>1
  <2> QED BY <1>5, <1>6, <2>1, <2>2
<1>8. ~ IsBad(t, i, i + n)
  <2>1. \A k \in i .. i + n : ~ (Depth(t, i, k) < 0)
    <3> SUFFICES ASSUME NEW k \in i .. i + n PROVE ~ (Depth(t, i, k) < 0)
      OBVIOUS
    <3>1. k \in i .. q /\ k \in p .. q
      BY <1>6, SMT
    <3> QED BY <1>1, <1>2, <3>1
  <2> QED BY <1>6, <2>1 DEF IsBad
<1>9. CheckParentheses(t, i, i + n) /\ i + n \in i + 1 .. q
  BY <1>6, <1>7, <1>8, SMT DEF CheckParentheses
<1> QED BY <1>9

LEMMA AfterSearch ==
  ASSUME NEW t, NEW p \in Int, NEW q \in Int,
         NEW i \in p .. q, Outside(t, p, q, i), NEW j \in i + 1 .. q, CheckParentheses(t, i, j)
  PROVE  Outside(t, p, q, j + 1)
<1>1. Depth(t, i, j) = 0
  BY SMT DEF CheckParentheses, IsBad
<1>2. Depth(t, p, j) = Depth(t, p, i - 1) + Depth(t, i, j)
  BY DepthSplit
<1>3. Depth(t, p, j) = 0 /\ (j + 1) - 1 = j /\ j + 1 \in p .. q + 1
  BY <1>1, <1>2, SMT DEF Outside
<1> QED BY <1>3 DEF Outside

LEMMA AfterToken ==
  ASSUME NEW t, NEW p \in Int, NEW q \in Int,
         NEW i \in p .. q, Outside(t, p, q, i), t[i].type \notin {"(", ")"}
  PROVE  Outside(t, p, q, i + 1)
<1>1. Depth(t, p, i) = Depth(t, p, i - 1) + Depth(t, i, i)
  BY DepthSplit
<1>2. Depth(t, i, i) = 0
  BY DepthOne
<1>3. Depth(t, p, i) = 0 /\ (i + 1) - 1 = i /\ i + 1 \in p .. q + 1
  BY <1>1, <1>2, SMT DEF Outside
<1> QED BY <1>3 DEF Outside

-----------------------------------------------------------------------------
(* Expressions: get_main_op() *)

LEMMA MinIn ==
  ASSUME NEW S \in SUBSET Nat, S # {}
  PROVE  Min(S) \in S
<1>1. PICK m \in S : \A k \in S : m <= k
  BY NatMin
<1> QED BY <1>1 DEF Min

LEMMA PrecedenceType ==
  ASSUME NEW type
  PROVE  /\ Precedence(type) \in Int
         /\ Precedence(type) = 0 <=> type \in {"(", ")"}
         /\ Precedence(type) # -1 /\ ~ (Precedence(type) > 0) => Precedence(type) = 0
BY SMT DEF Precedence

\* The places where the search of token i can end.
Closing(t, i, q) == {j \in i + 1 .. q : CheckParentheses(t, i, j)}

\* One round of the loop, which goes on as f says.
ScanStep(t, q, f, i, best) ==
  IF i > q THEN best
  ELSE IF Precedence(t[i].type) = -1 THEN f[i + 1][best]
  ELSE IF Precedence(t[i].type) > 0 THEN f[i + 1][IF Weaker(t, i, best) THEN i ELSE best]
  ELSE IF Closing(t, i, q) = {} THEN OVERRUN ELSE f[Min(Closing(t, i, q)) + 1][best]

Scans(f, t, p, q) ==
  f = [i \in p .. q + 1 |-> [best \in 0 .. q |-> ScanStep(t, q, f, i, best)]]

LEMMA MainOpScans ==
  ASSUME NEW t, NEW p, NEW q
  PROVE  MainOp(t, p, q) = (CHOOSE f : Scans(f, t, p, q))[p][0]
BY DEF MainOp, Scans, ScanStep, Closing

LEMMA ClosingMin ==
  ASSUME NEW t, NEW i \in Nat, NEW q \in Nat, Closing(t, i, q) # {}
  PROVE  Min(Closing(t, i, q)) \in i + 1 .. q /\ CheckParentheses(t, i, Min(Closing(t, i, q)))
<1>1. Closing(t, i, q) \in SUBSET Nat
  BY SMT DEF Closing
<1>2. Min(Closing(t, i, q)) \in Closing(t, i, q)
  BY <1>1, MinIn
<1> QED BY <1>2 DEF Closing

\* A round goes on to the right.
LEMMA ScanAgree ==
  ASSUME NEW t, NEW q \in Nat, NEW f, NEW g, NEW i \in Nat, NEW best,
         \A k \in i + 1 .. q + 1 : f[k] = g[k]
  PROVE  ScanStep(t, q, f, i, best) = ScanStep(t, q, g, i, best)
<1>1. CASE i > q
  BY <1>1 DEF ScanStep
<1>2. CASE ~ (i > q)
  <2>1. i + 1 \in i + 1 .. q + 1
    BY <1>2, SMT
  <2>2. f[i + 1] = g[i + 1]
    BY <2>1
  <2>3. CASE Closing(t, i, q) = {}
    BY <1>2, <2>2, <2>3, Zenon DEF ScanStep
  <2>4. CASE Closing(t, i, q) # {}
    <3>1. Min(Closing(t, i, q)) \in i + 1 .. q
      BY <2>4, ClosingMin
    <3>2. Min(Closing(t, i, q)) + 1 \in i + 1 .. q + 1
      BY <3>1, SMT
    <3>3. f[Min(Closing(t, i, q)) + 1] = g[Min(Closing(t, i, q)) + 1]
      BY <3>2
    <3> QED BY <1>2, <2>2, <2>4, <3>3, Zenon DEF ScanStep
  <2> QED BY <2>3, <2>4
<1> QED BY <1>1, <1>2

\* The loop is well defined: there is a function that does what it does.
LEMMA ScanExists ==
  ASSUME NEW t, NEW p \in Nat, NEW q \in Nat, p <= q + 1
  PROVE  \E f : Scans(f, t, p, q)
<1> DEFINE Bad == {n \in Nat : n <= q + 1 - p /\ ~ \E f : Scans(f, t, q + 1 - n, q)}
<1>1. Bad = {}
  <2> SUFFICES ASSUME Bad # {} PROVE FALSE
    OBVIOUS
  <2>1. PICK n \in Bad : \A k \in Bad : n <= k
    <3>1. Bad \in SUBSET Nat
      OBVIOUS
    <3> HIDE DEF Bad
    <3> QED BY <3>1, NatMin
  <2> DEFINE a == q + 1 - n
  <2>2. n \in Nat /\ a \in Nat /\ a <= q + 1 /\ ~ \E f : Scans(f, t, a, q)
    BY <2>1, SMT
  <2>3. PICK g : a <= q => Scans(g, t, a + 1, q)
    <3>1. CASE a <= q
      <4>1. n - 1 \in Nat /\ n - 1 <= q + 1 - p /\ ~ (n <= n - 1) /\ q + 1 - (n - 1) = a + 1
        BY <2>1, <3>1, SMT
      <4>2. n - 1 \notin Bad
        BY <2>1, <4>1
      <4> QED BY <4>1, <4>2
    <3> QED BY <3>1
  <2> HIDE DEF a, Bad
  <2> DEFINE h == [i \in a .. q + 1 |-> IF i = a THEN [best \in 0 .. q |-> ScanStep(t, q, g, a, best)] ELSE g[i]]
  <2>4. \A k \in a + 1 .. q + 1 : h[k] = g[k]
    BY <2>2, SMT
  <2>5. \A i \in a .. q + 1 : h[i] = [best \in 0 .. q |-> ScanStep(t, q, h, i, best)]
    <3> SUFFICES ASSUME NEW i \in a .. q + 1
                 PROVE  h[i] = [best \in 0 .. q |-> ScanStep(t, q, h, i, best)]
      OBVIOUS
    <3>1. \A best : ScanStep(t, q, g, i, best) = ScanStep(t, q, h, i, best)
      <4>1. i \in Nat /\ \A k \in i + 1 .. q + 1 : k \in a + 1 .. q + 1
        BY <2>2, SMT
      <4>2. \A k \in i + 1 .. q + 1 : g[k] = h[k]
        BY <2>4, <4>1
      <4> HIDE DEF h
      <4> QED BY <4>1, <4>2, ScanAgree
    <3>2. h[i] = [best \in 0 .. q |-> ScanStep(t, q, g, i, best)]
      <4>1. CASE i = a
        BY <4>1
      <4>2. CASE i # a
        <5>1. a <= q /\ i \in a + 1 .. q + 1
          BY <2>2, <4>2, SMT
        <5>2. g[i] = [best \in 0 .. q |-> ScanStep(t, q, g, i, best)]
          <6>1. g = [k \in a + 1 .. q + 1 |-> [best \in 0 .. q |-> ScanStep(t, q, g, k, best)]]
            BY <2>3, <5>1 DEF Scans
          <6> DEFINE F(k) == [best \in 0 .. q |-> ScanStep(t, q, g, k, best)]
          <6> HIDE DEF F
          <6>2. g = [k \in a + 1 .. q + 1 |-> F(k)]
            BY <6>1 DEF F
          <6>3. g[i] = F(i)
            BY <5>1, <6>2, Zenon
          <6> QED BY <6>3 DEF F
        <5> QED BY <2>4, <5>1, <5>2
      <4> QED BY <4>1, <4>2
    <3> HIDE DEF h
    <3> QED BY <3>1, <3>2
  <2>6. h = [i \in a .. q + 1 |-> h[i]]
    OBVIOUS
  <2> HIDE DEF h
  <2>7. Scans(h, t, a, q)
    BY <2>5, <2>6 DEF Scans
  <2> QED BY <2>2, <2>7
<1>2. q + 1 - p \in Nat /\ q + 1 - p <= q + 1 - p /\ q + 1 - (q + 1 - p) = p
  BY SMT
<1> QED BY <1>1, <1>2

\* From a place outside parentheses the loop ends inside the range.
LEMMA ScanResult ==
  ASSUME NEW t, NEW p \in Nat, NEW q \in Nat, ~ IsBad(t, p, q), NEW f, Scans(f, t, p, q)
  PROVE  \A i \in p .. q + 1, best \in 0 .. q : Outside(t, p, q, i) => f[i][best] \in 0 .. q
<1> DEFINE Good(i) == \A best \in 0 .. q : f[i][best] \in 0 .. q
           Bad == {n \in Nat : q + 1 - n \in p .. q + 1 /\ Outside(t, p, q, q + 1 - n) /\ ~ Good(q + 1 - n)}
<1> HIDE DEF Good
<1>1. Bad = {}
  <2> SUFFICES ASSUME Bad # {} PROVE FALSE
    OBVIOUS
  <2>1. PICK n \in Bad : \A k \in Bad : n <= k
    <3>1. Bad \in SUBSET Nat
      OBVIOUS
    <3> HIDE DEF Bad
    <3> QED BY <3>1, NatMin
  <2> DEFINE i == q + 1 - n
  <2>2. n \in Nat /\ i \in p .. q + 1 /\ i \in Nat /\ Outside(t, p, q, i) /\ ~ Good(i)
    BY <2>1, SMT
  <2>3. \A k \in i + 1 .. q + 1 : Outside(t, p, q, k) => Good(k)
    <3> SUFFICES ASSUME NEW k \in i + 1 .. q + 1, Outside(t, p, q, k), ~ Good(k) PROVE FALSE
      OBVIOUS
    <3>1. q + 1 - k \in Nat /\ q + 1 - (q + 1 - k) = k /\ k \in p .. q + 1 /\ ~ (n <= q + 1 - k)
      BY <2>2, SMT
    <3>2. q + 1 - k \in Bad
      BY <3>1
    <3> QED BY <2>1, <3>1, <3>2
  <2> HIDE DEF i, Bad
  <2>4. SUFFICES ASSUME NEW best \in 0 .. q PROVE f[i][best] \in 0 .. q
    BY <2>2 DEF Good
  <2>5. f[i][best] = ScanStep(t, q, f, i, best)
    <3> DEFINE F(k) == [b \in 0 .. q |-> ScanStep(t, q, f, k, b)]
    <3>1. f = [k \in p .. q + 1 |-> F(k)]
      BY Zenon DEF Scans
    <3> HIDE DEF F
    <3>2. f[i] = F(i)
      BY <2>2, <3>1, Zenon
    <3>3. F(i)[best] = ScanStep(t, q, f, i, best)
      BY Zenon DEF F
    <3> QED BY <3>2, <3>3, Zenon
  <2>6. CASE i > q
    BY <2>5, <2>6 DEF ScanStep
  <2>7. CASE ~ (i > q) /\ t[i].type \notin {"(", ")"}
    <3>1. i \in p .. q /\ i + 1 \in i + 1 .. q + 1 /\ i \in 0 .. q
      BY <2>2, <2>7, SMT
    <3>2. Good(i + 1)
      BY <2>2, <2>3, <2>7, <3>1, AfterToken
    <3>3. Precedence(t[i].type) # 0
      BY <2>7, PrecedenceType
    <3>4. Precedence(t[i].type) = -1 \/ Precedence(t[i].type) > 0
      BY <3>3, PrecedenceType
    <3>5. \E b \in 0 .. q : f[i][best] = f[i + 1][b]
      BY <2>5, <2>7, <3>1, <3>4, Zenon DEF ScanStep
    <3> QED BY <3>2, <3>5 DEF Good
  <2>8. CASE ~ (i > q) /\ t[i].type \in {"(", ")"}
    <3>1. i \in p .. q
      BY <2>2, <2>8, SMT
    <3>2. Closing(t, i, q) # {}
      <4>1. p \in Int /\ q \in Int
        BY SMT
      <4>2. \E k \in i + 1 .. q : CheckParentheses(t, i, k)
        BY <2>2, <2>8, <3>1, <4>1, SearchEnds, Zenon
      <4> QED BY <4>2, Zenon DEF Closing
    <3> DEFINE j == Min(Closing(t, i, q))
    <3>3. j \in i + 1 .. q /\ CheckParentheses(t, i, j)
      BY <2>2, <3>2, ClosingMin
    <3> HIDE DEF j
    <3>4. Outside(t, p, q, j + 1)
      BY <2>2, <3>1, <3>3, AfterSearch
    <3>5. j + 1 \in i + 1 .. q + 1
      BY <2>2, <3>3, SMT
    <3>6. Good(j + 1)
      BY <2>3, <3>4, <3>5
    <3>7. Precedence(t[i].type) = 0
      BY <2>8, PrecedenceType
    <3>8. f[i][best] = f[j + 1][best]
      BY <2>5, <2>8, <3>2, <3>7, SMT DEF ScanStep, j
    <3> QED BY <3>6, <3>8 DEF Good
  <2> QED BY <2>6, <2>7, <2>8
<1> SUFFICES ASSUME NEW i \in p .. q + 1, Outside(t, p, q, i) PROVE Good(i)
  BY DEF Good
<1>2. q + 1 - i \in Nat /\ q + 1 - (q + 1 - i) = i
  BY SMT
<1> QED BY <1>1, <1>2

\* The main operator of a range whose parentheses match is one of its tokens,
\* or none.
LEMMA MainOpType ==
  ASSUME NEW t, NEW p \in Nat, NEW q \in Nat, p <= q, ~ IsBad(t, p, q)
  PROVE  MainOp(t, p, q) \in 0 .. q
<1> DEFINE f == CHOOSE f : Scans(f, t, p, q)
<1>1. Scans(f, t, p, q)
  <2>1. p <= q + 1
    BY SMT
  <2>2. \E g : Scans(g, t, p, q)
    BY <2>1, ScanExists
  <2> QED BY <2>2, Zenon
<1>2. Outside(t, p, q, p)
  BY DepthOne DEF Outside
<1>3. MainOp(t, p, q) = f[p][0]
  BY MainOpScans
<1> HIDE DEF f
<1>4. p \in p .. q + 1 /\ 0 \in 0 .. q
  BY SMT
<1> QED BY <1>1, <1>2, <1>3, <1>4, ScanResult

-----------------------------------------------------------------------------
(* Expressions: eval() *)

EvalStep(t, f, c) ==
  IF Unbalanced(t, c.p, c.q) \/ c.p > c.q THEN 0
  ELSE IF c.p = c.q THEN IF t[c.p].type = "num" THEN t[c.p].val ELSE ASSERT
  ELSE IF CheckParentheses(t, c.p, c.q) THEN f[Call(c.p + 1, c.q - 1, c.open)]
  ELSE IF <<c.p, c.q>> \in c.open THEN LOOP
  ELSE LET main == MainOp(t, c.p, c.q)
           op   == IF main = 0 THEN 1 ELSE main
           open == c.open \cup {<<c.p, c.q>>}
           val1 == f[Call(c.p, op - 1, open)]
           val2 == f[Call(op + 1, c.q, open)]
       IN  IF main = OVERRUN THEN OVERRUN
           ELSE IF val1 \in Failed THEN val1
           ELSE IF val2 \in Failed THEN val2
           ELSE Apply(t[op].type, val1, val2)

Evals(f, t, C) == f = [c \in C |-> EvalStep(t, f, c)]

LEMMA EvalEvals ==
  ASSUME NEW t, NEW n
  PROVE  Eval(t, n) = (CHOOSE f : Evals(f, t, Calls(n)))[Call(1, n, {})]
BY DEF Eval, Evals, EvalStep

\* What a call makes smaller: the ranges that are not open, or its own range.
Width(n, c) == c.q - c.p + n + 1
Measure(n, c) == Cardinality(Ranges(n) \ c.open) * (2 * n + 1) + Width(n, c)

LEMMA RangesFinite ==
  ASSUME NEW n \in Nat, NEW open \in SUBSET Ranges(n)
  PROVE  /\ IsFiniteSet(Ranges(n)) /\ IsFiniteSet(Ranges(n) \ open)
         /\ Cardinality(Ranges(n) \ open) \in Nat /\ Cardinality(Ranges(n)) \in Nat
         /\ Cardinality(Ranges(n) \ open) <= Cardinality(Ranges(n))
<1>1. IsFiniteSet(1 .. n + 1) /\ IsFiniteSet(0 .. n)
  BY FS_Interval
<1>2. IsFiniteSet(Ranges(n))
  BY <1>1, FS_Product DEF Ranges
<1>3. Ranges(n) \ open \in SUBSET Ranges(n)
  OBVIOUS
<1> QED BY <1>2, <1>3, FS_Subset, FS_CardinalityType

LEMMA CallType ==
  ASSUME NEW n \in Nat, NEW c \in Calls(n)
  PROVE  /\ c.p \in 1 .. n + 1 /\ c.q \in 0 .. n /\ c.open \in SUBSET Ranges(n)
         /\ Width(n, c) \in 0 .. 2 * n /\ Measure(n, c) \in Nat
<1>1. c.p \in 1 .. n + 1 /\ c.q \in 0 .. n /\ c.open \in SUBSET Ranges(n)
  BY DEF Calls
<1>2. Width(n, c) \in 0 .. 2 * n
  BY <1>1, SMT DEF Width
<1>3. Cardinality(Ranges(n) \ c.open) \in Nat
  BY <1>1, RangesFinite
<1>4. \A a \in Nat, b \in Nat, d \in Nat : a * b + d \in Nat
  BY SMT
<1>5. 2 * n + 1 \in Nat /\ Width(n, c) \in Nat
  BY <1>2, SMT
<1> QED BY <1>1, <1>2, <1>3, <1>4, <1>5, Zenon DEF Measure

\* The call of eval() for what is inside the parentheses.
LEMMA InnerCall ==
  ASSUME NEW n \in Nat, NEW c \in Calls(n), c.p < c.q
  PROVE  /\ Call(c.p + 1, c.q - 1, c.open) \in Calls(n)
         /\ Measure(n, Call(c.p + 1, c.q - 1, c.open)) < Measure(n, c)
<1>1. c.p \in 1 .. n + 1 /\ c.q \in 0 .. n /\ c.open \in SUBSET Ranges(n)
  BY CallType
<1> DEFINE d == Call(c.p + 1, c.q - 1, c.open)
<1>2. d.p = c.p + 1 /\ d.q = c.q - 1 /\ d.open = c.open
  BY DEF Call
<1>3. d \in Calls(n)
  BY <1>1, SMT DEF Calls, Call
<1>4. Width(n, d) < Width(n, c) /\ Width(n, d) \in Int /\ Width(n, c) \in Int
  BY <1>1, <1>2, SMT DEF Width
<1> HIDE DEF d
<1>5. \A a \in Int, b \in Int, e \in Int : b < e => a + b < a + e
  BY SMT
<1>6. Cardinality(Ranges(n) \ c.open) * (2 * n + 1) \in Int
  <2>1. Cardinality(Ranges(n) \ c.open) \in Nat
    BY <1>1, RangesFinite
  <2>2. \A a \in Nat : a * (2 * n + 1) \in Int
    BY SMT
  <2> QED BY <2>1, <2>2, Zenon
<1> QED BY <1>2, <1>3, <1>4, <1>5, <1>6, Zenon DEF Measure, d

\* The calls for the operands of the main operator.
LEMMA OuterCall ==
  ASSUME NEW n \in Nat, NEW c \in Calls(n), <<c.p, c.q>> \notin c.open,
         NEW l \in 1 .. n + 1, NEW r \in 0 .. n
  PROVE  /\ Call(l, r, c.open \cup {<<c.p, c.q>>}) \in Calls(n)
         /\ Measure(n, Call(l, r, c.open \cup {<<c.p, c.q>>})) < Measure(n, c)
<1> DEFINE open == c.open \cup {<<c.p, c.q>>}
           d == Call(l, r, open)
           k == Cardinality(Ranges(n) \ c.open)
<1>1. /\ c.p \in 1 .. n + 1 /\ c.q \in 0 .. n /\ c.open \in SUBSET Ranges(n)
      /\ Width(n, c) \in 0 .. 2 * n
  BY CallType
<1>2. <<c.p, c.q>> \in Ranges(n) /\ open \in SUBSET Ranges(n)
  BY <1>1 DEF Ranges
<1>3. d \in Calls(n) /\ d.open = open
  BY <1>2 DEF Calls, Call
<1>4. Width(n, d) \in 0 .. 2 * n
  BY <1>3, CallType
<1>5. Cardinality(Ranges(n) \ open) = k - 1 /\ k \in Nat
  <2>1. IsFiniteSet(Ranges(n) \ c.open) /\ k \in Nat
    BY <1>1, RangesFinite
  <2>2. <<c.p, c.q>> \in Ranges(n) \ c.open
    BY <1>2
  <2>3. Ranges(n) \ open = (Ranges(n) \ c.open) \ {<<c.p, c.q>>}
    OBVIOUS
  <2>4. Cardinality((Ranges(n) \ c.open) \ {<<c.p, c.q>>}) = Cardinality(Ranges(n) \ c.open) - 1
    <3> DEFINE S == Ranges(n) \ c.open
               x == <<c.p, c.q>>
    <3>1. IsFiniteSet(S) /\ x \in S
      BY <2>1, <2>2
    <3> HIDE DEF S, x
    <3>2. Cardinality(S \ {x}) = Cardinality(S) - 1
      BY <3>1, FS_RemoveElement
    <3> QED BY <3>2 DEF S, x
  <2> QED BY <2>1, <2>3, <2>4, Zenon
<1> HIDE DEF open, d, k
<1>6. \A a \in Nat, v \in 0 .. 2 * n, w \in 0 .. 2 * n : (a - 1) * (2 * n + 1) + v < a * (2 * n + 1) + w
  <2> SUFFICES ASSUME NEW a \in Nat, NEW v \in 0 .. 2 * n, NEW w \in 0 .. 2 * n
               PROVE  (a - 1) * (2 * n + 1) + v < a * (2 * n + 1) + w
    OBVIOUS
  <2>1. (a - 1) * (2 * n + 1) = a * (2 * n + 1) - (2 * n + 1) /\ a * (2 * n + 1) \in Int
    BY SMT
  <2> QED BY <2>1, SMT
<1>7. Measure(n, d) = (k - 1) * (2 * n + 1) + Width(n, d) /\ Measure(n, c) = k * (2 * n + 1) + Width(n, c)
  BY <1>3, <1>5, Zenon DEF Measure, k
<1> QED BY <1>1, <1>3, <1>4, <1>5, <1>6, <1>7, Zenon DEF d, open

\* The token whose operator is applied lies in the range, or is the first one.
LEMMA OpType ==
  ASSUME NEW t, NEW n \in Nat, NEW c \in Calls(n), ~ Unbalanced(t, c.p, c.q), ~ (c.p > c.q)
  PROVE  /\ MainOp(t, c.p, c.q) \in 0 .. c.q
         /\ (IF MainOp(t, c.p, c.q) = 0 THEN 1 ELSE MainOp(t, c.p, c.q)) \in 1 .. n
<1>1. c.p \in 1 .. n + 1 /\ c.q \in 0 .. n
  BY CallType
<1>2. c.p \in Nat /\ c.q \in Nat /\ c.p <= c.q /\ 1 <= c.q /\ c.q <= n
  BY <1>1, SMT
<1>3. MainOp(t, c.p, c.q) \in 0 .. c.q
  BY <1>2, MainOpType DEF Unbalanced
<1> QED BY <1>2, <1>3, SMT

\* What a call does depends on smaller calls.
LEMMA EvalAgree ==
  ASSUME NEW t, NEW n \in Nat, NEW c \in Calls(n), NEW f, NEW g,
         \A d \in Calls(n) : Measure(n, d) < Measure(n, c) => f[d] = g[d]
  PROVE  EvalStep(t, f, c) = EvalStep(t, g, c)
<1>1. c.p \in 1 .. n + 1 /\ c.q \in 0 .. n
  BY CallType
<1>2. CASE Unbalanced(t, c.p, c.q) \/ c.p > c.q
  BY <1>2, Zenon DEF EvalStep
<1>3. CASE ~ Unbalanced(t, c.p, c.q) /\ ~ (c.p > c.q) /\ c.p = c.q
  BY <1>3, Zenon DEF EvalStep
<1>4. CASE ~ Unbalanced(t, c.p, c.q) /\ ~ (c.p > c.q) /\ c.p # c.q /\ CheckParentheses(t, c.p, c.q)
  <2>1. c.p < c.q
    BY <1>1, <1>4, SMT
  <2>2. f[Call(c.p + 1, c.q - 1, c.open)] = g[Call(c.p + 1, c.q - 1, c.open)]
    BY <2>1, InnerCall, Zenon
  <2> QED BY <1>4, <2>2, Zenon DEF EvalStep
<1>5. CASE /\ ~ Unbalanced(t, c.p, c.q) /\ ~ (c.p > c.q) /\ c.p # c.q
           /\ ~ CheckParentheses(t, c.p, c.q) /\ <<c.p, c.q>> \in c.open
  BY <1>5, Zenon DEF EvalStep
<1>6. CASE /\ ~ Unbalanced(t, c.p, c.q) /\ ~ (c.p > c.q) /\ c.p # c.q
           /\ ~ CheckParentheses(t, c.p, c.q) /\ <<c.p, c.q>> \notin c.open
  <2> DEFINE main == MainOp(t, c.p, c.q)
             op   == IF main = 0 THEN 1 ELSE main
             open == c.open \cup {<<c.p, c.q>>}
  <2>1. op - 1 \in 0 .. n /\ op + 1 \in 1 .. n + 1
    <3>1. op \in 1 .. n
      BY <1>6, OpType, Zenon
    <3> HIDE DEF op
    <3> QED BY <3>1, SMT
  <2> HIDE DEF op
  <2>2. f[Call(c.p, op - 1, open)] = g[Call(c.p, op - 1, open)]
    BY <1>1, <1>6, <2>1, OuterCall, Zenon
  <2>3. f[Call(op + 1, c.q, open)] = g[Call(op + 1, c.q, open)]
    BY <1>1, <1>6, <2>1, OuterCall, Zenon
  <2>4. \A h : EvalStep(t, h, c) = IF main = OVERRUN THEN OVERRUN
           ELSE IF h[Call(c.p, op - 1, open)] \in Failed THEN h[Call(c.p, op - 1, open)]
           ELSE IF h[Call(op + 1, c.q, open)] \in Failed THEN h[Call(op + 1, c.q, open)]
           ELSE Apply(t[op].type, h[Call(c.p, op - 1, open)], h[Call(op + 1, c.q, open)])
    BY <1>6, Zenon DEF EvalStep, op
  <2> QED BY <2>2, <2>3, <2>4, Zenon
<1> QED BY <1>2, <1>3, <1>4, <1>5, <1>6

\* eval() is well defined: there is a function that does what it does.
SmallCalls(n, k) == {c \in Calls(n) : Measure(n, c) < k}

LEMMA EvalExists ==
  ASSUME NEW t, NEW n \in Nat
  PROVE  \E f : Evals(f, t, Calls(n))
<1> DEFINE Bad == {k \in Nat : ~ \E f : Evals(f, t, SmallCalls(n, k))}
<1>1. Bad = {}
  <2> SUFFICES ASSUME Bad # {} PROVE FALSE
    OBVIOUS
  <2>1. PICK k \in Bad : \A j \in Bad : k <= j
    <3>1. Bad \in SUBSET Nat
      OBVIOUS
    <3> HIDE DEF Bad
    <3> QED BY <3>1, NatMin
  <2>2. k \in Nat /\ ~ \E f : Evals(f, t, SmallCalls(n, k))
    BY <2>1
  <2>3. PICK g : k # 0 => Evals(g, t, SmallCalls(n, k - 1))
    <3>1. CASE k # 0
      <4>1. k - 1 \in Nat /\ ~ (k <= k - 1)
        BY <2>2, <3>1, SMT
      <4> QED BY <2>1, <4>1
    <3> QED BY <3>1
  <2> HIDE DEF Bad
  <2> DEFINE h == [c \in SmallCalls(n, k) |-> EvalStep(t, g, c)]
  <2>4. ASSUME NEW c \in SmallCalls(n, k) PROVE h[c] = EvalStep(t, h, c)
    <3>1. c \in Calls(n) /\ Measure(n, c) < k /\ Measure(n, c) \in Nat
      BY CallType DEF SmallCalls
    <3>2. ASSUME NEW d \in Calls(n), Measure(n, d) < Measure(n, c) PROVE g[d] = h[d]
      <4>1. Measure(n, d) \in Nat
        BY CallType
      <4>2. Measure(n, d) < k - 1 /\ Measure(n, d) < k /\ k # 0
        BY <2>2, <3>1, <3>2, <4>1, SMT
      <4>3. d \in SmallCalls(n, k - 1) /\ d \in SmallCalls(n, k)
        BY <4>2 DEF SmallCalls
      <4>4. g[d] = EvalStep(t, g, d)
        BY <2>3, <4>2, <4>3, Zenon DEF Evals
      <4> QED BY <4>3, <4>4
    <3>3. EvalStep(t, g, c) = EvalStep(t, h, c)
      <4> HIDE DEF h
      <4> QED BY <3>1, <3>2, EvalAgree
    <3>4. h[c] = EvalStep(t, g, c)
      OBVIOUS
    <3> HIDE DEF h
    <3> QED BY <3>3, <3>4
  <2>5. h = [c \in SmallCalls(n, k) |-> h[c]]
    OBVIOUS
  <2> HIDE DEF h
  <2>6. Evals(h, t, SmallCalls(n, k))
    BY <2>4, <2>5 DEF Evals
  <2> QED BY <2>2, <2>6
<1>2. \E k \in Nat : SmallCalls(n, k) = Calls(n)
  <2> DEFINE N == Cardinality(Ranges(n))
             k == N * (2 * n + 1) + (2 * n + 1)
  <2>1. N \in Nat
    BY RangesFinite
  <2>2. k \in Nat
    <3> HIDE DEF N
    <3> QED BY <2>1, SMT
  <2>3. ASSUME NEW c \in Calls(n) PROVE Measure(n, c) < k
    <3>1. c.open \in SUBSET Ranges(n) /\ Width(n, c) \in 0 .. 2 * n
      BY CallType
    <3>2. Cardinality(Ranges(n) \ c.open) \in Nat /\ Cardinality(Ranges(n) \ c.open) <= N
      BY <3>1, RangesFinite
    <3> HIDE DEF N
    <3>3. \A a \in Nat, w \in 0 .. 2 * n : a <= N => a * (2 * n + 1) + w < N * (2 * n + 1) + (2 * n + 1)
      <4> SUFFICES ASSUME NEW a \in Nat, NEW w \in 0 .. 2 * n, a <= N
                   PROVE  a * (2 * n + 1) + w < N * (2 * n + 1) + (2 * n + 1)
        OBVIOUS
      <4>1. a * (2 * n + 1) <= N * (2 * n + 1)
        <5>1. N - a \in Nat /\ 2 * n + 1 \in Nat
          BY <2>1, SMT
        <5>2. \A x \in Nat, y \in Nat : x * y \in Nat
          BY SMT
        <5>3. (N - a) * (2 * n + 1) \in Nat
          BY <5>1, <5>2, Zenon
        <5>4. (N - a) * (2 * n + 1) = N * (2 * n + 1) - a * (2 * n + 1)
          BY <2>1, SMT
        <5>5. N * (2 * n + 1) \in Int /\ a * (2 * n + 1) \in Int
          BY <2>1, SMT
        <5> QED BY <5>3, <5>4, <5>5, SMT
      <4>2. N * (2 * n + 1) \in Int /\ a * (2 * n + 1) \in Int
        BY <2>1, SMT
      <4> QED BY <4>1, <4>2, SMT
    <3> QED BY <3>1, <3>2, <3>3, Zenon DEF Measure
  <2> HIDE DEF k
  <2>4. SmallCalls(n, k) = Calls(n)
    BY <2>3 DEF SmallCalls
  <2> QED BY <2>2, <2>4
<1> QED BY <1>1, <1>2

-----------------------------------------------------------------------------
(* Expressions: what eval() returns *)

\* A word, or one of the two ends the debugger can come to.
Results == Nat \cup {ASSERT, LOOP}

\* The numbers among the tokens are worth something.
Worth(t, n) == \A i \in 1 .. n : t[i].type = "num" => t[i].val \in Nat

LEMMA ApplyType ==
  ASSUME NEW op, NEW a \in Nat, NEW b \in Nat
  PROVE  Apply(op, a, b) \in Nat
<1>1. Words \in Nat \ {0} /\ \A x \in Pmem : MemRead(x) \in Nat
  BY ExprAssumption
<1>2. \A x \in Int : x % Words \in Nat
  BY <1>1, SMT
<1>3. a + b \in Int /\ a - b \in Int /\ a * b \in Int /\ -b \in Int
  BY SMT
<1>4. b # 0 => a \div b \in Nat
  BY SMT
<1>5. 0 \in Nat /\ 1 \in Nat
  BY SMT
<1> QED BY <1>1, <1>2, <1>3, <1>4, <1>5, Zenon DEF Apply

LEMMA EvalResult ==
  ASSUME NEW t, NEW n \in Nat, Worth(t, n), NEW f, Evals(f, t, Calls(n))
  PROVE  \A c \in Calls(n) : f[c] \in Results
<1> DEFINE Bad == {k \in Nat : \E c \in Calls(n) : Measure(n, c) = k /\ f[c] \notin Results}
<1>1. Bad = {}
  <2> SUFFICES ASSUME Bad # {} PROVE FALSE
    OBVIOUS
  <2>1. PICK k \in Bad : \A j \in Bad : k <= j
    <3>1. Bad \in SUBSET Nat
      OBVIOUS
    <3> HIDE DEF Bad
    <3> QED BY <3>1, NatMin
  <2>2. PICK c \in Calls(n) : Measure(n, c) = k /\ f[c] \notin Results
    BY <2>1
  <2>3. ASSUME NEW d \in Calls(n), Measure(n, d) < Measure(n, c) PROVE f[d] \in Results
    <3>1. Measure(n, d) \in Nat /\ ~ (k <= Measure(n, d))
      BY <2>2, <2>3, CallType, SMT
    <3> QED BY <2>1, <3>1
  <2> HIDE DEF Bad
  <2>4. f[c] = EvalStep(t, f, c)
    BY Zenon DEF Evals
  <2>5. c.p \in 1 .. n + 1 /\ c.q \in 0 .. n
    BY CallType
  <2>6. CASE Unbalanced(t, c.p, c.q) \/ c.p > c.q
    BY <2>2, <2>4, <2>6 DEF EvalStep, Results
  <2>7. CASE ~ Unbalanced(t, c.p, c.q) /\ ~ (c.p > c.q) /\ c.p = c.q
    <3>1. c.p \in 1 .. n
      BY <2>5, <2>7, SMT
    <3>2. f[c] = IF t[c.p].type = "num" THEN t[c.p].val ELSE ASSERT
      BY <2>4, <2>7, Zenon DEF EvalStep
    <3> QED BY <2>2, <3>1, <3>2 DEF Worth, Results
  <2>8. CASE ~ Unbalanced(t, c.p, c.q) /\ ~ (c.p > c.q) /\ c.p # c.q /\ CheckParentheses(t, c.p, c.q)
    <3>1. c.p < c.q
      BY <2>5, <2>8, SMT
    <3>2. f[c] = f[Call(c.p + 1, c.q - 1, c.open)]
      BY <2>4, <2>8, Zenon DEF EvalStep
    <3> QED BY <2>2, <2>3, <3>1, <3>2, InnerCall, Zenon
  <2>9. CASE /\ ~ Unbalanced(t, c.p, c.q) /\ ~ (c.p > c.q) /\ c.p # c.q
             /\ ~ CheckParentheses(t, c.p, c.q) /\ <<c.p, c.q>> \in c.open
    BY <2>2, <2>4, <2>9, Zenon DEF EvalStep, Results
  <2>10. CASE /\ ~ Unbalanced(t, c.p, c.q) /\ ~ (c.p > c.q) /\ c.p # c.q
              /\ ~ CheckParentheses(t, c.p, c.q) /\ <<c.p, c.q>> \notin c.open
    <3> DEFINE main == MainOp(t, c.p, c.q)
               op   == IF main = 0 THEN 1 ELSE main
               open == c.open \cup {<<c.p, c.q>>}
               val1 == f[Call(c.p, op - 1, open)]
               val2 == f[Call(op + 1, c.q, open)]
    <3>1. main \in 0 .. c.q /\ op \in 1 .. n
      BY <2>10, OpType, Zenon
    <3>2. main # OVERRUN
      BY <3>1, SMT DEF OVERRUN
    <3> HIDE DEF op
    <3>3. op - 1 \in 0 .. n /\ op + 1 \in 1 .. n + 1
      BY <3>1, SMT
    <3>4. val1 \in Results /\ val2 \in Results
      BY <2>3, <2>5, <2>10, <3>3, OuterCall, Zenon
    <3>5. f[c] = IF main = OVERRUN THEN OVERRUN
                 ELSE IF val1 \in Failed THEN val1
                 ELSE IF val2 \in Failed THEN val2
                 ELSE Apply(t[op].type, val1, val2)
      BY <2>4, <2>10, Zenon DEF EvalStep, op
    <3> HIDE DEF val1, val2, main
    <3>6. val1 \in Failed \/ val1 \in Nat
      BY <3>4 DEF Results, Failed
    <3>7. val2 \in Failed \/ val2 \in Nat
      BY <3>4 DEF Results, Failed
    <3>8. val1 \in Nat /\ val2 \in Nat => Apply(t[op].type, val1, val2) \in Results
      BY ApplyType DEF Results
    <3> QED BY <2>2, <3>2, <3>4, <3>5, <3>6, <3>7, <3>8, Zenon
  <2> QED BY <2>6, <2>7, <2>8, <2>9, <2>10
<1> SUFFICES ASSUME NEW c \in Calls(n), f[c] \notin Results PROVE FALSE
  OBVIOUS
<1>2. Measure(n, c) \in Nat
  BY CallType
<1> QED BY <1>1, <1>2

LEMMA EvalType ==
  ASSUME NEW t, NEW n \in Nat, Worth(t, n)
  PROVE  Eval(t, n) \in Results
<1> DEFINE f == CHOOSE f : Evals(f, t, Calls(n))
<1>1. Evals(f, t, Calls(n))
  <2>1. \E g : Evals(g, t, Calls(n))
    BY EvalExists
  <2> QED BY <2>1, Zenon
<1>2. Eval(t, n) = f[Call(1, n, {})]
  BY EvalEvals
<1>3. Call(1, n, {}) \in Calls(n)
  BY SMT DEF Call, Calls
<1> HIDE DEF f
<1> QED BY <1>1, <1>2, <1>3, EvalResult

-----------------------------------------------------------------------------
(* Expressions: the search of get_main_op() stays inside *)

ExprInv ==
  /\ tokens \in Seq([type : Types, val : Nat])
  /\ result \in Results \cup {NONE}

\* tokenise() changes types only.
LEMMA TokeniseWorth ==
  ASSUME NEW t \in Seq([type : Types, val : Nat])
  PROVE  Worth(Tokenise(t), Len(t))
<1> SUFFICES ASSUME NEW i \in 1 .. Len(t) PROVE Tokenise(t)[i].val \in Nat
  BY DEF Worth
<1>1. t[i] \in [type : Types, val : Nat]
  BY ElementOfSeq
<1>2. \/ Tokenise(t)[i] = t[i]
      \/ \E type : Tokenise(t)[i] = [t[i] EXCEPT !.type = type]
  BY Zenon DEF Tokenise
<1> QED BY <1>1, <1>2

LEMMA ExprInitInv == ExprInit => ExprInv
BY DEF ExprInit, ExprInv

LEMMA ExprNextInv == ExprInv /\ [ExprNext]_<<tokens, result>> => ExprInv'
<1> SUFFICES ASSUME ExprInv, [ExprNext]_<<tokens, result>> PROVE ExprInv'
  OBVIOUS
<1>1. CASE Enter
  <2>1. tokens \in Seq([type : Types, val : Nat]) /\ Len(tokens) \in Nat
    BY LenProperties, Zenon DEF ExprInv
  <2>2. Eval(Tokenise(tokens), Len(tokens)) \in Results
    BY <2>1, TokeniseWorth, EvalType, Zenon
  <2> QED BY <1>1, <2>2, Zenon DEF Enter, ExprInv
<1>2. CASE Again
  BY <1>2 DEF Again, ExprInv
<1>3. ASSUME NEW type \in Types, Type(type) PROVE ExprInv'
  <2>1. Len(tokens) + 2 \in Nat
    BY LenProperties DEF ExprInv
  <2>2. [type |-> type, val |-> IF type = "num" THEN Len(tokens) + 2 ELSE 0] \in [type : Types, val : Nat]
    BY <2>1
  <2>3. tokens' \in Seq([type : Types, val : Nat])
    BY <1>3, <2>2, AppendProperties, Zenon DEF Type, ExprInv
  <2> QED BY <1>3, <2>3, Zenon DEF Type, ExprInv
<1>4. CASE UNCHANGED <<tokens, result>>
  BY <1>4 DEF ExprInv
<1> QED BY <1>1, <1>2, <1>3, <1>4, Zenon DEF ExprNext

\* Whatever is typed, the assertion of get_main_op() holds: the search for the end
\* of a parenthesis stays inside the range, so that no token an earlier expression
\* has left in the array is read.
THEOREM Expr_StaysInside == ExprSpec => []StaysInside
<1>1. ExprInv => StaysInside
  BY SMT DEF ExprInv, StaysInside, Results, NONE, ASSERT, LOOP, OVERRUN
<1> QED BY <1>1, ExprInitInv, ExprNextInv, PTL DEF ExprSpec

-----------------------------------------------------------------------------
(* Expressions: the main operator *)

\* The parentheses of a range, which may be empty, match.
Balanced(u, p, q) == Depth(u, p, q) = 0 /\ \A i \in p .. q : Depth(u, p, i) >= 0

\* The operators of a range that no parenthesis encloses.
Ops(u, p, q) == {i \in p .. q : Precedence(u[i].type) > 0 /\ Depth(u, p, i) = 0}

\* The last of the operators that bind least; 0 if there is none.
IsMain(u, S, m) ==
  \/ S = {} /\ m = 0
  \/ /\ m \in S
     /\ \A j \in S : /\ Precedence(u[j].type) <= Precedence(u[m].type)
                     /\ j > m => Precedence(u[j].type) < Precedence(u[m].type)

LEMMA BalancedBad ==
  ASSUME NEW u, NEW p \in Int, NEW q \in Int, p <= q
  PROVE  IsBad(u, p, q) <=> ~ Balanced(u, p, q)
<1>1. \A i \in p .. q : Depth(u, p, i) \in Int
  BY DepthInt
<1>2. \A i \in p .. q : Depth(u, p, i) < 0 <=> ~ (Depth(u, p, i) >= 0)
  BY <1>1
<1> QED BY <1>2, Zenon DEF IsBad, Balanced

\* A token that is no parenthesis, between two ranges whose parentheses match;
\* the first one may be empty.
LEMMA BalancedJoin ==
  ASSUME NEW u, NEW p \in Int, NEW k \in Int, NEW q \in Int, p <= k, k < q,
         Balanced(u, p, k - 1), Balanced(u, k + 1, q), u[k].type \notin {"(", ")"}
  PROVE  /\ Balanced(u, p, q)
         /\ ~ CheckParentheses(u, p, q)
         /\ Ops(u, p, q) \subseteq Ops(u, p, k - 1) \cup {k} \cup Ops(u, k + 1, q)
         /\ Precedence(u[k].type) > 0 => k \in Ops(u, p, q)
<1>1. Depth(u, p, k) = 0
  <2>1. Depth(u, p, k) = Depth(u, p, k - 1) + Depth(u, k, k)
    BY DepthSplit
  <2>2. Depth(u, k, k) = 0
    BY DepthOne
  <2> QED BY <2>1, <2>2 DEF Balanced
<1>2. \A i \in k + 1 .. q : Depth(u, p, i) = Depth(u, k + 1, i)
  <2> SUFFICES ASSUME NEW i \in k + 1 .. q PROVE Depth(u, p, i) = Depth(u, k + 1, i)
    OBVIOUS
  <2>1. Depth(u, p, i) = Depth(u, p, (k + 1) - 1) + Depth(u, k + 1, i)
    BY DepthSplit
  <2>2. (k + 1) - 1 = k /\ Depth(u, k + 1, i) \in Int
    BY DepthInt
  <2> QED BY <1>1, <2>1, <2>2
<1>3. p \in Int /\ q \in k + 1 .. q
  BY SMT
<1>4. \A i \in p .. q : i \in p .. k - 1 \/ i = k \/ i \in k + 1 .. q
  BY SMT
<1>5. Balanced(u, p, q)
  <2>1. \A i \in p .. k - 1 : Depth(u, p, i) >= 0
    BY DEF Balanced
  <2>2. \A i \in k + 1 .. q : Depth(u, p, i) >= 0
    BY <1>2 DEF Balanced
  <2>3. Depth(u, p, q) = 0
    BY <1>2, <1>3 DEF Balanced
  <2>4. Depth(u, p, k) >= 0
    BY <1>1
  <2> QED BY <1>4, <2>1, <2>2, <2>3, <2>4, Zenon DEF Balanced
<1>6. k \in p .. q - 1 /\ k \in p .. q
  BY SMT
<1>7. ~ CheckParentheses(u, p, q)
  BY <1>1, <1>6, Zenon DEF CheckParentheses
<1>8. Ops(u, p, q) \subseteq Ops(u, p, k - 1) \cup {k} \cup Ops(u, k + 1, q)
  BY <1>2, <1>4, Zenon DEF Ops
<1>9. Precedence(u[k].type) > 0 => k \in Ops(u, p, q)
  BY <1>1, <1>6, Zenon DEF Ops
<1> QED BY <1>5, <1>7, <1>8, <1>9

\* A range inside parentheses.
LEMMA BalancedParen ==
  ASSUME NEW u, NEW p \in Int, NEW q \in Int, p < q,
         Balanced(u, p + 1, q - 1), u[p].type = "(", u[q].type = ")"
  PROVE  /\ Balanced(u, p, q)
         /\ CheckParentheses(u, p, q)
         /\ Ops(u, p, q) = {}
<1>1. Depth(u, p, p) = 1 /\ Depth(u, q, q) = -1
  BY DepthOne, "(" # ")"
<1>2. \A i \in p .. q - 1 : Depth(u, p, i) > 0
  <2> SUFFICES ASSUME NEW i \in p .. q - 1 PROVE Depth(u, p, i) > 0
    OBVIOUS
  <2>1. CASE i = p
    BY <1>1, <2>1
  <2>2. CASE i # p
    <3>1. i \in p + 1 .. q - 1
      BY <2>2, SMT
    <3>2. Depth(u, p, i) = Depth(u, p, (p + 1) - 1) + Depth(u, p + 1, i)
      <4>1. p \in Int /\ p + 1 \in Int /\ i \in Int /\ p <= p + 1 /\ (p + 1) - 1 <= i
        BY <3>1, SMT
      <4> QED BY <4>1, DepthSplit
    <3>3. (p + 1) - 1 = p /\ Depth(u, p + 1, i) >= 0 /\ Depth(u, p + 1, i) \in Int
      BY <3>1, DepthInt DEF Balanced
    <3> QED BY <1>1, <3>2, <3>3
  <2> QED BY <2>1, <2>2
<1>3. Depth(u, p, q) = 0
  <2>1. Depth(u, p, q) = Depth(u, p, q - 1) + Depth(u, q, q)
    BY DepthSplit
  <2>2. Depth(u, p, q - 1) = Depth(u, p, (p + 1) - 1) + Depth(u, p + 1, q - 1)
    BY DepthSplit
  <2>3. (p + 1) - 1 = p /\ Depth(u, p + 1, q - 1) = 0
    BY DEF Balanced
  <2> QED BY <1>1, <2>1, <2>2, <2>3
<1>4. \A i \in p .. q : i \in p .. q - 1 \/ i = q
  BY SMT
<1>5. Balanced(u, p, q)
  BY <1>2, <1>3, <1>4, DepthInt DEF Balanced
<1>6. p <= q
  OBVIOUS
<1>7. CheckParentheses(u, p, q)
  <2>1. ~ IsBad(u, p, q)
    BY <1>5, <1>6, BalancedBad
  <2>2. \A i \in p .. q - 1 : Depth(u, p, i) # 0
    BY <1>2
  <2> QED BY <1>6, <2>1, <2>2 DEF CheckParentheses
<1>8. Ops(u, p, q) = {}
  <2>1. \A i \in p .. q - 1 : Depth(u, p, i) # 0
    BY <1>2
  <2>2. ~ (Precedence(u[q].type) > 0)
    BY PrecedenceType
  <2> QED BY <1>4, <2>1, <2>2, Zenon DEF Ops
<1> QED BY <1>5, <1>7, <1>8

\* Those of them from token i on.
OpsFrom(u, p, q, i) == {j \in Ops(u, p, q) : j >= i}

\* What the loop has still to choose from.
Candidates(u, p, q, i, best) == ({best} \ {0}) \cup OpsFrom(u, p, q, i)

LEMMA OpsFromToken ==
  ASSUME NEW u, NEW p \in Nat, NEW q \in Nat, NEW i \in p .. q,
         Outside(u, p, q, i), u[i].type \notin {"(", ")"}
  PROVE  OpsFrom(u, p, q, i)
           = OpsFrom(u, p, q, i + 1) \cup (IF Precedence(u[i].type) > 0 THEN {i} ELSE {})
<1>1. Depth(u, p, i) = 0
  <2>1. Outside(u, p, q, i + 1)
    BY AfterToken
  <2>2. (i + 1) - 1 = i
    BY SMT
  <2> QED BY <2>1, <2>2 DEF Outside
<1>2. \A j \in p .. q : j >= i <=> j >= i + 1 \/ j = i
  BY SMT
<1> QED BY <1>1, <1>2, Zenon DEF OpsFrom, Ops

LEMMA OpsFromSearch ==
  ASSUME NEW u, NEW p \in Nat, NEW q \in Nat, NEW i \in p .. q,
         Outside(u, p, q, i), u[i].type \in {"(", ")"},
         NEW j \in i + 1 .. q, CheckParentheses(u, i, j)
  PROVE  OpsFrom(u, p, q, i) = OpsFrom(u, p, q, j + 1)
<1>1. \A k \in i .. q : Depth(u, p, k) = Depth(u, i, k)
  <2> SUFFICES ASSUME NEW k \in i .. q PROVE Depth(u, p, k) = Depth(u, i, k)
    OBVIOUS
  <2>1. Depth(u, p, k) = Depth(u, p, i - 1) + Depth(u, i, k)
    BY DepthSplit
  <2> QED BY <2>1, DepthInt DEF Outside
<1>2. \A k \in i .. j - 1 : Depth(u, p, k) # 0
  <2>1. \A k \in i .. j - 1 : k \in i .. q
    BY SMT
  <2> QED BY <1>1, <2>1 DEF CheckParentheses
<1>3. ~ (Precedence(u[j].type) > 0)
  <2>1. Depth(u, i, j) = Depth(u, i, j - 1) + Depth(u, j, j)
    BY DepthSplit
  <2>2. Depth(u, i, j) = 0
    BY SMT DEF CheckParentheses, IsBad
  <2>3. Depth(u, i, j - 1) # 0 /\ Depth(u, i, j - 1) \in Int
    <3>1. j - 1 \in i .. j - 1
      BY SMT
    <3> QED BY <3>1, DepthInt DEF CheckParentheses
  <2>4. Depth(u, j, j) # 0
    BY <2>1, <2>2, <2>3, DepthInt
  <2>5. u[j].type \in {"(", ")"}
    BY <2>4, DepthOne
  <2> QED BY <2>5, PrecedenceType
<1>4. \A k \in p .. q : k >= i <=> k \in i .. j - 1 \/ k = j \/ k >= j + 1
  BY SMT
<1> QED BY <1>2, <1>3, <1>4, Zenon DEF OpsFrom, Ops

\* Of token i and the one the loop has found, one remains.
LEMMA MainStep ==
  ASSUME NEW u, NEW S \in SUBSET Nat, NEW i \in Nat, NEW best \in Nat, best < i, \A j \in S : j > i,
         NEW m, IsMain(u, {IF Weaker(u, i, best) THEN i ELSE best} \cup S, m)
  PROVE  IsMain(u, ({best} \ {0}) \cup {i} \cup S, m)
<1> DEFINE P(j) == Precedence(u[j].type)
<1>1. \A j : P(j) \in Int
  BY PrecedenceType
<1>2. Weaker(u, i, best) <=> best = 0 \/ P(i) >= P(best)
  BY DEF Weaker
<1>3. \A T : T # {} => (IsMain(u, T, m) <=> m \in T /\ \A j \in T : P(j) <= P(m) /\ (j > m => P(j) < P(m)))
  BY Zenon DEF IsMain
<1> HIDE DEF P
<1>4. CASE Weaker(u, i, best)
  <2>1. m \in {i} \cup S /\ \A j \in {i} \cup S : P(j) <= P(m) /\ (j > m => P(j) < P(m))
    BY <1>3, <1>4
  <2>2. m \in Nat /\ ~ (best > m) /\ (best # 0 => P(best) <= P(m))
    BY <1>1, <1>2, <1>4, <2>1, SMT
  <2>3. \A j \in ({best} \ {0}) \cup {i} \cup S : P(j) <= P(m) /\ (j > m => P(j) < P(m))
    BY <2>1, <2>2, Zenon
  <2> QED BY <1>3, <2>1, <2>3
<1>5. CASE ~ Weaker(u, i, best)
  <2>1. m \in {best} \cup S /\ \A j \in {best} \cup S : P(j) <= P(m) /\ (j > m => P(j) < P(m))
    BY <1>3, <1>5
  <2>2. best # 0 /\ P(i) < P(best)
    BY <1>1, <1>2, <1>5, SMT
  <2>3. P(i) < P(m)
    BY <1>1, <2>1, <2>2, SMT
  <2>4. P(i) <= P(m)
    BY <1>1, <2>3
  <2>5. \A j \in ({best} \ {0}) \cup {i} \cup S : P(j) <= P(m) /\ (j > m => P(j) < P(m))
    BY <2>1, <2>3, <2>4, Zenon
  <2> QED BY <1>3, <2>1, <2>2, <2>5
<1> QED BY <1>4, <1>5

\* From a place outside parentheses the loop finds the last of the operators that
\* bind least.
LEMMA ScanMain ==
  ASSUME NEW u, NEW p \in Nat, NEW q \in Nat, ~ IsBad(u, p, q), NEW f, Scans(f, u, p, q)
  PROVE  \A i \in p .. q + 1, best \in 0 .. q :
           Outside(u, p, q, i) /\ best < i => IsMain(u, Candidates(u, p, q, i, best), f[i][best])
<1> DEFINE Good(i) == \A best \in 0 .. q : best < i => IsMain(u, Candidates(u, p, q, i, best), f[i][best])
           Bad == {n \in Nat : q + 1 - n \in p .. q + 1 /\ Outside(u, p, q, q + 1 - n) /\ ~ Good(q + 1 - n)}
<1> HIDE DEF Good
<1>1. Bad = {}
  <2> SUFFICES ASSUME Bad # {} PROVE FALSE
    OBVIOUS
  <2>1. PICK n \in Bad : \A k \in Bad : n <= k
    <3>1. Bad \in SUBSET Nat
      OBVIOUS
    <3> HIDE DEF Bad
    <3> QED BY <3>1, NatMin
  <2> DEFINE i == q + 1 - n
  <2>2. n \in Nat /\ i \in p .. q + 1 /\ i \in Nat /\ Outside(u, p, q, i) /\ ~ Good(i)
    BY <2>1, SMT
  <2>3. \A k \in i + 1 .. q + 1 : Outside(u, p, q, k) => Good(k)
    <3> SUFFICES ASSUME NEW k \in i + 1 .. q + 1, Outside(u, p, q, k), ~ Good(k) PROVE FALSE
      OBVIOUS
    <3>1. q + 1 - k \in Nat /\ q + 1 - (q + 1 - k) = k /\ k \in p .. q + 1 /\ ~ (n <= q + 1 - k)
      BY <2>2, SMT
    <3>2. q + 1 - k \in Bad
      BY <3>1
    <3> QED BY <2>1, <3>1, <3>2
  <2> HIDE DEF i, Bad
  <2>4. SUFFICES ASSUME NEW best \in 0 .. q, best < i
                 PROVE  IsMain(u, Candidates(u, p, q, i, best), f[i][best])
    BY <2>2 DEF Good
  <2>5. f[i][best] = ScanStep(u, q, f, i, best)
    <3> DEFINE F(k) == [b \in 0 .. q |-> ScanStep(u, q, f, k, b)]
    <3>1. f = [k \in p .. q + 1 |-> F(k)]
      BY Zenon DEF Scans
    <3> HIDE DEF F
    <3>2. f[i] = F(i)
      BY <2>2, <3>1, Zenon
    <3>3. F(i)[best] = ScanStep(u, q, f, i, best)
      BY Zenon DEF F
    <3> QED BY <3>2, <3>3, Zenon
  <2>6. CASE i > q
    <3>1. OpsFrom(u, p, q, i) = {}
      BY <2>2, <2>6, SMT DEF OpsFrom, Ops
    <3>2. f[i][best] = best
      BY <2>5, <2>6 DEF ScanStep
    <3>3. Candidates(u, p, q, i, best) = IF best = 0 THEN {} ELSE {best}
      BY <3>1 DEF Candidates
    <3>4. ~ (best > best) /\ \A x \in Int : x <= x
      BY SMT
    <3>5. Precedence(u[best].type) <= Precedence(u[best].type)
      BY <3>4, PrecedenceType
    <3> HIDE DEF i
    <3>6. CASE best = 0
      BY <3>2, <3>3, <3>6, Zenon DEF IsMain
    <3>7. CASE best # 0
      <4>1. Candidates(u, p, q, i, best) = {best}
        BY <3>3, <3>7
      <4> QED BY <3>2, <3>4, <3>5, <4>1, Zenon DEF IsMain
    <3> QED BY <3>6, <3>7
  <2>7. CASE ~ (i > q) /\ u[i].type \notin {"(", ")"}
    <3>1. i \in p .. q /\ i + 1 \in i + 1 .. q + 1 /\ i \in 0 .. q
      BY <2>2, <2>7, SMT
    <3>2. Good(i + 1)
      BY <2>2, <2>3, <2>7, <3>1, AfterToken
    <3>3. Precedence(u[i].type) # 0
      BY <2>7, PrecedenceType
    <3>4. OpsFrom(u, p, q, i)
            = OpsFrom(u, p, q, i + 1) \cup (IF Precedence(u[i].type) > 0 THEN {i} ELSE {})
      BY <2>2, <2>7, <3>1, OpsFromToken
    <3>5. CASE Precedence(u[i].type) = -1
      <4>1. f[i][best] = f[i + 1][best] /\ best < i + 1
        BY <2>4, <2>5, <2>7, <3>1, <3>5 DEF ScanStep
      <4>2. OpsFrom(u, p, q, i) = OpsFrom(u, p, q, i + 1)
        BY <3>4, <3>5
      <4> QED BY <3>2, <4>1, <4>2, Zenon DEF Good, Candidates
    <3>6. CASE Precedence(u[i].type) > 0
      <4> DEFINE top == IF Weaker(u, i, best) THEN i ELSE best
      <4>1. top \in 0 .. q /\ top < i + 1
        BY <2>4, <3>1
      <4>2. f[i][best] = f[i + 1][top]
        <5>1. Precedence(u[i].type) # -1
          BY <3>6
        <5> QED BY <2>5, <2>7, <3>6, <5>1, Zenon DEF ScanStep
      <4>3. top # 0
        BY <2>2, <2>4 DEF Weaker
      <4>4. IsMain(u, {top} \cup OpsFrom(u, p, q, i + 1), f[i][best])
        <5> HIDE DEF top
        <5>1. IsMain(u, Candidates(u, p, q, i + 1, top), f[i + 1][top])
          BY <3>2, <4>1 DEF Good
        <5>2. Candidates(u, p, q, i + 1, top) = {top} \cup OpsFrom(u, p, q, i + 1)
          BY <4>3 DEF Candidates
        <5> QED BY <4>2, <5>1, <5>2
      <4>5. OpsFrom(u, p, q, i + 1) \in SUBSET Nat /\ \A j \in OpsFrom(u, p, q, i + 1) : j > i
        BY <2>2, SMT DEF OpsFrom, Ops
      <4>6. IsMain(u, ({best} \ {0}) \cup {i} \cup OpsFrom(u, p, q, i + 1), f[i][best])
        <5>1. best \in Nat /\ best < i /\ i \in Nat
          BY <2>2, <2>4, SMT
        <5> QED BY <4>4, <4>5, <5>1, MainStep, Zenon
      <4>7. Candidates(u, p, q, i, best) = ({best} \ {0}) \cup {i} \cup OpsFrom(u, p, q, i + 1)
        BY <3>4, <3>6 DEF Candidates
      <4> QED BY <4>6, <4>7
    <3> QED BY <3>3, <3>5, <3>6, PrecedenceType
  <2>8. CASE ~ (i > q) /\ u[i].type \in {"(", ")"}
    <3>1. i \in p .. q
      BY <2>2, <2>8, SMT
    <3>2. Closing(u, i, q) # {}
      <4>1. p \in Int /\ q \in Int
        BY SMT
      <4>2. \E k \in i + 1 .. q : CheckParentheses(u, i, k)
        BY <2>2, <2>8, <3>1, <4>1, SearchEnds, Zenon
      <4> QED BY <4>2, Zenon DEF Closing
    <3> DEFINE j == Min(Closing(u, i, q))
    <3>3. j \in i + 1 .. q /\ CheckParentheses(u, i, j)
      BY <2>2, <3>2, ClosingMin
    <3> HIDE DEF j
    <3>4. Outside(u, p, q, j + 1)
      BY <2>2, <3>1, <3>3, AfterSearch
    <3>5. j + 1 \in i + 1 .. q + 1 /\ best < j + 1
      BY <2>2, <2>4, <3>3, SMT
    <3>6. Good(j + 1)
      BY <2>3, <3>4, <3>5
    <3>7. Precedence(u[i].type) = 0
      BY <2>8, PrecedenceType
    <3>8. f[i][best] = f[j + 1][best]
      BY <2>5, <2>8, <3>2, <3>7, SMT DEF ScanStep, j
    <3>9. OpsFrom(u, p, q, i) = OpsFrom(u, p, q, j + 1)
      BY <2>2, <2>8, <3>1, <3>3, OpsFromSearch
    <3> QED BY <3>5, <3>6, <3>8, <3>9, Zenon DEF Good, Candidates
  <2> QED BY <2>6, <2>7, <2>8
<1> SUFFICES ASSUME NEW i \in p .. q + 1, Outside(u, p, q, i) PROVE Good(i)
  BY DEF Good
<1>2. q + 1 - i \in Nat /\ q + 1 - (q + 1 - i) = i
  BY SMT
<1> QED BY <1>1, <1>2

\* get_main_op() finds the last of the operators outside parentheses that bind
\* least.
LEMMA MainOpIsMain ==
  ASSUME NEW u, NEW p \in Nat \ {0}, NEW q \in Nat, p <= q, ~ IsBad(u, p, q)
  PROVE  IsMain(u, Ops(u, p, q), MainOp(u, p, q))
<1> DEFINE f == CHOOSE f : Scans(f, u, p, q)
<1>1. Scans(f, u, p, q)
  <2>1. p <= q + 1
    BY SMT
  <2>2. \E g : Scans(g, u, p, q)
    BY <2>1, ScanExists
  <2> QED BY <2>2, Zenon
<1>2. Outside(u, p, q, p)
  BY DepthOne DEF Outside
<1>3. MainOp(u, p, q) = f[p][0]
  BY MainOpScans
<1> HIDE DEF f
<1>4. p \in p .. q + 1 /\ 0 \in 0 .. q /\ 0 < p
  BY SMT
<1>5. IsMain(u, Candidates(u, p, q, p, 0), f[p][0])
  BY <1>1, <1>2, <1>4, ScanMain
<1>6. Candidates(u, p, q, p, 0) = Ops(u, p, q)
  BY SMT DEF Candidates, OpsFrom, Ops
<1> QED BY <1>3, <1>5, <1>6

-----------------------------------------------------------------------------
(* Expressions: tokenise() *)

UnaryStep(t, f, i) ==
  t[i].type \in {"-", "*"}
    /\ (i > 1 => t[i - 1].type \in {"+", "-", "*", "/", "("} /\ ~f[i - 1])

Unaries(f, t, n) == f = [i \in 1 .. n |-> UnaryStep(t, f, i)]

LEMMA TokeniseIs ==
  ASSUME NEW t
  PROVE  Tokenise(t)
           = [i \in 1 .. Len(t) |->
                IF (CHOOSE f : Unaries(f, t, Len(t)))[i]
                THEN [t[i] EXCEPT !.type = IF @ = "-" THEN "MINUS" ELSE "DEREF"] ELSE t[i]]
BY DEF Tokenise, Unaries, UnaryStep

\* The loop of tokenise() is well defined.
LEMMA UnaryExists ==
  ASSUME NEW t, NEW n \in Nat
  PROVE  \E f : Unaries(f, t, n)
<1> DEFINE Bad == {k \in Nat : ~ \E f : Unaries(f, t, k)}
<1>1. Bad = {}
  <2> SUFFICES ASSUME Bad # {} PROVE FALSE
    OBVIOUS
  <2>1. PICK k \in Bad : \A j \in Bad : k <= j
    <3>1. Bad \in SUBSET Nat
      OBVIOUS
    <3> HIDE DEF Bad
    <3> QED BY <3>1, NatMin
  <2>2. k \in Nat /\ ~ \E f : Unaries(f, t, k)
    BY <2>1
  <2>3. PICK g : k # 0 => Unaries(g, t, k - 1)
    <3>1. CASE k # 0
      <4>1. k - 1 \in Nat /\ ~ (k <= k - 1)
        BY <2>2, <3>1, SMT
      <4> QED BY <2>1, <4>1
    <3> QED BY <3>1
  <2> HIDE DEF Bad
  <2> DEFINE h == [i \in 1 .. k |-> UnaryStep(t, g, i)]
  <2>4. ASSUME NEW i \in 1 .. k PROVE h[i] = UnaryStep(t, h, i)
    <3>1. h[i] = UnaryStep(t, g, i)
      OBVIOUS
    <3>2. CASE ~ (i > 1)
      BY <3>1, <3>2 DEF UnaryStep
    <3>3. CASE i > 1
      <4>1. i - 1 \in 1 .. k - 1 /\ i - 1 \in 1 .. k /\ k # 0
        BY <2>2, <3>3, SMT
      <4>2. g[i - 1] = UnaryStep(t, g, i - 1)
        BY <2>3, <4>1, Zenon DEF Unaries
      <4>3. h[i - 1] = UnaryStep(t, g, i - 1)
        BY <4>1
      <4> HIDE DEF h
      <4> QED BY <3>1, <4>2, <4>3, Zenon DEF UnaryStep
    <3> QED BY <3>2, <3>3
  <2>5. h = [i \in 1 .. k |-> h[i]]
    OBVIOUS
  <2> HIDE DEF h
  <2>6. Unaries(h, t, k)
    BY <2>4, <2>5 DEF Unaries
  <2> QED BY <2>2, <2>6
<1> QED BY <1>1

\* In an expression whose unary operators are where tokenise() looks for them,
\* these and no others are unary after it.
Tokenised(t, u, n) ==
  \A i \in 1 .. n :
    /\ u[i].val = t[i].val
    /\ u[i].type = IF Prefix(t, i) THEN IF t[i].type = "-" THEN "MINUS" ELSE "DEREF" ELSE t[i].type

LEMMA TokeniseTokenised ==
  ASSUME NEW t \in Seq([type : Types, val : Nat]), Recognised(t)
  PROVE  Tokenised(t, Tokenise(t), Len(t))
<1> DEFINE n == Len(t)
           f == CHOOSE f : Unaries(f, t, n)
<1>1. n \in Nat
  BY LenProperties
<1>2. Unaries(f, t, n)
  <2>1. \E g : Unaries(g, t, n)
    BY <1>1, UnaryExists
  <2> QED BY <2>1, Zenon
<1>3. \A i \in 1 .. n :
        Tokenise(t)[i] = IF f[i] THEN [t[i] EXCEPT !.type = IF @ = "-" THEN "MINUS" ELSE "DEREF"] ELSE t[i]
  BY TokeniseIs
<1> HIDE DEF f, n
<1>4. \A i \in 1 .. n : f[i] = UnaryStep(t, f, i)
  BY <1>2, Zenon DEF Unaries
<1>5. {"+", "-", "*", "/", "("} \subseteq Binary \cup {"("}
  BY DEF Binary
<1>6. \A i \in 1 .. n : f[i] => Prefix(t, i)
  <2> SUFFICES ASSUME NEW i \in 1 .. n, f[i] PROVE Prefix(t, i)
    OBVIOUS
  <2>1. UnaryStep(t, f, i)
    BY <1>4
  <2>2. CASE i > 1
    BY <1>5, <2>1, <2>2, Zenon DEF UnaryStep, Prefix, Operand
  <2>3. CASE ~ (i > 1)
    <3>1. i - 1 = 0
      BY <2>3, SMT
    <3> QED BY <2>1, <3>1, Zenon DEF UnaryStep, Prefix, Operand
  <2> QED BY <2>2, <2>3
<1>7. \A i \in 1 .. n : Prefix(t, i) => f[i]
  <2> SUFFICES ASSUME NEW i \in 1 .. n, Prefix(t, i) PROVE f[i]
    OBVIOUS
  <2>1. CASE i > 1
    <3>1. i \in 2 .. n /\ i - 1 \in 1 .. n
      BY <1>1, <2>1, SMT
    <3>2. t[i - 1].type \in {"+", "-", "*", "/", "("} /\ ~ Prefix(t, i - 1)
      BY <3>1, Zenon DEF Recognised, n
    <3>3. ~ f[i - 1]
      BY <1>6, <3>1, <3>2
    <3>4. UnaryStep(t, f, i)
      BY <3>2, <3>3, Zenon DEF UnaryStep, Prefix
    <3> QED BY <1>4, <3>4
  <2>2. CASE ~ (i > 1)
    <3>1. UnaryStep(t, f, i)
      BY <2>2, Zenon DEF UnaryStep, Prefix
    <3> QED BY <1>4, <3>1
  <2> QED BY <2>1, <2>2
<1> SUFFICES ASSUME NEW i \in 1 .. n
             PROVE  /\ Tokenise(t)[i].val = t[i].val
                    /\ Tokenise(t)[i].type
                         = IF Prefix(t, i) THEN IF t[i].type = "-" THEN "MINUS" ELSE "DEREF" ELSE t[i].type
  BY Zenon DEF Tokenised, n
<1>8. t[i] \in [type : Types, val : Nat]
  BY ElementOfSeq DEF n
<1>9. CASE Prefix(t, i)
  <2>1. Tokenise(t)[i] = [t[i] EXCEPT !.type = IF @ = "-" THEN "MINUS" ELSE "DEREF"]
    BY <1>3, <1>7, <1>9, Zenon
  <2> QED BY <1>8, <1>9, <2>1
<1>10. CASE ~ Prefix(t, i)
  <2>1. Tokenise(t)[i] = t[i]
    BY <1>3, <1>6, <1>10, Zenon
  <2> QED BY <1>10, <2>1
<1> QED BY <1>9, <1>10

-----------------------------------------------------------------------------
(* Expressions: the grammar *)

MeaningStep(t, m, x) ==
  IF x.p > x.q THEN {}
  ELSE IF x.level >= 2
  THEN m[Phrase(x.level - 1, x.p, x.q)] \cup
       UNION {{Apply(t[k].type, ab[1], ab[2]) :
                 ab \in {ab \in m[Phrase(x.level, x.p, k - 1)]
                                  \X m[Phrase(x.level - 1, k + 1, x.q)] :
                           t[k].type = "/" => ab[2] # 0}} :
              k \in {k \in x.p + 1 .. x.q - 1 : t[k].type \in Level(x.level)}}
  ELSE IF x.p = x.q THEN IF t[x.p].type = "num" THEN {t[x.p].val} ELSE {}
  ELSE IF t[x.p].type = "-" THEN {Apply("MINUS", 0, v) : v \in m[Phrase(1, x.p + 1, x.q)]}
  ELSE IF t[x.p].type = "*" THEN {Apply("DEREF", 0, v) : v \in m[Phrase(1, x.p + 1, x.q)] \cap Pmem}
  ELSE IF t[x.p].type = "(" /\ t[x.q].type = ")" THEN m[Phrase(5, x.p + 1, x.q - 1)]
  ELSE {}

Means(m, t, X) == m = [x \in X |-> MeaningStep(t, m, x)]

LEMMA MeaningMeans ==
  ASSUME NEW t, NEW n
  PROVE  Meaning(t, n) = (CHOOSE m : Means(m, t, Phrases(n)))[Phrase(5, 1, n)]
BY DEF Meaning, Means, MeaningStep

\* A phrase is made of shorter ones, or is one of the level below.
PhraseSize(n, x) == Width(n, x) * 6 + x.level

LEMMA PhraseType ==
  ASSUME NEW n \in Nat, NEW x \in Phrases(n)
  PROVE  /\ x.level \in 1 .. 5 /\ x.p \in 1 .. n + 1 /\ x.q \in 0 .. n
         /\ Width(n, x) \in 0 .. 2 * n /\ PhraseSize(n, x) \in Nat /\ PhraseSize(n, x) < 12 * n + 6
<1>1. x.level \in 1 .. 5 /\ x.p \in 1 .. n + 1 /\ x.q \in 0 .. n
  BY DEF Phrases
<1>2. Width(n, x) \in 0 .. 2 * n
  BY <1>1, SMT DEF Width
<1> QED BY <1>1, <1>2, SMT DEF PhraseSize

LEMMA PhraseSmaller ==
  ASSUME NEW n \in Nat, NEW x \in Phrases(n),
         NEW level \in 1 .. 5, NEW p \in 1 .. n + 1, NEW q \in 0 .. n,
         \/ q - p < x.q - x.p
         \/ q - p = x.q - x.p /\ level < x.level
  PROVE  Phrase(level, p, q) \in Phrases(n) /\ PhraseSize(n, Phrase(level, p, q)) < PhraseSize(n, x)
<1> DEFINE y == Phrase(level, p, q)
<1>1. y \in Phrases(n) /\ y.level = level /\ y.p = p /\ y.q = q
  BY DEF Phrase, Phrases
<1> HIDE DEF y
<1>2. x.level \in 1 .. 5 /\ x.p \in 1 .. n + 1 /\ x.q \in 0 .. n
  BY PhraseType
<1>3. PhraseSize(n, y) < PhraseSize(n, x)
  BY <1>1, <1>2, SMT DEF PhraseSize, Width
<1> QED BY <1>1, <1>3 DEF y

LEMMA MeaningAgree ==
  ASSUME NEW t, NEW n \in Nat, NEW x \in Phrases(n), NEW f, NEW g,
         \A y \in Phrases(n) : PhraseSize(n, y) < PhraseSize(n, x) => f[y] = g[y]
  PROVE  MeaningStep(t, f, x) = MeaningStep(t, g, x)
<1>1. x.level \in 1 .. 5 /\ x.p \in 1 .. n + 1 /\ x.q \in 0 .. n
  BY PhraseType
<1>2. CASE x.p > x.q
  BY <1>2, Zenon DEF MeaningStep
<1>3. CASE ~ (x.p > x.q) /\ x.level >= 2
  <2>1. f[Phrase(x.level - 1, x.p, x.q)] = g[Phrase(x.level - 1, x.p, x.q)]
    <3>1. x.level - 1 \in 1 .. 5 /\ x.q - x.p = x.q - x.p /\ x.level - 1 < x.level
      BY <1>1, <1>3, SMT
    <3> QED BY <1>1, <3>1, PhraseSmaller, Zenon
  <2> DEFINE K == {k \in x.p + 1 .. x.q - 1 : t[k].type \in Level(x.level)}
             L(h, k) == h[Phrase(x.level, x.p, k - 1)]
             R(h, k) == h[Phrase(x.level - 1, k + 1, x.q)]
             V(h, k) == {Apply(t[k].type, ab[1], ab[2]) :
                           ab \in {ab \in L(h, k) \X R(h, k) : t[k].type = "/" => ab[2] # 0}}
  <2>2. ASSUME NEW k \in K PROVE L(f, k) = L(g, k) /\ R(f, k) = R(g, k)
    <3>1. k \in x.p + 1 .. x.q - 1
      OBVIOUS
    <3>2. /\ k - 1 \in 0 .. n /\ (k - 1) - x.p < x.q - x.p
          /\ k + 1 \in 1 .. n + 1 /\ x.q - (k + 1) < x.q - x.p
          /\ x.level - 1 \in 1 .. 5
      BY <1>1, <1>3, <3>1, SMT
    <3> QED BY <1>1, <3>2, PhraseSmaller, Zenon
  <2>3. \A h : MeaningStep(t, h, x) = h[Phrase(x.level - 1, x.p, x.q)] \cup UNION {V(h, k) : k \in K}
    BY <1>3, Zenon DEF MeaningStep
  <2>4. \A k \in K : V(f, k) = V(g, k)
    <3> HIDE DEF K, L, R
    <3> QED BY <2>2
  <2> HIDE DEF K, V
  <2>5. {V(f, k) : k \in K} = {V(g, k) : k \in K}
    BY <2>4
  <2> QED BY <2>1, <2>3, <2>5, Zenon
<1>4. CASE ~ (x.p > x.q) /\ ~ (x.level >= 2) /\ x.p = x.q
  BY <1>4, Zenon DEF MeaningStep
<1>5. CASE ~ (x.p > x.q) /\ ~ (x.level >= 2) /\ x.p # x.q
  <2>1. /\ x.p + 1 \in 1 .. n + 1 /\ x.q - (x.p + 1) < x.q - x.p
        /\ x.q - 1 \in 0 .. n /\ (x.q - 1) - (x.p + 1) < x.q - x.p
        /\ 1 \in 1 .. 5 /\ 5 \in 1 .. 5
    BY <1>1, <1>5, SMT
  <2>2. /\ f[Phrase(1, x.p + 1, x.q)] = g[Phrase(1, x.p + 1, x.q)]
        /\ f[Phrase(5, x.p + 1, x.q - 1)] = g[Phrase(5, x.p + 1, x.q - 1)]
    BY <1>1, <2>1, PhraseSmaller, Zenon
  <2> QED BY <1>5, <2>2, Zenon DEF MeaningStep
<1> QED BY <1>2, <1>3, <1>4, <1>5

\* The grammar is well defined.
SmallPhrases(n, k) == {x \in Phrases(n) : PhraseSize(n, x) < k}

LEMMA MeaningExists ==
  ASSUME NEW t, NEW n \in Nat
  PROVE  \E m : Means(m, t, Phrases(n))
<1> DEFINE Bad == {k \in Nat : ~ \E m : Means(m, t, SmallPhrases(n, k))}
<1>1. Bad = {}
  <2> SUFFICES ASSUME Bad # {} PROVE FALSE
    OBVIOUS
  <2>1. PICK k \in Bad : \A j \in Bad : k <= j
    <3>1. Bad \in SUBSET Nat
      OBVIOUS
    <3> HIDE DEF Bad
    <3> QED BY <3>1, NatMin
  <2>2. k \in Nat /\ ~ \E m : Means(m, t, SmallPhrases(n, k))
    BY <2>1
  <2>3. PICK g : k # 0 => Means(g, t, SmallPhrases(n, k - 1))
    <3>1. CASE k # 0
      <4>1. k - 1 \in Nat /\ ~ (k <= k - 1)
        BY <2>2, <3>1, SMT
      <4> QED BY <2>1, <4>1
    <3> QED BY <3>1
  <2> HIDE DEF Bad
  <2> DEFINE h == [x \in SmallPhrases(n, k) |-> MeaningStep(t, g, x)]
  <2>4. ASSUME NEW x \in SmallPhrases(n, k) PROVE h[x] = MeaningStep(t, h, x)
    <3>1. x \in Phrases(n) /\ PhraseSize(n, x) < k /\ PhraseSize(n, x) \in Nat
      BY PhraseType DEF SmallPhrases
    <3>2. ASSUME NEW y \in Phrases(n), PhraseSize(n, y) < PhraseSize(n, x) PROVE g[y] = h[y]
      <4>1. PhraseSize(n, y) \in Nat
        BY PhraseType
      <4>2. PhraseSize(n, y) < k - 1 /\ PhraseSize(n, y) < k /\ k # 0
        BY <2>2, <3>1, <3>2, <4>1, SMT
      <4>3. y \in SmallPhrases(n, k - 1) /\ y \in SmallPhrases(n, k)
        BY <4>2 DEF SmallPhrases
      <4>4. g[y] = MeaningStep(t, g, y)
        BY <2>3, <4>2, <4>3, Zenon DEF Means
      <4> QED BY <4>3, <4>4
    <3>3. MeaningStep(t, g, x) = MeaningStep(t, h, x)
      <4> HIDE DEF h
      <4> QED BY <3>1, <3>2, MeaningAgree
    <3>4. h[x] = MeaningStep(t, g, x)
      OBVIOUS
    <3> HIDE DEF h
    <3> QED BY <3>3, <3>4
  <2>5. h = [x \in SmallPhrases(n, k) |-> h[x]]
    OBVIOUS
  <2> HIDE DEF h
  <2>6. Means(h, t, SmallPhrases(n, k))
    BY <2>4, <2>5 DEF Means
  <2> QED BY <2>2, <2>6
<1>2. SmallPhrases(n, 12 * n + 6) = Phrases(n)
  BY PhraseType DEF SmallPhrases
<1>3. 12 * n + 6 \in Nat
  BY SMT
<1> QED BY <1>1, <1>2, <1>3

-----------------------------------------------------------------------------
(* Expressions: eval() on a phrase of the grammar *)

\* How the tokens of a phrase look to eval(): its parentheses match, its operators
\* outside parentheses are those of its level or bind more, and at the lowest level
\* there is at most the unary one in front.
Shape(t, u, level, p, q) ==
  /\ p <= q /\ Balanced(u, p, q)
  /\ t[q].type \in {"num", ")"}
  /\ \A i \in Ops(u, p, q) : Precedence(u[i].type) <= level
  /\ level = 1 => Ops(u, p, q) \subseteq (IF Prefix(t, p) THEN {p} ELSE {})

\* No evaluation of a part of the range is open.
Fresh(open, p, q) == \A r \in open : ~ (p <= r[1] /\ r[2] <= q)

\* eval() gives v for the range.
Yields(f, n, p, q, v) == \A open \in SUBSET Ranges(n) : Fresh(open, p, q) => f[Call(p, q, open)] = v

\* n tokens before and after tokenise(), and eval() on them.
Setting(t, u, n, f) ==
  /\ n \in Nat /\ Tokenised(t, u, n) /\ Worth(t, n)
  /\ \A i \in 2 .. n : Prefix(t, i) => ~ Prefix(t, i - 1)
  /\ f = [c \in Calls(n) |-> EvalStep(u, f, c)]

LEMMA LevelPrecedence ==
  ASSUME NEW level \in 2 .. 5, NEW type \in Level(level)
  PROVE  Precedence(type) = level /\ type \in Binary
<1>1. level \in {2, 3, 4, 5}
  BY SMT
<1> QED BY <1>1, SMT DEF Level, Precedence, Binary

LEMMA CallIn ==
  ASSUME NEW n \in Nat, NEW p \in 1 .. n + 1, NEW q \in 0 .. n, NEW open \in SUBSET Ranges(n)
  PROVE  /\ Call(p, q, open) \in Calls(n)
         /\ Call(p, q, open).p = p /\ Call(p, q, open).q = q /\ Call(p, q, open).open = open
BY DEF Call, Calls

LEMMA Called ==
  ASSUME NEW t, NEW u, NEW n, NEW f, Setting(t, u, n, f),
         NEW p \in 1 .. n + 1, NEW q \in 0 .. n, NEW open \in SUBSET Ranges(n)
  PROVE  f[Call(p, q, open)] = EvalStep(u, f, Call(p, q, open))
<1>1. Call(p, q, open) \in Calls(n)
  BY CallIn DEF Setting
<1>2. f = [c \in Calls(n) |-> EvalStep(u, f, c)]
  BY DEF Setting
<1> QED BY <1>1, <1>2, Zenon

\* A number.
LEMMA NumPhrase ==
  ASSUME NEW t, NEW u, NEW n, NEW f, Setting(t, u, n, f), NEW p \in 1 .. n, t[p].type = "num"
  PROVE  Shape(t, u, 1, p, p) /\ Yields(f, n, p, p, t[p].val) /\ t[p].val \in Nat
<1>1. n \in Nat /\ p \in 1 .. n + 1 /\ p \in 0 .. n /\ p <= p /\ ~ (p > p)
  BY SMT DEF Setting
<1>2. u[p].type = "num" /\ u[p].val = t[p].val /\ t[p].val \in Nat
  <2>1. ~ Prefix(t, p)
    BY DEF Prefix
  <2> QED BY <2>1, Zenon DEF Setting, Tokenised, Worth
<1>3. Balanced(u, p, p) /\ Ops(u, p, p) = {}
  <2>1. Depth(u, p, p) = 0
    BY <1>2, DepthOne
  <2>2. ~ (Precedence(u[p].type) > 0)
    BY <1>2, SMT DEF Precedence
  <2>3. p .. p = {p}
    BY SMT
  <2> QED BY <2>1, <2>2, <2>3 DEF Balanced, Ops
<1>4. Shape(t, u, 1, p, p)
  BY <1>1, <1>3 DEF Shape
<1>5. ASSUME NEW open \in SUBSET Ranges(n) PROVE f[Call(p, p, open)] = t[p].val
  <2>1. f[Call(p, p, open)] = EvalStep(u, f, Call(p, p, open))
    BY <1>1, Called
  <2>2. Call(p, p, open).p = p /\ Call(p, p, open).q = p
    BY DEF Call
  <2>3. ~ Unbalanced(u, p, p)
    BY <1>3, BalancedBad DEF Unbalanced
  <2> QED BY <1>1, <1>2, <2>1, <2>2, <2>3, Zenon DEF EvalStep
<1> QED BY <1>2, <1>4, <1>5 DEF Yields

\* An expression in parentheses.
LEMMA ParenPhrase ==
  ASSUME NEW t, NEW u, NEW n, NEW f, Setting(t, u, n, f),
         NEW p \in 1 .. n, NEW q \in 1 .. n, p < q, t[p].type = "(", t[q].type = ")",
         Shape(t, u, 5, p + 1, q - 1), NEW v, Yields(f, n, p + 1, q - 1, v)
  PROVE  Shape(t, u, 1, p, q) /\ Yields(f, n, p, q, v)
<1>1. /\ n \in Nat /\ p \in 1 .. n + 1 /\ q \in 0 .. n /\ p <= q /\ ~ (p > q) /\ p # q
      /\ p + 1 \in 1 .. n + 1 /\ q - 1 \in 0 .. n
  BY SMT DEF Setting
<1>2. u[p].type = "(" /\ u[q].type = ")"
  <2>1. ~ Prefix(t, p) /\ ~ Prefix(t, q)
    BY DEF Prefix
  <2> QED BY <2>1, Zenon DEF Setting, Tokenised
<1>3. Balanced(u, p, q) /\ CheckParentheses(u, p, q) /\ Ops(u, p, q) = {}
  BY <1>2, BalancedParen DEF Shape
<1>4. Shape(t, u, 1, p, q)
  BY <1>1, <1>3 DEF Shape
<1>5. ASSUME NEW open \in SUBSET Ranges(n), Fresh(open, p, q) PROVE f[Call(p, q, open)] = v
  <2>1. f[Call(p, q, open)] = EvalStep(u, f, Call(p, q, open))
    BY <1>1, Called
  <2>2. Call(p, q, open).p = p /\ Call(p, q, open).q = q /\ Call(p, q, open).open = open
    BY DEF Call
  <2>3. ~ Unbalanced(u, p, q)
    BY <1>1, <1>3, BalancedBad DEF Unbalanced
  <2>4. f[Call(p, q, open)] = f[Call(p + 1, q - 1, open)]
    BY <1>1, <1>3, <2>1, <2>2, <2>3, Zenon DEF EvalStep
  <2>5. Fresh(open, p + 1, q - 1)
    <3> SUFFICES ASSUME NEW r \in open, p + 1 <= r[1], r[2] <= q - 1 PROVE FALSE
      BY DEF Fresh
    <3>1. r \in (1 .. n + 1) \X (0 .. n)
      BY DEF Ranges
    <3>2. r[1] \in Int /\ r[2] \in Int
      BY <3>1, SMT
    <3>3. p <= r[1] /\ r[2] <= q
      BY <3>2, SMT
    <3> QED BY <1>5, <3>3 DEF Fresh
  <2> QED BY <2>4, <2>5 DEF Yields
<1> QED BY <1>4, <1>5 DEF Yields

\* The operand of an operator of a range is no longer open when it is evaluated.
LEMMA FreshPart ==
  ASSUME NEW n \in Nat, NEW open \in SUBSET Ranges(n), NEW p \in 1 .. n, NEW q \in 1 .. n,
         Fresh(open, p, q), NEW l \in 1 .. n + 1, NEW r \in 0 .. n, p <= l, r <= q, p < l \/ r < q
  PROVE  Fresh(open \cup {<<p, q>>}, l, r)
<1> SUFFICES ASSUME NEW s \in open \cup {<<p, q>>}, l <= s[1], s[2] <= r PROVE FALSE
  BY DEF Fresh
<1>1. CASE s \in open
  <2>1. s \in (1 .. n + 1) \X (0 .. n)
    BY <1>1 DEF Ranges
  <2>2. s[1] \in Int /\ s[2] \in Int
    BY <2>1, SMT
  <2>3. p <= s[1] /\ s[2] <= q
    BY <2>2, SMT
  <2> QED BY <1>1, <2>3 DEF Fresh
<1>2. CASE s = <<p, q>>
  <2>1. s[1] = p /\ s[2] = q
    BY <1>2
  <2> QED BY <2>1, SMT
<1> QED BY <1>1, <1>2

\* A range is split at its main operator.
LEMMA SplitYields ==
  ASSUME NEW t, NEW u, NEW n, NEW f, Setting(t, u, n, f),
         NEW p \in 1 .. n, NEW q \in 1 .. n, NEW k \in p .. q - 1,
         Balanced(u, p, q), ~ CheckParentheses(u, p, q), MainOp(u, p, q) = k,
         NEW a \in Nat, NEW b \in Nat,
         Yields(f, n, p, k - 1, a), Yields(f, n, k + 1, q, b)
  PROVE  Yields(f, n, p, q, Apply(u[k].type, a, b))
<1>1. /\ n \in Nat /\ p \in 1 .. n + 1 /\ q \in 0 .. n /\ p <= q /\ ~ (p > q) /\ p # q
      /\ k - 1 \in 0 .. n /\ k + 1 \in 1 .. n + 1 /\ k # 0 /\ k # OVERRUN
      /\ p <= p /\ k - 1 <= q /\ k - 1 < q /\ p <= k + 1 /\ p < k + 1 /\ q <= q
  BY SMT DEF Setting, OVERRUN
<1> SUFFICES ASSUME NEW open \in SUBSET Ranges(n), Fresh(open, p, q)
             PROVE  f[Call(p, q, open)] = Apply(u[k].type, a, b)
  BY DEF Yields
<1> DEFINE c == Call(p, q, open)
           inside == open \cup {<<p, q>>}
<1>2. f[c] = EvalStep(u, f, c)
  BY <1>1, Called
<1>3. c.p = p /\ c.q = q /\ c.open = open
  BY DEF Call
<1>4. ~ Unbalanced(u, p, q)
  BY <1>1, BalancedBad DEF Unbalanced
<1>5. <<p, q>> \notin open
  <2>1. <<p, q>>[1] = p /\ <<p, q>>[2] = q
    OBVIOUS
  <2> QED BY <1>1, <2>1, Zenon DEF Fresh
<1>6. inside \in SUBSET Ranges(n)
  <2>1. <<p, q>> \in Ranges(n)
    BY <1>1 DEF Ranges
  <2> QED BY <2>1
<1>7. f[Call(p, k - 1, inside)] = a
  <2>1. Fresh(inside, p, k - 1)
    BY <1>1, FreshPart, Zenon
  <2> QED BY <1>6, <2>1 DEF Yields
<1>8. f[Call(k + 1, q, inside)] = b
  <2>1. Fresh(inside, k + 1, q)
    BY <1>1, FreshPart, Zenon
  <2> QED BY <1>6, <2>1 DEF Yields
<1>9. a \notin Failed /\ b \notin Failed
  BY SMT DEF Failed, ASSERT, OVERRUN, LOOP
<1> HIDE DEF c
<1>10. f[c] = LET main == k
                  op == IF main = 0 THEN 1 ELSE main
                  val1 == f[Call(p, op - 1, inside)]
                  val2 == f[Call(op + 1, q, inside)]
              IN  IF main = OVERRUN THEN OVERRUN
                  ELSE IF val1 \in Failed THEN val1
                  ELSE IF val2 \in Failed THEN val2
                  ELSE Apply(u[op].type, val1, val2)
  BY <1>1, <1>2, <1>3, <1>4, <1>5, Zenon DEF EvalStep
<1> QED BY <1>1, <1>7, <1>8, <1>9, <1>10, Zenon DEF c

\* A unary operator and its operand.
LEMMA PrefixPhrase ==
  ASSUME NEW t, NEW u, NEW n, NEW f, Setting(t, u, n, f),
         NEW p \in 1 .. n, NEW q \in 1 .. n, p < q, Prefix(t, p),
         Shape(t, u, 1, p + 1, q), NEW v \in Nat, Yields(f, n, p + 1, q, v)
  PROVE  Shape(t, u, 1, p, q) /\ Yields(f, n, p, q, Apply(u[p].type, 0, v))
<1>1. /\ n \in Nat /\ p \in 1 .. n + 1 /\ q \in 0 .. n /\ p <= q /\ p \in p .. q - 1
      /\ p - 1 \in 0 .. n /\ p \in Nat \ {0} /\ q \in Nat /\ p > p - 1 /\ p \in Int /\ q \in Int /\ p <= p
  BY SMT DEF Setting
<1>2. u[p].type \in {"MINUS", "DEREF"}
  BY DEF Setting, Tokenised
<1>3. Precedence(u[p].type) = 1 /\ u[p].type \notin {"(", ")"}
  BY <1>2, SMT DEF Precedence
<1>4. Balanced(u, p, p - 1) /\ Ops(u, p, p - 1) = {}
  <2>1. Depth(u, p, p - 1) = 0
    BY <1>1, DepthOne
  <2>2. p .. p - 1 = {}
    BY SMT
  <2> QED BY <2>1, <2>2 DEF Balanced, Ops
<1>5. Ops(u, p + 1, q) = {}
  <2>1. p + 1 \in 2 .. n /\ (p + 1) - 1 = p
    BY <1>1, SMT
  <2>2. ~ Prefix(t, p + 1)
    BY <2>1 DEF Setting
  <2> QED BY <2>2 DEF Shape
<1>6. Balanced(u, p, q) /\ ~ CheckParentheses(u, p, q) /\ Ops(u, p, q) = {p}
  <2>1. Balanced(u, p + 1, q)
    BY DEF Shape
  <2>2. Precedence(u[p].type) > 0
    BY <1>3
  <2>3. /\ Balanced(u, p, q) /\ ~ CheckParentheses(u, p, q)
        /\ Ops(u, p, q) \subseteq Ops(u, p, p - 1) \cup {p} \cup Ops(u, p + 1, q)
        /\ p \in Ops(u, p, q)
    BY <1>1, <1>3, <1>4, <2>1, <2>2, BalancedJoin
  <2> QED BY <1>4, <1>5, <2>3
<1>7. MainOp(u, p, q) = p
  <2>1. ~ IsBad(u, p, q)
    BY <1>1, <1>6, BalancedBad
  <2>2. IsMain(u, {p}, MainOp(u, p, q))
    BY <1>1, <1>6, <2>1, MainOpIsMain
  <2> QED BY <2>2 DEF IsMain
<1>8. Yields(f, n, p, p - 1, 0)
  <2> SUFFICES ASSUME NEW open \in SUBSET Ranges(n) PROVE f[Call(p, p - 1, open)] = 0
    BY DEF Yields
  <2>1. f[Call(p, p - 1, open)] = EvalStep(u, f, Call(p, p - 1, open))
    BY <1>1, Called
  <2>2. Call(p, p - 1, open).p = p /\ Call(p, p - 1, open).q = p - 1
    BY DEF Call
  <2> QED BY <1>1, <2>1, <2>2, Zenon DEF EvalStep
<1>9. Yields(f, n, p, q, Apply(u[p].type, 0, v))
  BY <1>1, <1>6, <1>7, <1>8, SplitYields
<1>10. Shape(t, u, 1, p, q)
  <2>1. t[q].type \in {"num", ")"}
    BY DEF Shape
  <2> QED BY <1>1, <1>3, <1>6, <2>1 DEF Shape
<1> QED BY <1>9, <1>10

\* A phrase of a level is one of the level above.
LEMMA LowerPhrase ==
  ASSUME NEW t, NEW u, NEW p, NEW q, NEW level \in 2 .. 5, Shape(t, u, level - 1, p, q)
  PROVE  Shape(t, u, level, p, q)
<1>1. \A i \in Ops(u, p, q) : Precedence(u[i].type) <= level - 1 /\ Precedence(u[i].type) \in Int
  BY PrecedenceType DEF Shape
<1>2. \A i \in Ops(u, p, q) : Precedence(u[i].type) <= level
  BY <1>1
<1>3. level # 1
  BY SMT
<1> QED BY <1>2, <1>3 DEF Shape

\* Two operands and the operator of their level between them: the right one binds
\* more, so that this operator is the main one.
LEMMA BinaryPhrase ==
  ASSUME NEW t, NEW u, NEW n, NEW f, Setting(t, u, n, f),
         NEW p \in 1 .. n, NEW q \in 1 .. n, NEW k \in p + 1 .. q - 1,
         NEW level \in 2 .. 5, t[k].type \in Level(level),
         Shape(t, u, level, p, k - 1), Shape(t, u, level - 1, k + 1, q),
         NEW a \in Nat, NEW b \in Nat, Yields(f, n, p, k - 1, a), Yields(f, n, k + 1, q, b)
  PROVE  Shape(t, u, level, p, q) /\ Yields(f, n, p, q, Apply(t[k].type, a, b))
<1>1. /\ n \in Nat /\ p <= q /\ k \in p .. q - 1 /\ k \in 1 .. n /\ k - 1 \in 1 .. n
      /\ p \in Nat \ {0} /\ q \in Nat /\ p \in Int /\ q \in Int /\ k \in Int /\ p <= k /\ k < q
      /\ level # 1 /\ level \in Int /\ k - 1 # 0
  BY SMT DEF Setting
<1>2. Precedence(t[k].type) = level /\ t[k].type \in Binary
  BY LevelPrecedence
<1>3. u[k].type = t[k].type
  <2>1. t[k - 1].type \in {"num", ")"}
    BY DEF Shape
  <2>2. ~ Operand(t, k - 1)
    BY <1>1, <2>1, SMT DEF Operand, Binary
  <2>3. ~ Prefix(t, k)
    BY <2>2, Zenon DEF Prefix
  <2> QED BY <1>1, <2>3, Zenon DEF Setting, Tokenised
<1>4. u[k].type \notin {"(", ")"} /\ Precedence(u[k].type) > 0
  BY <1>2, <1>3, SMT DEF Binary
<1>5. /\ Balanced(u, p, q) /\ ~ CheckParentheses(u, p, q)
      /\ Ops(u, p, q) \subseteq Ops(u, p, k - 1) \cup {k} \cup Ops(u, k + 1, q)
      /\ k \in Ops(u, p, q)
  <2>1. Balanced(u, p, k - 1) /\ Balanced(u, k + 1, q)
    BY DEF Shape
  <2> QED BY <1>1, <1>4, <2>1, BalancedJoin
<1>6. /\ \A i \in Ops(u, p, k - 1) : Precedence(u[i].type) <= level /\ i < k
      /\ \A i \in Ops(u, k + 1, q) : Precedence(u[i].type) <= level - 1
  <2>1. \A i \in Ops(u, p, k - 1) : i < k
    BY <1>1, SMT DEF Ops
  <2> QED BY <2>1 DEF Shape
<1>7. \A i : Precedence(u[i].type) \in Int
  BY PrecedenceType
<1>8. MainOp(u, p, q) = k
  <2> DEFINE m == MainOp(u, p, q)
  <2>1. ~ IsBad(u, p, q)
    BY <1>1, <1>5, BalancedBad
  <2>2. IsMain(u, Ops(u, p, q), m)
    BY <1>1, <2>1, MainOpIsMain
  <2> HIDE DEF m
  <2>3. /\ m \in Ops(u, p, q)
        /\ Precedence(u[k].type) <= Precedence(u[m].type)
        /\ k > m => Precedence(u[k].type) < Precedence(u[m].type)
    BY <1>5, <2>2 DEF IsMain
  <2>4. CASE m \in Ops(u, p, k - 1)
    <3>1. k > m
      BY <1>1, <1>6, <2>4, SMT DEF Ops
    <3>2. level < Precedence(u[m].type) /\ Precedence(u[m].type) <= level
      BY <1>2, <1>3, <1>6, <2>3, <2>4, <3>1
    <3> QED BY <1>1, <1>7, <3>2
  <2>5. CASE m \in Ops(u, k + 1, q)
    <3>1. level <= Precedence(u[m].type) /\ Precedence(u[m].type) <= level - 1
      BY <1>2, <1>3, <1>6, <2>3, <2>5
    <3> QED BY <1>1, <1>7, <3>1
  <2> QED BY <1>5, <2>3, <2>4, <2>5 DEF m
<1>9. Yields(f, n, p, q, Apply(t[k].type, a, b))
  BY <1>1, <1>3, <1>5, <1>8, SplitYields
<1>10. \A i \in Ops(u, p, q) : Precedence(u[i].type) <= level
  <2>1. \A i \in Ops(u, k + 1, q) : Precedence(u[i].type) <= level
    BY <1>1, <1>6, <1>7
  <2>2. Precedence(u[k].type) <= level
    BY <1>1, <1>2, <1>3
  <2> QED BY <1>5, <1>6, <2>1, <2>2
<1>11. t[q].type \in {"num", ")"}
  BY DEF Shape
<1> QED BY <1>1, <1>5, <1>9, <1>10, <1>11 DEF Shape

-----------------------------------------------------------------------------
(* Expressions: what C makes of them *)

Understood(t, u, n, f, m, x) ==
  \A v \in m[x] :
    /\ v \in Nat
    /\ Operand(t, x.p - 1) => Shape(t, u, x.level, x.p, x.q) /\ Yields(f, n, x.p, x.q, v)

\* What a phrase of two operands means.
LEMMA BinaryMeaning ==
  ASSUME NEW t, NEW u, NEW n, NEW f, Setting(t, u, n, f), NEW m,
         NEW x \in Phrases(n), x.level >= 2, x.p <= x.q,
         NEW k \in x.p + 1 .. x.q - 1, t[k].type \in Level(x.level),
         NEW a \in m[Phrase(x.level, x.p, k - 1)], NEW b \in m[Phrase(x.level - 1, k + 1, x.q)],
         \A y \in Phrases(n) : PhraseSize(n, y) < PhraseSize(n, x) => Understood(t, u, n, f, m, y)
  PROVE  /\ Apply(t[k].type, a, b) \in Nat
         /\ Operand(t, x.p - 1) => /\ Shape(t, u, x.level, x.p, x.q)
                                   /\ Yields(f, n, x.p, x.q, Apply(t[k].type, a, b))
<1>1. n \in Nat
  BY DEF Setting
<1>2. x.level \in 1 .. 5 /\ x.p \in 1 .. n + 1 /\ x.q \in 0 .. n
  BY <1>1, PhraseType
<1>3. /\ x.level \in 2 .. 5 /\ x.level - 1 \in 1 .. 5 /\ x.p \in 1 .. n /\ x.q \in 1 .. n /\ k \in 1 .. n
      /\ k - 1 \in 0 .. n /\ (k - 1) - x.p < x.q - x.p
      /\ k + 1 \in 1 .. n + 1 /\ x.q - (k + 1) < x.q - x.p /\ (k + 1) - 1 = k
  BY <1>1, <1>2, SMT
<1> DEFINE l == Phrase(x.level, x.p, k - 1)
           r == Phrase(x.level - 1, k + 1, x.q)
<1>4. Understood(t, u, n, f, m, l) /\ Understood(t, u, n, f, m, r)
  BY <1>1, <1>2, <1>3, PhraseSmaller, Zenon
<1>5. l.level = x.level /\ l.p = x.p /\ l.q = k - 1 /\ r.level = x.level - 1 /\ r.p = k + 1 /\ r.q = x.q
  BY DEF Phrase
<1>6. a \in Nat /\ b \in Nat
  BY <1>4 DEF Understood
<1>7. ASSUME Operand(t, x.p - 1)
      PROVE  /\ Shape(t, u, x.level, x.p, x.q)
             /\ Yields(f, n, x.p, x.q, Apply(t[k].type, a, b))
  <2>1. Operand(t, (k + 1) - 1)
    BY <1>3, LevelPrecedence DEF Operand
  <2> HIDE DEF l, r
  <2>2. Shape(t, u, x.level, x.p, k - 1) /\ Yields(f, n, x.p, k - 1, a)
    <3>1. Shape(t, u, l.level, l.p, l.q) /\ Yields(f, n, l.p, l.q, a)
      BY <1>4, <1>5, <1>7, Zenon DEF Understood, l
    <3> QED BY <1>5, <3>1
  <2>3. Shape(t, u, x.level - 1, k + 1, x.q) /\ Yields(f, n, k + 1, x.q, b)
    <3>1. Shape(t, u, r.level, r.p, r.q) /\ Yields(f, n, r.p, r.q, b)
      BY <1>4, <1>5, <2>1, Zenon DEF Understood, r
    <3> QED BY <1>5, <3>1
  <2> QED BY <1>3, <1>6, <2>2, <2>3, BinaryPhrase
<1> QED BY <1>6, <1>7, ApplyType

\* What a phrase of the lowest level means.
LEMMA UnaryMeaning ==
  ASSUME NEW t, NEW u, NEW n, NEW f, Setting(t, u, n, f), NEW m,
         NEW x \in Phrases(n), x.level = 1, x.p <= x.q, NEW v \in MeaningStep(t, m, x),
         \A y \in Phrases(n) : PhraseSize(n, y) < PhraseSize(n, x) => Understood(t, u, n, f, m, y)
  PROVE  /\ v \in Nat
         /\ Operand(t, x.p - 1) => /\ Shape(t, u, x.level, x.p, x.q)
                                   /\ Yields(f, n, x.p, x.q, v)
<1>1. n \in Nat /\ \A i \in 1 .. n : u[i].type = IF Prefix(t, i) THEN IF t[i].type = "-" THEN "MINUS" ELSE "DEREF"
                                                ELSE t[i].type
  BY DEF Setting, Tokenised
<1>2. x.p \in 1 .. n + 1 /\ x.q \in 0 .. n
  BY <1>1, PhraseType
<1>3. /\ x.p \in 1 .. n /\ x.q \in 1 .. n /\ ~ (x.p > x.q) /\ ~ (x.level >= 2) /\ (x.p # x.q => x.p < x.q)
      /\ 1 \in 1 .. 5 /\ 5 \in 1 .. 5
  BY <1>1, <1>2, SMT
<1>4. CASE x.p = x.q
  <2>1. t[x.p].type = "num" /\ v = t[x.p].val
    BY <1>3, <1>4, Zenon DEF MeaningStep
  <2> QED BY <1>3, <1>4, <2>1, NumPhrase
<1> DEFINE y == Phrase(1, x.p + 1, x.q)
           z == Phrase(5, x.p + 1, x.q - 1)
<1>5. ASSUME x.p # x.q
      PROVE  /\ Understood(t, u, n, f, m, y) /\ Understood(t, u, n, f, m, z)
             /\ y.level = 1 /\ y.p = x.p + 1 /\ y.q = x.q
             /\ z.level = 5 /\ z.p = x.p + 1 /\ z.q = x.q - 1
             /\ (x.p + 1) - 1 = x.p
  <2>1. /\ x.p + 1 \in 1 .. n + 1 /\ x.q - (x.p + 1) < x.q - x.p
        /\ x.q - 1 \in 0 .. n /\ (x.q - 1) - (x.p + 1) < x.q - x.p /\ (x.p + 1) - 1 = x.p
    BY <1>1, <1>2, <1>3, <1>5, SMT
  <2>2. Understood(t, u, n, f, m, y) /\ Understood(t, u, n, f, m, z)
    BY <1>1, <1>2, <1>3, <2>1, PhraseSmaller, Zenon
  <2> QED BY <2>1, <2>2 DEF Phrase
<1> HIDE DEF y, z
<1>6. CASE x.p # x.q /\ t[x.p].type \in {"-", "*"}
  <2> DEFINE op == IF t[x.p].type = "-" THEN "MINUS" ELSE "DEREF"
  <2>1. \E w \in m[y] : v = Apply(op, 0, w)
    <3>1. CASE t[x.p].type = "-"
      BY <1>3, <1>6, <3>1, Zenon DEF MeaningStep, y
    <3>2. CASE t[x.p].type # "-"
      <4>1. v \in {Apply("DEREF", 0, w) : w \in m[y] \cap Pmem}
        BY <1>3, <1>6, <3>2, Zenon DEF MeaningStep, y
      <4> QED BY <3>2, <4>1
    <3> QED BY <3>1, <3>2
  <2>2. PICK w \in m[y] : v = Apply(op, 0, w)
    BY <2>1
  <2>3. w \in Nat
    BY <1>5, <1>6 DEF Understood
  <2> HIDE DEF op
  <2>4. v \in Nat
    BY <2>2, <2>3, ApplyType
  <2>5. ASSUME Operand(t, x.p - 1) PROVE Shape(t, u, 1, x.p, x.q) /\ Yields(f, n, x.p, x.q, v)
    <3>1. Prefix(t, x.p) /\ u[x.p].type = op
      BY <1>1, <1>3, <1>6, <2>5, Zenon DEF Prefix, op
    <3>2. Operand(t, y.p - 1)
      <4>1. Operand(t, x.p)
        BY <1>6 DEF Operand, Binary
      <4> QED BY <1>5, <1>6, <4>1
    <3>3. Shape(t, u, y.level, y.p, y.q) /\ Yields(f, n, y.p, y.q, w)
      BY <1>5, <1>6, <3>2, Zenon DEF Understood
    <3>4. Shape(t, u, 1, x.p + 1, x.q) /\ Yields(f, n, x.p + 1, x.q, w)
      BY <1>5, <1>6, <3>3
    <3> QED BY <1>3, <1>6, <2>2, <2>3, <3>1, <3>4, PrefixPhrase
  <2> QED BY <2>4, <2>5
<1>7. CASE x.p # x.q /\ t[x.p].type \notin {"-", "*"}
  <2>1. t[x.p].type = "(" /\ t[x.q].type = ")" /\ v \in m[z]
    BY <1>3, <1>7, Zenon DEF MeaningStep, z
  <2>2. Operand(t, z.p - 1)
    <3>1. Operand(t, x.p)
      BY <2>1 DEF Operand
    <3> QED BY <1>5, <1>7, <3>1
  <2>3. v \in Nat /\ Shape(t, u, z.level, z.p, z.q) /\ Yields(f, n, z.p, z.q, v)
    BY <1>5, <1>7, <2>1, <2>2, Zenon DEF Understood
  <2>4. Shape(t, u, 5, x.p + 1, x.q - 1) /\ Yields(f, n, x.p + 1, x.q - 1, v)
    BY <1>5, <1>7, <2>3
  <2> QED BY <1>3, <1>7, <2>1, <2>3, <2>4, ParenPhrase
<1> QED BY <1>4, <1>6, <1>7

\* eval() gives what the grammar says, for every phrase.
LEMMA AllUnderstood ==
  ASSUME NEW t, NEW u, NEW n, NEW f, Setting(t, u, n, f), NEW m, Means(m, t, Phrases(n))
  PROVE  \A x \in Phrases(n) : Understood(t, u, n, f, m, x)
<1> DEFINE Bad == {k \in Nat : \E x \in Phrases(n) : PhraseSize(n, x) = k /\ ~ Understood(t, u, n, f, m, x)}
<1>1. n \in Nat
  BY DEF Setting
<1>2. Bad = {}
  <2> SUFFICES ASSUME Bad # {} PROVE FALSE
    OBVIOUS
  <2>1. PICK k \in Bad : \A j \in Bad : k <= j
    <3>1. Bad \in SUBSET Nat
      OBVIOUS
    <3> HIDE DEF Bad
    <3> QED BY <3>1, NatMin
  <2>2. PICK x \in Phrases(n) : PhraseSize(n, x) = k /\ ~ Understood(t, u, n, f, m, x)
    BY <2>1
  <2>3. ASSUME NEW y \in Phrases(n), PhraseSize(n, y) < PhraseSize(n, x) PROVE Understood(t, u, n, f, m, y)
    <3> SUFFICES ASSUME ~ Understood(t, u, n, f, m, y) PROVE FALSE
      OBVIOUS
    <3>1. PhraseSize(n, y) \in Nat /\ PhraseSize(n, x) \in Nat
      BY <1>1, PhraseType
    <3>2. ~ (k <= PhraseSize(n, y))
      BY <2>2, <2>3, <3>1, SMT
    <3> QED BY <2>1, <3>1, <3>2
  <2> HIDE DEF Bad
  <2>4. m[x] = MeaningStep(t, m, x)
    BY Zenon DEF Means
  <2>5. PICK v \in m[x] : ~ /\ v \in Nat
                            /\ Operand(t, x.p - 1) => Shape(t, u, x.level, x.p, x.q) /\ Yields(f, n, x.p, x.q, v)
    BY <2>2, Zenon DEF Understood
  <2>6. x.level \in 1 .. 5 /\ x.p \in 1 .. n + 1 /\ x.q \in 0 .. n
    BY <1>1, PhraseType
  <2>7. ~ (x.p > x.q) /\ x.p <= x.q
    <3>1. ~ (x.p > x.q)
      BY <2>4, Zenon DEF MeaningStep
    <3> QED BY <1>1, <2>6, <3>1, SMT
  <2>8. CASE x.level = 1
    BY <2>3, <2>4, <2>5, <2>7, <2>8, UnaryMeaning
  <2>9. CASE x.level # 1
    <3>1. x.level >= 2 /\ x.level \in 2 .. 5 /\ x.level - 1 \in 1 .. 5 /\ x.level - 1 < x.level /\ x.q - x.p = x.q - x.p
      BY <2>6, <2>9, SMT
    <3> DEFINE y == Phrase(x.level - 1, x.p, x.q)
    <3>2. CASE v \in m[y]
      <4>1. Understood(t, u, n, f, m, y)
        BY <1>1, <2>3, <2>6, <3>1, PhraseSmaller, Zenon
      <4>2. y.level = x.level - 1 /\ y.p = x.p /\ y.q = x.q
        BY DEF Phrase
      <4> HIDE DEF y
      <4>3. /\ v \in Nat
            /\ Operand(t, x.p - 1) => Shape(t, u, x.level - 1, x.p, x.q) /\ Yields(f, n, x.p, x.q, v)
        BY <3>2, <4>1, <4>2, Zenon DEF Understood
      <4>4. Shape(t, u, x.level - 1, x.p, x.q) => Shape(t, u, x.level, x.p, x.q)
        BY <3>1, LowerPhrase
      <4> QED BY <2>5, <4>3, <4>4
    <3>3. CASE v \notin m[y]
      <4>1. \E k2 \in x.p + 1 .. x.q - 1 :
              /\ t[k2].type \in Level(x.level)
              /\ \E a \in m[Phrase(x.level, x.p, k2 - 1)], b \in m[Phrase(x.level - 1, k2 + 1, x.q)] :
                   v = Apply(t[k2].type, a, b)
        <5> DEFINE K == {j \in x.p + 1 .. x.q - 1 : t[j].type \in Level(x.level)}
                   V(j) == {Apply(t[j].type, ab[1], ab[2]) :
                              ab \in {ab \in m[Phrase(x.level, x.p, j - 1)]
                                               \X m[Phrase(x.level - 1, j + 1, x.q)] :
                                        t[j].type = "/" => ab[2] # 0}}
        <5>1. v \in UNION {V(j) : j \in K}
          <6>1. MeaningStep(t, m, x) = m[y] \cup UNION {V(j) : j \in K}
            BY <2>7, <3>1, Zenon DEF MeaningStep
          <6> HIDE DEF K, V, y
          <6> QED BY <2>4, <2>5, <3>3, <6>1, Zenon
        <5>2. PICK j \in K : v \in V(j)
          <6> HIDE DEF K, V
          <6> QED BY <5>1, Zenon
        <5>3. \E a \in m[Phrase(x.level, x.p, j - 1)], b \in m[Phrase(x.level - 1, j + 1, x.q)] :
                   v = Apply(t[j].type, a, b)
          BY <5>2, Zenon
        <5> QED BY <5>3
      <4>2. PICK j \in x.p + 1 .. x.q - 1 :
              /\ t[j].type \in Level(x.level)
              /\ \E a \in m[Phrase(x.level, x.p, j - 1)], b \in m[Phrase(x.level - 1, j + 1, x.q)] :
                   v = Apply(t[j].type, a, b)
        BY <4>1, Zenon
      <4>3. PICK a \in m[Phrase(x.level, x.p, j - 1)], b \in m[Phrase(x.level - 1, j + 1, x.q)] :
                   v = Apply(t[j].type, a, b)
        BY <4>2, Zenon
      <4> QED BY <2>3, <2>5, <2>7, <3>1, <4>2, <4>3, BinaryMeaning
    <3> QED BY <3>2, <3>3
  <2> QED BY <2>8, <2>9
<1> SUFFICES ASSUME NEW x \in Phrases(n), ~ Understood(t, u, n, f, m, x) PROVE FALSE
  OBVIOUS
<1>3. PhraseSize(n, x) \in Nat
  BY <1>1, PhraseType
<1> QED BY <1>2, <1>3

\* The whole expression.
LEMMA EvalMeans ==
  ASSUME NEW t \in Seq([type : Types, val : Nat]), Recognised(t)
  PROVE  \A v \in Meaning(t, Len(t)) : Eval(Tokenise(t), Len(t)) = v
<1> DEFINE n == Len(t)
           u == Tokenise(t)
           f == CHOOSE f : Evals(f, u, Calls(n))
           m == CHOOSE m : Means(m, t, Phrases(n))
           x == Phrase(5, 1, n)
<1>1. n \in Nat
  BY LenProperties
<1>2. Evals(f, u, Calls(n))
  <2>1. \E g : Evals(g, u, Calls(n))
    BY <1>1, EvalExists
  <2> QED BY <2>1, Zenon
<1>3. Means(m, t, Phrases(n))
  <2>1. \E g : Means(g, t, Phrases(n))
    BY <1>1, MeaningExists
  <2> QED BY <2>1, Zenon
<1>4. Eval(u, n) = f[Call(1, n, {})] /\ Meaning(t, n) = m[x]
  BY EvalEvals, MeaningMeans
<1>5. Tokenised(t, u, n)
  BY TokeniseTokenised
<1>6. Worth(t, n)
  <2> SUFFICES ASSUME NEW i \in 1 .. n PROVE t[i].val \in Nat
    BY DEF Worth
  <2>1. t[i] \in [type : Types, val : Nat]
    BY ElementOfSeq
  <2> QED BY <2>1
<1>7. x \in Phrases(n) /\ x.p = 1 /\ x.q = n
  <2> HIDE DEF n
  <2> QED BY <1>1, SMT DEF Phrase, Phrases
<1>8. \A i \in 2 .. n : Prefix(t, i) => ~ Prefix(t, i - 1)
  BY DEF Recognised
<1> HIDE DEF n, u, f, m, x
<1>9. Setting(t, u, n, f)
  BY <1>1, <1>2, <1>5, <1>6, <1>8, Zenon DEF Setting, Evals
<1>10. Understood(t, u, n, f, m, x)
  BY <1>3, <1>7, <1>9, AllUnderstood
<1>11. Operand(t, x.p - 1)
  <2>1. x.p - 1 = 0
    BY <1>7
  <2> QED BY <2>1, Zenon DEF Operand
<1>12. ASSUME NEW v \in m[x] PROVE f[Call(1, n, {})] = v
  <2>1. Yields(f, n, x.p, x.q, v)
    BY <1>10, <1>11, Zenon DEF Understood
  <2>2. Fresh({}, x.p, x.q)
    BY DEF Fresh
  <2> QED BY <1>7, <2>1, <2>2 DEF Yields
<1> QED BY <1>4, <1>12 DEF n, u

\* The present result is that of the tokens typed.
MeansInv ==
  /\ ExprInv
  /\ result # NONE => result = Eval(Tokenise(tokens), Len(tokens))

\* What the debugger prints for an expression of any length whose unary operators
\* stand where tokenise() looks for them is what C makes of it: the main operator
\* is the one that binds least, of several the last one, and no evaluation fails or
\* runs for ever.
THEOREM Expr_MeansWhatCMeans == ExprSpec => []MeansWhatCMeans
<1>1. ExprInit => MeansInv
  BY ExprInitInv DEF ExprInit, MeansInv
<1>2. MeansInv /\ [ExprNext]_<<tokens, result>> => MeansInv'
  <2> SUFFICES ASSUME MeansInv, [ExprNext]_<<tokens, result>> PROVE MeansInv'
    OBVIOUS
  <2>1. ExprInv'
    BY ExprNextInv DEF MeansInv
  <2>2. CASE Enter
    BY <2>1, <2>2, Zenon DEF Enter, MeansInv
  <2>3. CASE Again
    BY <2>1, <2>3, Zenon DEF Again, MeansInv
  <2>4. ASSUME NEW type \in Types, Type(type) PROVE MeansInv'
    BY <2>1, <2>4, Zenon DEF Type, MeansInv
  <2>5. CASE UNCHANGED <<tokens, result>>
    BY <2>1, <2>5, Zenon DEF MeansInv
  <2> QED BY <2>2, <2>3, <2>4, <2>5, Zenon DEF ExprNext
<1>3. MeansInv => MeansWhatCMeans
  <2> SUFFICES ASSUME MeansInv, result # NONE, Recognised(tokens), NEW v \in Meaning(tokens, Len(tokens))
               PROVE  result = v
    BY DEF MeansWhatCMeans
  <2>1. tokens \in Seq([type : Types, val : Nat])
    BY DEF MeansInv, ExprInv
  <2>2. Eval(Tokenise(tokens), Len(tokens)) = v
    BY <2>1, EvalMeans
  <2> QED BY <2>2 DEF MeansInv
<1> QED BY <1>1, <1>2, <1>3, PTL DEF ExprSpec

=============================================================================
