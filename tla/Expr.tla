-------------------------------- MODULE Expr --------------------------------
(***************************************************************************)
(* The expressions of the debugger (nemu/src/monitor/sdb/expr.c), which    *)
(* `p', `x' and the watchpoints evaluate.  The code tells unary minus and  *)
(* indirection from the binary operators by the token before them, and     *)
(* evaluates by splitting at the main operator of a range of the token     *)
(* array.  Meaning is the grammar it is compared with: C's, over unsigned  *)
(* words.                                                                  *)
(*                                                                         *)
(* A token is a record of its type and, for numbers and registers, what it *)
(* is worth.  Array index i of the code is index i + 1 here.               *)
(***************************************************************************)
EXTENDS Integers, Sequences, FiniteSetsExt

CONSTANTS Words,        \* 2^32: words are 0 .. Words - 1
          Pmem,         \* the addresses that in_pmem() accepts
          MemRead(_),   \* paddr_read()
          MaxTokens     \* bound: tokens of an expression, see Type

ASSUME ExprAssumption == Words \in Nat \ {0} /\ \A a \in Pmem : MemRead(a) \in Nat

VARIABLES tokens,       \* as make_token() left them
          result        \* what expr() gave, or how it failed; NONE before

NONE == -1
ASSERT == -2        \* assert(0): a lone operator
OVERRUN == -3       \* the assertion of get_main_op()
LOOP == -4          \* eval() calls itself for ever, until the stack is full
Failed == {ASSERT, OVERRUN, LOOP}

Binary == {"+", "-", "*", "/", "==", "!=", "&&"}
Types == Binary \cup {"(", ")", "num"}

Apply(op, a, b) ==
    CASE op = "+" -> (a + b) % Words
      [] op = "-" -> (a - b) % Words
      [] op = "*" -> (a * b) % Words
      [] op = "/" -> IF b # 0 THEN a \div b ELSE 0
      [] op = "==" -> IF a = b THEN 1 ELSE 0
      [] op = "!=" -> IF a # b THEN 1 ELSE 0
      [] op = "&&" -> IF a # 0 /\ b # 0 THEN 1 ELSE 0
      [] op = "MINUS" -> (-b) % Words
      [] op = "DEREF" -> IF b \in Pmem THEN MemRead(b) ELSE 0
      [] OTHER -> 0
-----------------------------------------------------------------------------
(* The code *)

\* tokenise() goes from left to right: a token that has become MINUS or DEREF
\* is no longer an operator in the eyes of the next one.
Tokenise(t) ==
    LET unary[i \in 1 .. Len(t)] ==
          t[i].type \in {"-", "*"}
            /\ (i > 1 => t[i - 1].type \in {"+", "-", "*", "/", "("} /\ ~unary[i - 1])
    IN  [i \in 1 .. Len(t) |->
           IF unary[i] THEN [t[i] EXCEPT !.type = IF @ = "-" THEN "MINUS" ELSE "DEREF"] ELSE t[i]]

\* check_parentheses() over p .. i: the value of its variable stack.
Depth(t, p, i) == Cardinality({j \in p .. i : t[j].type = "("}) - Cardinality({j \in p .. i : t[j].type = ")"})

IsBad(t, p, q) == p <= q /\ (Depth(t, p, q) # 0 \/ \E i \in p .. q : Depth(t, p, i) < 0)

CheckParentheses(t, p, q) == p <= q /\ ~IsBad(t, p, q) /\ \A i \in p .. q - 1 : Depth(t, p, i) # 0

Precedence(type) ==
    CASE type \in {"(", ")"} -> 0
      [] type \in {"MINUS", "DEREF"} -> 1
      [] type \in {"*", "/"} -> 2
      [] type \in {"+", "-"} -> 3
      [] type \in {"==", "!="} -> 4
      [] type = "&&" -> 5
      [] OTHER -> -1

\* Mutant: of two operators of one precedence the first one is the main one.
Weaker_Strict(t, i, best) == best = 0 \/ Precedence(t[i].type) > Precedence(t[best].type)

\* An operator goes onto the stack of get_main_op().
Weaker(t, i, best) == best = 0 \/ Precedence(t[i].type) >= Precedence(t[best].type)

\* get_main_op(), from token i on; best is the top of its stack.
MainOp(t, p, q) ==
    LET scan[i \in p .. q + 1] == [best \in 0 .. q |->
          IF i > q THEN best
          ELSE IF Precedence(t[i].type) = -1 THEN scan[i + 1][best]
          ELSE IF Precedence(t[i].type) > 0 THEN scan[i + 1][IF Weaker(t, i, best) THEN i ELSE best]
          ELSE LET ends == {j \in i + 1 .. q : CheckParentheses(t, i, j)}
               IN  IF ends = {} THEN OVERRUN ELSE scan[Min(ends) + 1][best]]
    IN  scan[p][0]

\* Mutant: the parentheses of a range are not checked.
Unbalanced_Never(t, p, q) == FALSE

\* The first test of eval().
Unbalanced(t, p, q) == IsBad(t, p, q)

\* A call eval(p, q) on n tokens; open has the ranges whose evaluation has not
\* ended, for one of them to come again.
Ranges(n) == (1 .. n + 1) \X (0 .. n)
Calls(n) == [p : 1 .. n + 1, q : 0 .. n, open : SUBSET Ranges(n)]
Call(p, q, open) == [p |-> p, q |-> q, open |-> open]

\* eval() of all n tokens.  Without an operator the main one is token 0.
Eval(t, n) ==
    LET eval[c \in Calls(n)] ==
          IF Unbalanced(t, c.p, c.q) \/ c.p > c.q THEN 0
          ELSE IF c.p = c.q THEN IF t[c.p].type = "num" THEN t[c.p].val ELSE ASSERT
          ELSE IF CheckParentheses(t, c.p, c.q) THEN eval[Call(c.p + 1, c.q - 1, c.open)]
          ELSE IF <<c.p, c.q>> \in c.open THEN LOOP
          ELSE LET main == MainOp(t, c.p, c.q)
                   op   == IF main = 0 THEN 1 ELSE main
                   open == c.open \cup {<<c.p, c.q>>}
                   val1 == eval[Call(c.p, op - 1, open)]
                   val2 == eval[Call(op + 1, c.q, open)]
               IN  IF main = OVERRUN THEN OVERRUN
                   ELSE IF val1 \in Failed THEN val1
                   ELSE IF val2 \in Failed THEN val2
                   ELSE Apply(t[op].type, val1, val2)
    IN  eval[Call(1, n, {})]

ExprInit == tokens = <<>> /\ result = NONE

\* The user types one more token.  One that does not fit the token before it
\* counts twice in the bound.
Operand(t, i) == i = 0 \/ t[i].type \in Binary \cup {"("}
Misfit(t, i) == IF Operand(t, i - 1) THEN t[i].type \notin {"num", "(", "-", "*"}
                                     ELSE t[i].type \notin Binary \cup {")"}
Size(t) == Len(t) + Cardinality({i \in 1 .. Len(t) : Misfit(t, i)})

\* Each number is worth something else, so that it matters where it goes.
Type(type) ==
    /\ result = NONE
    /\ tokens' = Append(tokens, [type |-> type, val |-> IF type = "num" THEN Len(tokens) + 2 ELSE 0])
    /\ Size(tokens') <= MaxTokens
    /\ UNCHANGED result

\* expr()
Enter ==
    /\ result = NONE
    /\ result' = Eval(Tokenise(tokens), Len(tokens))
    /\ UNCHANGED tokens

\* make_token() starts the next expression.
Again == result # NONE /\ result' = NONE /\ tokens' = <<>>

ExprNext == Enter \/ Again \/ \E type \in Types : Type(type)

ExprSpec == ExprInit /\ [][ExprNext]_<<tokens, result>>
-----------------------------------------------------------------------------
(* The grammar *)

Level(n) == CASE n = 5 -> {"&&"} [] n = 4 -> {"==", "!="} [] n = 3 -> {"+", "-"} [] n = 2 -> {"*", "/"}

\* The tokens from p to q as an expression of a level.
Phrases(n) == [level : 1 .. 5, p : 1 .. n + 1, q : 0 .. n]
Phrase(level, p, q) == [level |-> level, p |-> p, q |-> q]

\* What all n tokens mean: no value if they are no expression, or divide by zero
\* or read outside pmem.
Meaning(t, n) ==
    LET meaning[x \in Phrases(n)] ==
          IF x.p > x.q THEN {}
          ELSE IF x.level >= 2
          THEN meaning[Phrase(x.level - 1, x.p, x.q)] \cup
               UNION {{Apply(t[k].type, ab[1], ab[2]) :
                         ab \in {ab \in meaning[Phrase(x.level, x.p, k - 1)]
                                          \X meaning[Phrase(x.level - 1, k + 1, x.q)] :
                                   t[k].type = "/" => ab[2] # 0}} :
                      k \in {k \in x.p + 1 .. x.q - 1 : t[k].type \in Level(x.level)}}
          ELSE IF x.p = x.q THEN IF t[x.p].type = "num" THEN {t[x.p].val} ELSE {}
          ELSE IF t[x.p].type = "-" THEN {Apply("MINUS", 0, v) : v \in meaning[Phrase(1, x.p + 1, x.q)]}
          ELSE IF t[x.p].type = "*" THEN {Apply("DEREF", 0, v) : v \in meaning[Phrase(1, x.p + 1, x.q)] \cap Pmem}
          ELSE IF t[x.p].type = "(" /\ t[x.q].type = ")" THEN meaning[Phrase(5, x.p + 1, x.q - 1)]
          ELSE {}
    IN  meaning[Phrase(5, 1, n)]

\* tokenise() does not recognise a unary operator after a comparison, after
\* `&&' or after another unary operator.
Prefix(t, i) == t[i].type \in {"-", "*"} /\ Operand(t, i - 1)
Recognised(t) ==
    \A i \in 2 .. Len(t) :
      Prefix(t, i) => t[i - 1].type \in {"+", "-", "*", "/", "("} /\ ~Prefix(t, i - 1)
-----------------------------------------------------------------------------
(* Properties *)

\* What the debugger prints for an expression is what C makes of it: the main
\* operator is the one that binds least, of several the last one, and unary
\* operators and parentheses are where they belong.
MeansWhatCMeans ==
    result # NONE /\ Recognised(tokens) =>
      \A v \in Meaning(tokens, Len(tokens)) : result = v

\* Whatever is typed, the search for the end of a parenthesis stays inside the
\* range (the assertion of get_main_op()), so that the tokens an earlier
\* expression has left in the array are never read.
StaysInside == result # OVERRUN
=============================================================================
