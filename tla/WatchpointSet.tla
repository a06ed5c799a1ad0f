--------------------------- MODULE WatchpointSet ---------------------------
(***************************************************************************)
(* What the watchpoints of NEMU's debugger promise, without the linked     *)
(* lists of watchpoint.c: a partial map from watchpoint numbers to an      *)
(* expression and the value it had when it was last looked at.             *)
(***************************************************************************)
EXTENDS Integers

CONSTANTS
  NR_WP,      \* number of watchpoints the pool holds
  Exprs,      \* expressions the evaluator accepts
  BadExprs,   \* arguments of `w' the tokenizer rejects
  Values,     \* values an expression can have
  Args        \* what atoi() can make of the argument of `d'

VARIABLES
  watched,    \* number |-> [expr, last], for the numbers in use
  mem,        \* value of every expression in the current guest state
  reported,   \* numbers printed by the last check
  line,       \* the last `w' or `d' command and its argument
  pc          \* where the emulator is

vars == <<watched, mem, reported, line, pc>>

Numbers == 0 .. NR_WP - 1

Entry(e, v) == [expr |-> e, last |-> v]

Init ==
  /\ watched = [n \in {} |-> Entry(0, 0)]
  /\ mem \in [Exprs -> Values]
  /\ reported = {}
  /\ line = <<>>
  /\ pc = "prompt"

\* `w e' gives e a number nobody uses and remembers its present value.
Set(e) ==
  /\ pc = "prompt"
  /\ e \in Exprs
  /\ \E n \in Numbers \ DOMAIN watched :
       watched' = [i \in DOMAIN watched \cup {n} |->
                     IF i = n THEN Entry(e, mem[e]) ELSE watched[i]]
  /\ line' = <<"w", e>>
  /\ UNCHANGED <<mem, reported, pc>>

\* `w' ends the emulator: every number is in use ...
SetExhausted ==
  /\ pc = "prompt"
  /\ DOMAIN watched = Numbers
  /\ pc' = "no_wp"
  /\ UNCHANGED <<watched, mem, reported, line>>

\* ... or the expression is not one; what the map holds then is of no use.
SetBad ==
  /\ pc = "prompt"
  /\ DOMAIN watched # Numbers
  /\ pc' = "bad_expr"
  /\ \E e \in BadExprs, v \in Values, n \in Numbers \ DOMAIN watched :
       watched' = [i \in DOMAIN watched \cup {n} |->
                     IF i = n THEN Entry(e, v) ELSE watched[i]]
  /\ UNCHANGED <<mem, reported, line>>

\* `d n' forgets n, whether or not n was in use, and nothing else.
Delete(n) ==
  /\ pc = "prompt"
  /\ watched' = [i \in DOMAIN watched \ {n} |-> watched[i]]
  /\ line' = <<"d", n>>
  /\ UNCHANGED <<mem, reported, pc>>

\* An instruction changes the guest state; a check follows it.
Instruction ==
  /\ pc = "prompt"
  /\ mem' \in [Exprs -> Values]
  /\ pc' = "check"
  /\ UNCHANGED <<watched, reported, line>>

\* The check reports exactly the watchpoints whose value moved and
\* remembers the new values.
Check ==
  /\ pc = "check"
  /\ reported' = {n \in DOMAIN watched :
                    watched[n].last # mem[watched[n].expr]}
  /\ watched' = [n \in DOMAIN watched |->
                   Entry(watched[n].expr, mem[watched[n].expr])]
  /\ pc' = "prompt"
  /\ UNCHANGED <<mem, line>>

Next ==
  \/ \E e \in Exprs : Set(e)
  \/ SetExhausted
  \/ SetBad
  \/ \E n \in Args : Delete(n)
  \/ Instruction
  \/ Check

Spec == Init /\ [][Next]_vars

=============================================================================
