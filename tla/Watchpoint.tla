----------------------------- MODULE Watchpoint -----------------------------
(***************************************************************************)
(* The watchpoint pool of NEMU's simple debugger                           *)
(* (nemu/src/monitor/sdb/watchpoint.c) with its callers in sdb.c:          *)
(* an array of NR_WP nodes threaded on two singly linked lists, `head'     *)
(* (watchpoints in use) and `free_' (the others).                          *)
(*                                                                         *)
(* wp_pool[i].NO is i from init_wp_pool on and is never written again, so  *)
(* a node is its number.                                                   *)
(***************************************************************************)
EXTENDS Integers

CONSTANTS
  NR_WP,      \* watchpoint.c:18
  Exprs,      \* expressions the evaluator accepts
  BadExprs,   \* arguments make_token() rejects
  Values,     \* values of expressions (int)
  Args,       \* what atoi() can make of the argument of `d'
  NULL,
  Blank       \* the contents of str[] in the zeroed static pool

WPs == 0 .. NR_WP - 1

ASSUME PoolAssumption ==
  /\ NR_WP \in Nat \ {0}
  /\ NULL \notin WPs
  /\ Args \subseteq Int
  /\ NULL \notin Args
  /\ 0 \in Values
  /\ Exprs \cap BadExprs = {}
  /\ Blank \notin Exprs

VARIABLES
  next, str, last_value,  \* the fields of wp_pool[]
  head, free_,            \* the two lists
  mem,                    \* value of every expression in the guest state
  reported,               \* numbers printed by the last check_wp
  line,                   \* the last `w' or `d' command and its argument
  pc                      \* "prompt", "check" (an instruction has run) or
                          \* the assertion that ended the process

pool == <<next, head, free_>>
vars == <<next, str, last_value, head, free_, mem, reported, line, pc>>

-----------------------------------------------------------------------------
(* Lists *)

\* S holds everything a walk from p along nx can visit.
ClosedFrom(nx, p, S) ==
  /\ p \in S \cup {NULL}
  /\ \A i \in S : nx[i] \in S \cup {NULL}

\* The nodes a walk from p along nx visits: the least such set.
Reach(nx, p) ==
  {i \in WPs : \A S \in SUBSET WPs : ClosedFrom(nx, p, S) => i \in S}

Active == Reach(next, head)
Free   == Reach(next, free_)

-----------------------------------------------------------------------------

\* main() up to the first prompt; init_wp_pool.
Init ==
  /\ next = [i \in WPs |-> IF i = NR_WP - 1 THEN NULL ELSE i + 1]
  /\ head = NULL
  /\ free_ = 0
  /\ str = [i \in WPs |-> Blank]
  /\ last_value = [i \in WPs |-> 0]
  /\ mem \in [Exprs -> Values]
  /\ reported = {}
  /\ line = <<>>
  /\ pc = "prompt"

\* Mutant: head->next is set after head was overwritten.
NewWp_LateSave ==
  /\ free_ # NULL
  /\ head' = free_
  /\ free_' = next[free_]
  /\ next' = [next EXCEPT ![free_] = free_]

\* new_wp() with a node to give: the first free node becomes the head of
\* the list of watchpoints in use.
NewWp ==
  /\ free_ # NULL
  /\ head' = free_
  /\ free_' = next[free_]
  /\ next' = [next EXCEPT ![free_] = head]

\* `w e'.  cmd_w asserts that new_wp() returned a node and that the
\* expression could be evaluated.
CmdW(e) ==
  /\ pc = "prompt"
  /\ NewWp
  /\ e \in Exprs
  /\ str' = [str EXCEPT ![free_] = e]
  /\ last_value' = [last_value EXCEPT ![free_] = mem[e]]
  /\ line' = <<"w", e>>
  /\ UNCHANGED <<mem, reported, pc>>

\* assert(wp != NULL) fails: every node is in use.
CmdWNoFree ==
  /\ pc = "prompt"
  /\ free_ = NULL
  /\ pc' = "no_wp"
  /\ UNCHANGED <<pool, str, last_value, mem, reported, line>>

\* assert(success == true) fails, after the node was taken and expr()
\* returned 0.
CmdWBad(e) ==
  /\ pc = "prompt"
  /\ NewWp
  /\ e \in BadExprs
  /\ str' = [str EXCEPT ![free_] = e]
  /\ last_value' = [last_value EXCEPT ![free_] = 0]
  /\ pc' = "bad_expr"
  /\ UNCHANGED <<mem, reported, line>>

\* Mutant: the head goes, whatever n is.
FreeHead_Any(n) ==
  /\ head # NULL
  /\ head' = next[head]
  /\ next' = [next EXCEPT ![head] = free_]
  /\ free_' = head

\* free_wp(n), n the head of the list in use.
FreeHead(n) ==
  /\ head # NULL
  /\ n = head
  /\ head' = next[head]
  /\ next' = [next EXCEPT ![head] = free_]
  /\ free_' = head

\* Mutant: the node is unlinked and never given back.
FreeInner_Leak(n) ==
  /\ head # NULL
  /\ n # head
  /\ \E pre \in Active :
       /\ next[pre] = n
       /\ next' = [next EXCEPT ![pre] = next[n]]
  /\ UNCHANGED <<head, free_>>

\* free_wp(n), n behind node pre of the list in use.
FreeInner(n) ==
  /\ head # NULL
  /\ n # head
  /\ \E pre \in Active :
       /\ next[pre] = n
       /\ next' = [next EXCEPT ![pre] = next[n], ![n] = free_]
  /\ free_' = n
  /\ head' = head

\* free_wp(n) prints a message: the list is empty or the walk found no n.
FreeNone(n) ==
  /\ n \notin Active
  /\ UNCHANGED pool

FreeWp(n) == FreeHead(n) \/ FreeInner(n) \/ FreeNone(n)

\* `d n'
CmdD(n) ==
  /\ pc = "prompt"
  /\ FreeWp(n)
  /\ line' = <<"d", n>>
  /\ UNCHANGED <<str, last_value, mem, reported, pc>>

\* One guest instruction, under `si' or `c'; trace_and_difftest follows.
Instruction ==
  /\ pc = "prompt"
  /\ mem' \in [Exprs -> Values]
  /\ pc' = "check"
  /\ UNCHANGED <<pool, str, last_value, reported, line>>

\* Mutant: last_value is not brought up to date.
CheckWp_Stale ==
  /\ reported' = {i \in Active : mem[str[i]] # last_value[i]}
  /\ UNCHANGED last_value

\* check_wp(): every watchpoint in use is evaluated, printed when its value
\* is not the last one, and brought up to date.
CheckWp ==
  /\ reported' = {i \in Active : mem[str[i]] # last_value[i]}
  /\ last_value' = [i \in WPs |-> IF i \in Active THEN mem[str[i]]
                                                  ELSE last_value[i]]

Check ==
  /\ pc = "check"
  /\ CheckWp
  /\ pc' = "prompt"
  /\ UNCHANGED <<pool, str, mem, line>>

Next ==
  \/ \E e \in Exprs : CmdW(e)
  \/ CmdWNoFree
  \/ \E e \in BadExprs : CmdWBad(e)
  \/ \E n \in Args : CmdD(n)
  \/ Instruction
  \/ Check

Spec == Init /\ [][Next]_vars

-----------------------------------------------------------------------------
(* The inductive invariant of the pool *)

\* The nodes of S form one chain along nx: it starts at p, visits all of S
\* and stops, because the ranks r grow along it.
Chain(nx, p, S, r) ==
  /\ p \in S \cup {NULL}
  /\ \A i \in S : nx[i] \in S \cup {NULL}
  /\ \A i \in S : i = p \/ \E j \in S : nx[j] = i
  /\ \A i \in S : nx[i] # NULL => nx[i] # p /\ r[i] < r[nx[i]]
  /\ \A i, j \in S : nx[i] = nx[j] /\ nx[i] # NULL => i = j

\* `head' and `free_' start two chains that share out the pool; the ranks
\* come from R.
PoolInv(R) ==
  \E A \in SUBSET WPs, r \in [WPs -> R] :
    /\ Chain(next, head, A, r)
    /\ Chain(next, free_, WPs \ A, r)

-----------------------------------------------------------------------------
(* Properties *)

TypeOK ==
  /\ next \in [WPs -> WPs \cup {NULL}]
  /\ head \in WPs \cup {NULL}
  /\ free_ \in WPs \cup {NULL}
  /\ str \in [WPs -> Exprs \cup BadExprs \cup {Blank}]
  /\ last_value \in [WPs -> Values]
  /\ mem \in [Exprs -> Values]
  /\ reported \subseteq WPs
  /\ line \in {<<>>} \cup ({"w"} \X Exprs) \cup ({"d"} \X Args)
  /\ pc \in {"prompt", "check", "no_wp", "bad_expr"}

\* However watchpoints are set and deleted, every node stays on exactly one
\* of the two lists: none is leaked, none is on both.
PoolPartition ==
  /\ Active \cup Free = WPs
  /\ Active \cap Free = {}

\* No list ever loops back: the walks of wp_display, free_wp and check_wp
\* over `head' end.
ListsEnd == \A i \in WPs : i \notin Reach(next, next[i])

\* At the prompt every watchpoint in use holds the present value of its
\* expression, so the next check reports what the next instruction changes
\* and nothing older (a deleted and reused node included).
WatchesCurrent ==
  pc = "prompt" =>
    \A i \in Active : str[i] \in Exprs /\ last_value[i] = mem[str[i]]

\* The pool of linked nodes does what a map from numbers to watched
\* expressions would do.
watched == [i \in Active |-> [expr |-> str[i], last |-> last_value[i]]]

Abs == INSTANCE WatchpointSet
AbsSpec == Abs!Spec

=============================================================================
