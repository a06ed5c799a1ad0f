----------------------------- MODULE MCMonitor -----------------------------
(***************************************************************************)
(* One watched expression with two values and a pool of two nodes are      *)
(* enough for a watchpoint to fire, be deleted, be reused and run out.     *)
(* `si 2' is the shortest run in which a reason to stop can come before    *)
(* the end of the count.                                                   *)
(***************************************************************************)
EXTENDS Monitor

CONSTANTS e1, bad

MCExprs    == {e1}
MCBadExprs == {bad}
MCValues   == {0, 1}
MCArgs     == 0 .. NR_WP - 1
MCSteps    == 0 .. 2
=============================================================================
