---------------------------- MODULE MCWatchpoint ----------------------------
(***************************************************************************)
(* A pool of NR_WP nodes small enough for TLC: three give a list with a    *)
(* node between its head and its last.  The arguments of `d' include       *)
(* numbers that are not in the pool.                                       *)
(***************************************************************************)
EXTENDS Watchpoint

CONSTANTS e1, e2, bad

MCExprs    == {e1, e2}
MCBadExprs == {bad}
MCValues   == {0, 1}
MCArgs     == -1 .. NR_WP
=============================================================================
