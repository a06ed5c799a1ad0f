----------------------------- MODULE MCThreadOs -----------------------------
(***************************************************************************)
(* Three threads, on one processor and on two: with two, one processor has *)
(* two threads to take turns and the other one has one.                    *)
(***************************************************************************)
EXTENDS ThreadOs
=============================================================================
