------------------------------- MODULE MCExpr -------------------------------
(***************************************************************************)
(* Expressions of up to seven tokens: two binary operators with a          *)
(* parenthesis around one of them, three without.  Words of eight bits.    *)
(***************************************************************************)
EXTENDS Expr

MCMemRead(a) == (7 * a + 1) % Words
=============================================================================
