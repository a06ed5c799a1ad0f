----------------------------- MODULE MCKeyboard -----------------------------
(***************************************************************************)
(* A ring of four places holds three keys: it can be empty, wrapped and    *)
(* full, and a key can find no place.                                      *)
(***************************************************************************)
EXTENDS Keyboard
=============================================================================
