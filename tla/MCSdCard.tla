------------------------------ MODULE MCSdCard ------------------------------
(***************************************************************************)
(* Two blocks of two words: a request can name one block, the other or     *)
(* both, a list can end inside a block, between two and before the first,  *)
(* and the image can end between the blocks.                               *)
(***************************************************************************)
EXTENDS SdCard
=============================================================================
