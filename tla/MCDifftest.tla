----------------------------- MODULE MCDifftest -----------------------------
(***************************************************************************)
(* Every program of six instructions, with groups of three: a group can    *)
(* hold devices in any place, and be preceded or followed by others.  The  *)
(* image takes three packets, and two packets are spoiled anywhere.        *)
(***************************************************************************)
EXTENDS QemuDifftest
=============================================================================
