------------------------------ MODULE MCGapList ------------------------------
(***************************************************************************)
(* A file of a few bytes in parts of three, the last one shorter.          *)
(***************************************************************************)
EXTENDS GapList
==============================================================================
