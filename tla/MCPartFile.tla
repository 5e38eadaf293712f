---------------------------- MODULE MCPartFile ----------------------------
(***************************************************************************)
(* A file of two parts: the first has two blocks, the second has one.      *)
(***************************************************************************)
EXTENDS PartFile

MCPartOf == <<1, 1, 2>>
==============================================================================
