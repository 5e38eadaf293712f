------------------------------ MODULE MCPartMet ------------------------------
(***************************************************************************)
(* A temp directory with as many numbers as there are downloads.           *)
(***************************************************************************)
EXTENDS PartMet

CONSTANTS f1, f2

TwoFiles == {f1, f2}
==============================================================================
