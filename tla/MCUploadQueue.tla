--------------------------- MODULE MCUploadQueue ---------------------------
(***************************************************************************)
(* A plain client, a LowID client and a source, all after the same file.   *)
(***************************************************************************)
EXTENDS UploadQueue

CONSTANTS high, low, source, file

MCFileOf == [c \in Clients |-> file]
=============================================================================
