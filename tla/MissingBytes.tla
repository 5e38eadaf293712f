----------------------------- MODULE MissingBytes -----------------------------
(***************************************************************************)
(* What CGapList promises its callers: a set of missing bytes of a file to *)
(* which a range is added (AddGap) or from which one is taken (FillGap).   *)
(* A call takes effect once, when it is made; nothing changes the set      *)
(* while the call runs, when it returns, or when a query is asked.         *)
(***************************************************************************)
EXTENDS Integers

CONSTANT FileSize

VARIABLES
  missing,   \* the missing bytes
  call       \* the method that is running: "add", "fill", or "idle"

vars == <<missing, call>>

AllBytes == 0..(FileSize - 1)

\* Init(fileSize, isEmpty)
Init == (missing = AllBytes \/ missing = {}) /\ call = "idle"

AddRange ==
  /\ call = "idle" /\ call' = "add"
  /\ \E s, e \in AllBytes : s <= e /\ missing' = missing \cup (s..e)

FillRange ==
  /\ call = "idle" /\ call' = "fill"
  /\ \E s, e \in AllBytes : s <= e /\ missing' = missing \ (s..e)

Return == call # "idle" /\ call' = "idle" /\ UNCHANGED missing

Next == AddRange \/ FillRange \/ Return

Spec == Init /\ [][Next]_vars
===============================================================================
