------------------------------ MODULE ListOps -------------------------------
(*****************************************************************************)
(* The list operators of the models that SequencesExt does not have.         *)
(*****************************************************************************)
EXTENDS Naturals, Sequences, SequencesExt

\* The elements of s that are in S, in the order of s: the collecting loops.
Filter(s, S) ==
  LET kept[k \in 0..Len(s)] ==
        IF k = 0 THEN <<>>
        ELSE IF s[k] \in S THEN Append(kept[k - 1], s[k]) ELSE kept[k - 1]
  IN kept[Len(s)]

\* Where the first x of s is.
Position(s, x) ==
  CHOOSE k \in DOMAIN s : s[k] = x /\ \A j \in DOMAIN s : s[j] = x => k <= j

\* x is in s at most once.
Once(s, x) == \A i, j \in DOMAIN s : s[i] = x /\ s[j] = x => i = j
==============================================================================
