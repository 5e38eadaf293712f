-------------------------- MODULE MCThreadScheduler --------------------------
(***************************************************************************)
(* CThreadScheduler with two hashings of the same file, a third hashing    *)
(* task, a completion and the CAICHSyncTask OnLastTask adds.               *)
(***************************************************************************)
EXTENDS ThreadScheduler

CONSTANTS h1, h1b, h2, c1, a1

MCTasks == {h1, h1b, h2, c1, a1}
MCKeys == {"hash f1", "hash f2", "complete f1", "sync"}
MCTypes == {"Hashing", "Completing", "AICH"}
MCKeyOf ==
  [t \in MCTasks |-> CASE t \in {h1, h1b} -> "hash f1"
                       [] t = h2 -> "hash f2"
                       [] t = c1 -> "complete f1"
                       [] t = a1 -> "sync"]
MCTypeOf ==
  [k \in MCKeys |-> CASE k \in {"hash f1", "hash f2"} -> "Hashing"
                      [] k = "complete f1" -> "Completing"
                      [] k = "sync" -> "AICH"]
MCPriority == [t \in MCTasks |-> IF t = c1 THEN 2 ELSE IF t = a1 THEN 0 ELSE 1]
MCFollowUp == [ty \in MCTypes |-> IF ty = "Hashing" THEN {a1} ELSE {}]
==============================================================================
