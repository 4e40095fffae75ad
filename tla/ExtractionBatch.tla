-------------------------- MODULE ExtractionBatch --------------------------
(***************************************************************************)
(* What `parallel_extract` promises its caller, with no thread, worker or  *)
(* monitor in sight: every work item is answered exactly once, an answer   *)
(* is never withdrawn, and the batch is returned only when every item has  *)
(* its answer.  WorkerPool implements this specification.                  *)
(***************************************************************************)
EXTENDS Naturals, Sequences

CONSTANTS Items,     \* the plan entries whose decision is Extract
          Outcomes   \* what one extraction may come to

VARIABLES results,   \* per item, the outcomes pushed for it
          returned   \* has the pool handed the results to its caller?

vars == <<results, returned>>

Init ==
  /\ results = [i \in Items |-> <<>>]
  /\ returned = FALSE

Answer(i) ==
  /\ results[i] = <<>>
  /\ \E o \in Outcomes : results' = [results EXCEPT ![i] = <<o>>]
  /\ UNCHANGED returned

Return ==
  /\ \A i \in Items : results[i] # <<>>
  /\ returned' = TRUE
  /\ UNCHANGED results

Next == Return \/ \E i \in Items : Answer(i)

Spec == Init /\ [][Next]_vars
=============================================================================
