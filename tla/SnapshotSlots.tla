--------------------------- MODULE SnapshotSlots ---------------------------
(***************************************************************************)
(* What the project cache promises the commands that share it: one         *)
(* snapshot per (resolver tier, completeness) slot, replaced whole by a    *)
(* publication and emptied whole by an invalidation.  No transaction,      *)
(* table, row id or garbage collection is visible here.                    *)
(***************************************************************************)
CONSTANTS Tiers,       \* resolver tiers
          Grades,      \* completeness classes
          Snapshots,   \* what a slot may hold: a candidate id and its facts
          Empty        \* a slot nothing was ever published to

VARIABLE slot

Slots == Tiers \X Grades

Init == slot = [s \in Slots |-> Empty]

\* A publication fills the slots of its tiers, all in the completeness class of its
\* candidate, and leaves every other slot alone.  It is refused when another slot
\* already holds the same candidate with different facts.
Publish(grade, snapshot) ==
  /\ \A s \in Slots :
       slot[s] # Empty /\ slot[s].candidate = snapshot.candidate
         => slot[s] = snapshot
  /\ DOMAIN slot' = Slots
  /\ \A s \in Slots : slot'[s] # slot[s] => s[2] = grade /\ slot'[s] = snapshot

Invalidate == slot' = [s \in Slots |-> Empty]

\* To publish what a slot already holds is invisible here.
Next ==
  /\ slot' # slot
  /\ \/ Invalidate
     \/ \E grade \in Grades, snapshot \in Snapshots : Publish(grade, snapshot)

Spec == Init /\ [][Next]_slot
=============================================================================
