---------------------------- MODULE MCCacheStore ----------------------------
(***************************************************************************)
(* A cache shared by two processes of one build and one of a later build.  *)
(***************************************************************************)
EXTENDS CacheStore, TLC

CONSTANTS p1, p2, p3

\* p3 runs a later build of the tool.
MCRecipeOf == (p1 :> "old") @@ (p2 :> "old") @@ (p3 :> "new")

Refreshed(recipe, input, grade, facts, subgraphs, at) ==
  [recipe |-> recipe, fingerprints |-> "manifests", input |-> input,
   grade |-> grade, facts |-> facts, subgraphs |-> subgraphs,
   created |-> at, mtimes |-> at]

\* A refresh resolves one tier; two of the three are enough to share a candidate.
MCTierSets == {{"name"}, {"scope"}}

Twins == Permutations({p1, p2})

\* The old build publishes two states of the sources: the first for the name
\* tier only, by a refresh without subgraphs, by a later one with them and by one
\* that extracted other facts, the second complete and partial.  The new build
\* publishes the second one.
MCCandidates == {
  Refreshed("old", "before", "complete", "f1", FALSE, 1),
  Refreshed("old", "before", "complete", "f1", TRUE, 2),
  Refreshed("old", "before", "complete", "f2", TRUE, 3),
  Refreshed("old", "after", "complete", "f3", TRUE, 3),
  Refreshed("old", "after", "partial", "f4", TRUE, 3),
  Refreshed("new", "after", "complete", "f3", TRUE, 3)}
=============================================================================
