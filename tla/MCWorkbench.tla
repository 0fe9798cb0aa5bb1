---------------------------- MODULE MCWorkbench -----------------------------
(* Workbench for TLC: interchangeable tabs, workers, drafts and keys.  Used  *)
(* by the safety runs only; liveness is checked without symmetry.            *)
EXTENDS Workbench, TLC

Symmetry ==
  Permutations(Reviewers) \cup Permutations(Workers) \cup Permutations(Drafts)
    \cup Permutations(Keys)

=============================================================================
