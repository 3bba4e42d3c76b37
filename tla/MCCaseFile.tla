----------------------------- MODULE MCCaseFile -----------------------------
(* Model values for the checks of CaseFile. *)
EXTENDS CaseFile, TLC

Symmetry == Permutations(Handlers) \cup Permutations(Readers) \cup Permutations(Runs)
=============================================================================
