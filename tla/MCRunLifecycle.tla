--------------------------- MODULE MCRunLifecycle ---------------------------
(* RunLifecycle for TLC: which of its sets are interchangeable. *)
EXTENDS RunLifecycle, TLC

Symmetry == Permutations(Runs) \cup Permutations(Users) \cup Permutations(Handlers)
=============================================================================
