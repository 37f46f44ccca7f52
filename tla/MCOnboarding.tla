---------------------------- MODULE MCOnboarding ----------------------------
(* Onboarding on small instances. Processes are interchangeable.           *)
EXTENDS Onboarding, TLC

Symmetry == Permutations(Procs)
=============================================================================
