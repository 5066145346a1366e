------------------------------ MODULE PageSimMC ------------------------------
(* PageSim for TLC: pages are interchangeable. *)
EXTENDS PageSim, TLC

PageSymmetry == Permutations(Pages)

=============================================================================
