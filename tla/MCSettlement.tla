---------------------------- MODULE MCSettlement ----------------------------
(* Instances of Settlement for TLC. *)
EXTENDS Settlement, TLC

Symmetric == Permutations(Process) \cup Permutations(Step) \cup Permutations(Lien)
=============================================================================
