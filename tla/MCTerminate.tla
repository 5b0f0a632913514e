---------------------------- MODULE MCTerminate ----------------------------
(* Instances of Terminate for TLC. *)
EXTENDS Terminate, TLC

\* Every instance belongs to the same group.
OneGroup == [i \in Instance |-> CHOOSE g \in Group : TRUE]

Symmetry == Permutations(Proc) \cup Permutations(Instance)
=============================================================================
