-------------------------- MODULE MCConditionGraph --------------------------
(* Instances of ConditionGraph for TLC. *)
EXTENDS ConditionGraph, TLC
CONSTANTS a, b, c, none
Names == {a, b, c}
Symmetry == Permutations(Names)
=============================================================================
