---------------------------- MODULE MCLiveControl ----------------------------
(* Symmetry for model checking LiveControl: threads differ in nothing but their
   places, ids in nothing but what happened to them. *)
EXTENDS LiveControl, TLC
Symmetry == Permutations(Callers) \union Permutations(Ids)
===============================================================================
