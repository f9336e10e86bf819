-------------------------------- MODULE MCPanel --------------------------------
(* Panel on small instances. *)
EXTENDS Panel, TLC

MCSymmetry == Permutations(Users) \cup Permutations(Handlers)
===============================================================================
