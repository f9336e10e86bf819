----------------------------- MODULE MCSupervisor -----------------------------
(* Supervisor on small instances. *)
EXTENDS Supervisor, TLC

MCSymmetry == Permutations(Children) \cup Permutations(Appliers)
===============================================================================
