--------------------------- MODULE MCTelegramRunner ---------------------------
(* TelegramRunner on small instances. *)
EXTENDS TelegramRunner, TLC

MCSymmetry == Permutations(Children) \cup Permutations(Appliers)
===============================================================================
