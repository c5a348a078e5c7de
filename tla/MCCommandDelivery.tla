-------------------------- MODULE MCCommandDelivery --------------------------
(* CommandDelivery for TLC: deliveries are alike. *)
EXTENDS CommandDelivery, TLC

Twins == Permutations(Attempts)
===============================================================================
