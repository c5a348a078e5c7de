----------------------------- MODULE MCHostedTasks -----------------------------
(***************************************************************************)
(* Instances of HostedTasks for TLC.                                         *)
(***************************************************************************)
EXTENDS HostedTasks, TLC

Twins == Permutations(Workers)
===============================================================================
