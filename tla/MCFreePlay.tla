------------------------------ MODULE MCFreePlay ------------------------------
(* Instances of FreePlay for TLC. *)
EXTENDS FreePlay, TLC

OneDelay == <<1>>
===============================================================================
