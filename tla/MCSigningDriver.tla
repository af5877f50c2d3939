---------------------------- MODULE MCSigningDriver ----------------------------
(* Instances of SigningDriver for TLC. *)
EXTENDS SigningDriver, TLC

SigningSymmetry == Permutations(Pages) \cup Permutations(Attempts)
===============================================================================
