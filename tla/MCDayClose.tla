------------------------------ MODULE MCDayClose ------------------------------
(* Instances of DayClose for TLC. *)
EXTENDS DayClose, TLC

OneBoard == {[game |-> "barricade", day |-> 0]}
TwoDays == {[game |-> "barricade", day |-> d] : d \in 0..1}

DayCloseSymmetry == Permutations(Addrs)
===============================================================================
