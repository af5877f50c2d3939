------------------------------ MODULE MCNftTailer ------------------------------
(* Instances of NftTailer for TLC. *)
EXTENDS NftTailer
===============================================================================
