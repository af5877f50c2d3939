------------------------------- MODULE SalesFeed -------------------------------
(***************************************************************************)
(* What the NFT indexer promises about money: of the sales the chain has   *)
(* made final, a prefix is counted, in order, each exactly once.           *)
(***************************************************************************)
EXTENDS Naturals, Sequences

CONSTANT FeedPrices

VARIABLES
    final,    \* the prices of the sales the chain has made final, in order
    counted,  \* how many of them are counted
    volume    \* the volume served

feedVars == <<final, counted, volume>>

FeedInit == final = <<>> /\ counted = 0 /\ volume = 0

Finalize ==
    /\ Len(final') >= Len(final)
    /\ SubSeq(final', 1, Len(final)) = final
    /\ final' \in Seq(FeedPrices)
    /\ UNCHANGED <<counted, volume>>

Count ==
    /\ counted < Len(final)
    /\ counted' = counted + 1
    /\ volume' = volume + final[counted + 1]
    /\ UNCHANGED final

FeedSpec == FeedInit /\ [][Finalize \/ Count]_feedVars
===============================================================================
