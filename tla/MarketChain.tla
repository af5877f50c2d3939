------------------------------ MODULE MarketChain ------------------------------
(***************************************************************************)
(* The chain that Memba's NFT indexer tails, as internal/indexer relies on *)
(* it (the realms are not in this repository): blocks with a hash and the  *)
(* events that ONE token of ONE market engine emitted in them, and a       *)
(* consensus that may still replace the last blocks.                       *)
(***************************************************************************)
EXTENDS Naturals, Sequences

CONSTANTS
    MaxPrice,     \* bound: prices and offered amounts
    MaxOps,       \* bound: market operations in one block
    MaxHeight,    \* bound: blocks
    MaxReorgs,    \* bound: replacements
    ReorgDepth    \* the most blocks one replacement takes back

ASSUME MarketAssumption ==
    /\ MaxPrice \in Nat \ {0} /\ MaxOps \in Nat /\ MaxHeight \in Nat
    /\ MaxReorgs \in Nat /\ ReorgDepth \in Nat

VARIABLES
    chain,      \* the blocks, with the market's state after each
    lastHash,   \* hashes given out
    reorgs,
    saleVolume  \* a v3 engine: every settlement emits Sale

marketVars == <<chain, lastHash, reorgs, saleVolume>>

Prices == 1..MaxPrice
Nothing == 0

(* The token: minted, asked for listed (Nothing: not listed), and the one  *)
(* buyer's open offer on it.                                               *)
Market == [minted : BOOLEAN, listed : 0..MaxPrice, offer : 0..MaxPrice]
NoMarket == [minted |-> FALSE, listed |-> Nothing, offer |-> Nothing]

Event ==
    [type : {"Mint", "NFTListed", "NFTDelisted", "OfferMade", "OfferCancelled",
             "Sale", "PurchaseConfirmed", "OfferAccepted"},
     via : {"none", "buy", "offer"}, price : 0..MaxPrice]

Emit(type, via, price) == [type |-> type, via |-> via, price |-> price]

(* A v3 engine emits Sale for every settlement, and PurchaseConfirmed as a *)
(* companion of a purchase; an older one has no Sale.                      *)
Purchase(price) ==
    (IF saleVolume THEN <<Emit("Sale", "buy", price)>> ELSE <<>>)
        \o <<Emit("PurchaseConfirmed", "none", price)>>
Acceptance(price) ==
    IF saleVolume THEN <<Emit("Sale", "offer", price)>>
    ELSE <<Emit("OfferAccepted", "none", price)>>

(* The one event that stands for a settlement.                             *)
IsSettlement(e) ==
    e.type \in IF saleVolume THEN {"Sale"} ELSE {"PurchaseConfirmed", "OfferAccepted"}

After(events, market) == [events |-> events, market |-> market]

When(condition, outcome) == IF condition THEN {outcome} ELSE {}

(* What one operation on the market can emit, and the market after it.     *)
Operations(m) ==
    When(~m.minted, After(<<Emit("Mint", "none", 0)>>, [m EXCEPT !.minted = TRUE]))
    \cup When(m.listed # Nothing,
              After(<<Emit("NFTDelisted", "none", 0)>>, [m EXCEPT !.listed = Nothing]))
    \cup When(m.listed # Nothing, After(Purchase(m.listed), [m EXCEPT !.listed = Nothing]))
    \cup When(m.offer # Nothing,
              After(<<Emit("OfferCancelled", "none", 0)>>, [m EXCEPT !.offer = Nothing]))
    \cup When(m.offer # Nothing,
              After(Acceptance(m.offer), [m EXCEPT !.listed = Nothing, !.offer = Nothing]))
    \cup UNION {When(m.minted /\ m.listed = Nothing,
                     After(<<Emit("NFTListed", "none", p)>>, [m EXCEPT !.listed = p]))
                \cup When(m.minted /\ m.offer = Nothing,
                     After(<<Emit("OfferMade", "none", p)>>, [m EXCEPT !.offer = p])) :
                p \in Prices}

(* The blocks that can follow a market state.                              *)
Blocks(m) ==
    LET upTo[n \in 0..MaxOps] ==
            IF n = 0 THEN {After(<<>>, m)}
            ELSE upTo[n - 1] \cup
                 UNION {{After(b.events \o o.events, o.market) : o \in Operations(b.market)} :
                        b \in upTo[n - 1]}
    IN upTo[MaxOps]

MarketTypeOK ==
    /\ chain \in Seq([hash : Nat \ {0}, events : Seq(Event), market : Market])
    /\ Len(chain) <= MaxHeight
    /\ lastHash \in Nat /\ reorgs \in 0..MaxReorgs /\ saleVolume \in BOOLEAN

(* Which engine the market realm is does not change.                       *)
MarketInit == chain = <<>> /\ lastHash = 0 /\ reorgs = 0 /\ saleVolume \in BOOLEAN

MarketAt(h) == IF h = 0 THEN NoMarket ELSE chain[h].market
Block(hash, b) == [hash |-> hash, events |-> b.events, market |-> b.market]

Produce(b) ==
    /\ Len(chain) < MaxHeight
    /\ b \in Blocks(MarketAt(Len(chain)))
    /\ chain' = Append(chain, Block(lastHash + 1, b))
    /\ lastHash' = lastHash + 1
    /\ UNCHANGED <<reorgs, saleVolume>>

(* Consensus replaces the last block, or the last two.                     *)
Reorg ==
    /\ reorgs < MaxReorgs
    /\ reorgs' = reorgs + 1
    /\ \/ /\ ReorgDepth >= 1 /\ Len(chain) >= 1
          /\ \E b \in Blocks(MarketAt(Len(chain) - 1)) :
                chain' = [chain EXCEPT ![Len(chain)] = Block(lastHash + 1, b)]
          /\ lastHash' = lastHash + 1
       \/ /\ ReorgDepth >= 2 /\ Len(chain) >= 2
          /\ \E b \in Blocks(MarketAt(Len(chain) - 2)) : \E c \in Blocks(b.market) :
                chain' = [chain EXCEPT ![Len(chain) - 1] = Block(lastHash + 1, b),
                                       ![Len(chain)] = Block(lastHash + 2, c)]
          /\ lastHash' = lastHash + 2
    /\ UNCHANGED saleVolume
===============================================================================
