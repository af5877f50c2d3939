------------------------------- MODULE NftTailer -------------------------------
(***************************************************************************)
(* The NFT event indexer (backend/internal/indexer: tailer.go, dispatch.go, *)
(* reorg.go, raw_ledger.go) for one token of one collection: one goroutine *)
(* that follows the chain behind a cursor, applies the events of each      *)
(* block to the projection tables, and rolls back the cursor's block when  *)
(* its hash changed.                                                       *)
(*                                                                         *)
(* Each SQL transaction and each answer of the node is a step: a failed    *)
(* write, a panic or a restart may end the cycle between any two, and the  *)
(* chain goes on meanwhile.                                                *)
(***************************************************************************)
EXTENDS MarketChain, SequencesExt

CONSTANTS
    Confirmations,      \* the numbers of confirmations it may be set to
    MaxBlocksPerCycle,
    Realms,             \* realms that are ever watched (the list only grows)
    MaxReadable,        \* bound: blocks with their confirmations
    MaxTroubles,        \* bound: interrupted cycles, reorgs and realms added
    MaxTotal            \* bound: readable blocks and troubles together

ASSUME TailerAssumption ==
    /\ Confirmations \subseteq Nat /\ MaxBlocksPerCycle \in Nat \ {0}
    /\ Realms \in Nat \ {0} /\ MaxReadable \in Nat
    /\ MaxTroubles \in Nat /\ MaxTotal \in Nat

VARIABLES
    raw, sales, listings, offers, history,  \* the event tables
    token,       \* nft_tokens: the price the token is listed at, or Nothing
    collection,  \* nft_collections: the aggregates
    cursors,     \* nft_indexer_state, by realm
    watched,     \* the realms 1..watched are watched
    tail,        \* the goroutine
    confirmations,  \* blocks it stays behind the tip
    faults

tableVars == <<raw, sales, listings, offers, history, token, collection>>
vars == <<marketVars, tableVars, cursors, watched, tail, confirmations, faults>>

NoHash == 0
NoRow == [block |-> 0, hash |-> NoHash]
Places == {"idle", "check", "rollback", "next", "fetch", "dispatch", "apply",
           "resolve", "save"}

TypeOK ==
    /\ MarketTypeOK
    /\ raw \subseteq [block : Nat, index : Nat, event : Event]
    /\ sales \subseteq [block : Nat, index : Nat, price : Prices]
    /\ listings \subseteq [block : Nat, index : Nat, open : BOOLEAN]
    /\ offers \subseteq [block : Nat, index : Nat, amount : Prices,
                         status : {"active", "cancelled", "accepted"}]
    /\ history \in Seq([block : Nat, kind : {"mint", "sale"}])
    /\ token \in 0..MaxPrice
    /\ collection \in [volume : Nat, sales : Nat, last : 0..MaxPrice]
    /\ cursors \in [1..Realms -> [block : Nat, hash : Nat]]
    /\ watched \in 1..Realms
    /\ tail.at \in Places /\ tail.events \in Seq(Event)
    /\ confirmations \in Confirmations /\ faults \in Nat
    \* the UNIQUE keys of the tables
    /\ \A T \in {raw, sales, listings} : \A r, s \in T :
          r.block = s.block /\ r.index = s.index => r = s
    /\ \A r, s \in offers : r.block = s.block => r = s

Idle == [at |-> "idle", h |-> 0, end |-> 0, latest |-> 0, hash |-> NoHash,
         events |-> <<>>, i |-> 0, realm |-> 0]

Init ==
    /\ MarketInit
    /\ raw = {} /\ sales = {} /\ listings = {} /\ offers = {} /\ history = <<>>
    /\ token = Nothing
    /\ collection = [volume |-> 0, sales |-> 0, last |-> Nothing]
    /\ cursors = [r \in 1..Realms |-> NoRow]
    /\ watched = 1
    /\ tail = Idle
    /\ confirmations \in Confirmations
    /\ faults = 0

At(place) == tail.at = place
Goto(place) == tail' = [tail EXCEPT !.at = place]

-------------------------------------------------------------------------------
(* tailOnce                                                                *)

(* The least cursor of the watched realms, with the hash of the first row  *)
(* that holds it.                                                          *)
LoadCursor ==
    LET least == Min({cursors[r].block : r \in 1..watched})
    IN  cursors[Min({r \in 1..watched : cursors[r].block = least})]

LatestCursor ==
    LET most == Max({cursors[r].block : r \in 1..watched})
    IN  cursors[Max({r \in 1..watched : cursors[r].block = most})]

ConfirmedUnbounded(latest, cursor) == Max({cursor, latest})
ConfirmedEnd(latest, cursor) ==
    LET safeTip == IF latest < confirmations THEN 0 ELSE latest - confirmations
    IN  Max({cursor, Min({safeTip, cursor + MaxBlocksPerCycle})})

Poll ==
    /\ At("idle")
    /\ tail' = [Idle EXCEPT !.at = "check", !.latest = Len(chain),
                   !.h = LoadCursor.block, !.hash = LoadCursor.hash]
    /\ UNCHANGED <<marketVars, tableVars, cursors, watched, confirmations, faults>>

NotRewound(h) == h
Rewound(h) == h - 1

StartAt(cursor) ==
    tail' = [tail EXCEPT !.at = "next", !.h = cursor, !.end = ConfirmedEnd(tail.latest, cursor)]

CheckCursor ==
    /\ At("check")
    /\ IF tail.hash = NoHash \/ chain[tail.h].hash = tail.hash
       THEN StartAt(tail.h)
       ELSE Goto("rollback")
    /\ UNCHANGED <<marketVars, tableVars, cursors, watched, confirmations, faults>>

(* rollbackFromHeight, one SQL transaction: the aggregates are computed    *)
(* again from the sales that are left, when any was deleted.               *)
Below(T, h) == {row \in T : row.block < h}

(* The same for the history, which keeps its order (a recursive function   *)
(* and not SelectSeq, which nothing can be proved about).                  *)
RowsBelow(rows, h) ==
    LET upTo[n \in 0..Len(rows)] ==
            IF n = 0 THEN <<>>
            ELSE IF rows[n].block < h THEN Append(upTo[n - 1], rows[n]) ELSE upTo[n - 1]
    IN upTo[Len(rows)]

Volume(S) == MapThenSumSet(LAMBDA s : s.price, S)
LastPrice(S) ==
    IF S = {} THEN Nothing
    ELSE (CHOOSE s \in S : \A o \in S :
             o.block < s.block \/ (o.block = s.block /\ o.index <= s.index)).price
Aggregates(S) == [volume |-> Volume(S), sales |-> Cardinality(S), last |-> LastPrice(S)]

AggregatesKept(h) == collection
AggregatesAfterRollback(h) ==
    IF Below(sales, h) = sales THEN collection ELSE Aggregates(Below(sales, h))

RollbackFromHeight ==
    LET h == tail.h IN
    /\ At("rollback")
    /\ raw' = Below(raw, h)
    /\ sales' = Below(sales, h)
    /\ listings' = Below(listings, h)
    /\ offers' = Below(offers, h)
    /\ history' = RowsBelow(history, h)
    /\ collection' = AggregatesAfterRollback(h)
    /\ StartAt(Rewound(h))
    /\ UNCHANGED <<marketVars, token, cursors, watched, confirmations, faults>>

CycleEnds ==
    /\ At("next") /\ tail.h >= tail.end
    /\ tail' = Idle
    /\ UNCHANGED <<marketVars, tableVars, cursors, watched, confirmations, faults>>

FetchHash ==
    /\ At("next") /\ tail.h < tail.end
    /\ tail' = [tail EXCEPT !.at = "fetch", !.h = @ + 1, !.hash = chain[tail.h + 1].hash]
    /\ UNCHANGED <<marketVars, tableVars, cursors, watched, confirmations, faults>>

FetchEvents ==
    /\ At("fetch")
    /\ tail' = [tail EXCEPT !.at = "dispatch", !.events = chain[tail.h].events, !.i = 1]
    /\ UNCHANGED <<marketVars, tableVars, cursors, watched, confirmations, faults>>

-------------------------------------------------------------------------------
(* dispatchEventScoped                                                     *)

InsertAlways(T, row) == T \cup {row}
InsertOncePerBlock(T, row) ==
    IF \E r \in T : r.block = row.block THEN T ELSE T \cup {row}
InsertOrIgnore(T, row) ==
    IF \E r \in T : r.block = row.block /\ r.index = row.index THEN T ELSE T \cup {row}

RecordRawEvent ==
    /\ At("dispatch") /\ tail.i <= Len(tail.events)
    /\ raw' = InsertOrIgnore(raw,
                [block |-> tail.h, index |-> tail.i, event |-> tail.events[tail.i]])
    /\ Goto("apply")
    /\ UNCHANGED <<marketVars, sales, listings, offers, history, token, collection,
                   cursors, watched, confirmations, faults>>

(* The events that settle a sale, and those that resolve an offer after.   *)
SettlesAnyEngine(e) == e.type \in {"Sale", "PurchaseConfirmed", "OfferAccepted"}
Settles(e) ==
    \/ e.type = "Sale"
    \/ ~saleVolume /\ e.type \in {"PurchaseConfirmed", "OfferAccepted"}
ResolvesAfter(e) == (e.type = "Sale" /\ e.via = "offer") \/ e.type = "OfferAccepted"

Applied(e) ==
    tail' = IF ResolvesAfter(e) THEN [tail EXCEPT !.at = "resolve"]
            ELSE [tail EXCEPT !.at = "dispatch", !.i = @ + 1]

Current == tail.events[tail.i]

ListingsClosed ==
    {IF l.open THEN [l EXCEPT !.open = FALSE] ELSE l : l \in listings}

ApplyMint ==
    /\ At("apply") /\ Current.type = "Mint"
    /\ history' = Append(history, [block |-> tail.h, kind |-> "mint"])
    /\ Applied(Current)
    /\ UNCHANGED <<marketVars, raw, sales, listings, offers, token, collection,
                   cursors, watched, confirmations, faults>>

ApplyNFTListed ==
    /\ At("apply") /\ Current.type = "NFTListed"
    /\ listings' = InsertOrIgnore(listings,
                     [block |-> tail.h, index |-> tail.i, open |-> TRUE])
    /\ token' = Current.price
    /\ Applied(Current)
    /\ UNCHANGED <<marketVars, raw, sales, offers, history, collection,
                   cursors, watched, confirmations, faults>>

DelistedKeepsToken ==
    /\ At("apply") /\ Current.type = "NFTDelisted"
    /\ listings' = ListingsClosed
    /\ Applied(Current)
    /\ UNCHANGED <<marketVars, raw, sales, offers, history, token, collection,
                   cursors, watched, confirmations, faults>>
ApplyNFTDelisted ==
    /\ At("apply") /\ Current.type = "NFTDelisted"
    /\ listings' = ListingsClosed
    /\ token' = Nothing
    /\ Applied(Current)
    /\ UNCHANGED <<marketVars, raw, sales, offers, history, collection,
                   cursors, watched, confirmations, faults>>

(* One offer of a buyer for a token in one block (the table's UNIQUE key). *)
OfferKnown == \E o \in offers : o.block = tail.h

ApplyOfferMade ==
    /\ At("apply") /\ Current.type = "OfferMade"
    /\ offers' = IF OfferKnown THEN offers
                 ELSE offers \cup {[block |-> tail.h, index |-> tail.i,
                                    amount |-> Current.price, status |-> "active"]}
    /\ Applied(Current)
    /\ UNCHANGED <<marketVars, raw, sales, listings, history, token, collection,
                   cursors, watched, confirmations, faults>>

(* The most recent active offer.                                           *)
Resolve(status) ==
    {IF /\ o.status = "active"
        /\ \A p \in offers : p.status = "active" => p.block <= o.block
     THEN [o EXCEPT !.status = status] ELSE o : o \in offers}

ApplyOfferCancelled ==
    /\ At("apply") /\ Current.type = "OfferCancelled"
    /\ offers' = Resolve("cancelled")
    /\ Applied(Current)
    /\ UNCHANGED <<marketVars, raw, sales, listings, history, token, collection,
                   cursors, watched, confirmations, faults>>

(* settleSale, one SQL transaction: nothing is changed for a sale that is  *)
(* in the table already.                                                   *)
SaleKnownInBlock == \E s \in sales : s.block = tail.h
SaleKnown == \E s \in sales : s.block = tail.h /\ s.index = tail.i

SettleSale ==
    /\ At("apply") /\ Settles(Current)
    /\ IF SaleKnown
       THEN UNCHANGED <<sales, listings, token, history, collection>>
       ELSE /\ sales' = InsertOrIgnore(sales,
                  [block |-> tail.h, index |-> tail.i, price |-> Current.price])
            /\ listings' = ListingsClosed
            /\ token' = Nothing
            /\ history' = Append(history, [block |-> tail.h, kind |-> "sale"])
            /\ collection' = [volume |-> collection.volume + Current.price,
                              sales |-> collection.sales + 1, last |-> Current.price]
    /\ Applied(Current)
    /\ UNCHANGED <<marketVars, raw, offers, cursors, watched, confirmations, faults>>

(* The companion event of an engine whose volume comes from Sale.          *)
SkipCompanion ==
    /\ At("apply") /\ Current.type \in {"PurchaseConfirmed", "OfferAccepted"}
    /\ ~Settles(Current)
    /\ Applied(Current)
    /\ UNCHANGED <<marketVars, tableVars, cursors, watched, confirmations, faults>>

(* The offer of an accepted sale is resolved in a transaction of its own.  *)
ResolveAccepted ==
    /\ At("resolve")
    /\ offers' = Resolve("accepted")
    /\ tail' = [tail EXCEPT !.at = "dispatch", !.i = @ + 1]
    /\ UNCHANGED <<marketVars, raw, sales, listings, history, token, collection,
                   cursors, watched, confirmations, faults>>

BlockApplied ==
    /\ At("dispatch") /\ tail.i > Len(tail.events)
    /\ tail' = [tail EXCEPT !.at = "save", !.realm = 1]
    /\ UNCHANGED <<marketVars, tableVars, cursors, watched, confirmations, faults>>

(* saveCursor: one statement for each watched realm.                       *)
SaveCursor ==
    /\ At("save")
    /\ cursors' = [cursors EXCEPT ![tail.realm] =
                      [block |-> tail.h, hash |-> tail.hash]]
    /\ tail' = IF tail.realm = watched THEN [tail EXCEPT !.at = "next"]
               ELSE [tail EXCEPT !.realm = @ + 1]
    /\ UNCHANGED <<marketVars, tableVars, watched, confirmations, faults>>

Cycle ==
    \/ Poll \/ CheckCursor \/ RollbackFromHeight \/ CycleEnds
    \/ FetchHash \/ FetchEvents \/ RecordRawEvent
    \/ ApplyMint \/ ApplyNFTListed \/ ApplyNFTDelisted
    \/ ApplyOfferMade \/ ApplyOfferCancelled \/ SettleSale \/ SkipCompanion
    \/ ResolveAccepted \/ BlockApplied \/ SaveCursor

-------------------------------------------------------------------------------
Troubles == faults + reorgs + (watched - 1)
Room == Len(chain) + Troubles < MaxTotal + confirmations
MoreTrouble == Troubles < MaxTroubles /\ Room

(* A request or a write fails, the cycle panics, the process restarts: the *)
(* next cycle starts from the stored cursors.                              *)
Interrupt ==
    /\ ~At("idle")
    /\ MoreTrouble
    /\ faults' = faults + 1
    /\ tail' = Idle
    /\ UNCHANGED <<marketVars, tableVars, cursors, watched, confirmations>>

(* The process restarts with one realm more on the list, its cursor seeded *)
(* to the height that realm was deployed at (SeedRealmCursor).             *)
WatchSeeded(deployHeight) ==
    /\ watched < Realms /\ MoreTrouble
    /\ watched' = watched + 1
    /\ cursors' = [cursors EXCEPT ![watched + 1] =
                      [block |-> deployHeight - 1, hash |-> NoHash]]
    /\ tail' = Idle
    /\ UNCHANGED <<marketVars, tableVars, confirmations, faults>>

ChainMoves ==
    /\ \/ /\ Len(chain) < MaxReadable + confirmations /\ Room
          /\ \E b \in Blocks(MarketAt(Len(chain))) : Produce(b)
       \/ MoreTrouble /\ Reorg
    /\ UNCHANGED <<tableVars, cursors, watched, tail, confirmations, faults>>

Next ==
    \/ Cycle \/ Interrupt
    \/ \E h \in 1..Len(chain) : WatchSeeded(h)
    \/ ChainMoves

Spec == Init /\ [][Next]_vars

(* The goroutine's ticker keeps firing.                                    *)
FairSpec == Spec /\ WF_vars(Cycle)

-------------------------------------------------------------------------------
(* Properties.                                                             *)

(* The chain's own account of the blocks up to h.                          *)
EventsUpTo(h) ==
    UNION {{[block |-> b, index |-> i, event |-> chain[b].events[i]] :
            i \in DOMAIN chain[b].events} : b \in 1..h}
SalesUpTo(h) ==
    {[block |-> r.block, index |-> r.index, price |-> r.event.price] :
        r \in {s \in EventsUpTo(h) : IsSettlement(s.event)}}

(* Between cycles the cursor's block is still the chain's.                 *)
Agreed ==
    /\ At("idle")
    /\ LoadCursor = LatestCursor
    /\ LoadCursor.block > 0
    /\ LoadCursor.hash = chain[LoadCursor.block].hash

SalesOfTheChain ==
    {s \in sales : s.block <= LoadCursor.block} = SalesUpTo(LoadCursor.block)
RawOfTheChain ==
    {r \in raw : r.block <= LoadCursor.block} = EventsUpTo(LoadCursor.block)

(* Nothing interrupted a cycle and no realm was added: each block was      *)
(* applied once, except those that were rolled back.                       *)
Undisturbed == faults = 0 /\ watched = 1

(* The tailer stays as far behind as consensus may take blocks back.       *)
BehindReorgs == confirmations >= ReorgDepth

(* Up to the cursor, the sales table and the raw ledger hold every sale    *)
(* and every event of the chain, each once, and no other: behind the       *)
(* reorgs however often cycles are cut and blocks replayed, and without    *)
(* confirmations when the blocks rolled back were applied whole.           *)
LedgersOfTheChain ==
    Agreed /\ (BehindReorgs \/ Undisturbed) => SalesOfTheChain /\ RawOfTheChain

(* The sales of the blocks consensus can no longer take back, in order.    *)
SalePrices(events) ==
    LET upTo[n \in 0..Len(events)] ==
            IF n = 0 THEN <<>>
            ELSE IF IsSettlement(events[n]) THEN Append(upTo[n - 1], events[n].price)
            ELSE upTo[n - 1]
    IN upTo[Len(events)]
Readable == IF Len(chain) < confirmations THEN 0 ELSE Len(chain) - confirmations
Final == FlattenSeq([b \in 1..Readable |-> SalePrices(chain[b].events)])

(* Behind the reorgs the tables implement the feed: replays and            *)
(* interruptions are stutters.                                             *)
Feed == INSTANCE SalesFeed
    WITH FeedPrices <- Prices,
         final <- IF BehindReorgs THEN Final ELSE <<>>,
         counted <- IF BehindReorgs THEN collection.sales ELSE 0,
         volume <- IF BehindReorgs THEN collection.volume ELSE 0
ImplementsFeed == Feed!FeedSpec

(* The collection's volume and count are those of the sales in the table,  *)
(* through replays and rollbacks, and so is its last price, unless a block *)
(* that was cut short is replaced: the sales of both forks are then kept.  *)
AggregatesOfTheSales ==
    /\ collection.volume = Volume(sales)
    /\ collection.sales = Cardinality(sales)
    /\ BehindReorgs \/ Undisturbed \/ reorgs = 0 => collection.last = LastPrice(sales)

(* No block past the cursor has been begun.                                *)
CaughtUp == Agreed /\ LoadCursor.block + confirmations >= Len(chain)

(* The token is shown listed exactly as it is on chain, and buyers' offers *)
(* are shown active exactly while they are.                                *)
TokenOfTheChain == CaughtUp => token = MarketAt(LoadCursor.block).listed
OffersOfTheChain ==
    CaughtUp =>
        {o.amount : o \in {p \in offers : p.status = "active"}}
            = {MarketAt(LoadCursor.block).offer} \ {Nothing}

(* A token is listed in nft_tokens exactly when one listing of it is open. *)
OneOpenListing ==
    CaughtUp =>
        Cardinality({l \in listings : l.open}) = IF token = Nothing THEN 0 ELSE 1

HistoryOf(b, events) ==
    LET upTo[n \in 0..Len(events)] ==
            IF n = 0 THEN <<>>
            ELSE IF events[n].type = "Mint"
                 THEN Append(upTo[n - 1], [block |-> b, kind |-> "mint"])
            ELSE IF IsSettlement(events[n])
                 THEN Append(upTo[n - 1], [block |-> b, kind |-> "sale"])
            ELSE upTo[n - 1]
    IN upTo[Len(events)]

(* The ownership history tells the mint and every sale of the chain, each  *)
(* once and in order, two sales of one block included.                     *)
HistoryOfTheChain ==
    CaughtUp =>
        history = FlattenSeq([b \in 1..LoadCursor.block |-> HistoryOf(b, chain[b].events)])

(* With every block applied once, the tables show the token's listing, the *)
(* offers and the ownership history of the chain.                          *)
ProjectionOfTheChain ==
    Undisturbed /\ (BehindReorgs \/ reorgs = 0) =>
        TokenOfTheChain /\ OffersOfTheChain /\ OneOpenListing /\ HistoryOfTheChain

(* The tailer catches up with the confirmed tip, on the chain's own fork,  *)
(* and stays there.                                                        *)
CatchesUp ==
    <>[]LET cursor == LoadCursor IN
        /\ cursor.block + confirmations >= Len(chain)
        /\ cursor.block > 0 => cursor.hash \in {NoHash, chain[cursor.block].hash}

(* Staying as far behind as consensus may take blocks back, the tailer     *)
(* never applies a block that is replaced.                                 *)
ConfirmedIsFinal == BehindReorgs => ~At("rollback")
===============================================================================
