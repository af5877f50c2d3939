---------------------------- MODULE NftTailerProofs ----------------------------
(***************************************************************************)
(* Theorems of NftTailer, for every value of its constants.                *)
(***************************************************************************)
EXTENDS NftTailerLemmas

USE MarketAssumption, TailerAssumption

CursorRow == [block : Nat, hash : Nat]
TailState ==
    [at : Places, h : Nat, end : Nat, latest : Nat, hash : Nat,
     events : Seq(PricedEvent), i : Nat, realm : Nat]

(* Applying a block, between the answer about its hash and its cursor.     *)
Busy == tail.at \in {"fetch", "dispatch", "apply", "resolve", "save"}

(* Where the goroutine is, within the chain it has asked about.            *)
Position ==
    /\ ~At("idle") => tail.latest <= Len(chain)
    /\ At("check") /\ tail.hash # NoHash => tail.h \in 1..Len(chain)
    /\ At("rollback") => tail.h \in 1..Len(chain)
    /\ At("next") => tail.h <= tail.end
    /\ At("next") /\ tail.h < tail.end => tail.end + confirmations <= tail.latest
    /\ Busy => /\ tail.h \in 1..tail.end /\ tail.end + confirmations <= tail.latest
               /\ tail.hash # NoHash
    /\ At("dispatch") => tail.i \in 1..(Len(tail.events) + 1)
    /\ At("apply") \/ At("resolve") => tail.i \in 1..Len(tail.events)
    /\ At("save") => tail.realm \in 1..watched

(* A cursor with a hash was saved for a block that had its confirmations.  *)
CursorsConfirmed ==
    \A r \in 1..Realms : cursors[r].hash # NoHash =>
        cursors[r].block >= 1 /\ cursors[r].block + confirmations <= Len(chain)

MarketOK ==
    /\ chain \in Seq(PricedBlock) /\ Len(chain) <= MaxHeight
    /\ lastHash \in Nat /\ reorgs \in 0..MaxReorgs /\ saleVolume \in BOOLEAN

OfferRow == [block : Nat, index : Nat, amount : Prices,
             status : {"active", "cancelled", "accepted"}]
RawOK == raw \subseteq [block : Nat, index : Nat, event : Event] /\ UniqueKeys(raw)
SalesOK == sales \in FiniteSales /\ UniqueKeys(sales)
ListingsOK ==
    listings \subseteq [block : Nat, index : Nat, open : BOOLEAN] /\ UniqueKeys(listings)
OffersOK == offers \subseteq OfferRow /\ \A r, s \in offers : r.block = s.block => r = s
HistoryOK == history \in Seq([block : Nat, kind : {"mint", "sale"}])
TokenOK == token \in 0..MaxPrice
CollectionOK == collection \in [volume : Nat, sales : Nat, last : 0..MaxPrice]
TablesOK ==
    RawOK /\ SalesOK /\ ListingsOK /\ OffersOK /\ HistoryOK /\ TokenOK /\ CollectionOK

CursorsOK ==
    cursors \in [1..Realms -> CursorRow] /\ watched \in 1..Realms /\ CursorsConfirmed
TailOK == tail \in TailState /\ Position
SettingsOK == confirmations \in Confirmations /\ faults \in Nat

TypeInv == MarketOK /\ TablesOK /\ CursorsOK /\ TailOK /\ SettingsOK

LEMMA TypeInvTypes ==
    ASSUME TypeInv
    PROVE  TypeOK
<1>1. PricedEvent \subseteq Event
  BY DEF PricedEvent
<1>2. Seq(PricedEvent) \subseteq Seq(Event)
  BY <1>1, SeqMonotonic
<1>3. PricedBlock \subseteq [hash : Nat \ {0}, events : Seq(Event), market : Market]
  BY <1>2 DEF PricedBlock
<1>4. MarketTypeOK
  <2>1. /\ chain \in Seq(PricedBlock) /\ Len(chain) <= MaxHeight /\ lastHash \in Nat
        /\ reorgs \in 0..MaxReorgs /\ saleVolume \in BOOLEAN
    BY DEF TypeInv, MarketOK
  <2>2. Seq(PricedBlock) \subseteq Seq([hash : Nat \ {0}, events : Seq(Event), market : Market])
    BY <1>3, SeqMonotonic
  <2> QED
    BY <2>1, <2>2 DEF MarketTypeOK
<1>5. tail.at \in Places /\ tail.events \in Seq(Event)
  BY <1>2 DEF TypeInv, TailOK, TailState
<1>6. sales \subseteq [block : Nat, index : Nat, price : Prices]
  BY DEF TypeInv, TablesOK, SalesOK, FiniteSales, SaleRow
<1>7. \A T \in {raw, sales, listings} : \A r, s \in T :
         r.block = s.block /\ r.index = s.index => r = s
  BY DEF TypeInv, TablesOK, RawOK, SalesOK, ListingsOK, UniqueKeys
<1>8. cursors \in [1..Realms -> [block : Nat, hash : Nat]] /\ watched \in 1..Realms
  BY DEF TypeInv, CursorsOK, CursorRow
<1> QED
  BY <1>4, <1>5, <1>6, <1>7, <1>8
  DEF TypeOK, TypeInv, TablesOK, RawOK, ListingsOK, OffersOK, OfferRow, HistoryOK,
      TokenOK, CollectionOK, SettingsOK

LEMMA TypeInvInit == Init => TypeInv
<1> SUFFICES ASSUME Init PROVE TypeInv
  OBVIOUS
<1>1. MarketOK
  BY DEF Init, MarketInit, MarketOK
<1>2. TablesOK
  <2>1. {} \in FiniteSales
    BY FS_EmptySet DEF FiniteSales
  <2> QED
    BY <2>1 DEF Init, TablesOK, RawOK, SalesOK, ListingsOK, OffersOK, HistoryOK, TokenOK,
                CollectionOK, UniqueKeys, Nothing
<1>3. CursorsOK
  BY DEF Init, CursorsOK, CursorsConfirmed, CursorRow, NoRow, NoHash
<1>4. TailOK
  BY DEF Init, TailOK, TailState, Idle, Places, Position, Busy, At, NoHash
<1>5. SettingsOK
  BY DEF Init, SettingsOK
<1> QED
  BY <1>1, <1>2, <1>3, <1>4, <1>5 DEF TypeInv

(* What the proofs of the steps use of the types.                          *)
LEMMA Basics ==
    ASSUME TypeInv
    PROVE  /\ confirmations \in Nat /\ Len(chain) \in Nat /\ Realms \in Nat
           /\ tail \in TailState
           /\ tail.at \in Places /\ tail.h \in Nat /\ tail.end \in Nat /\ tail.latest \in Nat
           /\ tail.hash \in Nat /\ tail.events \in Seq(PricedEvent) /\ tail.i \in Nat
           /\ tail.realm \in Nat /\ Len(tail.events) \in Nat
           /\ cursors \in [1..Realms -> [block : Nat, hash : Nat]] /\ watched \in 1..Realms
           /\ Position /\ CursorsConfirmed
<1>1. tail \in TailState /\ chain \in Seq(PricedBlock) /\ Position
  BY DEF TypeInv, TailOK, MarketOK
<1>2. /\ tail.at \in Places /\ tail.h \in Nat /\ tail.end \in Nat /\ tail.latest \in Nat
      /\ tail.hash \in Nat /\ tail.events \in Seq(PricedEvent) /\ tail.i \in Nat
      /\ tail.realm \in Nat
  BY <1>1 DEF TailState
<1>3. Len(chain) \in Nat /\ Len(tail.events) \in Nat
  BY <1>1, <1>2
<1>4. confirmations \in Nat /\ Realms \in Nat
  BY DEF TypeInv, SettingsOK
<1> QED
  BY <1>1, <1>2, <1>3, <1>4 DEF TypeInv, CursorsOK, CursorRow

LEMMA BlockOfChain ==
    ASSUME TypeInv, NEW b \in 1..Len(chain)
    PROVE  /\ chain[b] \in PricedBlock /\ chain[b].hash \in Nat \ {0}
           /\ chain[b].events \in Seq(PricedEvent) /\ chain[b].market \in Market
<1>1. chain[b] \in PricedBlock
  BY DEF TypeInv, MarketOK
<1> QED
  BY <1>1 DEF PricedBlock

(* The event being applied.                                                *)
LEMMA CurrentTypes ==
    ASSUME TypeInv, At("apply") \/ At("resolve")
    PROVE  /\ tail.i \in 1..Len(tail.events)
           /\ Current \in PricedEvent /\ Current \in Event
           /\ Current.price \in 0..MaxPrice
           /\ Current.type \in {"NFTListed", "OfferMade", "Sale", "PurchaseConfirmed",
                                "OfferAccepted"} => Current.price \in Prices
           /\ tail.h \in Nat
<1>1. tail.i \in 1..Len(tail.events) /\ tail.events \in Seq(PricedEvent) /\ tail.h \in Nat
  BY Basics DEF Position
<1>2. Current \in PricedEvent
  BY <1>1 DEF Current
<1>3. Current \in Event /\ (Current.type \in {"NFTListed", "OfferMade", "Sale",
          "PurchaseConfirmed", "OfferAccepted"} => Current.price \in Prices)
  BY <1>2 DEF PricedEvent
<1>4. Current.price \in 0..MaxPrice
  BY <1>3 DEF Event
<1> QED
  BY <1>1, <1>2, <1>3, <1>4

LEMMA KeepMarket ==
    ASSUME MarketOK, UNCHANGED marketVars
    PROVE  MarketOK'
BY DEF MarketOK, marketVars

LEMMA KeepTables ==
    ASSUME TablesOK, UNCHANGED tableVars
    PROVE  TablesOK'
BY DEF TablesOK, tableVars, RawOK, SalesOK, ListingsOK, OffersOK, HistoryOK, TokenOK,
       CollectionOK, UniqueKeys

LEMMA KeepCursors ==
    ASSUME CursorsOK, chain' = chain, UNCHANGED <<cursors, watched, confirmations>>
    PROVE  CursorsOK'
BY DEF CursorsOK, CursorsConfirmed

LEMMA KeepSettings ==
    ASSUME SettingsOK, UNCHANGED <<confirmations, faults>>
    PROVE  SettingsOK'
BY DEF SettingsOK

(* A cycle goes on within the confirmed blocks.                            *)
LEMMA StartTypes ==
    ASSUME TypeInv, NEW cursor \in Nat, ~At("idle"), StartAt(cursor),
           chain' = chain, confirmations' = confirmations
    PROVE  TailOK'
<1>1. /\ ConfirmedEnd(tail.latest, cursor) \in Nat
      /\ ConfirmedEnd(tail.latest, cursor) >= cursor
      /\ ConfirmedEnd(tail.latest, cursor) > cursor =>
            ConfirmedEnd(tail.latest, cursor) + confirmations <= tail.latest
  BY Basics, ConfirmedEndIs
<1> DEFINE end == ConfirmedEnd(tail.latest, cursor)
<1>2. tail' = [tail EXCEPT !.at = "next", !.h = cursor, !.end = end]
  BY DEF StartAt
<1> HIDE DEF end
<1>3. end \in Nat /\ end >= cursor /\ (end > cursor => end + confirmations <= tail.latest)
  BY <1>1 DEF end
<1>4. tail \in TailState /\ tail.latest <= Len(chain) /\ "next" \in Places
  BY Basics DEF Position, Places
<1>5. tail' \in TailState
  BY <1>2, <1>3, <1>4 DEF TailState
<1>6. tail'.at = "next" /\ tail'.h = cursor /\ tail'.end = end /\ tail'.latest = tail.latest
  BY <1>2, <1>4 DEF TailState
<1>7. Position'
  BY <1>3, <1>4, <1>6 DEF Position, Busy, At
<1> QED
  BY <1>5, <1>7 DEF TailOK

LEMMA ChainKept ==
    ASSUME UNCHANGED marketVars
    PROVE  chain' = chain /\ lastHash' = lastHash /\ reorgs' = reorgs /\ saleVolume' = saleVolume
BY DEF marketVars

LEMMA TailOnly ==
    ASSUME TypeInv, TailOK',
           UNCHANGED <<marketVars, tableVars, cursors, watched, confirmations, faults>>
    PROVE  TypeInv'
<1>1. MarketOK' /\ TablesOK' /\ SettingsOK'
  BY KeepMarket, KeepTables, KeepSettings DEF TypeInv
<1>2. CursorsOK'
  BY KeepCursors, ChainKept DEF TypeInv
<1> QED
  BY <1>1, <1>2 DEF TypeInv

(* A table is written, and the goroutine moves on.                         *)
LEMMA TablesAndTail ==
    ASSUME TypeInv, TailOK', TablesOK',
           UNCHANGED <<marketVars, cursors, watched, confirmations, faults>>
    PROVE  TypeInv'
<1>1. MarketOK' /\ SettingsOK'
  BY KeepMarket, KeepSettings DEF TypeInv
<1>2. CursorsOK'
  BY KeepCursors, ChainKept DEF TypeInv
<1> QED
  BY <1>1, <1>2 DEF TypeInv

LEMMA PollTypes ==
    ASSUME TypeInv, Poll
    PROVE  TypeInv'
<1>1. PICK r \in 1..watched : LoadCursor = cursors[r]
  BY Basics, LoadCursorIs
<1>2. /\ r \in 1..Realms /\ cursors[r].block \in Nat /\ cursors[r].hash \in Nat
      /\ cursors[r].hash # NoHash => cursors[r].block \in 1..Len(chain)
  <2>1. /\ cursors \in [1..Realms -> [block : Nat, hash : Nat]] /\ watched \in 1..Realms
        /\ CursorsConfirmed /\ confirmations \in Nat /\ Len(chain) \in Nat /\ Realms \in Nat
    BY Basics
  <2>2. r \in 1..Realms
    BY <2>1
  <2>3. cursors[r] \in [block : Nat, hash : Nat]
    BY <2>1, <2>2
  <2> QED
    BY <2>1, <2>2, <2>3 DEF CursorsConfirmed
<1>3. tail' = [at |-> "check", h |-> cursors[r].block, end |-> 0, latest |-> Len(chain),
               hash |-> cursors[r].hash, events |-> <<>>, i |-> 0, realm |-> 0]
  BY <1>1 DEF Poll, Idle
<1>4. tail' \in TailState
  BY <1>2, <1>3, Basics DEF TailState, Places
<1>5. Position'
  <2>1. chain' = chain /\ Len(chain) \in Nat
    BY ChainKept, Basics DEF Poll
  <2>2. /\ tail'.at = "check" /\ tail'.latest = Len(chain) /\ tail'.h = cursors[r].block
        /\ tail'.hash = cursors[r].hash
    BY <1>3
  <2> QED
    BY <1>2, <2>1, <2>2 DEF Position, Busy, At
<1> QED
  BY <1>4, <1>5, TailOnly DEF Poll, TailOK

LEMMA CheckCursorTypes ==
    ASSUME TypeInv, CheckCursor
    PROVE  TypeInv'
<1>1. chain' = chain /\ confirmations' = confirmations /\ ~At("idle") /\ tail.h \in Nat
  BY Basics, ChainKept DEF CheckCursor, At
<1>2. CASE StartAt(tail.h)
  <2>1. TailOK'
    BY <1>1, <1>2, StartTypes
  <2> QED
    BY <2>1, TailOnly DEF CheckCursor
<1>3. CASE tail.hash # NoHash /\ Goto("rollback")
  <2>1. tail' = [tail EXCEPT !.at = "rollback"] /\ tail \in TailState
    BY <1>3, Basics DEF Goto
  <2>2. /\ tail' \in TailState /\ tail'.at = "rollback" /\ tail'.h = tail.h
        /\ tail'.latest = tail.latest
    BY <2>1 DEF TailState, Places
  <2>3. tail.latest <= Len(chain) /\ tail.h \in 1..Len(chain)
    BY <1>3, Basics DEF CheckCursor, Position, At
  <2>4. Position'
    BY <1>1, <2>2, <2>3 DEF Position, Busy, At
  <2> QED
    BY <2>2, <2>4, TailOnly DEF CheckCursor, TailOK
<1> QED
  BY <1>2, <1>3 DEF CheckCursor

(* What a rollback leaves in the tables is of their types.                 *)
LEMMA BelowTypes ==
    ASSUME TablesOK, NEW h \in Nat
    PROVE  /\ Below(sales, h) \in FiniteSales
           /\ Volume(Below(sales, h)) \in Nat /\ Cardinality(Below(sales, h)) \in Nat
           /\ LastPrice(Below(sales, h)) \in 0..MaxPrice
<1>1. sales \in FiniteSales /\ Below(sales, h) \in SUBSET sales
  BY DEF TablesOK, SalesOK, Below
<1>2. Below(sales, h) \in FiniteSales /\ Cardinality(Below(sales, h)) \in Nat
  BY <1>1, SubsetsOfSales
<1> QED
  BY <1>2, VolumeStep, LastPriceTypes

LEMMA RollbackTables ==
    ASSUME TypeInv, RollbackFromHeight
    PROVE  TablesOK'
<1> DEFINE h == tail.h
<1>1. /\ raw' = Below(raw, h) /\ sales' = Below(sales, h) /\ listings' = Below(listings, h)
      /\ offers' = Below(offers, h) /\ history' = RowsBelow(history, h) /\ token' = token
      /\ collection' = AggregatesAfterRollback(h) /\ h \in Nat
  BY Basics DEF RollbackFromHeight
<1>2. TablesOK
  BY DEF TypeInv
<1> HIDE DEF h
<1>3. RawOK' /\ ListingsOK' /\ OffersOK' /\ TokenOK'
  BY <1>1, <1>2 DEF TablesOK, RawOK, ListingsOK, OffersOK, TokenOK, Below, UniqueKeys
<1>4. SalesOK'
  BY <1>1, <1>2, BelowTypes DEF TablesOK, SalesOK, Below, UniqueKeys
<1>5. HistoryOK'
  BY <1>1, <1>2, RowsBelowTypes DEF TablesOK, HistoryOK
<1>6. CollectionOK'
  BY <1>1, <1>2, BelowTypes
  DEF TablesOK, CollectionOK, AggregatesAfterRollback, Aggregates
<1> QED
  BY <1>3, <1>4, <1>5, <1>6 DEF TablesOK

LEMMA RollbackTypes ==
    ASSUME TypeInv, RollbackFromHeight
    PROVE  TypeInv'
<1>1. chain' = chain /\ confirmations' = confirmations /\ ~At("idle")
  BY ChainKept DEF RollbackFromHeight, At
<1>2. tail.h \in 1..Len(chain) /\ tail.h - 1 \in Nat
  <2>1. Position /\ Len(chain) \in Nat /\ At("rollback")
    BY Basics DEF RollbackFromHeight
  <2>2. tail.h \in 1..Len(chain)
    BY <2>1 DEF Position
  <2> QED
    BY <2>1, <2>2
<1>3. TailOK'
  BY <1>1, <1>2, StartTypes DEF RollbackFromHeight, Rewound
<1> QED
  BY <1>3, RollbackTables, TablesAndTail DEF RollbackFromHeight

LEMMA CycleEndsTypes ==
    ASSUME TypeInv, CycleEnds
    PROVE  TypeInv'
<1>1. TailOK'
  BY DEF CycleEnds, TailOK, TailState, Idle, Places, Position, Busy, At, NoHash
<1> QED
  BY <1>1, TailOnly DEF CycleEnds

LEMMA FetchHashTypes ==
    ASSUME TypeInv, FetchHash
    PROVE  TypeInv'
<1> DEFINE hash == chain[tail.h + 1].hash
<1>0. /\ tail.h \in Nat /\ tail.end \in Nat /\ tail.latest \in Nat /\ confirmations \in Nat
      /\ Len(chain) \in Nat /\ Position
  BY Basics
<1>1. /\ tail.h + 1 \in 1..tail.end /\ tail.end + confirmations <= tail.latest
      /\ tail.latest <= Len(chain)
  <2>1. tail.at = "next" /\ tail.h < tail.end
    BY DEF FetchHash, At
  <2> QED
    BY <1>0, <2>1 DEF Position, At
<1>2. tail.h + 1 \in 1..Len(chain)
  BY <1>0, <1>1
<1>3. hash \in Nat \ {0}
  BY <1>2, BlockOfChain
<1>4. tail' = [tail EXCEPT !.at = "fetch", !.h = tail.h + 1, !.hash = hash] /\ tail \in TailState
  BY Basics DEF FetchHash
<1> HIDE DEF hash
<1>5. tail' \in TailState
  <2>1. tail.h + 1 \in Nat /\ hash \in Nat /\ "fetch" \in Places
    BY <1>0, <1>3 DEF Places
  <2> QED
    BY <1>4, <2>1 DEF TailState
<1>6. /\ tail'.at = "fetch" /\ tail'.h = tail.h + 1 /\ tail'.hash = hash
      /\ tail'.end = tail.end /\ tail'.latest = tail.latest
  BY <1>4 DEF TailState
<1>7. Position'
  BY <1>1, <1>3, <1>6, ChainKept DEF FetchHash, Position, Busy, At, NoHash
<1> QED
  BY <1>5, <1>7, TailOnly DEF FetchHash, TailOK

LEMMA FetchEventsTypes ==
    ASSUME TypeInv, FetchEvents
    PROVE  TypeInv'
<1> DEFINE events == chain[tail.h].events
<1>1. /\ tail.h \in 1..tail.end /\ tail.end + confirmations <= tail.latest
      /\ tail.latest <= Len(chain) /\ tail.hash # NoHash
  BY Basics DEF FetchEvents, Position, Busy, At
<1>2. events \in Seq(PricedEvent)
  <2>1. tail.h \in 1..Len(chain)
    <3>1. /\ tail.h \in Nat /\ tail.end \in Nat /\ tail.latest \in Nat /\ confirmations \in Nat
          /\ Len(chain) \in Nat
      BY Basics
    <3> QED
      BY <1>1, <3>1
  <2> QED
    BY <2>1, BlockOfChain
<1>3. tail' = [tail EXCEPT !.at = "dispatch", !.events = events, !.i = 1] /\ tail \in TailState
  BY Basics DEF FetchEvents
<1> HIDE DEF events
<1>4. tail' \in TailState
  BY <1>2, <1>3 DEF TailState, Places
<1>5. /\ tail'.at = "dispatch" /\ tail'.h = tail.h /\ tail'.hash = tail.hash /\ tail'.i = 1
      /\ tail'.end = tail.end /\ tail'.latest = tail.latest /\ tail'.events = events
  BY <1>3 DEF TailState
<1>6. tail'.i \in 1..(Len(tail'.events) + 1)
  BY <1>2, <1>5
<1>7. Position'
  BY <1>1, <1>5, <1>6, ChainKept DEF FetchEvents, Position, Busy, At
<1> QED
  BY <1>4, <1>7, TailOnly DEF FetchEvents, TailOK

(* Within a block, only the place and the position of the event change.    *)
LEMMA DispatchTypes ==
    ASSUME TypeInv, Busy, NEW at \in {"dispatch", "apply", "resolve"}, NEW i \in Nat,
           tail' = [tail EXCEPT !.at = at, !.i = i],
           i \in 1..(Len(tail.events) + 1), at # "dispatch" => i \in 1..Len(tail.events),
           chain' = chain, confirmations' = confirmations
    PROVE  TailOK'
<1>1. tail \in TailState /\ Position
  BY Basics
<1>2. tail' \in TailState
  BY <1>1 DEF TailState, Places
<1>3. /\ tail'.at = at /\ tail'.i = i /\ tail'.h = tail.h /\ tail'.end = tail.end
      /\ tail'.latest = tail.latest /\ tail'.hash = tail.hash /\ tail'.events = tail.events
  BY <1>1 DEF TailState
<1>4. /\ tail.h \in 1..tail.end /\ tail.end + confirmations <= tail.latest
      /\ tail.latest <= Len(chain) /\ tail.hash # NoHash
  BY <1>1 DEF Position, Busy, At
<1>5. Position'
  BY <1>3, <1>4 DEF Position, Busy, At
<1> QED
  BY <1>2, <1>5 DEF TailOK

LEMMA AppliedTypes ==
    ASSUME TypeInv, At("apply"), Applied(Current), chain' = chain,
           confirmations' = confirmations
    PROVE  TailOK'
<1>1. tail \in TailState /\ tail.i \in 1..Len(tail.events) /\ Len(tail.events) \in Nat /\ Busy
  BY Basics DEF Position, Busy, At
<1>2. \/ tail' = [tail EXCEPT !.at = "resolve", !.i = tail.i]
      \/ tail' = [tail EXCEPT !.at = "dispatch", !.i = tail.i + 1]
  BY <1>1 DEF Applied, TailState
<1>3. CASE tail' = [tail EXCEPT !.at = "resolve", !.i = tail.i]
  <2>1. tail.i \in Nat /\ tail.i \in 1..(Len(tail.events) + 1)
    BY <1>1
  <2> QED
    BY <1>1, <1>3, <2>1, DispatchTypes
<1>4. CASE tail' = [tail EXCEPT !.at = "dispatch", !.i = tail.i + 1]
  <2>1. tail.i + 1 \in Nat /\ tail.i + 1 \in 1..(Len(tail.events) + 1)
    BY <1>1
  <2> QED
    BY <1>1, <1>4, <2>1, DispatchTypes
<1> QED
  BY <1>2, <1>3, <1>4

LEMMA InsertKeys ==
    ASSUME NEW T, NEW row, UniqueKeys(T)
    PROVE  UniqueKeys(InsertOrIgnore(T, row)) /\ InsertOrIgnore(T, row) \subseteq T \cup {row}
BY DEF UniqueKeys, InsertOrIgnore

LEMMA RecordRawEventTypes ==
    ASSUME TypeInv, RecordRawEvent
    PROVE  TypeInv'
<1>1. /\ tail \in TailState /\ tail.i \in 1..Len(tail.events) /\ Len(tail.events) \in Nat
      /\ tail.h \in Nat /\ tail.events \in Seq(PricedEvent) /\ Busy
  BY Basics DEF RecordRawEvent, Position, Busy, At
<1> DEFINE row == [block |-> tail.h, index |-> tail.i, event |-> tail.events[tail.i]]
<1>2. tail.events[tail.i] \in Event
  BY <1>1 DEF PricedEvent
<1>3. row \in [block : Nat, index : Nat, event : Event] /\ raw' = InsertOrIgnore(raw, row)
  BY <1>1, <1>2 DEF RecordRawEvent
<1> HIDE DEF row
<1>4. RawOK /\ UNCHANGED <<sales, listings, offers, history, token, collection>> /\ TablesOK
  BY DEF TypeInv, TablesOK, RecordRawEvent
<1>5. RawOK'
  BY <1>3, <1>4, InsertKeys DEF RawOK
<1>6. TablesOK'
  BY <1>4, <1>5 DEF TablesOK, SalesOK, ListingsOK, OffersOK, HistoryOK, TokenOK,
                    CollectionOK, UniqueKeys
<1>7. tail' = [tail EXCEPT !.at = "apply", !.i = tail.i]
  BY <1>1 DEF RecordRawEvent, Goto, TailState
<1>8. TailOK'
  <2>1. tail.i \in Nat /\ tail.i \in 1..(Len(tail.events) + 1)
    BY <1>1
  <2>2. chain' = chain /\ confirmations' = confirmations
    BY ChainKept DEF RecordRawEvent
  <2> QED
    BY <1>1, <1>7, <2>1, <2>2, DispatchTypes
<1> QED
  BY <1>6, <1>8, TablesAndTail DEF RecordRawEvent

(* The rest of the tables is as it was.                                    *)
LEMMA TablesStep ==
    ASSUME TypeInv,
           RawOK' \/ raw' = raw, SalesOK' \/ sales' = sales,
           ListingsOK' \/ listings' = listings, OffersOK' \/ offers' = offers,
           HistoryOK' \/ history' = history, TokenOK' \/ token' = token,
           CollectionOK' \/ collection' = collection
    PROVE  TablesOK'
<1>1. TablesOK
  BY DEF TypeInv
<1>2. RawOK' /\ SalesOK' /\ ListingsOK' /\ OffersOK'
  BY <1>1 DEF TablesOK, RawOK, SalesOK, ListingsOK, OffersOK, UniqueKeys
<1>3. HistoryOK' /\ TokenOK' /\ CollectionOK'
  BY <1>1 DEF TablesOK, HistoryOK, TokenOK, CollectionOK
<1> QED
  BY <1>2, <1>3 DEF TablesOK

LEMMA ClosedTypes ==
    ASSUME ListingsOK
    PROVE  /\ ListingsClosed \subseteq [block : Nat, index : Nat, open : BOOLEAN]
           /\ UniqueKeys(ListingsClosed)
<1>1. \A l \in listings :
         l \in [block : Nat, index : Nat, open : BOOLEAN]
  BY DEF ListingsOK
<1>2. \A l \in listings :
         /\ [l EXCEPT !.open = FALSE] \in [block : Nat, index : Nat, open : BOOLEAN]
         /\ [l EXCEPT !.open = FALSE].block = l.block
         /\ [l EXCEPT !.open = FALSE].index = l.index
  BY <1>1
<1>3. \A c \in ListingsClosed : \E l \in listings :
         /\ c = IF l.open THEN [l EXCEPT !.open = FALSE] ELSE l
         /\ c \in [block : Nat, index : Nat, open : BOOLEAN]
         /\ c.block = l.block /\ c.index = l.index
  BY <1>1, <1>2 DEF ListingsClosed
<1>4. ASSUME NEW r \in ListingsClosed, NEW s \in ListingsClosed,
             r.block = s.block, r.index = s.index
      PROVE  r = s
  BY <1>3, <1>4 DEF ListingsOK, UniqueKeys
<1> QED
  BY <1>3, <1>4 DEF UniqueKeys

LEMMA ResolveTypes ==
    ASSUME OffersOK, NEW status \in {"cancelled", "accepted"}
    PROVE  /\ Resolve(status) \subseteq OfferRow
           /\ \A r, s \in Resolve(status) : r.block = s.block => r = s
<1> DEFINE Latest(o) == o.status = "active" /\
                        \A p \in offers : p.status = "active" => p.block <= o.block
           Set(o) == IF Latest(o) THEN [o EXCEPT !.status = status] ELSE o
<1>1. \A o \in offers : o \in OfferRow
  BY DEF OffersOK
<1>2. Resolve(status) = {Set(o) : o \in offers}
  BY DEF Resolve
<1>3. \A o \in offers : Set(o) \in OfferRow /\ Set(o).block = o.block
  <2> SUFFICES ASSUME NEW o \in offers
               PROVE  Set(o) \in OfferRow /\ Set(o).block = o.block
    OBVIOUS
  <2>1. o \in OfferRow
    BY <1>1
  <2> HIDE DEF Latest
  <2> QED
    BY <2>1 DEF OfferRow
<1> HIDE DEF Set
<1>4. ASSUME NEW r \in Resolve(status), NEW s \in Resolve(status), r.block = s.block
      PROVE  r = s
  <2>1. PICK o \in offers : r = Set(o)
    BY <1>2
  <2>2. PICK p \in offers : s = Set(p)
    BY <1>2
  <2>3. o = p
    BY <1>3, <1>4, <2>1, <2>2 DEF OffersOK
  <2> QED
    BY <2>1, <2>2, <2>3
<1> QED
  BY <1>2, <1>3, <1>4

LEMMA ApplyMintTypes ==
    ASSUME TypeInv, ApplyMint
    PROVE  TypeInv'
<1>1. HistoryOK'
  BY Basics DEF TypeInv, TablesOK, ApplyMint, HistoryOK
<1>2. TablesOK'
  BY <1>1, TablesStep DEF ApplyMint
<1>3. TailOK'
  BY AppliedTypes, ChainKept DEF ApplyMint
<1> QED
  BY <1>2, <1>3, TablesAndTail DEF ApplyMint

LEMMA ApplyNFTListedTypes ==
    ASSUME TypeInv, ApplyNFTListed
    PROVE  TypeInv'
<1> DEFINE row == [block |-> tail.h, index |-> tail.i, open |-> TRUE]
<1>1. tail.h \in Nat /\ tail.i \in Nat /\ Current.price \in 0..MaxPrice /\ ListingsOK
  BY Basics, CurrentTypes DEF ApplyNFTListed, TypeInv, TablesOK
<1>2. row \in [block : Nat, index : Nat, open : BOOLEAN]
  BY <1>1
<1>3. listings' = InsertOrIgnore(listings, row) /\ token' = Current.price
  BY DEF ApplyNFTListed
<1> HIDE DEF row
<1>4. ListingsOK'
  BY <1>1, <1>2, <1>3, InsertKeys DEF ListingsOK
<1>5. TokenOK'
  BY <1>1, <1>3 DEF TokenOK
<1>6. TablesOK'
  BY <1>4, <1>5, TablesStep DEF ApplyNFTListed
<1>7. TailOK'
  BY AppliedTypes, ChainKept DEF ApplyNFTListed
<1> QED
  BY <1>6, <1>7, TablesAndTail DEF ApplyNFTListed

LEMMA ApplyNFTDelistedTypes ==
    ASSUME TypeInv, ApplyNFTDelisted
    PROVE  TypeInv'
<1>1. ListingsOK'
  BY ClosedTypes DEF ApplyNFTDelisted, TypeInv, TablesOK, ListingsOK
<1>2. TokenOK'
  BY DEF ApplyNFTDelisted, TokenOK, Nothing
<1>3. TablesOK'
  BY <1>1, <1>2, TablesStep DEF ApplyNFTDelisted
<1>4. TailOK'
  BY AppliedTypes, ChainKept DEF ApplyNFTDelisted
<1> QED
  BY <1>3, <1>4, TablesAndTail DEF ApplyNFTDelisted

LEMMA ApplyOfferMadeTypes ==
    ASSUME TypeInv, ApplyOfferMade
    PROVE  TypeInv'
<1> DEFINE row == [block |-> tail.h, index |-> tail.i, amount |-> Current.price,
                   status |-> "active"]
<1>1. /\ tail.h \in Nat /\ tail.i \in Nat /\ Current.price \in Prices /\ OffersOK
  BY Basics, CurrentTypes DEF ApplyOfferMade, TypeInv, TablesOK
<1>2. row \in OfferRow /\ row.block = tail.h
  BY <1>1 DEF OfferRow
<1>3. offers' = IF OfferKnown THEN offers ELSE offers \cup {row}
  BY DEF ApplyOfferMade
<1> HIDE DEF row
<1>4. OffersOK'
  BY <1>1, <1>2, <1>3 DEF OffersOK, OfferKnown
<1>5. TablesOK'
  BY <1>4, TablesStep DEF ApplyOfferMade
<1>6. TailOK'
  BY AppliedTypes, ChainKept DEF ApplyOfferMade
<1> QED
  BY <1>5, <1>6, TablesAndTail DEF ApplyOfferMade

LEMMA ApplyOfferCancelledTypes ==
    ASSUME TypeInv, ApplyOfferCancelled
    PROVE  TypeInv'
<1>1. OffersOK'
  BY ResolveTypes DEF ApplyOfferCancelled, TypeInv, TablesOK, OffersOK
<1>2. TablesOK'
  BY <1>1, TablesStep DEF ApplyOfferCancelled
<1>3. TailOK'
  BY AppliedTypes, ChainKept DEF ApplyOfferCancelled
<1> QED
  BY <1>2, <1>3, TablesAndTail DEF ApplyOfferCancelled

(* The sale that a settlement inserts.                                     *)
LEMMA SettledSale ==
    ASSUME TypeInv, SettleSale
    PROVE  /\ [block |-> tail.h, index |-> tail.i, price |-> Current.price] \in SaleRow
           /\ Current.price \in Prices /\ Current.price \in Nat
<1>1. /\ tail.h \in Nat /\ tail.i \in Nat
      /\ (Current.type \in {"NFTListed", "OfferMade", "Sale", "PurchaseConfirmed",
                            "OfferAccepted"} => Current.price \in Prices)
  BY Basics, CurrentTypes DEF SettleSale
<1>2. Current.price \in Prices
  BY <1>1 DEF SettleSale, Settles
<1> QED
  BY <1>1, <1>2 DEF SaleRow, Prices

LEMMA SettleSaleTypes ==
    ASSUME TypeInv, SettleSale
    PROVE  TypeInv'
<1> DEFINE row == [block |-> tail.h, index |-> tail.i, price |-> Current.price]
<1>1. row \in SaleRow /\ Current.price \in Prices /\ Current.price \in Nat
  BY SettledSale
<1>2. TailOK'
  BY AppliedTypes, ChainKept DEF SettleSale
<1>3. CASE SaleKnown
  <2>1. TablesOK'
    BY <1>3, TablesStep DEF SettleSale
  <2> QED
    BY <1>2, <2>1, TablesAndTail DEF SettleSale
<1>4. CASE ~SaleKnown
  <2>1. /\ sales' = InsertOrIgnore(sales, row) /\ listings' = ListingsClosed
        /\ token' = Nothing
        /\ history' = Append(history, [block |-> tail.h, kind |-> "sale"])
        /\ collection' = [volume |-> collection.volume + Current.price,
                          sales |-> collection.sales + 1, last |-> Current.price]
    BY <1>4 DEF SettleSale
  <2>2. TablesOK /\ tail.h \in Nat
    BY Basics DEF TypeInv
  <2> HIDE DEF row
  <2>3. SalesOK'
    <3>1. sales \in FiniteSales /\ UniqueKeys(sales)
      BY <2>2 DEF TablesOK, SalesOK
    <3>2. InsertOrIgnore(sales, row) \in {sales, sales \cup {row}}
      BY DEF InsertOrIgnore
    <3>3. InsertOrIgnore(sales, row) \in FiniteSales
      BY <1>1, <3>1, <3>2, AddSale
    <3> QED
      BY <2>1, <3>1, <3>3, InsertKeys DEF SalesOK
  <2>4. ListingsOK'
    BY <2>1, <2>2, ClosedTypes DEF TablesOK, ListingsOK
  <2>5. TokenOK' /\ HistoryOK'
    BY <2>1, <2>2 DEF TablesOK, TokenOK, HistoryOK, Nothing
  <2>6. CollectionOK'
    <3>1. Current.price \in 0..MaxPrice
      BY <1>1 DEF Prices
    <3> QED
      BY <1>1, <2>1, <2>2, <3>1 DEF TablesOK, CollectionOK
  <2>7. TablesOK'
    BY <2>3, <2>4, <2>5, <2>6, TablesStep DEF SettleSale
  <2> QED
    BY <1>2, <2>7, TablesAndTail DEF SettleSale
<1> QED
  BY <1>3, <1>4

LEMMA SkipCompanionTypes ==
    ASSUME TypeInv, SkipCompanion
    PROVE  TypeInv'
<1>1. TailOK'
  BY AppliedTypes, ChainKept DEF SkipCompanion
<1> QED
  BY <1>1, TailOnly DEF SkipCompanion

LEMMA ResolveAcceptedTypes ==
    ASSUME TypeInv, ResolveAccepted
    PROVE  TypeInv'
<1>1. OffersOK'
  BY ResolveTypes DEF ResolveAccepted, TypeInv, TablesOK, OffersOK
<1>2. TablesOK'
  BY <1>1, TablesStep DEF ResolveAccepted
<1>3. tail.i \in 1..Len(tail.events) /\ Len(tail.events) \in Nat /\ Busy
  BY Basics DEF ResolveAccepted, Position, Busy, At
<1>4. tail.i + 1 \in Nat /\ tail.i + 1 \in 1..(Len(tail.events) + 1)
  BY <1>3
<1>5. /\ tail' = [tail EXCEPT !.at = "dispatch", !.i = tail.i + 1]
      /\ chain' = chain /\ confirmations' = confirmations
  BY ChainKept DEF ResolveAccepted
<1>6. TailOK'
  BY <1>3, <1>4, <1>5, DispatchTypes
<1> QED
  BY <1>2, <1>6, TablesAndTail DEF ResolveAccepted

LEMMA BlockAppliedTypes ==
    ASSUME TypeInv, BlockApplied
    PROVE  TypeInv'
<1>1. tail' = [tail EXCEPT !.at = "save", !.realm = 1] /\ tail \in TailState /\ Position
  BY Basics DEF BlockApplied
<1>2. tail' \in TailState
  BY <1>1 DEF TailState, Places
<1>3. /\ tail'.at = "save" /\ tail'.realm = 1 /\ tail'.h = tail.h /\ tail'.end = tail.end
      /\ tail'.latest = tail.latest /\ tail'.hash = tail.hash
  BY <1>1 DEF TailState
<1>4. chain' = chain /\ confirmations' = confirmations /\ watched' = watched
  BY ChainKept DEF BlockApplied
<1>5. /\ tail.h \in 1..tail.end /\ tail.end + confirmations <= tail.latest
      /\ tail.latest <= Len(chain) /\ tail.hash # NoHash
  BY <1>1 DEF BlockApplied, Position, Busy, At
<1>6. 1 \in 1..watched
  BY Basics
<1>7. Position'
  BY <1>3, <1>4, <1>5, <1>6 DEF Position, Busy, At
<1> QED
  BY <1>2, <1>7, TailOnly DEF BlockApplied, TailOK

LEMMA SaveCursorTypes ==
    ASSUME TypeInv, SaveCursor
    PROVE  TypeInv'
<1> DEFINE row == [block |-> tail.h, hash |-> tail.hash]
<1>1. /\ tail \in TailState /\ tail.h \in 1..tail.end
      /\ tail.end + confirmations <= tail.latest /\ tail.latest <= Len(chain)
      /\ tail.hash # NoHash /\ tail.realm \in 1..watched /\ tail.at = "save"
  BY Basics DEF SaveCursor, Position, Busy, At
<1>2. /\ chain' = chain /\ confirmations' = confirmations /\ watched' = watched
      /\ UNCHANGED <<marketVars, tableVars, confirmations, faults>>
      /\ cursors' = [cursors EXCEPT ![tail.realm] = row]
  BY ChainKept DEF SaveCursor
<1>3. /\ tail.h \in Nat /\ tail.hash \in Nat /\ tail.end \in Nat /\ tail.latest \in Nat
      /\ confirmations \in Nat /\ Len(chain) \in Nat /\ Realms \in Nat
      /\ cursors \in [1..Realms -> [block : Nat, hash : Nat]] /\ watched \in 1..Realms
  BY Basics
<1>4. CursorsOK'
  <2>1. row \in CursorRow /\ row.block >= 1 /\ row.block + confirmations <= Len(chain)
    BY <1>1, <1>3 DEF CursorRow
  <2> HIDE DEF row
  <2>2. cursors' \in [1..Realms -> CursorRow] /\ watched' \in 1..Realms
    BY <1>2, <1>3, <2>1 DEF CursorRow
  <2>3. CursorsConfirmed'
    BY <1>2, <1>3, <2>1, Basics DEF CursorsConfirmed
  <2> QED
    BY <2>2, <2>3 DEF CursorsOK
<1>5. \/ tail' = [tail EXCEPT !.at = "next"]
      \/ tail' = [tail EXCEPT !.realm = tail.realm + 1] /\ tail.realm # watched
  BY DEF SaveCursor
<1>6. TailOK'
  <2>1. CASE tail' = [tail EXCEPT !.at = "next"]
    <3>1. /\ tail' \in TailState /\ tail'.at = "next" /\ tail'.h = tail.h
          /\ tail'.end = tail.end /\ tail'.latest = tail.latest
      BY <1>1, <2>1 DEF TailState, Places
    <3>2. Position'
      BY <1>1, <1>2, <1>3, <3>1 DEF Position, Busy, At
    <3> QED
      BY <3>1, <3>2 DEF TailOK
  <2>2. CASE tail' = [tail EXCEPT !.realm = tail.realm + 1] /\ tail.realm # watched
    <3>1. tail.realm + 1 \in 1..watched /\ tail.realm + 1 \in Nat
      <4>1. watched \in Nat /\ tail.realm \in 1..watched
        BY <1>1, <1>3
      <4> QED
        BY <2>2, <4>1
    <3>2. /\ tail' \in TailState /\ tail'.at = "save" /\ tail'.h = tail.h
          /\ tail'.end = tail.end /\ tail'.latest = tail.latest /\ tail'.hash = tail.hash
          /\ tail'.realm = tail.realm + 1
      BY <1>1, <2>2, <3>1 DEF TailState
    <3>3. Position'
      BY <1>1, <1>2, <3>1, <3>2 DEF Position, Busy, At
    <3> QED
      BY <3>2, <3>3 DEF TailOK
  <2> QED
    BY <1>5, <2>1, <2>2
<1> QED
  BY <1>2, <1>4, <1>6, KeepMarket, KeepTables, KeepSettings DEF TypeInv

LEMMA InterruptTypes ==
    ASSUME TypeInv, Interrupt
    PROVE  TypeInv'
<1>1. TailOK'
  BY DEF Interrupt, TailOK, TailState, Idle, Places, Position, Busy, At, NoHash
<1>2. MarketOK' /\ TablesOK' /\ CursorsOK'
  BY KeepMarket, KeepTables, KeepCursors, ChainKept DEF Interrupt, TypeInv
<1>3. SettingsOK'
  BY DEF Interrupt, TypeInv, SettingsOK
<1> QED
  BY <1>1, <1>2, <1>3 DEF TypeInv

LEMMA WatchSeededTypes ==
    ASSUME TypeInv, NEW h \in 1..Len(chain), WatchSeeded(h)
    PROVE  TypeInv'
<1>1. TailOK'
  BY DEF WatchSeeded, TailOK, TailState, Idle, Places, Position, Busy, At, NoHash
<1>2. MarketOK' /\ TablesOK' /\ SettingsOK'
  BY KeepMarket, KeepTables, KeepSettings DEF WatchSeeded, TypeInv
<1>3. CursorsOK'
  <2> DEFINE row == [block |-> h - 1, hash |-> NoHash]
  <2>1. /\ cursors \in [1..Realms -> CursorRow] /\ watched \in 1..Realms /\ watched < Realms
        /\ CursorsConfirmed /\ chain' = chain /\ confirmations' = confirmations
        /\ watched' = watched + 1 /\ cursors' = [cursors EXCEPT ![watched + 1] = row]
    BY ChainKept DEF WatchSeeded, TypeInv, CursorsOK
  <2>2. row \in CursorRow /\ row.hash = NoHash
    BY DEF CursorRow, NoHash
  <2> HIDE DEF row
  <2>3. watched + 1 \in 1..Realms
    BY <2>1
  <2>4. cursors' \in [1..Realms -> CursorRow] /\ watched' \in 1..Realms
    BY <2>1, <2>2, <2>3
  <2>5. CursorsConfirmed'
    BY <2>1, <2>2 DEF CursorsConfirmed
  <2> QED
    BY <2>4, <2>5 DEF CursorsOK
<1> QED
  BY <1>1, <1>2, <1>3 DEF TypeInv

LEMMA MarketAtTypes ==
    ASSUME MarketOK, NEW h \in 0..Len(chain)
    PROVE  MarketAt(h) \in Market
<1>1. NoMarket \in Market
  BY DEF NoMarket, Market, Nothing
<1>2. CASE h # 0
  <2>1. chain[h] \in PricedBlock
    BY <1>2 DEF MarketOK
  <2> QED
    BY <1>2, <2>1 DEF MarketAt, PricedBlock
<1> QED
  BY <1>1, <1>2 DEF MarketAt

LEMMA NewBlockTypes ==
    ASSUME NEW m \in Market, NEW b \in Blocks(m), NEW hash \in Nat \ {0}
    PROVE  Block(hash, b) \in PricedBlock /\ b.market \in Market
<1>1. b \in Outcome
  BY BlockTypes
<1> QED
  BY <1>1 DEF Outcome, Block, PricedBlock

(* What a move of the chain does to it.                                    *)
LEMMA ChainMovesTypes ==
    ASSUME TypeInv, ChainMoves
    PROVE  MarketOK' /\ Len(chain') >= Len(chain)
<1>0. /\ chain \in Seq(PricedBlock) /\ Len(chain) \in Nat /\ lastHash \in Nat
      /\ Len(chain) <= MaxHeight /\ reorgs \in 0..MaxReorgs /\ saleVolume \in BOOLEAN /\ MarketOK
  BY Basics DEF TypeInv, MarketOK
<1>1. ASSUME NEW b, Produce(b) PROVE MarketOK' /\ Len(chain') >= Len(chain)
  <2>1. b \in Blocks(MarketAt(Len(chain))) /\ MarketAt(Len(chain)) \in Market
    BY <1>0, <1>1, MarketAtTypes DEF Produce
  <2>2. Block(lastHash + 1, b) \in PricedBlock
    BY <1>0, <2>1, NewBlockTypes
  <2>3. chain' = Append(chain, Block(lastHash + 1, b))
    BY <1>1 DEF Produce
  <2>4. chain' \in Seq(PricedBlock) /\ Len(chain') = Len(chain) + 1
    BY <1>0, <2>2, <2>3
  <2> QED
    BY <1>0, <1>1, <2>4 DEF Produce, MarketOK
<1>2. ASSUME Reorg PROVE MarketOK' /\ Len(chain') >= Len(chain)
  <2>1. reorgs' \in 0..MaxReorgs /\ saleVolume' = saleVolume
    BY <1>0, <1>2 DEF Reorg
  <2>2. ASSUME Len(chain) >= 1, NEW b \in Blocks(MarketAt(Len(chain) - 1)),
               chain' = [chain EXCEPT ![Len(chain)] = Block(lastHash + 1, b)],
               lastHash' = lastHash + 1
        PROVE  chain' \in Seq(PricedBlock) /\ Len(chain') = Len(chain) /\ lastHash' \in Nat
    <3>1. MarketAt(Len(chain) - 1) \in Market
      <4>1. Len(chain) - 1 \in 0..Len(chain)
        BY <1>0, <2>2
      <4> QED
        BY <1>0, <4>1, MarketAtTypes
    <3>2. Block(lastHash + 1, b) \in PricedBlock
      BY <1>0, <3>1, NewBlockTypes
    <3>3. Len(chain) \in 1..Len(chain)
      BY <1>0, <2>2
    <3> QED
      BY <1>0, <2>2, <3>2, <3>3, ExceptSeq
  <2>3. ASSUME Len(chain) >= 2, NEW b \in Blocks(MarketAt(Len(chain) - 2)),
               NEW c \in Blocks(b.market),
               chain' = [chain EXCEPT ![Len(chain) - 1] = Block(lastHash + 1, b),
                                      ![Len(chain)] = Block(lastHash + 2, c)],
               lastHash' = lastHash + 2
        PROVE  chain' \in Seq(PricedBlock) /\ Len(chain') = Len(chain) /\ lastHash' \in Nat
    <3>1. MarketAt(Len(chain) - 2) \in Market
      <4>1. Len(chain) - 2 \in 0..Len(chain)
        BY <1>0, <2>3
      <4> QED
        BY <1>0, <4>1, MarketAtTypes
    <3>2. Block(lastHash + 1, b) \in PricedBlock /\ b.market \in Market
      BY <1>0, <3>1, NewBlockTypes
    <3>3. Block(lastHash + 2, c) \in PricedBlock
      BY <1>0, <3>2, NewBlockTypes
    <3> DEFINE one == [chain EXCEPT ![Len(chain) - 1] = Block(lastHash + 1, b)]
    <3>4. Len(chain) - 1 \in 1..Len(chain) /\ Len(chain) \in 1..Len(chain)
      BY <1>0, <2>3
    <3>5. one \in Seq(PricedBlock) /\ Len(one) = Len(chain)
      BY <1>0, <3>2, <3>4, ExceptSeq
    <3>6. chain' = [one EXCEPT ![Len(chain)] = Block(lastHash + 2, c)]
      BY <2>3
    <3> HIDE DEF one
    <3>7. Len(chain) \in 1..Len(one)
      BY <3>4, <3>5
    <3>8. chain' \in Seq(PricedBlock) /\ Len(chain') = Len(one)
      BY <3>3, <3>5, <3>6, <3>7, ExceptSeq
    <3> QED
      BY <1>0, <2>3, <3>5, <3>8
  <2>4. chain' \in Seq(PricedBlock) /\ Len(chain') = Len(chain) /\ lastHash' \in Nat
    BY <1>2, <2>2, <2>3 DEF Reorg
  <2> QED
    BY <1>0, <2>1, <2>4 DEF MarketOK
<1> QED
  BY <1>1, <1>2 DEF ChainMoves

LEMMA ChainMovesKeepsTypes ==
    ASSUME TypeInv, ChainMoves
    PROVE  TypeInv'
<1>1. MarketOK' /\ Len(chain') >= Len(chain)
  BY ChainMovesTypes
<1>2. UNCHANGED <<tableVars, cursors, watched, tail, confirmations, faults>>
  BY DEF ChainMoves
<1>3. TablesOK' /\ SettingsOK'
  BY <1>2, KeepTables, KeepSettings DEF TypeInv
<1>4. Len(chain) \in Nat /\ Len(chain') \in Nat /\ confirmations \in Nat
  BY <1>1, Basics DEF MarketOK
<1>5. CursorsOK'
  <2>1. CursorsConfirmed'
    <3> SUFFICES ASSUME NEW r \in 1..Realms, cursors[r].hash # NoHash
                 PROVE  cursors[r].block >= 1 /\ cursors[r].block + confirmations <= Len(chain')
      BY <1>2 DEF CursorsConfirmed
    <3>1. cursors[r].block \in Nat
      BY Basics
    <3>2. cursors[r].block >= 1 /\ cursors[r].block + confirmations <= Len(chain)
      BY DEF TypeInv, CursorsOK, CursorsConfirmed
    <3> QED
      BY <1>1, <1>4, <3>1, <3>2
  <2> QED
    BY <1>2, <2>1 DEF TypeInv, CursorsOK
<1>6. TailOK'
  <2>1. /\ tail \in TailState /\ Position /\ tail.latest \in Nat /\ tail.h \in Nat
    BY Basics
  <2>2. Position'
    BY <1>1, <1>2, <1>4, <2>1 DEF Position, Busy, At
  <2> QED
    BY <1>2, <2>1, <2>2 DEF TailOK
<1> QED
  BY <1>1, <1>3, <1>5, <1>6 DEF TypeInv

LEMMA TypeInvStep == TypeInv /\ [Next]_vars => TypeInv'
<1> SUFFICES ASSUME TypeInv, [Next]_vars PROVE TypeInv'
  OBVIOUS
<1>1. CASE Cycle
  BY <1>1, PollTypes, CheckCursorTypes, RollbackTypes, CycleEndsTypes, FetchHashTypes,
     FetchEventsTypes, RecordRawEventTypes, ApplyMintTypes, ApplyNFTListedTypes,
     ApplyNFTDelistedTypes, ApplyOfferMadeTypes, ApplyOfferCancelledTypes, SettleSaleTypes,
     SkipCompanionTypes, ResolveAcceptedTypes, BlockAppliedTypes, SaveCursorTypes
  DEF Cycle
<1>2. CASE Interrupt
  BY <1>2, InterruptTypes
<1>3. CASE \E h \in 1..Len(chain) : WatchSeeded(h)
  BY <1>3, WatchSeededTypes
<1>4. CASE ChainMoves
  BY <1>4, ChainMovesKeepsTypes
<1>5. CASE UNCHANGED vars
  <2>1. UNCHANGED <<marketVars, tableVars, cursors, watched, confirmations, faults>>
    BY <1>5 DEF vars
  <2>2. TailOK'
    <3>1. chain' = chain /\ tail' = tail /\ confirmations' = confirmations /\ watched' = watched
      BY <1>5, <2>1, ChainKept DEF vars
    <3> QED
      BY <3>1 DEF TypeInv, TailOK, Position, Busy, At
  <2> QED
    BY <2>1, <2>2, TailOnly
<1> QED
  BY <1>1, <1>2, <1>3, <1>4, <1>5 DEF Next

LEMMA TypesHold == Spec => []TypeInv
<1> QED
  BY TypeInvInit, TypeInvStep, PTL DEF Spec

(* Every table, cursor and step of the tailer is of its type, and the      *)
(* UNIQUE keys of the event tables hold, whatever is replayed: dispatch.go *)
(* and raw_ledger.go insert with OR IGNORE.                                *)
THEOREM TailerTypes == Spec => []TypeOK
<1>1. TypeInv => TypeOK
  BY TypeInvTypes
<1> QED
  BY <1>1, TypesHold, PTL

(***************************************************************************)
(* The chain: hashes are new, and events those of its engine.              *)
(***************************************************************************)

(* A block that is replaced gets a hash that was never given out.          *)
HashesGiven ==
    /\ \A b \in 1..Len(chain) : chain[b].hash <= lastHash
    /\ \A r \in 1..Realms : cursors[r].hash <= lastHash
    /\ tail.hash <= lastHash

EngineInv ==
    /\ \A b \in 1..Len(chain) : Engine(chain[b].events)
    /\ Engine(tail.events)

(* The first realm's cursor is never seeded.                               *)
FirstCursor == cursors[1].hash = NoHash => cursors[1].block = 0

ChainInv == HashesGiven /\ EngineInv /\ FirstCursor

LEMMA ChainInvInit == Init => ChainInv
BY DEF Init, MarketInit, ChainInv, HashesGiven, EngineInv, FirstCursor, Engine, NoRow,
       NoHash, Idle

(* A block stays, or is replaced by one with a new hash; one that is       *)
(* ReorgDepth below the tip, or met by no replacement, stays.              *)
LEMMA ChainMovesChange ==
    ASSUME TypeInv, ChainMoves
    PROVE  /\ Len(chain') >= Len(chain) /\ lastHash' >= lastHash /\ saleVolume' = saleVolume
           /\ reorgs' >= reorgs
           /\ \A b \in 1..Len(chain') :
                 \/ b \in 1..Len(chain) /\ chain'[b] = chain[b]
                 \/ /\ chain'[b].hash > lastHash /\ chain'[b].hash <= lastHash'
                    /\ Engine(chain'[b].events)
           /\ \A b \in 1..Len(chain) :
                 reorgs' = 0 \/ b + ReorgDepth <= Len(chain) => chain'[b] = chain[b]
<1>0. /\ chain \in Seq(PricedBlock) /\ Len(chain) \in Nat /\ lastHash \in Nat
      /\ reorgs \in Nat /\ MarketOK
  BY Basics DEF TypeInv, MarketOK
<1>1. ASSUME NEW hash, NEW b
      PROVE  Block(hash, b).hash = hash /\ Block(hash, b).events = b.events
  BY DEF Block
<1>2. ASSUME NEW h \in 0..Len(chain), NEW b \in Blocks(MarketAt(h))
      PROVE  Engine(b.events) /\ b.market \in Market /\ Block(lastHash + 1, b) \in PricedBlock
  <2>1. MarketAt(h) \in Market
    BY <1>0, MarketAtTypes
  <2>2. lastHash + 1 \in Nat \ {0}
    BY <1>0
  <2> QED
    BY <2>1, <2>2, BlockEngine, NewBlockTypes
<1>3. CASE \E b \in Blocks(MarketAt(Len(chain))) : Produce(b)
  <2>1. PICK b \in Blocks(MarketAt(Len(chain))) : Produce(b)
    BY <1>3
  <2>2. /\ chain' = Append(chain, Block(lastHash + 1, b)) /\ lastHash' = lastHash + 1
        /\ reorgs' = reorgs /\ saleVolume' = saleVolume
    BY <2>1 DEF Produce
  <2>3. Len(chain) \in 0..Len(chain)
    BY <1>0
  <2>4. Engine(b.events)
    BY <1>2, <2>3
  <2>5. /\ Len(chain') = Len(chain) + 1
        /\ \A k \in 1..Len(chain) : chain'[k] = chain[k]
        /\ chain'[Len(chain) + 1] = Block(lastHash + 1, b)
    BY <1>0, <2>2
  <2> QED
    BY <1>0, <1>1, <2>2, <2>4, <2>5
<1>4. CASE /\ ReorgDepth >= 1 /\ Len(chain) >= 1 /\ Reorg
           /\ \E b \in Blocks(MarketAt(Len(chain) - 1)) :
                chain' = [chain EXCEPT ![Len(chain)] = Block(lastHash + 1, b)]
           /\ lastHash' = lastHash + 1
  <2>1. PICK b \in Blocks(MarketAt(Len(chain) - 1)) :
                chain' = [chain EXCEPT ![Len(chain)] = Block(lastHash + 1, b)]
    BY <1>4
  <2>2. Len(chain) - 1 \in 0..Len(chain) /\ Len(chain) \in 1..Len(chain)
    BY <1>0, <1>4
  <2>3. Engine(b.events) /\ Block(lastHash + 1, b) \in PricedBlock
    BY <1>2, <2>2
  <2>5. /\ Len(chain') = Len(chain)
        /\ \A k \in 1..Len(chain) : k # Len(chain) => chain'[k] = chain[k]
        /\ chain'[Len(chain)] = Block(lastHash + 1, b)
    BY <1>0, <2>1, <2>2, <2>3, ExceptSeq
  <2>6. /\ reorgs' = reorgs + 1 /\ saleVolume' = saleVolume /\ lastHash' = lastHash + 1
        /\ ReorgDepth >= 1
    BY <1>4 DEF Reorg
  <2>7. /\ chain'[Len(chain)].hash = lastHash + 1
        /\ Engine(chain'[Len(chain)].events)
    BY <1>1, <2>3, <2>5
  <2>8. \A k \in 1..Len(chain) : k + ReorgDepth <= Len(chain) => k # Len(chain)
    BY <1>0, <2>6
  <2>9. reorgs' # 0
    BY <1>0, <2>6
  <2>10. \A k \in 1..Len(chain') :
            \/ k \in 1..Len(chain) /\ chain'[k] = chain[k]
            \/ /\ chain'[k].hash > lastHash /\ chain'[k].hash <= lastHash'
               /\ Engine(chain'[k].events)
    BY <1>0, <2>5, <2>6, <2>7
  <2>11. \A k \in 1..Len(chain) :
            reorgs' = 0 \/ k + ReorgDepth <= Len(chain) => chain'[k] = chain[k]
    BY <2>5, <2>8, <2>9
  <2> QED
    BY <1>0, <2>5, <2>6, <2>10, <2>11
<1>5. CASE /\ ReorgDepth >= 2 /\ Len(chain) >= 2 /\ Reorg
           /\ \E b \in Blocks(MarketAt(Len(chain) - 2)) : \E c \in Blocks(b.market) :
                chain' = [chain EXCEPT ![Len(chain) - 1] = Block(lastHash + 1, b),
                                       ![Len(chain)] = Block(lastHash + 2, c)]
           /\ lastHash' = lastHash + 2
  <2>1. PICK b \in Blocks(MarketAt(Len(chain) - 2)) : \E c \in Blocks(b.market) :
                chain' = [chain EXCEPT ![Len(chain) - 1] = Block(lastHash + 1, b),
                                       ![Len(chain)] = Block(lastHash + 2, c)]
    BY <1>5
  <2>2. PICK c \in Blocks(b.market) :
                chain' = [chain EXCEPT ![Len(chain) - 1] = Block(lastHash + 1, b),
                                       ![Len(chain)] = Block(lastHash + 2, c)]
    BY <2>1
  <2>3. /\ Len(chain) - 2 \in 0..Len(chain) /\ Len(chain) - 1 \in 1..Len(chain)
        /\ Len(chain) \in 1..Len(chain) /\ Len(chain) - 1 # Len(chain)
    BY <1>0, <1>5
  <2>4. Engine(b.events) /\ b.market \in Market /\ Block(lastHash + 1, b) \in PricedBlock
    BY <1>2, <2>3
  <2>5. Engine(c.events) /\ Block(lastHash + 2, c) \in PricedBlock
    <3>1. lastHash + 2 \in Nat \ {0}
      BY <1>0
    <3> QED
      BY <2>4, <3>1, BlockEngine, NewBlockTypes
  <2>7. /\ Len(chain') = Len(chain)
        /\ \A k \in 1..Len(chain) :
              k # Len(chain) /\ k # Len(chain) - 1 => chain'[k] = chain[k]
        /\ chain'[Len(chain) - 1] = Block(lastHash + 1, b)
        /\ chain'[Len(chain)] = Block(lastHash + 2, c)
    <3> DEFINE one == [chain EXCEPT ![Len(chain) - 1] = Block(lastHash + 1, b)]
    <3>1. /\ one \in Seq(PricedBlock) /\ Len(one) = Len(chain)
          /\ one[Len(chain) - 1] = Block(lastHash + 1, b)
          /\ \A k \in 1..Len(chain) : k # Len(chain) - 1 => one[k] = chain[k]
      BY <1>0, <2>3, <2>4, ExceptSeq
    <3>2. chain' = [one EXCEPT ![Len(chain)] = Block(lastHash + 2, c)]
      BY <2>2
    <3> HIDE DEF one
    <3>3. Len(chain) \in 1..Len(one)
      BY <2>3, <3>1
    <3>4. /\ Len(chain') = Len(chain)
          /\ chain'[Len(chain)] = Block(lastHash + 2, c)
          /\ \A k \in 1..Len(chain) : k # Len(chain) => chain'[k] = one[k]
      BY <2>5, <3>1, <3>2, <3>3, ExceptSeq
    <3> QED
      BY <2>3, <3>1, <3>4
  <2>8. /\ reorgs' = reorgs + 1 /\ saleVolume' = saleVolume /\ lastHash' = lastHash + 2
        /\ ReorgDepth >= 2
    BY <1>5 DEF Reorg
  <2>9. /\ chain'[Len(chain) - 1].hash = lastHash + 1
        /\ Engine(chain'[Len(chain) - 1].events)
        /\ chain'[Len(chain)].hash = lastHash + 2
        /\ Engine(chain'[Len(chain)].events)
    BY <1>1, <2>4, <2>5, <2>7
  <2>10. \A k \in 1..Len(chain) :
            k + ReorgDepth <= Len(chain) => k # Len(chain) /\ k # Len(chain) - 1
    BY <1>0, <2>8
  <2>11. reorgs' # 0
    BY <1>0, <2>8
  <2>12. \A k \in 1..Len(chain') :
            \/ k \in 1..Len(chain) /\ chain'[k] = chain[k]
            \/ /\ chain'[k].hash > lastHash /\ chain'[k].hash <= lastHash'
               /\ Engine(chain'[k].events)
    BY <1>0, <2>7, <2>8, <2>9
  <2>13. \A k \in 1..Len(chain) :
            reorgs' = 0 \/ k + ReorgDepth <= Len(chain) => chain'[k] = chain[k]
    BY <2>7, <2>10, <2>11
  <2> QED
    BY <1>0, <2>7, <2>8, <2>12, <2>13
<1> QED
  BY <1>3, <1>4, <1>5 DEF ChainMoves, Reorg

(* The event is applied, and the goroutine turns to the offer or goes on.  *)
LEMMA AppliedIs ==
    ASSUME TypeInv, At("apply"), Applied(Current)
    PROVE  /\ tail'.h = tail.h /\ tail'.end = tail.end /\ tail'.hash = tail.hash
           /\ tail'.events = tail.events
           /\ \/ ResolvesAfter(Current) /\ tail'.at = "resolve" /\ tail'.i = tail.i
              \/ ~ResolvesAfter(Current) /\ tail'.at = "dispatch" /\ tail'.i = tail.i + 1
<1>1. tail \in TailState
  BY Basics
<1>2. CASE ResolvesAfter(Current)
  BY <1>1, <1>2 DEF Applied, TailState
<1>3. CASE ~ResolvesAfter(Current)
  BY <1>1, <1>3 DEF Applied, TailState
<1> QED
  BY <1>2, <1>3

(* The steps that are about the hash and the events held already.          *)
LEMMA SameBlock ==
    ASSUME TypeInv,
           \/ CheckCursor \/ RollbackFromHeight \/ RecordRawEvent \/ ApplyMint
           \/ ApplyNFTListed \/ ApplyNFTDelisted \/ ApplyOfferMade \/ ApplyOfferCancelled
           \/ SettleSale \/ SkipCompanion \/ ResolveAccepted \/ BlockApplied \/ SaveCursor
    PROVE  tail'.hash = tail.hash /\ tail'.events = tail.events /\ UNCHANGED marketVars
<1>1. tail \in TailState
  BY Basics
<1>2. CASE CheckCursor
  BY <1>1, <1>2 DEF CheckCursor, StartAt, Goto, TailState
<1>3. CASE RollbackFromHeight
  BY <1>1, <1>3 DEF RollbackFromHeight, StartAt, TailState
<1>4. CASE RecordRawEvent
  BY <1>1, <1>4 DEF RecordRawEvent, Goto, TailState
<1>5. CASE ApplyMint \/ ApplyNFTListed \/ ApplyNFTDelisted
  BY <1>5, AppliedIs DEF ApplyMint, ApplyNFTListed, ApplyNFTDelisted
<1>6. CASE ApplyOfferMade \/ ApplyOfferCancelled
  BY <1>6, AppliedIs DEF ApplyOfferMade, ApplyOfferCancelled
<1>7. CASE SettleSale \/ SkipCompanion
  BY <1>7, AppliedIs DEF SettleSale, SkipCompanion
<1>8. CASE ResolveAccepted
  BY <1>1, <1>8 DEF ResolveAccepted, TailState
<1>9. CASE BlockApplied
  BY <1>1, <1>9 DEF BlockApplied, TailState
<1>10. CASE SaveCursor
  BY <1>1, <1>10 DEF SaveCursor, TailState
<1> QED
  BY <1>2, <1>3, <1>4, <1>5, <1>6, <1>7, <1>8, <1>9, <1>10

LEMMA KeepChainInv ==
    ASSUME ChainInv, UNCHANGED marketVars, cursors' = cursors,
           tail'.hash <= lastHash, Engine(tail'.events)
    PROVE  ChainInv'
<1>1. chain' = chain /\ lastHash' = lastHash /\ saleVolume' = saleVolume
  BY ChainKept
<1>2. \A s : Engine(s)' <=> Engine(s)
  BY <1>1 DEF Engine
<1> QED
  BY <1>1 DEF ChainInv, HashesGiven, EngineInv, FirstCursor, Engine

LEMMA ChainInvIdle ==
    ASSUME TypeInv, ChainInv, tail' = Idle
    PROVE  tail'.hash <= lastHash /\ Engine(tail'.events)
<1>1. lastHash \in Nat
  BY DEF TypeInv, MarketOK
<1> QED
  BY <1>1 DEF Idle, NoHash, Engine

LEMMA ChainInvCycle ==
    ASSUME TypeInv, ChainInv, Cycle
    PROVE  ChainInv'
<1>1. CASE Poll
  <2>1. PICK r \in 1..watched : LoadCursor = cursors[r]
    BY Basics, LoadCursorIs
  <2>2. r \in 1..Realms
    BY Basics
  <2>3. tail'.hash = cursors[r].hash /\ tail'.events = <<>>
    BY <1>1, <2>1 DEF Poll, Idle
  <2>4. cursors[r].hash <= lastHash /\ Engine(<<>>)
    BY <2>2 DEF ChainInv, HashesGiven, Engine
  <2> QED
    BY <1>1, <2>3, <2>4, KeepChainInv DEF Poll
<1>2. CASE CycleEnds
  BY <1>2, ChainInvIdle, KeepChainInv DEF CycleEnds
<1>3. CASE FetchHash
  <2>1. tail.h + 1 \in 1..Len(chain)
    <3>1. /\ tail.h \in Nat /\ tail.end \in Nat /\ tail.latest \in Nat /\ confirmations \in Nat
          /\ Len(chain) \in Nat /\ Position
      BY Basics
    <3>2. tail.at = "next" /\ tail.h < tail.end
      BY <1>3 DEF FetchHash, At
    <3>3. tail.end + confirmations <= tail.latest /\ tail.latest <= Len(chain)
      BY <3>1, <3>2 DEF Position, At
    <3> QED
      BY <3>1, <3>2, <3>3
  <2>2. tail'.hash = chain[tail.h + 1].hash /\ tail'.events = tail.events
    BY <1>3, Basics DEF FetchHash, TailState
  <2>3. chain[tail.h + 1].hash <= lastHash /\ Engine(tail.events)
    BY <2>1 DEF ChainInv, HashesGiven, EngineInv
  <2> QED
    BY <1>3, <2>2, <2>3, KeepChainInv DEF FetchHash
<1>4. CASE FetchEvents
  <2>1. tail.h \in 1..Len(chain)
    <3>1. /\ tail.h \in Nat /\ tail.end \in Nat /\ tail.latest \in Nat /\ confirmations \in Nat
          /\ Len(chain) \in Nat /\ Position
      BY Basics
    <3>2. tail.at = "fetch"
      BY <1>4 DEF FetchEvents, At
    <3>3. /\ tail.h \in 1..tail.end /\ tail.end + confirmations <= tail.latest
          /\ tail.latest <= Len(chain)
      BY <3>1, <3>2 DEF Position, Busy, At
    <3> QED
      BY <3>1, <3>3
  <2>2. tail'.hash = tail.hash /\ tail'.events = chain[tail.h].events
    BY <1>4, Basics DEF FetchEvents, TailState
  <2>3. tail.hash <= lastHash /\ Engine(chain[tail.h].events)
    BY <2>1 DEF ChainInv, HashesGiven, EngineInv
  <2> QED
    BY <1>4, <2>2, <2>3, KeepChainInv DEF FetchEvents
<1>5. CASE SaveCursor
  <2> DEFINE row == [block |-> tail.h, hash |-> tail.hash]
  <2>1. tail'.hash = tail.hash /\ tail'.events = tail.events /\ UNCHANGED marketVars
    BY <1>5, SameBlock
  <2>2. chain' = chain /\ lastHash' = lastHash /\ saleVolume' = saleVolume
    BY <2>1, ChainKept
  <2>3. cursors' = [cursors EXCEPT ![tail.realm] = row] /\ tail.at = "save"
    BY <1>5 DEF SaveCursor, At
  <2>4. /\ tail.hash # NoHash /\ tail.hash <= lastHash
        /\ cursors \in [1..Realms -> [block : Nat, hash : Nat]]
    BY <2>3, Basics DEF ChainInv, HashesGiven, Position, Busy, At
  <2>5. row.hash = tail.hash
    OBVIOUS
  <2> HIDE DEF row
  <2>6. \A r \in 1..Realms : cursors'[r] = cursors[r] \/ cursors'[r].hash = tail.hash
    BY <2>3, <2>4, <2>5
  <2>7. 1 \in 1..Realms
    OBVIOUS
  <2>8. HashesGiven'
    BY <2>1, <2>2, <2>4, <2>6 DEF ChainInv, HashesGiven
  <2>9. FirstCursor'
    BY <2>4, <2>6, <2>7 DEF ChainInv, FirstCursor
  <2>10. EngineInv'
    BY <2>1, <2>2 DEF ChainInv, EngineInv, Engine
  <2> QED
    BY <2>8, <2>9, <2>10 DEF ChainInv
<1>6. ASSUME \/ CheckCursor \/ RollbackFromHeight \/ RecordRawEvent \/ ApplyMint
             \/ ApplyNFTListed \/ ApplyNFTDelisted \/ ApplyOfferMade \/ ApplyOfferCancelled
             \/ SettleSale \/ SkipCompanion \/ ResolveAccepted \/ BlockApplied
      PROVE  ChainInv'
  <2>1. tail'.hash = tail.hash /\ tail'.events = tail.events /\ UNCHANGED marketVars
    BY <1>6, SameBlock
  <2>2. cursors' = cursors
    BY <1>6 DEF CheckCursor, RollbackFromHeight, RecordRawEvent, ApplyMint, ApplyNFTListed,
       ApplyNFTDelisted, ApplyOfferMade, ApplyOfferCancelled, SettleSale, SkipCompanion,
       ResolveAccepted, BlockApplied
  <2>3. tail.hash <= lastHash /\ Engine(tail.events)
    BY DEF ChainInv, HashesGiven, EngineInv
  <2> QED
    BY <2>1, <2>2, <2>3, KeepChainInv
<1> QED
  BY <1>1, <1>2, <1>3, <1>4, <1>5, <1>6 DEF Cycle

LEMMA ChainInvStep ==
    ASSUME TypeInv, ChainInv, [Next]_vars
    PROVE  ChainInv'
<1>1. CASE Cycle
  BY <1>1, ChainInvCycle
<1>2. CASE Interrupt
  BY <1>2, ChainInvIdle, KeepChainInv DEF Interrupt
<1>3. ASSUME NEW h \in 1..Len(chain), WatchSeeded(h) PROVE ChainInv'
  <2> DEFINE row == [block |-> h - 1, hash |-> NoHash]
  <2>1. /\ tail' = Idle /\ UNCHANGED marketVars
        /\ cursors' = [cursors EXCEPT ![watched + 1] = row]
    BY <1>3 DEF WatchSeeded
  <2>2. /\ cursors \in [1..Realms -> [block : Nat, hash : Nat]] /\ watched \in 1..Realms
        /\ lastHash \in Nat /\ 1 \in 1..Realms
    <3>1. lastHash \in Nat
      BY DEF TypeInv, MarketOK
    <3>2. cursors \in [1..Realms -> [block : Nat, hash : Nat]] /\ watched \in 1..Realms
      BY Basics
    <3> QED
      BY <3>1, <3>2
  <2>3. /\ chain' = chain /\ lastHash' = lastHash /\ saleVolume' = saleVolume
        /\ tail'.hash <= lastHash /\ Engine(tail'.events)
    BY <2>1, ChainKept, ChainInvIdle
  <2>4. row.hash = 0
    BY DEF NoHash
  <2> HIDE DEF row
  <2>5. \A r \in 1..Realms : cursors'[r] = cursors[r] \/ cursors'[r].hash = 0
    BY <2>1, <2>2, <2>4
  <2>6. watched + 1 # 1
    BY <2>2
  <2>7. cursors'[1] = cursors[1]
    BY <2>1, <2>2, <2>6
  <2>8. HashesGiven'
    <3>1. lastHash \in Nat /\ HashesGiven
      BY <2>2 DEF ChainInv
    <3>2. \A r \in 1..Realms : cursors'[r].hash <= lastHash
      BY <2>5, <3>1 DEF HashesGiven
    <3> QED
      BY <2>3, <3>1, <3>2 DEF HashesGiven
  <2>9. FirstCursor'
    BY <2>7 DEF ChainInv, FirstCursor
  <2>10. EngineInv'
    BY <2>3 DEF ChainInv, EngineInv, Engine
  <2> QED
    BY <2>8, <2>9, <2>10 DEF ChainInv
<1>4. CASE ChainMoves
  <2>1. cursors' = cursors /\ tail' = tail
    BY <1>4 DEF ChainMoves
  <2>2. /\ lastHash' >= lastHash /\ saleVolume' = saleVolume
        /\ \A b \in 1..Len(chain') :
                 \/ b \in 1..Len(chain) /\ chain'[b] = chain[b]
                 \/ /\ chain'[b].hash > lastHash /\ chain'[b].hash <= lastHash'
                    /\ Engine(chain'[b].events)
    BY <1>4, ChainMovesChange
  <2>3. lastHash \in Nat /\ lastHash' \in Nat
    BY <1>4, ChainMovesTypes DEF TypeInv, MarketOK
  <2>4. \A b \in 1..Len(chain) : chain[b].hash \in Nat
    BY BlockOfChain
  <2>5. \A b \in 1..Len(chain') : chain'[b].hash <= lastHash'
    BY <2>2, <2>3, <2>4 DEF ChainInv, HashesGiven
  <2>6. \A r \in 1..Realms : cursors[r].hash \in Nat
    BY Basics
  <2>7. tail.hash \in Nat
    BY Basics
  <2>8. HashesGiven'
    BY <2>1, <2>2, <2>3, <2>5, <2>6, <2>7 DEF ChainInv, HashesGiven
  <2>9. \A s : Engine(s) <=> (\A i \in DOMAIN s : s[i].type = "Sale" => saleVolume')
    BY <2>2 DEF Engine
  <2>10. EngineInv'
    BY <2>1, <2>2, <2>9 DEF ChainInv, EngineInv, Engine
  <2>11. FirstCursor'
    BY <2>1 DEF ChainInv, FirstCursor
  <2> QED
    BY <2>8, <2>10, <2>11 DEF ChainInv
<1>5. CASE UNCHANGED vars
  <2>1. UNCHANGED <<marketVars, cursors, tail>>
    BY <1>5 DEF vars
  <2> QED
    BY <2>1 DEF ChainInv, HashesGiven, EngineInv, FirstCursor, Engine, marketVars
<1> QED
  BY <1>1, <1>2, <1>3, <1>4, <1>5 DEF Next

LEMMA Types ==
    Spec => [](TypeInv /\ ChainInv)
<1>1. TypeInv /\ ChainInv /\ [Next]_vars => (TypeInv /\ ChainInv)'
  BY TypeInvStep, ChainInvStep
<1> QED
  BY <1>1, TypeInvInit, ChainInvInit, PTL DEF Spec

(***************************************************************************)
(* Where no block that has its confirmations is replaced: what the tables  *)
(* hold is the chain's own, and nothing before it is missing.              *)
(***************************************************************************)

Stable == BehindReorgs \/ reorgs = 0

Confirmed(b) == b >= 1 /\ b + confirmations <= Len(chain)

RawRow(b, i, e) == [block |-> b, index |-> i, event |-> e]

(* The row is the chain's own.                                             *)
RawOnChain(r) ==
    /\ Confirmed(r.block) /\ r.index \in 1..Len(chain[r.block].events)
    /\ r.event = chain[r.block].events[r.index]
SaleOnChain(s) ==
    /\ Confirmed(s.block) /\ s.index \in 1..Len(chain[s.block].events)
    /\ IsSettlement(chain[s.block].events[s.index])
    /\ s.price = chain[s.block].events[s.index].price

(* An event of the chain is in the tables.                                 *)
Told(b, i) == RawRow(b, i, chain[b].events[i]) \in raw
Sold(b, i) ==
    IsSettlement(chain[b].events[i]) => SaleOf(b, i, chain[b].events[i]) \in sales
ToldTo(b, n) == \A i \in 1..n : Told(b, i)
SoldTo(b, n) == \A i \in 1..n : Sold(b, i)
Done(b) == ToldTo(b, Len(chain[b].events)) /\ SoldTo(b, Len(chain[b].events))

(* The tables hold no sale without those before it.                        *)
Before(b, i, s) == b < s.block \/ (b = s.block /\ i < s.index)
SalesInOrder ==
    \A s \in sales : \A b \in 1..s.block : \A i \in 1..Len(chain[b].events) :
        Before(b, i, s) => Sold(b, i)

RawRowsOnChain == \A r \in raw : RawOnChain(r)
SaleRowsOnChain == \A s \in sales : SaleOnChain(s)
CursorRowsOnChain ==
    \A r \in 1..Realms :
        cursors[r].hash # NoHash => cursors[r].hash = chain[cursors[r].block].hash
CursorDone == \A b \in 1..cursors[1].block : Confirmed(b) /\ Done(b)

TablesOnChain ==
    CursorRowsOnChain /\ RawRowsOnChain /\ SaleRowsOnChain /\ SalesInOrder /\ CursorDone

(* What has been applied when the goroutine is where it is.                *)
TailOnChain ==
    /\ ~At("rollback")
    /\ At("check") /\ tail.hash # NoHash =>
          Confirmed(tail.h) /\ tail.hash = chain[tail.h].hash
    /\ At("check") \/ At("next") => \A b \in 1..tail.h : Confirmed(b) /\ Done(b)
    /\ Busy => /\ Confirmed(tail.h) /\ tail.hash = chain[tail.h].hash
               /\ \A b \in 1..(tail.h - 1) : Done(b)
    /\ At("dispatch") \/ At("apply") \/ At("resolve") => tail.events = chain[tail.h].events
    /\ At("dispatch") => ToldTo(tail.h, tail.i - 1) /\ SoldTo(tail.h, tail.i - 1)
    /\ At("apply") => ToldTo(tail.h, tail.i) /\ SoldTo(tail.h, tail.i - 1)
    /\ At("resolve") => ToldTo(tail.h, tail.i) /\ SoldTo(tail.h, tail.i)
    /\ At("save") => Done(tail.h)

StableInv == Stable => TablesOnChain /\ TailOnChain

LEMMA StableInvInit == Init => StableInv
<1> SUFFICES ASSUME Init PROVE TablesOnChain /\ TailOnChain
  BY DEF StableInv
<1>1. /\ raw = {} /\ sales = {} /\ cursors = [r \in 1..Realms |-> NoRow] /\ tail = Idle
      /\ 1 \in 1..Realms
  BY DEF Init
<1>2. TablesOnChain
  BY <1>1 DEF TablesOnChain, CursorRowsOnChain, RawRowsOnChain, SaleRowsOnChain,
              SalesInOrder, CursorDone, NoRow, NoHash
<1>3. TailOnChain
  BY <1>1 DEF TailOnChain, Idle, At, Busy
<1> QED
  BY <1>2, <1>3

LEMMA ConfirmedIs ==
    ASSUME TypeInv, NEW b \in Nat, Confirmed(b)
    PROVE  b \in 1..Len(chain) /\ \A a \in 1..b : Confirmed(a)
<1>1. confirmations \in Nat /\ Len(chain) \in Nat
  BY Basics
<1> QED
  BY <1>1 DEF Confirmed

(* The block being applied has its confirmations.                          *)
LEMMA ConfirmedTo ==
    ASSUME TypeInv
    PROVE  /\ Busy => Confirmed(tail.h) /\ tail.h \in 1..Len(chain)
           /\ At("next") /\ tail.h < tail.end =>
                 Confirmed(tail.h + 1) /\ tail.h + 1 \in 1..Len(chain)
<1>1. /\ tail.h \in Nat /\ tail.end \in Nat /\ tail.latest \in Nat /\ confirmations \in Nat
      /\ Len(chain) \in Nat /\ Position
  BY Basics
<1>2. CASE Busy
  <2>1. /\ tail.h \in 1..tail.end /\ tail.end + confirmations <= tail.latest
        /\ tail.latest <= Len(chain) /\ tail.at # "next"
    BY <1>1, <1>2 DEF Position, Busy, At
  <2> QED
    BY <1>1, <2>1 DEF Confirmed, At
<1>3. CASE At("next") /\ tail.h < tail.end
  <2>1. tail.end + confirmations <= tail.latest /\ tail.latest <= Len(chain) /\ ~Busy
    BY <1>1, <1>3 DEF Position, Busy, At
  <2> QED
    BY <1>1, <1>3, <2>1 DEF Confirmed
<1> QED
  BY <1>2, <1>3

LEMMA KeepTablesOnChain ==
    ASSUME TablesOnChain, UNCHANGED <<marketVars, raw, sales, cursors, confirmations>>
    PROVE  TablesOnChain'
<1>1. chain' = chain /\ saleVolume' = saleVolume
  BY ChainKept
<1> QED
  BY <1>1 DEF TablesOnChain, CursorRowsOnChain, RawRowsOnChain, SaleRowsOnChain,
     SalesInOrder, CursorDone, RawOnChain, SaleOnChain, Confirmed, Done, ToldTo, SoldTo, Told,
     Sold, RawRow, SaleOf, IsSettlement, Before

(* The predicates of the chain's rows are as they were.                    *)
LEMMA SameRows ==
    ASSUME UNCHANGED <<marketVars, raw, sales, confirmations>>
    PROVE  /\ \A b : Confirmed(b)' <=> Confirmed(b)
           /\ \A b : Done(b)' <=> Done(b)
           /\ \A b, n : ToldTo(b, n)' <=> ToldTo(b, n)
           /\ \A b, n : SoldTo(b, n)' <=> SoldTo(b, n)
<1>1. chain' = chain /\ saleVolume' = saleVolume
  BY ChainKept
<1>2. \A b, n : ToldTo(b, n)' <=> ToldTo(b, n)
  BY <1>1 DEF ToldTo, Told, RawRow
<1>3. \A b, n : SoldTo(b, n)' <=> SoldTo(b, n)
  BY <1>1 DEF SoldTo, Sold, SaleOf, IsSettlement
<1> QED
  BY <1>1, <1>2, <1>3 DEF Confirmed, Done

(* What a step of the goroutine that leaves the ledgers alone has to show. *)
LEMMA TailMoves ==
    ASSUME UNCHANGED <<marketVars, raw, sales, confirmations>>,
           NEW at, NEW h, NEW i, NEW hash, NEW events,
           tail'.at = at, tail'.h = h, tail'.i = i, tail'.hash = hash, tail'.events = events,
           at # "rollback",
           at = "check" /\ hash # NoHash => Confirmed(h) /\ hash = chain[h].hash,
           at \in {"check", "next"} => \A b \in 1..h : Confirmed(b) /\ Done(b),
           at \in {"fetch", "dispatch", "apply", "resolve", "save"} =>
              Confirmed(h) /\ hash = chain[h].hash /\ \A b \in 1..(h - 1) : Done(b),
           at \in {"dispatch", "apply", "resolve"} => events = chain[h].events,
           at = "dispatch" => ToldTo(h, i - 1) /\ SoldTo(h, i - 1),
           at = "apply" => ToldTo(h, i) /\ SoldTo(h, i - 1),
           at = "resolve" => ToldTo(h, i) /\ SoldTo(h, i),
           at = "save" => Done(h)
    PROVE  TailOnChain'
<1>1. chain' = chain /\ saleVolume' = saleVolume /\ raw' = raw /\ sales' = sales
      /\ confirmations' = confirmations
  BY ChainKept
<1>2. \A b : /\ Confirmed(b) <=> b >= 1 /\ b + confirmations' <= Len(chain')
             /\ Done(b) <=> /\ \A n \in 1..Len(chain'[b].events) :
                                 RawRow(b, n, chain'[b].events[n]) \in raw'
                            /\ \A n \in 1..Len(chain'[b].events) :
                                 IsSettlement(chain'[b].events[n]) =>
                                    SaleOf(b, n, chain'[b].events[n]) \in sales'
  BY <1>1 DEF Confirmed, Done, ToldTo, SoldTo, Told, Sold
<1>3. \A b, k : /\ ToldTo(b, k) <=> \A n \in 1..k :
                                       RawRow(b, n, chain'[b].events[n]) \in raw'
                /\ SoldTo(b, k) <=> \A n \in 1..k :
                                       IsSettlement(chain'[b].events[n]) =>
                                          SaleOf(b, n, chain'[b].events[n]) \in sales'
  BY <1>1 DEF ToldTo, SoldTo, Told, Sold
<1>4. \A e : IsSettlement(e)' <=> IsSettlement(e)
  BY <1>1 DEF IsSettlement
<1> QED
  BY <1>1, <1>2, <1>3, <1>4
  DEF TailOnChain, Busy, At, Confirmed, Done, ToldTo, SoldTo, Told, Sold, IsSettlement

(* An event of the block being applied goes into the ledgers.              *)
LEMMA LedgersGrow ==
    ASSUME TablesOnChain, UNCHANGED <<marketVars, cursors, confirmations>>,
           raw \subseteq raw', sales \subseteq sales',
           \A r \in raw' \ raw : RawOnChain(r),
           \A s \in sales' \ sales :
              /\ SaleOnChain(s)
              /\ \A b \in 1..s.block : \A i \in 1..Len(chain[b].events) :
                    Before(b, i, s) => Sold(b, i)
    PROVE  TablesOnChain'
<1>1. chain' = chain /\ saleVolume' = saleVolume /\ cursors' = cursors
      /\ confirmations' = confirmations
  BY ChainKept
<1>2. CursorRowsOnChain'
  BY <1>1 DEF TablesOnChain, CursorRowsOnChain
<1>3. RawRowsOnChain'
  <2>1. \A r \in raw' : RawOnChain(r)
    BY DEF TablesOnChain, RawRowsOnChain
  <2> QED
    BY <1>1, <2>1 DEF RawRowsOnChain, RawOnChain, Confirmed
<1>4. SaleRowsOnChain'
  <2>1. \A s \in sales' : SaleOnChain(s)
    BY DEF TablesOnChain, SaleRowsOnChain
  <2> QED
    BY <1>1, <2>1 DEF SaleRowsOnChain, SaleOnChain, Confirmed, IsSettlement
<1>5. SalesInOrder'
  <2>1. \A s \in sales' : \A b \in 1..s.block : \A i \in 1..Len(chain[b].events) :
           Before(b, i, s) => Sold(b, i)
    BY DEF TablesOnChain, SalesInOrder
  <2> QED
    BY <1>1, <2>1 DEF SalesInOrder, Sold, SaleOf, Before, IsSettlement
<1>6. CursorDone'
  <2>1. \A b \in 1..cursors[1].block : Confirmed(b) /\ Done(b)
    BY DEF TablesOnChain, CursorDone
  <2> QED
    BY <1>1, <2>1
    DEF CursorDone, Confirmed, Done, ToldTo, SoldTo, Told, Sold, RawRow, SaleOf, IsSettlement
<1> QED
  BY <1>2, <1>3, <1>4, <1>5, <1>6 DEF TablesOnChain

LEMMA EventMoves ==
    ASSUME TailOnChain, tail.at \in {"dispatch", "apply", "resolve"},
           UNCHANGED <<marketVars, confirmations>>,
           raw \subseteq raw', sales \subseteq sales',
           NEW h, h = tail.h, tail'.h = h, tail'.hash = tail.hash,
           NEW events, events = tail.events, tail'.events = events,
           NEW at \in {"dispatch", "apply", "resolve"}, tail'.at = at,
           NEW i, tail'.i = i,
           \A n \in 1..(IF at = "dispatch" THEN i - 1 ELSE i) :
              RawRow(h, n, events[n]) \in raw',
           \A n \in 1..(IF at = "resolve" THEN i ELSE i - 1) :
              IsSettlement(events[n]) => SaleOf(h, n, events[n]) \in sales'
    PROVE  TailOnChain'
<1>1. chain' = chain /\ saleVolume' = saleVolume /\ confirmations' = confirmations
  BY ChainKept
<1>2. Busy /\ events = chain[h].events /\ Confirmed(h) /\ tail.hash = chain[h].hash
      /\ \A b \in 1..(h - 1) : Done(b)
  BY DEF TailOnChain, Busy, At
<1>3. \A b : Confirmed(b)' <=> Confirmed(b)
  BY <1>1 DEF Confirmed
<1>4. \A b \in 1..(h - 1) : /\ \A n \in 1..Len(chain[b].events) :
                                 RawRow(b, n, chain[b].events[n]) \in raw'
                            /\ \A n \in 1..Len(chain[b].events) :
                                 IsSettlement(chain[b].events[n]) =>
                                    SaleOf(b, n, chain[b].events[n]) \in sales'
  BY <1>2 DEF Done, ToldTo, SoldTo, Told, Sold
<1>5. \A e : IsSettlement(e)' <=> IsSettlement(e)
  BY <1>1 DEF IsSettlement
<1> QED
  BY <1>1, <1>2, <1>3, <1>4, <1>5
  DEF TailOnChain, Busy, At, Confirmed, Done, ToldTo, SoldTo, Told, Sold, IsSettlement

LEMMA EventApplied ==
    ASSUME TypeInv, TailOnChain, At("apply"), Applied(Current),
           UNCHANGED <<marketVars, raw, confirmations>>, sales \subseteq sales',
           IsSettlement(Current) => SaleOf(tail.h, tail.i, Current) \in sales'
    PROVE  TailOnChain'
<1> DEFINE h == tail.h
           events == tail.events
<1>1. /\ tail'.h = h /\ tail'.hash = tail.hash /\ tail'.events = events
      /\ \/ tail'.at = "resolve" /\ tail'.i = tail.i
         \/ tail'.at = "dispatch" /\ tail'.i = tail.i + 1
  BY AppliedIs
<1>2. tail.i \in Nat /\ tail.i \in 1..Len(tail.events) /\ Len(tail.events) \in Nat
  BY Basics, CurrentTypes
<1>3. ToldTo(h, tail.i) /\ SoldTo(h, tail.i - 1) /\ events = chain[h].events
  BY DEF TailOnChain
<1>4. \A n \in 1..tail.i : RawRow(h, n, events[n]) \in raw'
  BY <1>3 DEF ToldTo, Told
<1>5. \A n \in 1..tail.i : IsSettlement(events[n]) => SaleOf(h, n, events[n]) \in sales'
  <2>1. \A n \in 1..(tail.i - 1) : IsSettlement(events[n]) => SaleOf(h, n, events[n]) \in sales'
    BY <1>3 DEF SoldTo, Sold
  <2>2. IsSettlement(events[tail.i]) => SaleOf(h, tail.i, events[tail.i]) \in sales'
    BY DEF Current
  <2>3. \A n \in 1..tail.i : n \in 1..(tail.i - 1) \/ n = tail.i
    BY <1>2
  <2> QED
    BY <2>1, <2>2, <2>3
<1>6. tail.at \in {"dispatch", "apply", "resolve"}
  BY DEF At
<1> HIDE DEF h, events
<1>7. h = tail.h /\ events = tail.events
  BY DEF h, events
<1>8. CASE tail'.at = "resolve" /\ tail'.i = tail.i
  <2>1. \A n \in 1..(tail.i - 1) : n \in 1..tail.i
    BY <1>2
  <2> QED
    BY <1>1, <1>4, <1>5, <1>6, <1>7, <1>8, EventMoves
<1>9. CASE tail'.at = "dispatch" /\ tail'.i = tail.i + 1
  <2> DEFINE at == "dispatch"
             i == tail.i + 1
  <2>1. i - 1 = tail.i /\ at = "dispatch" /\ at # "resolve"
    BY <1>2
  <2>2. tail'.at = at /\ tail'.i = i /\ at \in {"dispatch", "apply", "resolve"}
    BY <1>9
  <2> HIDE DEF at, i
  <2>3. /\ \A n \in 1..(IF at = "dispatch" THEN i - 1 ELSE i) :
              RawRow(h, n, events[n]) \in raw'
        /\ \A n \in 1..(IF at = "resolve" THEN i ELSE i - 1) :
              IsSettlement(events[n]) => SaleOf(h, n, events[n]) \in sales'
    BY <1>4, <1>5, <2>1
  <2> QED
    BY <1>1, <1>6, <1>7, <2>2, <2>3, EventMoves
<1> QED
  BY <1>1, <1>8, <1>9

LEMMA PollOnChain ==
    ASSUME TypeInv, TablesOnChain, TailOnChain, Poll
    PROVE  TablesOnChain' /\ TailOnChain'
<1>1. PICK r \in 1..watched : LoadCursor = cursors[r] /\
              \A q \in 1..watched : cursors[r].block <= cursors[q].block
  BY Basics, LoadCursorIs
<1>2. /\ cursors \in [1..Realms -> [block : Nat, hash : Nat]] /\ watched \in 1..Realms
      /\ CursorsConfirmed
  BY Basics
<1>3. r \in 1..Realms /\ 1 \in 1..watched /\ 1 \in 1..Realms
  BY <1>2
<1>4. cursors[r].block \in Nat /\ cursors[1].block \in Nat /\ cursors[r].block <= cursors[1].block
  BY <1>1, <1>2, <1>3
<1>5. /\ tail'.at = "check" /\ tail'.h = cursors[r].block /\ tail'.hash = cursors[r].hash
      /\ tail'.i = 0 /\ tail'.events = <<>>
  BY <1>1 DEF Poll, Idle
<1>6. \A b \in 1..cursors[r].block : Confirmed(b) /\ Done(b)
  BY <1>4 DEF TablesOnChain, CursorDone
<1>7. cursors[r].hash # NoHash =>
         Confirmed(cursors[r].block) /\ cursors[r].hash = chain[cursors[r].block].hash
  BY <1>2, <1>3 DEF TablesOnChain, CursorRowsOnChain, CursorsConfirmed, Confirmed
<1>8. UNCHANGED <<marketVars, raw, sales, cursors, confirmations>>
  BY DEF Poll, tableVars
<1> QED
  BY <1>5, <1>6, <1>7, <1>8, TailMoves, KeepTablesOnChain

LEMMA CheckCursorOnChain ==
    ASSUME TypeInv, TablesOnChain, TailOnChain, CheckCursor
    PROVE  TablesOnChain' /\ TailOnChain'
<1>1. At("check") /\ UNCHANGED <<marketVars, raw, sales, cursors, confirmations>>
  BY DEF CheckCursor, tableVars
<1>2. StartAt(tail.h)
  BY <1>1 DEF TailOnChain, CheckCursor
<1>3. /\ tail'.at = "next" /\ tail'.h = tail.h /\ tail'.i = tail.i /\ tail'.hash = tail.hash
      /\ tail'.events = tail.events
  BY <1>2, Basics DEF StartAt, TailState
<1>4. \A b \in 1..tail.h : Confirmed(b) /\ Done(b)
  BY <1>1 DEF TailOnChain
<1> QED
  BY <1>1, <1>3, <1>4, TailMoves, KeepTablesOnChain

LEMMA IdleOnChain ==
    ASSUME tail' = Idle, UNCHANGED <<marketVars, raw, sales, confirmations>>
    PROVE  TailOnChain'
BY DEF TailOnChain, Idle, At, Busy

LEMMA FetchHashOnChain ==
    ASSUME TypeInv, TablesOnChain, TailOnChain, FetchHash
    PROVE  TablesOnChain' /\ TailOnChain'
<1>1. /\ At("next") /\ tail.h < tail.end /\ tail.h \in Nat
      /\ UNCHANGED <<marketVars, raw, sales, cursors, confirmations>>
  BY Basics DEF FetchHash, tableVars
<1>2. Confirmed(tail.h + 1) /\ \A b \in 1..tail.h : Done(b)
  BY <1>1, ConfirmedTo DEF TailOnChain
<1>3. /\ tail'.at = "fetch" /\ tail'.h = tail.h + 1 /\ tail'.i = tail.i
      /\ tail'.hash = chain[tail.h + 1].hash /\ tail'.events = tail.events
  BY Basics DEF FetchHash, TailState
<1>4. tail.h + 1 - 1 = tail.h
  BY <1>1
<1> QED
  BY <1>1, <1>2, <1>3, <1>4, TailMoves, KeepTablesOnChain

LEMMA FetchEventsOnChain ==
    ASSUME TypeInv, TablesOnChain, TailOnChain, FetchEvents
    PROVE  TablesOnChain' /\ TailOnChain'
<1>1. At("fetch") /\ Busy /\ UNCHANGED <<marketVars, raw, sales, cursors, confirmations>>
  BY DEF FetchEvents, tableVars, At, Busy
<1>2. Confirmed(tail.h) /\ tail.hash = chain[tail.h].hash /\ \A b \in 1..(tail.h - 1) : Done(b)
  BY <1>1 DEF TailOnChain
<1>3. /\ tail'.at = "dispatch" /\ tail'.h = tail.h /\ tail'.i = 1
      /\ tail'.hash = tail.hash /\ tail'.events = chain[tail.h].events
  BY Basics DEF FetchEvents, TailState
<1>4. ToldTo(tail.h, 1 - 1) /\ SoldTo(tail.h, 1 - 1)
  BY DEF ToldTo, SoldTo
<1> QED
  BY <1>1, <1>2, <1>3, <1>4, TailMoves, KeepTablesOnChain

LEMMA BlockAppliedOnChain ==
    ASSUME TypeInv, TablesOnChain, TailOnChain, BlockApplied
    PROVE  TablesOnChain' /\ TailOnChain'
<1>1. /\ At("dispatch") /\ Busy /\ tail.i > Len(tail.events)
      /\ UNCHANGED <<marketVars, raw, sales, cursors, confirmations>>
  BY DEF BlockApplied, tableVars, At, Busy
<1>2. /\ Confirmed(tail.h) /\ tail.hash = chain[tail.h].hash
      /\ \A b \in 1..(tail.h - 1) : Done(b)
      /\ tail.events = chain[tail.h].events
      /\ ToldTo(tail.h, tail.i - 1) /\ SoldTo(tail.h, tail.i - 1)
  BY <1>1 DEF TailOnChain
<1>3. /\ tail'.at = "save" /\ tail'.h = tail.h /\ tail'.i = tail.i
      /\ tail'.hash = tail.hash /\ tail'.events = tail.events
  BY Basics DEF BlockApplied, TailState
<1>4. Done(tail.h)
  <2>1. \A n \in 1..Len(tail.events) : n \in 1..(tail.i - 1)
    BY <1>1, Basics
  <2> QED
    BY <1>2, <2>1 DEF Done, ToldTo, SoldTo
<1> QED
  BY <1>1, <1>2, <1>3, <1>4, TailMoves, KeepTablesOnChain

LEMMA ResolveAcceptedOnChain ==
    ASSUME TypeInv, TablesOnChain, TailOnChain, ResolveAccepted
    PROVE  TablesOnChain' /\ TailOnChain'
<1>1. /\ At("resolve") /\ Busy /\ tail.i \in Nat
      /\ UNCHANGED <<marketVars, raw, sales, cursors, confirmations>>
  BY Basics DEF ResolveAccepted, At, Busy
<1>2. /\ Confirmed(tail.h) /\ tail.hash = chain[tail.h].hash
      /\ \A b \in 1..(tail.h - 1) : Done(b)
      /\ tail.events = chain[tail.h].events
      /\ ToldTo(tail.h, tail.i) /\ SoldTo(tail.h, tail.i)
  BY <1>1 DEF TailOnChain
<1>3. /\ tail'.at = "dispatch" /\ tail'.h = tail.h /\ tail'.i = tail.i + 1
      /\ tail'.hash = tail.hash /\ tail'.events = tail.events
  BY Basics DEF ResolveAccepted, TailState
<1>4. tail.i + 1 - 1 = tail.i
  BY <1>1
<1> QED
  BY <1>1, <1>2, <1>3, <1>4, TailMoves, KeepTablesOnChain

(* An event that is not a settlement leaves the ledgers as they are.       *)
LEMMA OtherEventOnChain ==
    ASSUME TypeInv, ChainInv, TablesOnChain, TailOnChain,
           \/ ApplyMint \/ ApplyNFTListed \/ ApplyNFTDelisted \/ ApplyOfferMade
           \/ ApplyOfferCancelled \/ SkipCompanion
    PROVE  TablesOnChain' /\ TailOnChain'
<1>1. /\ At("apply") /\ Applied(Current)
      /\ UNCHANGED <<marketVars, raw, sales, cursors, confirmations>>
  BY DEF ApplyMint, ApplyNFTListed, ApplyNFTDelisted, ApplyOfferMade, ApplyOfferCancelled,
         SkipCompanion, tableVars
<1>2. ~IsSettlement(Current)
  BY DEF ApplyMint, ApplyNFTListed, ApplyNFTDelisted, ApplyOfferMade, ApplyOfferCancelled,
         SkipCompanion, IsSettlement, Settles
<1> QED
  BY <1>1, <1>2, EventApplied, KeepTablesOnChain

LEMMA RawRowIs ==
    ASSUME NEW r \in [block : Nat, index : Nat, event : Event]
    PROVE  r = RawRow(r.block, r.index, r.event)
BY DEF RawRow

LEMMA SaleRowIs ==
    ASSUME NEW s \in SaleRow
    PROVE  s = [block |-> s.block, index |-> s.index, price |-> s.price]
BY DEF SaleRow

LEMMA RecordRawEventOnChain ==
    ASSUME TypeInv, TablesOnChain, TailOnChain, RecordRawEvent
    PROVE  TablesOnChain' /\ TailOnChain'
<1> DEFINE h == tail.h
           i == tail.i
           events == tail.events
           row == RawRow(h, i, events[i])
<1>1. /\ At("dispatch") /\ tail.i \in 1..Len(tail.events) /\ tail.i \in Nat /\ tail.h \in Nat
      /\ Len(tail.events) \in Nat
  BY Basics DEF RecordRawEvent, Position
<1>2. /\ Confirmed(h) /\ events = chain[h].events /\ i \in 1..Len(chain[h].events)
      /\ ToldTo(h, i - 1) /\ SoldTo(h, i - 1)
  BY <1>1 DEF TailOnChain, Busy, At
<1>3. raw' = InsertOrIgnore(raw, row) /\ UNCHANGED <<marketVars, sales, cursors, confirmations>>
  BY DEF RecordRawEvent, RawRow
<1>4. row.block = h /\ row.index = i /\ row.event = events[i]
  BY DEF RawRow
<1>5. RawOnChain(row)
  BY <1>2, <1>4 DEF RawOnChain
<1>6. row \in raw' /\ raw \subseteq raw' /\ raw' \subseteq raw \cup {row}
  <2>1. CASE \E r \in raw : r.block = row.block /\ r.index = row.index
    <3>1. PICK r \in raw : r.block = row.block /\ r.index = row.index
      BY <2>1
    <3>2. r.event = events[i]
      BY <1>2, <1>4, <3>1 DEF TablesOnChain, RawRowsOnChain, RawOnChain
    <3>3. r \in [block : Nat, index : Nat, event : Event]
      BY DEF TypeInv, TablesOK, RawOK
    <3>4. r = RawRow(h, i, events[i])
      BY <1>4, <3>1, <3>2, <3>3, RawRowIs
    <3>5. raw' = raw
      BY <1>3, <2>1 DEF InsertOrIgnore
    <3> QED
      BY <3>4, <3>5
  <2>2. CASE ~\E r \in raw : r.block = row.block /\ r.index = row.index
    BY <1>3, <2>2 DEF InsertOrIgnore
  <2> QED
    BY <2>1, <2>2
<1>7. /\ tail'.at = "apply" /\ tail'.h = h /\ tail'.i = i /\ tail'.hash = tail.hash
      /\ tail'.events = events
  BY Basics DEF RecordRawEvent, Goto, TailState
<1>8. TablesOnChain'
  BY <1>3, <1>5, <1>6, LedgersGrow
<1>9. \A n \in 1..i : RawRow(h, n, events[n]) \in raw'
  <2>1. \A n \in 1..(i - 1) : RawRow(h, n, events[n]) \in raw'
    BY <1>2, <1>6 DEF ToldTo, Told
  <2>2. \A n \in 1..i : n \in 1..(i - 1) \/ n = i
    BY <1>1
  <2> QED
    BY <1>6, <2>1, <2>2
<1>10. \A n \in 1..(i - 1) : IsSettlement(events[n]) => SaleOf(h, n, events[n]) \in sales'
  BY <1>2, <1>3 DEF SoldTo, Sold
<1> HIDE DEF h, i, events, row
<1>11. h = tail.h /\ events = tail.events /\ tail.at \in {"dispatch", "apply", "resolve"}
  BY <1>1 DEF h, events, At
<1>12. TailOnChain'
  BY <1>3, <1>6, <1>7, <1>9, <1>10, <1>11, EventMoves
<1> QED
  BY <1>8, <1>12

(* What settleSale takes for a settlement is one.                          *)
LEMMA SettlesIs ==
    ASSUME TypeInv, ChainInv, At("apply")
    PROVE  Settles(Current) <=> IsSettlement(Current)
<1>1. tail.i \in 1..Len(tail.events) /\ tail.events \in Seq(PricedEvent)
  BY Basics, CurrentTypes
<1>2. Current.type = "Sale" => saleVolume
  BY <1>1 DEF ChainInv, EngineInv, Engine, Current
<1> QED
  BY <1>2 DEF Settles, IsSettlement

LEMMA SettleSaleOnChain ==
    ASSUME TypeInv, ChainInv, TablesOnChain, TailOnChain, SettleSale
    PROVE  TablesOnChain' /\ TailOnChain'
<1> DEFINE h == tail.h
           i == tail.i
           row == SaleOf(h, i, Current)
<1>1. /\ At("apply") /\ Applied(Current) /\ tail.i \in 1..Len(tail.events) /\ tail.i \in Nat
      /\ tail.h \in Nat /\ IsSettlement(Current)
      /\ UNCHANGED <<marketVars, raw, cursors, confirmations>>
  BY Basics, CurrentTypes, SettlesIs DEF SettleSale
<1>2. /\ Confirmed(h) /\ tail.events = chain[h].events /\ SoldTo(h, i - 1)
      /\ \A b \in 1..(h - 1) : Done(b)
  BY <1>1 DEF TailOnChain, Busy, At
<1>3. sales' = IF SaleKnown THEN sales ELSE InsertOrIgnore(sales, row)
  BY DEF SettleSale, SaleOf
<1>4. row.block = h /\ row.index = i /\ row.price = Current.price
  BY DEF SaleOf
<1>5. SaleOnChain(row)
  BY <1>1, <1>2, <1>4 DEF SaleOnChain, Current
<1>6. row \in sales' /\ sales \subseteq sales' /\ sales' \subseteq sales \cup {row}
  <2>1. CASE \E s \in sales : s.block = h /\ s.index = i
    <3>1. PICK s \in sales : s.block = h /\ s.index = i
      BY <2>1
    <3>2. s.price = Current.price
      BY <1>2, <3>1 DEF TablesOnChain, SaleRowsOnChain, SaleOnChain, Current
    <3>3. s \in SaleRow
      BY DEF TypeInv, TablesOK, SalesOK, FiniteSales
    <3>4. s = row
      BY <3>1, <3>2, <3>3, SaleRowIs DEF SaleOf
    <3>5. sales' = sales
      BY <1>3, <1>4, <2>1 DEF InsertOrIgnore
    <3> QED
      BY <3>4, <3>5
  <2>2. CASE ~\E s \in sales : s.block = h /\ s.index = i
    BY <1>3, <1>4, <2>2 DEF InsertOrIgnore, SaleKnown
  <2> QED
    BY <2>1, <2>2
<1>7. \A b \in 1..row.block : \A n \in 1..Len(chain[b].events) :
         Before(b, n, row) => Sold(b, n)
  <2> SUFFICES ASSUME NEW b \in 1..h, NEW n \in 1..Len(chain[b].events), Before(b, n, row)
               PROVE  Sold(b, n)
    BY <1>4
  <2>1. CASE b < h
    <3>1. b \in 1..(h - 1)
      BY <1>1, <2>1
    <3> QED
      BY <1>2, <3>1 DEF Done, SoldTo
  <2>2. CASE b = h /\ n < i
    <3>1. n \in 1..(i - 1)
      BY <1>1, <2>2
    <3> QED
      BY <1>2, <2>2, <3>1 DEF SoldTo
  <2> QED
    BY <1>4, <2>1, <2>2 DEF Before
<1>8. TablesOnChain'
  <2>1. \A s \in sales' \ sales : s = row
    BY <1>6
  <2> HIDE DEF row
  <2> QED
    BY <1>1, <1>5, <1>6, <1>7, <2>1, LedgersGrow
<1>9. TailOnChain'
  BY <1>1, <1>6, EventApplied
<1> QED
  BY <1>8, <1>9

LEMMA SaveCursorOnChain ==
    ASSUME TypeInv, TablesOnChain, TailOnChain, SaveCursor
    PROVE  TablesOnChain' /\ TailOnChain'
<1> DEFINE row == [block |-> tail.h, hash |-> tail.hash]
<1>1. /\ At("save") /\ Busy /\ tail.h \in Nat /\ tail.realm \in 1..Realms
      /\ cursors \in [1..Realms -> [block : Nat, hash : Nat]]
      /\ UNCHANGED <<marketVars, raw, sales, confirmations>>
      /\ cursors' = [cursors EXCEPT ![tail.realm] = row]
      /\ confirmations \in Nat /\ Len(chain) \in Nat
  <2>1. Position /\ watched \in 1..Realms
    BY Basics
  <2>2. /\ At("save") /\ Busy /\ UNCHANGED <<marketVars, raw, sales, confirmations>>
        /\ cursors' = [cursors EXCEPT ![tail.realm] = row]
    BY DEF SaveCursor, tableVars, At, Busy
  <2>3. tail.realm \in 1..Realms
    BY <2>1, <2>2 DEF Position
  <2> QED
    BY <2>1, <2>2, <2>3, Basics
<1>2. /\ Confirmed(tail.h) /\ tail.hash = chain[tail.h].hash
      /\ \A b \in 1..(tail.h - 1) : Done(b)
      /\ Done(tail.h)
  BY <1>1 DEF TailOnChain
<1>3. \A b \in 1..tail.h : Confirmed(b) /\ Done(b)
  <2>1. \A b \in 1..tail.h : b \in 1..(tail.h - 1) \/ b = tail.h
    BY <1>1
  <2>2. \A b \in 1..tail.h : Confirmed(b)
    BY <1>1, <1>2, ConfirmedIs
  <2> QED
    BY <1>2, <2>1, <2>2
<1>4. row.block = tail.h /\ row.hash = tail.hash
  OBVIOUS
<1>5. chain' = chain /\ saleVolume' = saleVolume
  BY <1>1, ChainKept
<1> HIDE DEF row
<1>6. \A r \in 1..Realms : cursors'[r] = cursors[r] \/ cursors'[r] = row
  BY <1>1
<1>7. CursorRowsOnChain'
  BY <1>2, <1>4, <1>5, <1>6 DEF TablesOnChain, CursorRowsOnChain
<1>8. CursorDone'
  <2>1. \A b \in 1..cursors'[1].block : Confirmed(b) /\ Done(b)
    <3>1. 1 \in 1..Realms
      OBVIOUS
    <3> QED
      BY <1>3, <1>4, <1>6, <3>1 DEF TablesOnChain, CursorDone
  <2> QED
    BY <1>1, <1>5, <2>1
    DEF CursorDone, Confirmed, Done, ToldTo, SoldTo, Told, Sold, RawRow, SaleOf, IsSettlement
<1>9. TablesOnChain'
  BY <1>1, <1>5, <1>7, <1>8
  DEF TablesOnChain, RawRowsOnChain, SaleRowsOnChain, SalesInOrder, RawOnChain, SaleOnChain,
      Confirmed, Sold, SaleOf, IsSettlement, Before
<1>10. /\ tail'.at \in {"next", "save"} /\ tail'.h = tail.h /\ tail'.i = tail.i
       /\ tail'.hash = tail.hash /\ tail'.events = tail.events
  BY <1>1, Basics DEF SaveCursor, TailState, At
<1>11. TailOnChain'
  BY <1>1, <1>2, <1>3, <1>10, TailMoves
<1> QED
  BY <1>9, <1>11

LEMMA WatchSeededOnChain ==
    ASSUME TypeInv, TablesOnChain, TailOnChain, NEW h \in 1..Len(chain), WatchSeeded(h)
    PROVE  TablesOnChain' /\ TailOnChain'
<1> DEFINE row == [block |-> h - 1, hash |-> NoHash]
<1>1. /\ cursors \in [1..Realms -> [block : Nat, hash : Nat]] /\ watched \in 1..Realms
      /\ 1 \in 1..Realms /\ watched + 1 # 1
  <2>1. cursors \in [1..Realms -> [block : Nat, hash : Nat]] /\ watched \in 1..Realms
    BY Basics
  <2> QED
    BY <2>1
<1>2. /\ tail' = Idle /\ UNCHANGED <<marketVars, raw, sales, confirmations>>
      /\ cursors' = [cursors EXCEPT ![watched + 1] = row]
  BY DEF WatchSeeded, tableVars
<1>3. row.hash = NoHash
  OBVIOUS
<1>4. chain' = chain /\ saleVolume' = saleVolume
  BY <1>2, ChainKept
<1> HIDE DEF row
<1>5. /\ \A r \in 1..Realms : cursors'[r] = cursors[r] \/ cursors'[r].hash = NoHash
      /\ cursors'[1] = cursors[1]
  BY <1>1, <1>2, <1>3
<1>6. CursorRowsOnChain'
  BY <1>4, <1>5 DEF TablesOnChain, CursorRowsOnChain
<1>7. CursorDone'
  BY <1>2, <1>4, <1>5
  DEF TablesOnChain, CursorDone, Confirmed, Done, ToldTo, SoldTo, Told, Sold, RawRow, SaleOf,
      IsSettlement
<1>8. TablesOnChain'
  BY <1>2, <1>4, <1>6, <1>7
  DEF TablesOnChain, RawRowsOnChain, SaleRowsOnChain, SalesInOrder, RawOnChain, SaleOnChain,
      Confirmed, Sold, SaleOf, IsSettlement, Before
<1> QED
  BY <1>2, <1>8, IdleOnChain

(* Behind the reorgs, or before any, no block with its confirmations is    *)
(* replaced.                                                               *)
LEMMA ConfirmedStays ==
    ASSUME TypeInv, ChainMoves, Stable', NEW b \in Nat, Confirmed(b)
    PROVE  Confirmed(b)' /\ chain'[b] = chain[b]
<1>1. confirmations \in Nat /\ Len(chain) \in Nat /\ confirmations' = confirmations
  BY Basics DEF ChainMoves
<1>2. /\ Len(chain') >= Len(chain) /\ reorgs' >= reorgs
      /\ \A a \in 1..Len(chain) :
                 reorgs' = 0 \/ a + ReorgDepth <= Len(chain) => chain'[a] = chain[a]
  BY ChainMovesChange
<1>3. Len(chain') \in Nat
  BY ChainMovesTypes DEF MarketOK
<1>4. b \in 1..Len(chain)
  BY ConfirmedIs
<1>5. reorgs' = 0 \/ b + ReorgDepth <= Len(chain)
  BY <1>1 DEF Stable, BehindReorgs, Confirmed
<1> QED
  BY <1>1, <1>2, <1>3, <1>4, <1>5 DEF Confirmed

LEMMA ChainMovesOnChain ==
    ASSUME TypeInv, TablesOnChain, TailOnChain, ChainMoves, Stable'
    PROVE  TablesOnChain' /\ TailOnChain'
<1>1. /\ raw' = raw /\ sales' = sales /\ cursors' = cursors /\ tail' = tail
      /\ confirmations' = confirmations
  BY DEF ChainMoves, tableVars
<1>2. saleVolume' = saleVolume
  BY ChainMovesChange
<1>3. \A e : IsSettlement(e)' <=> IsSettlement(e)
  BY <1>2 DEF IsSettlement
<1>4. \A b \in Nat : Confirmed(b) => Confirmed(b)' /\ chain'[b] = chain[b]
  BY ConfirmedStays
<1>5. \A b \in Nat : Confirmed(b) /\ Done(b) => Done(b)'
  BY <1>1, <1>3, <1>4 DEF Done, ToldTo, SoldTo, Told, Sold, RawRow, SaleOf
<1>6. \A b \in Nat : \A i : Confirmed(b) /\ Sold(b, i) => Sold(b, i)'
  BY <1>1, <1>3, <1>4 DEF Sold, SaleOf
<1>7. CursorRowsOnChain'
  <2> SUFFICES ASSUME NEW r \in 1..Realms, cursors[r].hash # NoHash
               PROVE  cursors[r].hash = chain'[cursors[r].block].hash
    BY <1>1 DEF CursorRowsOnChain
  <2>1. cursors[r].block \in Nat
    BY Basics
  <2>2. Confirmed(cursors[r].block)
    BY Basics DEF CursorsConfirmed, Confirmed
  <2>3. cursors[r].hash = chain[cursors[r].block].hash
    BY DEF TablesOnChain, CursorRowsOnChain
  <2> QED
    BY <1>4, <2>1, <2>2, <2>3
<1>8. RawRowsOnChain'
  <2> SUFFICES ASSUME NEW r \in raw PROVE RawOnChain(r)'
    BY <1>1 DEF RawRowsOnChain
  <2>1. r.block \in Nat /\ RawOnChain(r)
    BY DEF TypeInv, TablesOK, RawOK, TablesOnChain, RawRowsOnChain
  <2>2. Confirmed(r.block)' /\ chain'[r.block] = chain[r.block]
    BY <1>4, <2>1 DEF RawOnChain
  <2> QED
    BY <2>1, <2>2 DEF RawOnChain
<1>9. \A s \in sales : s.block \in Nat /\ Confirmed(s.block) /\ SaleOnChain(s)
  BY DEF TypeInv, TablesOK, SalesOK, FiniteSales, SaleRow, TablesOnChain, SaleRowsOnChain,
         SaleOnChain
<1>10. SaleRowsOnChain'
  <2> SUFFICES ASSUME NEW s \in sales PROVE SaleOnChain(s)'
    BY <1>1 DEF SaleRowsOnChain
  <2>1. Confirmed(s.block)' /\ chain'[s.block] = chain[s.block]
    BY <1>4, <1>9
  <2> QED
    BY <1>3, <1>9, <2>1 DEF SaleOnChain
<1>11. SalesInOrder'
  <2> SUFFICES ASSUME NEW s \in sales, NEW b \in 1..s.block,
                      NEW i \in 1..Len(chain'[b].events), Before(b, i, s)
               PROVE  Sold(b, i)'
    BY <1>1 DEF SalesInOrder, Before
  <2>1. b \in Nat /\ Confirmed(b)
    BY <1>9, ConfirmedIs
  <2>2. chain'[b] = chain[b]
    BY <1>4, <2>1
  <2>3. Sold(b, i)
    BY <2>2 DEF TablesOnChain, SalesInOrder
  <2> QED
    BY <1>6, <2>1, <2>3
<1>12. CursorDone'
  <2>1. \A b \in 1..cursors[1].block : Confirmed(b)' /\ Done(b)'
    BY <1>4, <1>5 DEF TablesOnChain, CursorDone
  <2> QED
    BY <1>1, <2>1 DEF CursorDone
<1>13. TablesOnChain'
  BY <1>7, <1>8, <1>10, <1>11, <1>12 DEF TablesOnChain
<1>14. TailOnChain'
  <2>1. tail.h \in Nat
    BY Basics
  <2>2. PICK h \in Nat : h = tail.h
    BY <2>1
  <2>3. Confirmed(h) => chain'[h] = chain[h] /\ Confirmed(h)'
    BY <1>4
  <2>4. Confirmed(h) => /\ Done(h) => Done(h)'
                        /\ \A n : ToldTo(h, n) => ToldTo(h, n)'
                        /\ \A n : SoldTo(h, n) => SoldTo(h, n)'
    BY <1>1, <1>3, <2>3 DEF Done, ToldTo, SoldTo, Told, Sold, RawRow, SaleOf
  <2>5. At("check") \/ At("next") => \A b \in 1..h : Confirmed(b)' /\ Done(b)'
    BY <1>4, <1>5, <2>2 DEF TailOnChain
  <2>6. Busy => Confirmed(h) /\ \A b \in 1..(h - 1) : Done(b)'
    BY <1>5, <2>2, ConfirmedIs DEF TailOnChain
  <2>7. PICK i : i = tail.i
    OBVIOUS
  <2>8. /\ At("dispatch") => ToldTo(h, i - 1) /\ SoldTo(h, i - 1)
        /\ At("apply") => ToldTo(h, i) /\ SoldTo(h, i - 1)
        /\ At("resolve") => ToldTo(h, i) /\ SoldTo(h, i)
        /\ At("save") => Done(h)
    BY <2>2, <2>7 DEF TailOnChain
  <2> QED
    BY <1>1, <2>2, <2>3, <2>4, <2>5, <2>6, <2>7, <2>8 DEF TailOnChain, At, Busy
<1> QED
  BY <1>13, <1>14

LEMMA StableInvStep ==
    ASSUME TypeInv, ChainInv, StableInv, [Next]_vars
    PROVE  StableInv'
<1> SUFFICES ASSUME Stable' PROVE TablesOnChain' /\ TailOnChain'
  BY DEF StableInv
<1>1. CASE ChainMoves
  <2>1. Stable
    <3>1. reorgs' >= reorgs /\ confirmations' = confirmations
      BY <1>1, ChainMovesChange DEF ChainMoves
    <3>2. reorgs \in Nat
      BY DEF TypeInv, MarketOK
    <3> QED
      BY <3>1, <3>2 DEF Stable, BehindReorgs
  <2> QED
    BY <1>1, <2>1, ChainMovesOnChain DEF StableInv
<1>2. CASE Cycle
  <2>1. Stable
    <3>1. UNCHANGED marketVars /\ confirmations' = confirmations
      BY <1>2 DEF Cycle, Poll, CheckCursor, RollbackFromHeight, CycleEnds, FetchHash,
         FetchEvents, RecordRawEvent, ApplyMint, ApplyNFTListed, ApplyNFTDelisted,
         ApplyOfferMade, ApplyOfferCancelled, SettleSale, SkipCompanion, ResolveAccepted,
         BlockApplied, SaveCursor
    <3> QED
      BY <3>1, ChainKept DEF Stable, BehindReorgs
  <2>2. TablesOnChain /\ TailOnChain
    BY <2>1 DEF StableInv
  <2>3. ~RollbackFromHeight
    BY <2>2 DEF TailOnChain, RollbackFromHeight
  <2>4. CASE CycleEnds
    <3>1. tail' = Idle /\ UNCHANGED <<marketVars, raw, sales, cursors, confirmations>>
      BY <2>4 DEF CycleEnds, tableVars
    <3> QED
      BY <2>2, <3>1, IdleOnChain, KeepTablesOnChain
  <2> QED
    BY <1>2, <2>2, <2>3, <2>4, PollOnChain, CheckCursorOnChain, FetchHashOnChain,
       FetchEventsOnChain, RecordRawEventOnChain, OtherEventOnChain, SettleSaleOnChain,
       ResolveAcceptedOnChain, BlockAppliedOnChain, SaveCursorOnChain
    DEF Cycle
<1>3. CASE Interrupt
  <2>1. tail' = Idle /\ UNCHANGED <<marketVars, raw, sales, cursors, confirmations>>
    BY <1>3 DEF Interrupt, tableVars
  <2>2. Stable
    BY <2>1, ChainKept DEF Stable, BehindReorgs
  <2> QED
    BY <2>1, <2>2, IdleOnChain, KeepTablesOnChain DEF StableInv
<1>4. ASSUME NEW h \in 1..Len(chain), WatchSeeded(h)
      PROVE  TablesOnChain' /\ TailOnChain'
  <2>1. Stable
    BY <1>4, ChainKept DEF WatchSeeded, Stable, BehindReorgs
  <2> QED
    BY <1>4, <2>1, WatchSeededOnChain DEF StableInv
<1>5. CASE UNCHANGED vars
  <2>1. /\ UNCHANGED <<marketVars, raw, sales, cursors, confirmations>> /\ tail' = tail
    BY <1>5 DEF vars, tableVars
  <2>2. Stable
    BY <2>1, ChainKept DEF Stable, BehindReorgs
  <2>3. TablesOnChain /\ TailOnChain
    BY <2>2 DEF StableInv
  <2>4. PICK at, h, i, hash, events :
           tail.at = at /\ tail.h = h /\ tail.i = i /\ tail.hash = hash /\ tail.events = events
    OBVIOUS
  <2>5. TailOnChain'
    <3>1. chain' = chain /\ saleVolume' = saleVolume
      BY <2>1, ChainKept
    <3> QED
      BY <2>1, <2>3, <3>1
      DEF TailOnChain, At, Busy, Confirmed, Done, ToldTo, SoldTo, Told, Sold, RawRow, SaleOf,
          IsSettlement
  <2> QED
    BY <2>1, <2>3, <2>5, KeepTablesOnChain
<1> QED
  BY <1>1, <1>2, <1>3, <1>4, <1>5 DEF Next

LEMMA StableHolds == Spec => [](TypeInv /\ ChainInv /\ StableInv)
<1>1. TypeInv /\ ChainInv /\ StableInv /\ [Next]_vars => (TypeInv /\ ChainInv /\ StableInv)'
  BY TypeInvStep, ChainInvStep, StableInvStep
<1> QED
  BY <1>1, TypeInvInit, ChainInvInit, StableInvInit, PTL DEF Spec

(* A tailer that stays as far behind as consensus may take blocks back     *)
(* never finds its cursor's block replaced (tailOnce's rollback is not     *)
(* reached), for every number of confirmations, realms and blocks.         *)
THEOREM ConfirmedStaysFinal == Spec => []ConfirmedIsFinal
<1>1. TypeInv /\ ChainInv /\ StableInv => ConfirmedIsFinal
  BY DEF StableInv, Stable, TailOnChain, ConfirmedIsFinal
<1> QED
  BY <1>1, StableHolds, PTL

(***************************************************************************)
(* The ledgers are those of the chain.                                     *)
(***************************************************************************)

RawFits(r) == r.index \in 1..Len(chain[r.block].events)
              /\ r.event = chain[r.block].events[r.index]
SaleFits(s) ==
    /\ s.index \in 1..Len(chain[s.block].events)
    /\ IsSettlement(chain[s.block].events[s.index])
    /\ s.price = chain[s.block].events[s.index].price

LEMMA LedgersAre ==
    ASSUME TypeInv, NEW h \in 0..Len(chain),
           \A b \in 1..h : Done(b),
           \A r \in raw : r.block <= h => r.block \in 1..h /\ RawFits(r),
           \A s \in sales : s.block <= h => s.block \in 1..h /\ SaleFits(s)
    PROVE  /\ {r \in raw : r.block <= h} = EventsUpTo(h)
           /\ {s \in sales : s.block <= h} = SalesUpTo(h)
<1> DEFINE Row(b, i) == [block |-> b, index |-> i, event |-> chain[b].events[i]]
<1>1. \A b \in 1..h : DOMAIN chain[b].events = 1..Len(chain[b].events)
  <2> SUFFICES ASSUME NEW b \in 1..h PROVE DOMAIN chain[b].events = 1..Len(chain[b].events)
    OBVIOUS
  <2>1. b \in 1..Len(chain)
    BY Basics
  <2>2. chain[b].events \in Seq(PricedEvent)
    BY <2>1, BlockOfChain
  <2> QED
    BY <2>2
<1>2. \A x : x \in EventsUpTo(h) <=>
         \E b \in 1..h : \E i \in 1..Len(chain[b].events) : x = Row(b, i)
  BY <1>1 DEF EventsUpTo
<1>3. \A b \in 1..h : \A i \in 1..Len(chain[b].events) : Row(b, i) \in raw
  BY DEF Done, ToldTo, Told, RawRow
<1>4. ASSUME NEW r \in raw, r.block <= h
      PROVE  r \in EventsUpTo(h)
  <2>1. r.block \in 1..h /\ RawFits(r) /\ r \in [block : Nat, index : Nat, event : Event]
    BY <1>4 DEF TypeInv, TablesOK, RawOK
  <2>2. r = Row(r.block, r.index)
    BY <2>1, RawRowIs DEF RawFits, RawRow
  <2> QED
    BY <1>2, <2>1, <2>2 DEF RawFits
<1>5. \A b, i : Row(b, i).block = b /\ Row(b, i).index = i /\ Row(b, i).event = chain[b].events[i]
  OBVIOUS
<1> HIDE DEF Row
<1>6. \A x \in EventsUpTo(h) : x \in raw /\ x.block <= h
  BY <1>2, <1>3, <1>5
<1>7. {r \in raw : r.block <= h} = EventsUpTo(h)
  BY <1>4, <1>6
<1>8. \A x : x \in SalesUpTo(h) <=>
         \E b \in 1..h : \E i \in 1..Len(chain[b].events) :
            IsSettlement(chain[b].events[i]) /\ x = SaleOf(b, i, chain[b].events[i])
  <2>1. \A x : x \in SalesUpTo(h) <=>
           \E r \in EventsUpTo(h) :
              /\ IsSettlement(r.event)
              /\ x = [block |-> r.block, index |-> r.index, price |-> r.event.price]
    BY DEF SalesUpTo
  <2> QED
    BY <1>2, <1>5, <2>1 DEF SaleOf
<1>9. \A b \in 1..h : \A i \in 1..Len(chain[b].events) :
         IsSettlement(chain[b].events[i]) => SaleOf(b, i, chain[b].events[i]) \in sales
  BY DEF Done, SoldTo, Sold
<1>10. ASSUME NEW s \in sales, s.block <= h
       PROVE  s \in SalesUpTo(h)
  <2>1. s.block \in 1..h /\ SaleFits(s) /\ s \in SaleRow
    BY <1>10 DEF TypeInv, TablesOK, SalesOK, FiniteSales
  <2>2. s = SaleOf(s.block, s.index, chain[s.block].events[s.index])
    BY <2>1, SaleRowIs DEF SaleFits, SaleOf
  <2> QED
    BY <1>8, <2>1, <2>2 DEF SaleFits
<1>11. \A b, i, e : SaleOf(b, i, e).block = b
  BY DEF SaleOf
<1>12. \A x \in SalesUpTo(h) : x \in sales /\ x.block <= h
  BY <1>8, <1>9, <1>11
<1>13. {s \in sales : s.block <= h} = SalesUpTo(h)
  BY <1>10, <1>12
<1> QED
  BY <1>7, <1>13

LEMMA StableLedgers ==
    ASSUME TypeInv, StableInv, Stable, Agreed
    PROVE  SalesOfTheChain /\ RawOfTheChain
<1>1. TablesOnChain
  BY DEF StableInv
<1>2. PICK r \in 1..watched : LoadCursor = cursors[r] /\
              \A q \in 1..watched : cursors[r].block <= cursors[q].block
  BY Basics, LoadCursorIs
<1>3. cursors \in [1..Realms -> [block : Nat, hash : Nat]] /\ watched \in 1..Realms
  BY Basics
<1>4. cursors[r].block \in Nat /\ cursors[1].block \in Nat /\ cursors[r].block <= cursors[1].block
  BY <1>2, <1>3
<1>5. PICK h \in Nat : h = LoadCursor.block
  BY <1>2, <1>4
<1>6. \A b \in 1..h : Confirmed(b) /\ Done(b)
  BY <1>1, <1>2, <1>4, <1>5 DEF TablesOnChain, CursorDone
<1>7. h \in 1..Len(chain)
  <2>1. h > 0
    BY <1>5 DEF Agreed
  <2>2. Confirmed(h)
    BY <1>6, <2>1
  <2> QED
    BY <2>2, ConfirmedIs
<1>8. \A r2 \in raw : r2.block <= h => r2.block \in 1..h /\ RawFits(r2)
  <2>1. \A r2 \in raw : r2.block \in Nat /\ RawOnChain(r2)
    BY <1>1 DEF TypeInv, TablesOK, RawOK, TablesOnChain, RawRowsOnChain
  <2> QED
    BY <2>1 DEF RawOnChain, RawFits, Confirmed
<1>9. \A s \in sales : s.block <= h => s.block \in 1..h /\ SaleFits(s)
  <2>1. \A s \in sales : s.block \in Nat /\ SaleOnChain(s)
    BY <1>1 DEF TypeInv, TablesOK, SalesOK, FiniteSales, SaleRow, TablesOnChain,
                SaleRowsOnChain
  <2> QED
    BY <2>1 DEF SaleOnChain, SaleFits, Confirmed
<1>10. h \in 0..Len(chain)
  BY <1>7
<1>11. /\ {r2 \in raw : r2.block <= h} = EventsUpTo(h)
       /\ {s \in sales : s.block <= h} = SalesUpTo(h)
  BY <1>6, <1>8, <1>9, <1>10, LedgersAre
<1> QED
  BY <1>5, <1>11 DEF SalesOfTheChain, RawOfTheChain

(***************************************************************************)
(* Where no cycle is cut short, the block at the cursor may be replaced,   *)
(* and no other that has been applied.                                     *)
(***************************************************************************)

(* The rows of a block are those of its events up to the n-th.             *)
RawAre(b, events, n) ==
    /\ \A i \in 1..n : RawRow(b, i, events[i]) \in raw
    /\ \A r \in raw : r.block = b => r.index \in 1..n /\ r.event = events[r.index]
SalesAre(b, events, n) ==
    /\ \A i \in 1..n : IsSettlement(events[i]) => SaleOf(b, i, events[i]) \in sales
    /\ \A s \in sales : s.block = b =>
          /\ s.index \in 1..n /\ IsSettlement(events[s.index])
          /\ s.price = events[s.index].price
Whole(b) ==
    /\ RawAre(b, chain[b].events, Len(chain[b].events))
    /\ SalesAre(b, chain[b].events, Len(chain[b].events))
WholeTo(h) == \A b \in 1..h : Whole(b)

RowsTo(h) ==
    /\ \A r \in raw : r.block \in 1..h
    /\ \A s \in sales : s.block \in 1..h

(* The block at the cursor is the one that was applied.                    *)
Matches == cursors[1].hash # NoHash /\ cursors[1].hash = chain[cursors[1].block].hash

(* The rows that are there when the goroutine is at a place of a block.    *)
BetweenBlocks(at, h, hash, end) ==
    LET cursor == cursors[1].block IN
    /\ at \in {"idle", "check", "rollback"} => RowsTo(cursor) /\ WholeTo(cursor - 1)
    /\ at \in {"idle", "check"} /\ Matches => Whole(cursor)
    /\ at = "check" => h = cursor /\ hash = cursors[1].hash
    /\ at = "rollback" => h = cursor /\ ~Matches
    /\ at = "next" =>
          /\ RowsTo(h) /\ WholeTo(h - 1)
          /\ h >= 1 /\ h < end => Whole(h)
          /\ \/ h = cursor /\ (Matches => Whole(h))
             \/ h + 1 = cursor /\ ~Matches /\ (h >= 1 => Whole(h))

WithinBlock(at, h, hash, end, events, i) ==
    /\ RowsTo(h) /\ WholeTo(h - 1)
    /\ h < end => hash = chain[h].hash
    /\ at = "fetch" => RowsTo(h - 1)
    /\ at # "fetch" /\ hash = chain[h].hash => events = chain[h].events
    /\ at = "dispatch" => RawAre(h, events, i - 1) /\ SalesAre(h, events, i - 1)
    /\ at = "apply" => RawAre(h, events, i) /\ SalesAre(h, events, i - 1)
    /\ at = "resolve" => RawAre(h, events, i) /\ SalesAre(h, events, i)
    /\ at = "save" => RawAre(h, events, Len(events)) /\ SalesAre(h, events, Len(events))

Rows ==
    /\ BetweenBlocks(tail.at, tail.h, tail.hash, tail.end)
    /\ Busy => WithinBlock(tail.at, tail.h, tail.hash, tail.end, tail.events, tail.i)

UndisturbedInv == Undisturbed => Rows

LEMMA UndisturbedInvInit == Init => UndisturbedInv
<1> SUFFICES ASSUME Init PROVE Rows
  BY DEF UndisturbedInv
<1>1. /\ raw = {} /\ sales = {} /\ cursors = [r \in 1..Realms |-> NoRow] /\ tail = Idle
      /\ 1 \in 1..Realms
  BY DEF Init
<1>2. cursors[1].block = 0 /\ cursors[1].hash = NoHash
  BY <1>1 DEF NoRow
<1> QED
  BY <1>1, <1>2 DEF Rows, BetweenBlocks, RowsTo, WholeTo, Matches, Busy, Idle

(* With one realm watched, the cursor is that realm's.                     *)
LEMMA OneCursor ==
    ASSUME TypeInv, watched = 1
    PROVE  LoadCursor = cursors[1]
BY Basics, LoadCursorIs

LEMMA SamePlaces ==
    ASSUME UNCHANGED <<marketVars, raw, sales, cursors>>,
           NEW at, NEW h, NEW hash, NEW end, NEW events, NEW i
    PROVE  /\ BetweenBlocks(at, h, hash, end)' <=> BetweenBlocks(at, h, hash, end)
           /\ WithinBlock(at, h, hash, end, events, i)'
                 <=> WithinBlock(at, h, hash, end, events, i)
<1>1. chain' = chain /\ saleVolume' = saleVolume
  BY ChainKept
<1>2. \A b, s, n : RawAre(b, s, n)' <=> RawAre(b, s, n)
  BY DEF RawAre
<1>3. \A b, s, n : SalesAre(b, s, n)' <=> SalesAre(b, s, n)
  BY <1>1 DEF SalesAre, IsSettlement
<1>4. \A b : Whole(b)' <=> Whole(b)
  BY <1>1, <1>2, <1>3 DEF Whole
<1>5. \A b : WholeTo(b)' <=> WholeTo(b)
  BY <1>4 DEF WholeTo
<1>6. \A b : RowsTo(b)' <=> RowsTo(b)
  BY DEF RowsTo
<1>7. Matches' <=> Matches
  BY <1>1 DEF Matches
<1>8. PICK cursor : cursors[1].block = cursor /\ cursors'[1].block = cursor
  OBVIOUS
<1>9. BetweenBlocks(at, h, hash, end)' <=> BetweenBlocks(at, h, hash, end)
  BY <1>4, <1>5, <1>6, <1>7, <1>8 DEF BetweenBlocks
<1>10. WithinBlock(at, h, hash, end, events, i)'
                 <=> WithinBlock(at, h, hash, end, events, i)
  BY <1>1, <1>2, <1>3, <1>5, <1>6 DEF WithinBlock
<1> QED
  BY <1>9, <1>10

LEMMA TailRows ==
    ASSUME UNCHANGED <<marketVars, raw, sales, cursors>>,
           NEW at, NEW h, NEW hash, NEW end, NEW events, NEW i,
           tail'.at = at, tail'.h = h, tail'.hash = hash, tail'.end = end,
           tail'.events = events, tail'.i = i,
           BetweenBlocks(at, h, hash, end),
           at \in {"fetch", "dispatch", "apply", "resolve", "save"} =>
              WithinBlock(at, h, hash, end, events, i)
    PROVE  Rows'
<1>1. BetweenBlocks(at, h, hash, end)'
  BY SamePlaces
<1>2. at \in {"fetch", "dispatch", "apply", "resolve", "save"} =>
              WithinBlock(at, h, hash, end, events, i)'
  BY SamePlaces
<1> QED
  BY <1>1, <1>2 DEF Rows, Busy

(* Nothing is asked of the rows in between while a block is being applied. *)
LEMMA BusyBetween ==
    ASSUME NEW at \in {"fetch", "dispatch", "apply", "resolve", "save"},
           NEW h, NEW hash, NEW end
    PROVE  BetweenBlocks(at, h, hash, end)
BY DEF BetweenBlocks

LEMMA PollRows ==
    ASSUME TypeInv, watched = 1, Rows, Poll
    PROVE  Rows'
<1>1. LoadCursor = cursors[1]
  BY OneCursor
<1>2. /\ At("idle") /\ UNCHANGED <<marketVars, raw, sales, cursors>>
      /\ tail'.at = "check" /\ tail'.h = cursors[1].block /\ tail'.hash = cursors[1].hash
      /\ tail'.end = 0 /\ tail'.events = <<>> /\ tail'.i = 0
  BY <1>1 DEF Poll, Idle, tableVars
<1>3. BetweenBlocks("check", cursors[1].block, cursors[1].hash, 0)
  BY <1>2 DEF Rows, BetweenBlocks, At
<1> QED
  BY <1>2, <1>3, TailRows

LEMMA CheckCursorRows ==
    ASSUME TypeInv, ChainInv, Rows, CheckCursor
    PROVE  Rows'
<1> DEFINE cursor == cursors[1].block
<1>1. /\ At("check") /\ UNCHANGED <<marketVars, raw, sales, cursors>>
      /\ tail \in TailState /\ tail.h \in Nat
  BY Basics DEF CheckCursor, tableVars
<1>2. /\ RowsTo(cursor) /\ WholeTo(cursor - 1) /\ (Matches => Whole(cursor))
      /\ tail.h = cursor /\ tail.hash = cursors[1].hash
  BY <1>1 DEF Rows, BetweenBlocks, At
<1>3. CASE (tail.hash = NoHash \/ chain[tail.h].hash = tail.hash) /\ StartAt(tail.h)
  <2> DEFINE end == ConfirmedEnd(tail.latest, tail.h)
  <2>1. /\ tail'.at = "next" /\ tail'.h = tail.h /\ tail'.hash = tail.hash
        /\ tail'.end = end /\ tail'.events = tail.events /\ tail'.i = tail.i
    BY <1>1, <1>3 DEF StartAt, TailState
  <2> HIDE DEF end
  <2>2. tail.h >= 1 => Matches
    BY <1>2, <1>3 DEF Matches, ChainInv, FirstCursor
  <2>3. BetweenBlocks("next", tail.h, tail.hash, end)
    BY <1>2, <2>2 DEF BetweenBlocks
  <2> QED
    BY <1>1, <2>1, <2>3, TailRows
<1>4. CASE ~(tail.hash = NoHash \/ chain[tail.h].hash = tail.hash) /\ Goto("rollback")
  <2>1. /\ tail'.at = "rollback" /\ tail'.h = tail.h /\ tail'.hash = tail.hash
        /\ tail'.end = tail.end /\ tail'.events = tail.events /\ tail'.i = tail.i
    BY <1>1, <1>4 DEF Goto, TailState
  <2>2. ~Matches
    BY <1>2, <1>4 DEF Matches
  <2>3. BetweenBlocks("rollback", tail.h, tail.hash, tail.end)
    BY <1>2, <2>2 DEF BetweenBlocks
  <2> QED
    BY <1>1, <2>1, <2>3, TailRows
<1> QED
  BY <1>3, <1>4 DEF CheckCursor

LEMMA CycleEndsRows ==
    ASSUME TypeInv, Rows, CycleEnds
    PROVE  Rows'
<1> DEFINE cursor == cursors[1].block
           h == tail.h
<1>1. /\ At("next") /\ UNCHANGED <<marketVars, raw, sales, cursors>> /\ tail' = Idle
      /\ h \in Nat /\ cursor \in Nat
  <2>1. 1 \in 1..Realms
    OBVIOUS
  <2> QED
    BY <2>1, Basics DEF CycleEnds, tableVars
<1>2. /\ RowsTo(h) /\ WholeTo(h - 1)
      /\ \/ h = cursor /\ (Matches => Whole(h))
         \/ h + 1 = cursor /\ ~Matches /\ (h >= 1 => Whole(h))
  BY <1>1 DEF Rows, BetweenBlocks, At
<1> HIDE DEF h
<1>3. RowsTo(cursor) /\ WholeTo(cursor - 1) /\ (Matches => Whole(cursor))
  <2>1. CASE h + 1 = cursor /\ ~Matches /\ (h >= 1 => Whole(h))
    <3> HIDE DEF cursor
    <3>1. RowsTo(cursor)
      BY <1>1, <1>2, <2>1 DEF RowsTo
    <3>2. \A b \in 1..(cursor - 1) : b \in 1..(h - 1) \/ (b = h /\ h >= 1)
      BY <1>1, <2>1
    <3> QED
      BY <1>2, <2>1, <3>1, <3>2 DEF WholeTo
  <2> QED
    BY <1>2, <2>1
<1>4. BetweenBlocks("idle", 0, NoHash, 0)
  BY <1>3 DEF BetweenBlocks
<1>5. /\ tail'.at = "idle" /\ tail'.h = 0 /\ tail'.hash = NoHash /\ tail'.end = 0
      /\ tail'.events = <<>> /\ tail'.i = 0
  BY <1>1 DEF Idle
<1> QED
  BY <1>1, <1>4, <1>5, TailRows

LEMMA FetchHashRows ==
    ASSUME TypeInv, Rows, FetchHash
    PROVE  Rows'
<1> DEFINE h == tail.h
           hash == chain[tail.h + 1].hash
<1>1. /\ At("next") /\ UNCHANGED <<marketVars, raw, sales, cursors>>
      /\ h \in Nat /\ h < tail.end
  BY Basics DEF FetchHash, tableVars
<1>2. /\ tail'.at = "fetch" /\ tail'.h = h + 1 /\ tail'.hash = hash
      /\ tail'.end = tail.end /\ tail'.events = tail.events /\ tail'.i = tail.i
  BY Basics DEF FetchHash, TailState
<1>3. RowsTo(h) /\ WholeTo(h - 1) /\ (h >= 1 => Whole(h))
  BY <1>1 DEF Rows, BetweenBlocks, At
<1>4. hash = chain[h + 1].hash
  OBVIOUS
<1> HIDE DEF h, hash
<1>5. RowsTo(h + 1) /\ WholeTo(h) /\ h + 1 - 1 = h
  <2>1. RowsTo(h + 1)
    BY <1>1, <1>3 DEF RowsTo
  <2>2. \A b \in 1..h : b \in 1..(h - 1) \/ (b = h /\ h >= 1)
    BY <1>1
  <2> QED
    BY <1>1, <1>3, <2>1, <2>2 DEF WholeTo
<1>6. PICK n \in Nat : n = h + 1 /\ n - 1 = h
  BY <1>1, <1>5
<1>7. /\ RowsTo(n) /\ WholeTo(n - 1) /\ RowsTo(n - 1)
      /\ hash = chain[n].hash
  BY <1>3, <1>4, <1>5, <1>6
<1>8. WithinBlock("fetch", n, hash, tail.end, tail.events, tail.i)
  BY <1>7 DEF WithinBlock
<1> QED
  BY <1>1, <1>2, <1>6, <1>8, BusyBetween, TailRows

LEMMA FetchEventsRows ==
    ASSUME TypeInv, Rows, FetchEvents
    PROVE  Rows'
<1> DEFINE h == tail.h
           events == chain[tail.h].events
<1>1. /\ At("fetch") /\ Busy /\ UNCHANGED <<marketVars, raw, sales, cursors>> /\ h \in Nat
  BY Basics DEF FetchEvents, tableVars, At, Busy
<1>2. /\ tail'.at = "dispatch" /\ tail'.h = h /\ tail'.hash = tail.hash
      /\ tail'.end = tail.end /\ tail'.events = events /\ tail'.i = 1
  BY Basics DEF FetchEvents, TailState
<1>3. /\ RowsTo(h) /\ WholeTo(h - 1) /\ (h < tail.end => tail.hash = chain[h].hash)
      /\ RowsTo(h - 1)
  BY <1>1 DEF Rows, WithinBlock, At
<1>4. events = chain[h].events
  OBVIOUS
<1> HIDE DEF h, events
<1>5. RawAre(h, events, 1 - 1) /\ SalesAre(h, events, 1 - 1)
  <2>1. (\A r \in raw : r.block # h) /\ (\A s \in sales : s.block # h)
    BY <1>1, <1>3 DEF RowsTo
  <2> QED
    BY <2>1 DEF RawAre, SalesAre
<1>6. WithinBlock("dispatch", h, tail.hash, tail.end, events, 1)
  BY <1>3, <1>4, <1>5 DEF WithinBlock
<1> QED
  BY <1>1, <1>2, <1>6, BusyBetween, TailRows

LEMMA BlockAppliedRows ==
    ASSUME TypeInv, Rows, BlockApplied
    PROVE  Rows'
<1> DEFINE h == tail.h
           events == tail.events
<1>1. /\ At("dispatch") /\ Busy /\ UNCHANGED <<marketVars, raw, sales, cursors>>
      /\ tail.i - 1 = Len(events)
  <2>1. /\ At("dispatch") /\ Busy /\ UNCHANGED <<marketVars, raw, sales, cursors>>
        /\ tail.i > Len(events)
    BY DEF BlockApplied, tableVars, At, Busy
  <2>2. Position /\ Len(events) \in Nat
    BY Basics
  <2>3. tail.i \in 1..(Len(events) + 1)
    BY <2>1, <2>2 DEF Position
  <2> QED
    BY <2>1, <2>2, <2>3
<1>2. /\ tail'.at = "save" /\ tail'.h = h /\ tail'.hash = tail.hash
      /\ tail'.end = tail.end /\ tail'.events = events /\ tail'.i = tail.i
  BY Basics DEF BlockApplied, TailState
<1>3. WithinBlock("dispatch", h, tail.hash, tail.end, events, tail.i)
  BY <1>1 DEF Rows, At
<1> HIDE DEF h, events
<1>4. WithinBlock("save", h, tail.hash, tail.end, events, tail.i)
  BY <1>1, <1>3 DEF WithinBlock
<1> QED
  BY <1>1, <1>2, <1>4, BusyBetween, TailRows

(* The rows of one block grow.                                             *)
LEMMA BlockRows ==
    ASSUME TypeInv, Rows, tail.at \in {"dispatch", "apply", "resolve"},
           UNCHANGED <<marketVars, cursors>>,
           NEW h \in Nat, h = tail.h, NEW hash, hash = tail.hash, NEW end, end = tail.end,
           NEW events, events = tail.events,
           raw \subseteq raw', sales \subseteq sales',
           \A r \in raw' \ raw : r.block = h, \A s \in sales' \ sales : s.block = h,
           NEW at \in {"dispatch", "apply", "resolve"}, NEW i,
           tail'.at = at, tail'.h = h, tail'.hash = hash, tail'.end = end,
           tail'.events = events, tail'.i = i,
           RawAre(h, events, IF at = "dispatch" THEN i - 1 ELSE i)',
           SalesAre(h, events, IF at = "resolve" THEN i ELSE i - 1)'
    PROVE  Rows'
<1>1. chain' = chain /\ saleVolume' = saleVolume
  BY ChainKept
<1>2. /\ RowsTo(h) /\ WholeTo(h - 1)
      /\ h < end => hash = chain[h].hash
      /\ hash = chain[h].hash => events = chain[h].events
      /\ Busy
  BY DEF Rows, WithinBlock, Busy
<1>3. h >= 1
  BY <1>2, Basics DEF Position
<1>4. RowsTo(h)'
  BY <1>2, <1>3 DEF RowsTo
<1>5. \A e : IsSettlement(e)' <=> IsSettlement(e)
  BY <1>1 DEF IsSettlement
<1>6. \A b \in 1..(h - 1) : \A s, n : RawAre(b, s, n) => RawAre(b, s, n)'
  BY DEF RawAre
<1>7. \A b \in 1..(h - 1) : \A s, n : SalesAre(b, s, n) => SalesAre(b, s, n)'
  BY <1>5 DEF SalesAre
<1>8. WholeTo(h - 1)'
  BY <1>1, <1>2, <1>6, <1>7 DEF WholeTo, Whole
<1>9. WithinBlock(at, h, hash, end, events, i)'
  BY <1>1, <1>2, <1>4, <1>8 DEF WithinBlock
<1>10. BetweenBlocks(at, h, hash, end)'
  BY DEF BetweenBlocks
<1> QED
  BY <1>9, <1>10 DEF Rows

LEMMA EventAppliedRows ==
    ASSUME TypeInv, Rows, At("apply"), Applied(Current),
           UNCHANGED <<marketVars, raw, cursors>>,
           \/ ~IsSettlement(Current) /\ sales' = sales
           \/ /\ IsSettlement(Current)
              /\ sales' = sales \cup {SaleOf(tail.h, tail.i, Current)}
    PROVE  Rows'
<1>1. PICK h \in Nat, i \in Nat : h = tail.h /\ i = tail.i
  BY Basics
<1>2. PICK hash, end, events : hash = tail.hash /\ end = tail.end /\ events = tail.events
  OBVIOUS
<1>3. i \in 1..Len(events) /\ Current = events[i] /\ tail.at = "apply"
  BY <1>1, <1>2, CurrentTypes DEF Current, At
<1>4. RawAre(h, events, i) /\ SalesAre(h, events, i - 1)
  BY <1>1, <1>2, <1>3 DEF Rows, WithinBlock, Busy
<1>5. chain' = chain /\ saleVolume' = saleVolume
  BY ChainKept
<1>6. RawAre(h, events, i)'
  BY <1>4 DEF RawAre
<1>7. \A e : IsSettlement(e)' <=> IsSettlement(e)
  BY <1>5 DEF IsSettlement
<1>8. \A n \in 1..i : n \in 1..(i - 1) \/ n = i
  BY <1>1
<1>9. i \in 1..i /\ \A n \in 1..(i - 1) : n \in 1..i
  BY <1>1, <1>3
<1>10. SalesAre(h, events, i)'
  <2>1. CASE ~IsSettlement(Current) /\ sales' = sales
    BY <1>3, <1>4, <1>7, <1>8, <1>9, <2>1 DEF SalesAre
  <2>2. CASE IsSettlement(Current) /\ sales' = sales \cup {SaleOf(h, i, Current)}
    <3>1. /\ SaleOf(h, i, Current).block = h /\ SaleOf(h, i, Current).index = i
          /\ SaleOf(h, i, Current).price = Current.price
      BY DEF SaleOf
    <3>2. \A n \in 1..i : IsSettlement(events[n]) => SaleOf(h, n, events[n]) \in sales'
      BY <1>3, <1>4, <1>8, <2>2 DEF SalesAre
    <3>3. \A s \in sales' : s.block = h =>
             /\ s.index \in 1..i /\ IsSettlement(events[s.index])
             /\ s.price = events[s.index].price
      BY <1>3, <1>4, <1>9, <2>2, <3>1 DEF SalesAre
    <3> QED
      BY <1>7, <3>2, <3>3 DEF SalesAre
  <2> QED
    BY <1>1, <2>1, <2>2
<1>11. sales \subseteq sales' /\ \A s \in sales' \ sales : s.block = h
  BY <1>1 DEF SaleOf
<1>12. /\ tail'.h = h /\ tail'.hash = hash /\ tail'.end = end /\ tail'.events = events
       /\ \/ tail'.at = "resolve" /\ tail'.i = i
          \/ tail'.at = "dispatch" /\ tail'.i = i + 1
  BY <1>1, <1>2, AppliedIs
<1>13. CASE tail'.at = "resolve" /\ tail'.i = i
  <2>1. PICK at : at = "resolve" /\ at # "dispatch" /\ at \in {"dispatch", "apply", "resolve"}
    OBVIOUS
  <2>2. /\ RawAre(h, events, IF at = "dispatch" THEN i - 1 ELSE i)'
        /\ SalesAre(h, events, IF at = "resolve" THEN i ELSE i - 1)'
    BY <1>6, <1>10, <2>1
  <2> QED
    BY <1>1, <1>2, <1>3, <1>11, <1>12, <1>13, <2>1, <2>2, BlockRows
<1>14. CASE tail'.at = "dispatch" /\ tail'.i = i + 1
  <2>1. PICK at : at = "dispatch" /\ at # "resolve" /\ at \in {"dispatch", "apply", "resolve"}
    OBVIOUS
  <2>2. PICK n : n = i + 1 /\ n - 1 = i
    BY <1>1
  <2>3. /\ RawAre(h, events, IF at = "dispatch" THEN n - 1 ELSE n)'
        /\ SalesAre(h, events, IF at = "resolve" THEN n ELSE n - 1)'
    BY <1>6, <1>10, <2>1, <2>2
  <2> QED
    BY <1>1, <1>2, <1>3, <1>11, <1>12, <1>14, <2>1, <2>2, <2>3, BlockRows
<1> QED
  BY <1>12, <1>13, <1>14

LEMMA OtherEventRows ==
    ASSUME TypeInv, ChainInv, Rows,
           \/ ApplyMint \/ ApplyNFTListed \/ ApplyNFTDelisted \/ ApplyOfferMade
           \/ ApplyOfferCancelled \/ SkipCompanion
    PROVE  Rows'
<1>1. /\ At("apply") /\ Applied(Current) /\ sales' = sales
      /\ UNCHANGED <<marketVars, raw, cursors>>
  BY DEF ApplyMint, ApplyNFTListed, ApplyNFTDelisted, ApplyOfferMade, ApplyOfferCancelled,
         SkipCompanion, tableVars
<1>2. ~IsSettlement(Current)
  BY DEF ApplyMint, ApplyNFTListed, ApplyNFTDelisted, ApplyOfferMade, ApplyOfferCancelled,
         SkipCompanion, IsSettlement, Settles
<1> QED
  BY <1>1, <1>2, EventAppliedRows

(* A block that is applied once meets no sale of its own in the table.     *)
LEMMA SettleSaleRows ==
    ASSUME TypeInv, ChainInv, Rows, SettleSale
    PROVE  Rows' /\ ~SaleKnown
<1>1. /\ At("apply") /\ Applied(Current) /\ IsSettlement(Current)
      /\ UNCHANGED <<marketVars, raw, cursors>> /\ tail.i \in Nat /\ tail.h \in Nat
  BY SettlesIs, Basics DEF SettleSale
<1>2. SalesAre(tail.h, tail.events, tail.i - 1)
  BY <1>1 DEF Rows, WithinBlock, Busy, At
<1>3. ~SaleKnown
  BY <1>1, <1>2 DEF SalesAre, SaleKnown
<1>4. sales' = sales \cup {SaleOf(tail.h, tail.i, Current)}
  BY <1>3 DEF SettleSale, InsertOrIgnore, SaleKnown, SaleOf
<1>5. Rows'
  BY <1>1, <1>4, EventAppliedRows
<1> QED
  BY <1>3, <1>5

LEMMA RecordRawEventRows ==
    ASSUME TypeInv, Rows, RecordRawEvent
    PROVE  Rows'
<1>1. PICK h \in Nat, i \in Nat : h = tail.h /\ i = tail.i
  BY Basics
<1>2. PICK hash, end, events : hash = tail.hash /\ end = tail.end /\ events = tail.events
  OBVIOUS
<1>3. /\ At("dispatch") /\ UNCHANGED <<marketVars, sales, cursors>>
      /\ raw' = InsertOrIgnore(raw, RawRow(h, i, events[i]))
      /\ tail.at = "dispatch"
  BY <1>1, <1>2 DEF RecordRawEvent, RawRow, At
<1>4. RawAre(h, events, i - 1) /\ SalesAre(h, events, i - 1)
  BY <1>1, <1>2, <1>3 DEF Rows, WithinBlock, Busy
<1>5. i >= 1
  BY <1>1, <1>3, Basics DEF Position
<1>6. /\ RawRow(h, i, events[i]).block = h /\ RawRow(h, i, events[i]).index = i
      /\ RawRow(h, i, events[i]).event = events[i]
  BY DEF RawRow
<1>7. raw' = raw \cup {RawRow(h, i, events[i])}
  <2>1. ~\E r \in raw : r.block = h /\ r.index = i
    BY <1>1, <1>4 DEF RawAre
  <2> QED
    BY <1>3, <1>6, <2>1 DEF InsertOrIgnore
<1>8. RawAre(h, events, i)'
  <2>1. \A n \in 1..i : n \in 1..(i - 1) \/ n = i
    BY <1>1
  <2>2. i \in 1..i /\ \A n \in 1..(i - 1) : n \in 1..i
    BY <1>1, <1>5
  <2> QED
    BY <1>4, <1>6, <1>7, <2>1, <2>2 DEF RawAre
<1>9. SalesAre(h, events, i - 1)'
  <2>1. saleVolume' = saleVolume
    BY <1>3, ChainKept
  <2> QED
    BY <1>3, <1>4, <2>1 DEF SalesAre, IsSettlement
<1>10. /\ tail'.at = "apply" /\ tail'.h = h /\ tail'.hash = hash /\ tail'.end = end
       /\ tail'.events = events /\ tail'.i = i
  BY <1>1, <1>2, Basics DEF RecordRawEvent, Goto, TailState
<1>11. PICK at : /\ at = "apply" /\ at # "dispatch" /\ at # "resolve"
                 /\ at \in {"dispatch", "apply", "resolve"}
  OBVIOUS
<1>12. /\ RawAre(h, events, IF at = "dispatch" THEN i - 1 ELSE i)'
       /\ SalesAre(h, events, IF at = "resolve" THEN i ELSE i - 1)'
  BY <1>8, <1>9, <1>11
<1>13. /\ raw \subseteq raw' /\ sales \subseteq sales'
       /\ \A r \in raw' \ raw : r.block = h
       /\ \A s \in sales' \ sales : s.block = h
  BY <1>3, <1>6, <1>7
<1> QED
  BY <1>1, <1>2, <1>3, <1>10, <1>11, <1>12, <1>13, BlockRows

LEMMA ResolveAcceptedRows ==
    ASSUME TypeInv, Rows, ResolveAccepted
    PROVE  Rows'
<1>1. PICK h, i, hash, end, events :
         /\ h \in Nat /\ i \in Nat /\ h = tail.h /\ i = tail.i /\ hash = tail.hash
         /\ end = tail.end /\ events = tail.events
  BY Basics
<1>2. tail.at = "resolve" /\ UNCHANGED <<marketVars, raw, sales, cursors>>
  BY DEF ResolveAccepted, At
<1>3. WithinBlock("resolve", h, hash, end, events, i)
  BY <1>1, <1>2 DEF Rows, Busy
<1>4. PICK n \in Nat : n = i + 1 /\ n - 1 = i
  BY <1>1
<1>5. WithinBlock("dispatch", h, hash, end, events, n)
  BY <1>3, <1>4 DEF WithinBlock
<1>6. /\ tail'.at = "dispatch" /\ tail'.h = h /\ tail'.hash = hash /\ tail'.end = end
      /\ tail'.events = events /\ tail'.i = n
  BY <1>1, <1>4, Basics DEF ResolveAccepted, TailState
<1> QED
  BY <1>2, <1>5, <1>6, BusyBetween, TailRows

LEMMA SaveCursorRows ==
    ASSUME TypeInv, ChainInv, watched = 1, Rows, SaveCursor
    PROVE  Rows'
<1>1. PICK h \in Nat, hash \in Nat : h = tail.h /\ hash = tail.hash
  BY Basics
<1>2. PICK end, events, i : end = tail.end /\ events = tail.events /\ i = tail.i
  OBVIOUS
<1>3. tail.at = "save" /\ UNCHANGED <<marketVars, raw, sales>>
  BY DEF SaveCursor, At, tableVars
<1>4. tail.realm = 1
  BY <1>3, Basics DEF Position, At
<1>5. cursors'[1].block = h /\ cursors'[1].hash = hash
  <2>1. 1 \in 1..Realms /\ cursors \in [1..Realms -> [block : Nat, hash : Nat]]
    BY Basics
  <2> DEFINE row == [block |-> tail.h, hash |-> tail.hash]
  <2>2. cursors' = [cursors EXCEPT ![1] = row]
    BY <1>4 DEF SaveCursor
  <2>3. row.block = h /\ row.hash = hash
    BY <1>1
  <2> HIDE DEF row
  <2> QED
    BY <2>1, <2>2, <2>3
<1>6. /\ tail'.at = "next" /\ tail'.h = h /\ tail'.hash = hash /\ tail'.end = end
      /\ tail'.events = events /\ tail'.i = i
  BY <1>1, <1>2, <1>4, Basics DEF SaveCursor, TailState
<1>7. /\ RowsTo(h) /\ WholeTo(h - 1)
      /\ h < end => hash = chain[h].hash
      /\ hash = chain[h].hash => events = chain[h].events
      /\ RawAre(h, events, Len(events)) /\ SalesAre(h, events, Len(events))
  BY <1>1, <1>2, <1>3 DEF Rows, WithinBlock, Busy
<1>8. chain' = chain /\ saleVolume' = saleVolume
  BY <1>3, ChainKept
<1>9. hash = chain[h].hash => Whole(h)
  BY <1>7 DEF Whole
<1>10. RowsTo(h)' /\ WholeTo(h - 1)' /\ (Whole(h) => Whole(h)')
  BY <1>3, <1>7, <1>8 DEF RowsTo, WholeTo, Whole, RawAre, SalesAre, IsSettlement
<1>11. Matches' => hash = chain[h].hash
  BY <1>5, <1>8 DEF Matches
<1>12. BetweenBlocks("next", h, hash, end)'
  BY <1>5, <1>7, <1>9, <1>10, <1>11 DEF BetweenBlocks
<1> QED
  BY <1>6, <1>12 DEF Rows, Busy

LEMMA RollbackRows ==
    ASSUME TypeInv, Rows, RollbackFromHeight
    PROVE  Rows'
<1>1. PICK h, hash, events, i :
         /\ h \in Nat
         /\ h = tail.h /\ hash = tail.hash /\ events = tail.events /\ i = tail.i
  BY Basics
<1>2. /\ tail.at = "rollback" /\ UNCHANGED <<marketVars, cursors>>
      /\ raw' = Below(raw, h) /\ sales' = Below(sales, h) /\ StartAt(h - 1)
  BY <1>1 DEF RollbackFromHeight, At, Rewound
<1>3. RowsTo(h) /\ WholeTo(h - 1) /\ h = cursors[1].block /\ ~Matches
  BY <1>1, <1>2 DEF Rows, BetweenBlocks
<1>4. h \in 1..Len(chain) /\ Len(chain) \in Nat
  BY <1>1, <1>2, Basics DEF Position, At
<1>5. PICK n \in Nat : n = h - 1 /\ n + 1 = h
  BY <1>4
<1>6. PICK end : end = ConfirmedEnd(tail.latest, n)
  OBVIOUS
<1>7. /\ tail'.at = "next" /\ tail'.h = n /\ tail'.hash = hash /\ tail'.end = end
      /\ tail'.events = events /\ tail'.i = i
  BY <1>1, <1>2, <1>5, <1>6, Basics DEF StartAt, TailState
<1>8. chain' = chain /\ saleVolume' = saleVolume
  BY <1>2, ChainKept
<1>9. RowsTo(n)'
  <2>1. \A b \in 1..h : b < h => b \in 1..n
    BY <1>5
  <2> QED
    BY <1>2, <1>3, <2>1 DEF RowsTo, Below
<1>10. \A b \in 1..n : Whole(b) => Whole(b)'
  <2> SUFFICES ASSUME NEW b \in 1..n, Whole(b) PROVE Whole(b)'
    OBVIOUS
  <2>1. b < h
    BY <1>5
  <2>2. \A k, e : RawRow(b, k, e).block = b /\ SaleOf(b, k, e).block = b
    BY DEF RawRow, SaleOf
  <2>3. \A s, k : RawAre(b, s, k) => RawAre(b, s, k)'
    BY <1>2, <2>1, <2>2 DEF RawAre, Below
  <2>4. \A s, k : SalesAre(b, s, k) => SalesAre(b, s, k)'
    BY <1>2, <1>8, <2>1, <2>2 DEF SalesAre, Below, IsSettlement
  <2> QED
    BY <1>8, <2>3, <2>4 DEF Whole
<1>11. WholeTo(n)' /\ WholeTo(n - 1)'
  <2>1. WholeTo(n)
    BY <1>3, <1>5
  <2>2. \A b \in 1..(n - 1) : b \in 1..n
    BY <1>5
  <2> QED
    BY <1>10, <2>1, <2>2 DEF WholeTo
<1>12. n >= 1 => Whole(n)'
  <2>1. n >= 1 => n \in 1..n
    BY <1>5
  <2> QED
    BY <1>11, <2>1 DEF WholeTo
<1>13. ~Matches' /\ n + 1 = cursors'[1].block
  BY <1>2, <1>3, <1>5, <1>8 DEF Matches
<1>14. BetweenBlocks("next", n, hash, end)'
  BY <1>9, <1>11, <1>12, <1>13 DEF BetweenBlocks
<1> QED
  BY <1>7, <1>14 DEF Rows, Busy

(* A replacement is at most one block deeper than the confirmations: it    *)
(* reaches the block of the cursor, and no block before it.                *)
OneDeep == \A c \in Confirmations : ReorgDepth <= c + 1

LEMMA BelowStays ==
    ASSUME TypeInv, OneDeep, ChainMoves, NEW b \in Nat, b >= 1,
           b + 1 + confirmations <= Len(chain)
    PROVE  b \in 1..Len(chain) /\ chain'[b] = chain[b]
<1>1. confirmations \in Nat /\ Len(chain) \in Nat /\ confirmations \in Confirmations
  BY Basics DEF TypeInv, SettingsOK
<1>2. b \in 1..Len(chain) /\ b + ReorgDepth <= Len(chain)
  BY <1>1 DEF OneDeep
<1> QED
  BY <1>2, ChainMovesChange

(* A block whose hash was held before the move was not replaced.           *)
LEMMA KnownHash ==
    ASSUME TypeInv, ChainInv, ChainMoves, NEW b \in 1..Len(chain'), NEW hash \in Nat,
           hash <= lastHash, chain'[b].hash = hash
    PROVE  b \in 1..Len(chain) /\ chain'[b] = chain[b]
<1>1. lastHash \in Nat
  BY DEF TypeInv, MarketOK
<1> QED
  BY <1>1, ChainMovesChange

LEMMA ChainMovesRows ==
    ASSUME TypeInv, ChainInv, OneDeep, Rows, ChainMoves
    PROVE  Rows'
<1>1. PICK h \in Nat, hash \in Nat, end \in Nat, i \in Nat :
         h = tail.h /\ hash = tail.hash /\ end = tail.end /\ i = tail.i
  BY Basics
<1>2. PICK at, events : at = tail.at /\ events = tail.events
  OBVIOUS
<1>3. /\ raw' = raw /\ sales' = sales /\ cursors' = cursors /\ tail' = tail
      /\ confirmations' = confirmations
  BY DEF ChainMoves, tableVars
<1>4. saleVolume' = saleVolume /\ Len(chain') >= Len(chain)
  BY ChainMovesChange
<1>5. confirmations \in Nat /\ Len(chain) \in Nat /\ Position /\ CursorsConfirmed /\ 1 \in 1..Realms
  BY Basics
<1>6. Len(chain') \in Nat
  BY ChainMovesTypes DEF MarketOK
<1>7. PICK cursor \in Nat, known \in Nat :
         cursor = cursors[1].block /\ known = cursors[1].hash
  BY <1>5, Basics
<1>8. /\ known # NoHash => cursor >= 1 /\ cursor + confirmations <= Len(chain)
      /\ known = NoHash => cursor = 0
      /\ known <= lastHash /\ hash <= lastHash
  BY <1>1, <1>5, <1>7 DEF CursorsConfirmed, ChainInv, HashesGiven, FirstCursor
<1>9. \A b \in Nat : b >= 1 /\ b + 1 + confirmations <= Len(chain) => chain'[b] = chain[b]
  BY BelowStays
<1>10. \A b \in Nat : Whole(b) /\ chain'[b] = chain[b] => Whole(b)'
  BY <1>3, <1>4 DEF Whole, RawAre, SalesAre, IsSettlement
<1>11. \A n \in Nat : WholeTo(n) /\ n + 1 + confirmations <= Len(chain) => WholeTo(n)'
  <2> SUFFICES ASSUME NEW n \in Nat, WholeTo(n), n + 1 + confirmations <= Len(chain),
                      NEW b \in 1..n
               PROVE  Whole(b)'
    BY DEF WholeTo
  <2>1. b \in Nat /\ b >= 1 /\ b + 1 + confirmations <= Len(chain)
    BY <1>5
  <2> QED
    BY <1>9, <1>10, <2>1 DEF WholeTo
<1>12. \A n : WholeTo(n - 1) /\ n = 0 => WholeTo(n - 1)'
  BY DEF WholeTo
<1>13. \A n : RowsTo(n)' <=> RowsTo(n)
  BY <1>3 DEF RowsTo
<1>14. Matches' => Matches /\ chain'[cursor] = chain[cursor]
  <2> SUFFICES ASSUME Matches' PROVE Matches /\ chain'[cursor] = chain[cursor]
    OBVIOUS
  <2>1. known # NoHash /\ chain'[cursor].hash = known
    BY <1>3, <1>7 DEF Matches
  <2>2. cursor \in 1..Len(chain')
    BY <1>4, <1>5, <1>6, <1>8, <2>1
  <2>3. chain'[cursor] = chain[cursor]
    BY <1>8, <2>1, <2>2, KnownHash
  <2> QED
    BY <1>7, <2>1, <2>3 DEF Matches
<1>15. cursor >= 1 /\ WholeTo(cursor - 1) => WholeTo(cursor - 1)'
  <2>1. cursor >= 1 => cursor - 1 \in Nat /\ (cursor - 1) + 1 + confirmations <= Len(chain)
    BY <1>5, <1>8, <1>7
  <2> QED
    BY <1>11, <2>1
<1>16. BetweenBlocks(at, h, hash, end)
  BY <1>1, <1>2 DEF Rows
<1>17. at \in {"idle", "check", "rollback"} => RowsTo(cursor)' /\ WholeTo(cursor - 1)'
  BY <1>7, <1>12, <1>13, <1>15, <1>16 DEF BetweenBlocks
<1>18. at \in {"idle", "check"} /\ Matches' => Whole(cursor)'
  BY <1>7, <1>10, <1>14, <1>16 DEF BetweenBlocks
<1>19. at = "check" => h = cursor /\ hash = known
  BY <1>7, <1>16 DEF BetweenBlocks
<1>20. at = "rollback" => h = cursor /\ ~Matches'
  BY <1>7, <1>14, <1>16 DEF BetweenBlocks
<1>21. ASSUME at = "next"
       PROVE  /\ RowsTo(h)' /\ WholeTo(h - 1)'
              /\ h >= 1 /\ h < end => Whole(h)'
              /\ \/ h = cursor /\ (Matches' => Whole(h)')
                 \/ h + 1 = cursor /\ ~Matches' /\ (h >= 1 => Whole(h)')
  <2>1. /\ RowsTo(h) /\ WholeTo(h - 1)
        /\ h >= 1 /\ h < end => Whole(h)
        /\ \/ h = cursor /\ (Matches => Whole(h))
           \/ h + 1 = cursor /\ ~Matches /\ (h >= 1 => Whole(h))
    BY <1>7, <1>16, <1>21 DEF BetweenBlocks
  <2>2. h < end => h + 1 + confirmations <= Len(chain)
    <3>1. at = "next" /\ h < end =>
             end + confirmations <= tail.latest /\ tail.latest <= Len(chain)
      BY <1>1, <1>2, <1>5 DEF Position, At
    <3>2. tail.latest \in Nat
      BY Basics
    <3> QED
      BY <1>1, <1>5, <1>21, <3>1, <3>2
  <2>3. h >= 1 /\ h < end => Whole(h)'
    BY <1>9, <1>10, <2>1, <2>2
  <2>4. WholeTo(h - 1)'
    <3>1. CASE h = 0
      BY <1>12, <2>1, <3>1
    <3>2. CASE h >= 1
      <4>1. h - 1 \in Nat /\ (h - 1) + 1 + confirmations <= Len(chain)
        BY <1>5, <1>7, <1>8, <2>1, <3>2
      <4> QED
        BY <1>11, <2>1, <4>1
    <3> QED
      BY <3>1, <3>2
  <2>5. h = cursor => (Matches' => (Whole(h) => Whole(h)'))
    BY <1>10, <1>14
  <2>6. h + 1 = cursor /\ h >= 1 => (Whole(h) => Whole(h)')
    <3>1. h + 1 = cursor => h + 1 + confirmations <= Len(chain)
      BY <1>5, <1>7, <1>8
    <3> QED
      BY <1>9, <1>10, <3>1
  <2>7. RowsTo(h)'
    BY <1>13, <2>1
  <2> QED
    BY <1>14, <2>1, <2>3, <2>4, <2>5, <2>6, <2>7
<1>22. BetweenBlocks(at, h, hash, end)'
  BY <1>3, <1>7, <1>17, <1>18, <1>19, <1>20, <1>21 DEF BetweenBlocks
<1>23. ASSUME Busy PROVE WithinBlock(at, h, hash, end, events, i)'
  <2>1. WithinBlock(at, h, hash, end, events, i)
    BY <1>1, <1>2, <1>23 DEF Rows
  <2>2. h \in 1..end /\ end + confirmations <= Len(chain) /\ hash # NoHash
    <3>1. h \in 1..end /\ end + confirmations <= tail.latest /\ tail.latest <= Len(chain)
          /\ hash # NoHash
      BY <1>1, <1>5, <1>23 DEF Position, Busy, At
    <3>2. tail.latest \in Nat
      BY Basics
    <3> QED
      BY <1>1, <1>5, <3>1, <3>2
  <2>3. WholeTo(h - 1)'
    <3>1. h - 1 \in Nat /\ (h - 1) + 1 + confirmations <= Len(chain)
      BY <1>1, <1>5, <2>2
    <3> QED
      BY <1>11, <2>1, <3>1 DEF WithinBlock
  <2>4. h < end => chain'[h] = chain[h]
    <3>1. h < end => h + 1 + confirmations <= Len(chain)
      BY <1>1, <1>5, <2>2
    <3> QED
      BY <1>9, <2>2, <3>1
  <2>5. hash = chain'[h].hash => chain'[h] = chain[h]
    <3>1. h \in 1..Len(chain')
      BY <1>1, <1>4, <1>5, <1>6, <2>2
    <3> QED
      BY <1>1, <1>8, <3>1, KnownHash
  <2>6. \A n : /\ RawAre(h, events, n)' <=> RawAre(h, events, n)
               /\ SalesAre(h, events, n)' <=> SalesAre(h, events, n)
    BY <1>3, <1>4 DEF RawAre, SalesAre, IsSettlement
  <2> QED
    BY <1>13, <2>1, <2>3, <2>4, <2>5, <2>6 DEF WithinBlock
<1>24. /\ tail'.at = at /\ tail'.h = h /\ tail'.hash = hash /\ tail'.end = end
       /\ tail'.events = events /\ tail'.i = i /\ (Busy' <=> Busy)
  BY <1>1, <1>2, <1>3 DEF Busy
<1> QED
  BY <1>22, <1>23, <1>24 DEF Rows

(* A cycle that is not cut short leaves the troubles as they were.         *)
LEMMA CycleKeeps ==
    ASSUME Cycle
    PROVE  /\ UNCHANGED <<marketVars, watched, confirmations, faults>>
           /\ RollbackFromHeight \/ SettleSale \/ (sales' = sales /\ collection' = collection)
BY DEF Cycle, Poll, CheckCursor, RollbackFromHeight, CycleEnds, FetchHash, FetchEvents,
       RecordRawEvent, ApplyMint, ApplyNFTListed, ApplyNFTDelisted, ApplyOfferMade,
       ApplyOfferCancelled, SettleSale, SkipCompanion, ResolveAccepted, BlockApplied,
       SaveCursor, tableVars

LEMMA UndisturbedInvStep ==
    ASSUME TypeInv, ChainInv, OneDeep, UndisturbedInv, [Next]_vars
    PROVE  UndisturbedInv'
<1> SUFFICES ASSUME Undisturbed' PROVE Rows'
  BY DEF UndisturbedInv
<1>1. faults \in Nat /\ watched \in 1..Realms
  BY Basics DEF TypeInv, SettingsOK
<1>2. ~Interrupt
  BY <1>1 DEF Interrupt, Undisturbed
<1>3. ASSUME NEW h \in 1..Len(chain) PROVE ~WatchSeeded(h)
  <2>1. watched + 1 # 1
    BY <1>1
  <2> QED
    BY <2>1 DEF WatchSeeded, Undisturbed
<1>4. CASE Cycle
  <2>1. Undisturbed
    BY <1>4, CycleKeeps DEF Undisturbed
  <2>2. Rows /\ watched = 1
    BY <2>1 DEF UndisturbedInv, Undisturbed
  <2> QED
    BY <1>4, <2>2, PollRows, CheckCursorRows, RollbackRows, CycleEndsRows, FetchHashRows,
       FetchEventsRows, RecordRawEventRows, OtherEventRows, SettleSaleRows,
       ResolveAcceptedRows, BlockAppliedRows, SaveCursorRows
    DEF Cycle
<1>5. CASE ChainMoves
  <2>1. Undisturbed
    BY <1>5 DEF ChainMoves, Undisturbed
  <2> QED
    BY <1>5, <2>1, ChainMovesRows DEF UndisturbedInv
<1>6. CASE UNCHANGED vars
  <2>1. /\ UNCHANGED <<marketVars, raw, sales, cursors>> /\ tail' = tail
        /\ faults' = faults /\ watched' = watched
    BY <1>6 DEF vars, tableVars
  <2>2. Rows
    BY <2>1 DEF UndisturbedInv, Undisturbed
  <2>3. PICK at, h, hash, end, events, i :
           /\ at = tail.at /\ h = tail.h /\ hash = tail.hash /\ end = tail.end
           /\ events = tail.events /\ i = tail.i
    OBVIOUS
  <2>4. /\ tail'.at = at /\ tail'.h = h /\ tail'.hash = hash /\ tail'.end = end
        /\ tail'.events = events /\ tail'.i = i
    BY <2>1, <2>3
  <2>5. BetweenBlocks(at, h, hash, end)
    BY <2>2, <2>3 DEF Rows
  <2>6. at \in {"fetch", "dispatch", "apply", "resolve", "save"} =>
           WithinBlock(at, h, hash, end, events, i)
    BY <2>2, <2>3 DEF Rows, Busy
  <2> QED
    BY <2>1, <2>4, <2>5, <2>6, TailRows
<1> QED
  BY <1>2, <1>3, <1>4, <1>5, <1>6 DEF Next

LEMMA UndisturbedLedgers ==
    ASSUME TypeInv, ChainInv, UndisturbedInv, Undisturbed, Agreed
    PROVE  SalesOfTheChain /\ RawOfTheChain
<1>1. LoadCursor = cursors[1] /\ Rows
  BY OneCursor DEF Undisturbed, UndisturbedInv
<1>2. PICK h \in Nat, hash \in Nat : h = LoadCursor.block /\ hash = LoadCursor.hash
  <2>1. cursors \in [1..Realms -> [block : Nat, hash : Nat]] /\ 1 \in 1..Realms
    BY Basics
  <2> QED
    BY <1>1, <2>1
<1>3. tail.at = "idle" /\ h > 0 /\ hash = chain[h].hash
  BY <1>2 DEF Agreed, At
<1>4. hash # NoHash
  BY <1>1, <1>2, <1>3 DEF ChainInv, FirstCursor
<1>5. h \in 1..Len(chain)
  <2>1. CursorsConfirmed /\ 1 \in 1..Realms /\ confirmations \in Nat /\ Len(chain) \in Nat
    BY Basics
  <2>2. h + confirmations <= Len(chain)
    BY <1>1, <1>2, <1>4, <2>1 DEF CursorsConfirmed
  <2> QED
    BY <1>3, <2>1, <2>2
<1>6. RowsTo(h) /\ WholeTo(h - 1) /\ Whole(h)
  BY <1>1, <1>2, <1>3, <1>4 DEF Rows, BetweenBlocks, Matches
<1>7. \A b \in 1..h : Whole(b)
  <2>1. \A b \in 1..h : b \in 1..(h - 1) \/ b = h
    OBVIOUS
  <2> QED
    BY <1>6, <2>1 DEF WholeTo
<1>8. \A b \in 1..h : Done(b)
  BY <1>7 DEF Whole, RawAre, SalesAre, Done, ToldTo, SoldTo, Told, Sold
<1>9. \A r \in raw : r.block <= h => r.block \in 1..h /\ RawFits(r)
  BY <1>6, <1>7 DEF RowsTo, Whole, RawAre, RawFits
<1>10. \A s \in sales : s.block <= h => s.block \in 1..h /\ SaleFits(s)
  BY <1>6, <1>7 DEF RowsTo, Whole, SalesAre, SaleFits
<1>11. h \in 0..Len(chain)
  BY <1>5
<1>12. /\ {r \in raw : r.block <= h} = EventsUpTo(h)
       /\ {s \in sales : s.block <= h} = SalesUpTo(h)
  BY <1>8, <1>9, <1>10, <1>11, LedgersAre
<1> QED
  BY <1>2, <1>12 DEF SalesOfTheChain, RawOfTheChain

TailerInv == TypeInv /\ ChainInv /\ StableInv /\ UndisturbedInv

LEMMA TailerInvHolds ==
    ASSUME OneDeep
    PROVE  Spec => []TailerInv
<1>1. Init => TailerInv
  BY TypeInvInit, ChainInvInit, StableInvInit, UndisturbedInvInit DEF TailerInv
<1>2. TailerInv /\ [Next]_vars => TailerInv'
  BY TypeInvStep, ChainInvStep, StableInvStep, UndisturbedInvStep DEF TailerInv
<1> QED
  BY <1>1, <1>2, PTL DEF Spec

(* Up to the cursor, nft_sales and nft_raw_events hold every event of the  *)
(* chain, each once and no other (dispatch.go, raw_ledger.go, reorg.go):   *)
(* for every chain and number of realms, with replacements that reach at   *)
(* most one block deeper than the confirmations, as tailOnce's rollback of *)
(* the cursor's block alone requires.                                      *)
THEOREM LedgersFollowTheChain ==
    ASSUME \A c \in Confirmations : ReorgDepth <= c + 1
    PROVE  Spec => []LedgersOfTheChain
<1>1. OneDeep
  BY DEF OneDeep
<1>2. TailerInv => LedgersOfTheChain
  BY StableLedgers, UndisturbedLedgers DEF TailerInv, LedgersOfTheChain, Stable
<1> QED
  BY <1>1, <1>2, TailerInvHolds, PTL

(***************************************************************************)
(* The aggregates are those of the sales table.                            *)
(***************************************************************************)

Counted ==
    /\ collection.volume = Volume(sales)
    /\ collection.sales = Cardinality(sales)
LastShown == Stable \/ Undisturbed => collection.last = LastPrice(sales)

LEMMA AggregatesInit == Init => Counted /\ LastShown
<1> SUFFICES ASSUME Init PROVE Counted /\ LastShown
  OBVIOUS
<1>1. {} \in FiniteSales
  BY FS_EmptySet DEF FiniteSales
<1>2. Volume({}) = 0 /\ Cardinality({}) = 0
  BY <1>1, VolumeStep, FS_EmptySet
<1> QED
  BY <1>2 DEF Init, Counted, LastShown, LastPrice

LEMMA RollbackAggregates ==
    ASSUME TypeInv, Counted, RollbackFromHeight
    PROVE  Counted' /\ (collection.last = LastPrice(sales) => collection'.last = LastPrice(sales)')
<1>1. PICK h : h = tail.h
  OBVIOUS
<1>2. sales' = Below(sales, h) /\ collection' = AggregatesAfterRollback(h)
  BY <1>1 DEF RollbackFromHeight
<1>3. CASE Below(sales, h) = sales
  BY <1>2, <1>3 DEF Counted, AggregatesAfterRollback
<1>4. CASE Below(sales, h) # sales
  BY <1>2, <1>4 DEF Counted, AggregatesAfterRollback, Aggregates
<1> QED
  BY <1>3, <1>4

(* What a settlement that is not known yet adds.                           *)
LEMMA SaleAdded ==
    ASSUME TypeInv, SettleSale, ~SaleKnown
    PROVE  /\ SaleOf(tail.h, tail.i, Current) \in SaleRow \ sales
           /\ sales' = sales \cup {SaleOf(tail.h, tail.i, Current)}
           /\ collection' = [volume |-> collection.volume + Current.price,
                             sales |-> collection.sales + 1, last |-> Current.price]
<1>1. SaleOf(tail.h, tail.i, Current) \in SaleRow
  BY SettledSale DEF SaleOf
<1>2. SaleOf(tail.h, tail.i, Current) \notin sales
  BY DEF SaleKnown, SaleOf
<1> QED
  BY <1>1, <1>2 DEF SettleSale, InsertOrIgnore, SaleKnown, SaleOf

LEMMA SettleSaleCounted ==
    ASSUME TypeInv, Counted, SettleSale
    PROVE  Counted'
<1>1. CASE SaleKnown
  BY <1>1 DEF SettleSale, Counted
<1>2. CASE ~SaleKnown
  <2>1. PICK row \in SaleRow \ sales : row = SaleOf(tail.h, tail.i, Current)
    BY <1>2, SaleAdded
  <2>2. row.price = Current.price
    BY <2>1 DEF SaleOf
  <2>3. sales \in FiniteSales
    BY DEF TypeInv, TablesOK, SalesOK
  <2>4. /\ Volume(sales \cup {row}) = Volume(sales) + row.price
        /\ Cardinality(sales \cup {row}) = Cardinality(sales) + 1
    BY <2>1, <2>3, VolumeAdds, AddSale DEF Additive
  <2>5. /\ sales' = sales \cup {row} /\ collection'.volume = collection.volume + row.price
        /\ collection'.sales = collection.sales + 1
    BY <1>2, <2>1, <2>2, SaleAdded
  <2> QED
    BY <2>4, <2>5 DEF Counted
<1> QED
  BY <1>1, <1>2

(* The sale added is after those in the table.                             *)
LEMMA SettledLast ==
    ASSUME TypeInv, ChainInv, StableInv, UndisturbedInv, Stable \/ Undisturbed,
           SettleSale, ~SaleKnown
    PROVE  \A s \in sales : s.block < tail.h \/ (s.block = tail.h /\ s.index <= tail.i)
<1> SUFFICES ASSUME NEW s \in sales
             PROVE  s.block < tail.h \/ (s.block = tail.h /\ s.index <= tail.i)
  OBVIOUS
<1>1. PICK h \in Nat, i \in Nat : h = tail.h /\ i = tail.i
  BY Basics
<1>2. s.block \in Nat /\ s.index \in Nat
  BY DEF TypeInv, TablesOK, SalesOK, FiniteSales, SaleRow
<1>3. tail.at = "apply" /\ i \in 1..Len(tail.events) /\ IsSettlement(Current)
  BY <1>1, SettlesIs, CurrentTypes DEF SettleSale, At
<1>4. CASE Stable
  <2> SUFFICES ASSUME h < s.block \/ (h = s.block /\ i < s.index) PROVE FALSE
    BY <1>1, <1>2
  <2>1. TablesOnChain /\ TailOnChain
    BY <1>4 DEF StableInv
  <2>2. tail.events = chain[h].events
    BY <1>1, <1>3, <2>1 DEF TailOnChain, At
  <2>3. h >= 1
    BY <1>1, <1>3, Basics DEF Position, Busy
  <2>4. h \in 1..s.block /\ i \in 1..Len(chain[h].events)
    BY <1>2, <1>3, <2>2, <2>3
  <2>5. Sold(h, i)
    BY <2>1, <2>4 DEF TablesOnChain, SalesInOrder, Before
  <2>6. SaleOf(h, i, Current) \in sales
    BY <1>1, <1>3, <2>2, <2>5 DEF Sold, Current
  <2> QED
    BY <1>1, <2>6 DEF SaleKnown, SaleOf
<1>5. CASE Undisturbed
  <2>1. WithinBlock("apply", h, tail.hash, tail.end, tail.events, i)
    BY <1>1, <1>3, <1>5 DEF UndisturbedInv, Rows, Busy
  <2>2. /\ s.block \in 1..h
        /\ s.block = h => s.index \in 1..(i - 1)
    BY <2>1 DEF WithinBlock, RowsTo, SalesAre
  <2> QED
    BY <1>1, <1>2, <2>2
<1> QED
  BY <1>4, <1>5

LEMMA SettleSaleLast ==
    ASSUME TypeInv, TypeInv', ChainInv, StableInv, UndisturbedInv, Stable \/ Undisturbed,
           collection.last = LastPrice(sales), SettleSale
    PROVE  collection'.last = LastPrice(sales)'
<1>1. CASE SaleKnown
  BY <1>1 DEF SettleSale
<1>2. CASE ~SaleKnown
  <2>1. PICK row \in SaleRow \ sales : row = SaleOf(tail.h, tail.i, Current)
    BY <1>2, SaleAdded
  <2>2. row.price = Current.price /\ row.block = tail.h /\ row.index = tail.i
    BY <2>1 DEF SaleOf
  <2>3. sales' \in FiniteSales /\ UniqueKeys(sales')
    BY DEF TypeInv, TablesOK, SalesOK
  <2>4. sales' = sales \cup {row} /\ collection'.last = row.price
    BY <1>2, <2>1, <2>2, SaleAdded
  <2>5. row.block \in Nat /\ row.index \in Nat
    BY <2>1 DEF SaleRow
  <2>6. LastIn(row, sales \cup {row})
    BY <1>2, <2>2, <2>5, SettledLast DEF LastIn, UpToSale
  <2>7. LastPrice(sales \cup {row}) = row.price
    BY <2>3, <2>4, <2>6, LastPriceIs
  <2> QED
    BY <2>4, <2>7
<1> QED
  BY <1>1, <1>2

LEMMA AggregatesStep ==
    ASSUME TailerInv, TypeInv', Counted, LastShown, [Next]_vars
    PROVE  Counted' /\ LastShown'
<1>1. faults \in Nat /\ watched \in 1..Realms /\ reorgs \in Nat
  BY Basics DEF TailerInv, TypeInv, SettingsOK, MarketOK
<1>2. (Stable \/ Undisturbed)' => Stable \/ Undisturbed
  <2>1. CASE Cycle
    <3>1. UNCHANGED <<marketVars, watched, confirmations, faults>>
      BY <2>1, CycleKeeps
    <3> QED
      BY <3>1, ChainKept DEF Stable, Undisturbed, BehindReorgs
  <2>2. CASE Interrupt
    <3>1. /\ UNCHANGED marketVars /\ faults' = faults + 1 /\ confirmations' = confirmations
          /\ watched' = watched
      BY <2>2 DEF Interrupt
    <3> QED
      BY <1>1, <3>1, ChainKept DEF Stable, Undisturbed, BehindReorgs
  <2>3. ASSUME NEW h \in 1..Len(chain), WatchSeeded(h)
        PROVE  (Stable \/ Undisturbed)' => Stable \/ Undisturbed
    <3>1. UNCHANGED marketVars /\ watched' = watched + 1 /\ confirmations' = confirmations
      BY <2>3 DEF WatchSeeded
    <3>2. watched + 1 # 1
      BY <1>1
    <3> QED
      BY <3>1, <3>2, ChainKept DEF Stable, Undisturbed, BehindReorgs
  <2>4. CASE ChainMoves
    <3>1. confirmations' = confirmations /\ faults' = faults /\ watched' = watched
      BY <2>4 DEF ChainMoves
    <3>2. reorgs' >= reorgs
      BY <2>4, ChainMovesChange DEF TailerInv
    <3> QED
      BY <1>1, <3>1, <3>2 DEF Stable, Undisturbed, BehindReorgs
  <2>5. CASE UNCHANGED vars
    BY <2>5 DEF vars, marketVars, Stable, Undisturbed, BehindReorgs
  <2> QED
    BY <2>1, <2>2, <2>3, <2>4, <2>5 DEF Next
<1>3. CASE RollbackFromHeight
  BY <1>2, <1>3, RollbackAggregates DEF TailerInv, LastShown
<1>4. CASE SettleSale
  BY <1>2, <1>4, SettleSaleCounted, SettleSaleLast DEF TailerInv, LastShown
<1>5. CASE sales' = sales /\ collection' = collection
  BY <1>2, <1>5 DEF Counted, LastShown
<1>6. \/ RollbackFromHeight \/ SettleSale
      \/ sales' = sales /\ collection' = collection
  BY CycleKeeps DEF Next, Interrupt, WatchSeeded, ChainMoves, tableVars, vars
<1> QED
  BY <1>3, <1>4, <1>5, <1>6

(* The collection's volume and count are those of the sales in the table,  *)
(* through replays, interruptions and rollbacks, and so is its last price  *)
(* where the blocks rolled back were applied whole (settleSale,            *)
(* rollbackFromHeight).                                                    *)
THEOREM AggregatesFollowTheSales ==
    ASSUME \A c \in Confirmations : ReorgDepth <= c + 1
    PROVE  Spec => []AggregatesOfTheSales
<1>1. OneDeep
  BY DEF OneDeep
<1>2. /\ Counted /\ LastShown => AggregatesOfTheSales
      /\ TailerInv => TypeInv
  BY DEF Counted, LastShown, AggregatesOfTheSales, Stable, TailerInv
<1>3. TailerInv /\ TypeInv' /\ Counted /\ LastShown /\ [Next]_vars => (Counted /\ LastShown)'
  BY AggregatesStep
<1>4. Spec => []TailerInv
  BY <1>1, TailerInvHolds
<1> QED
  BY <1>2, <1>3, <1>4, AggregatesInit, PTL DEF Spec

(***************************************************************************)
(* Behind the reorgs, the tables implement the feed.                       *)
(***************************************************************************)

LEMMA KindsAre ==
    /\ Kinds \in PriceKinds
    /\ \A e : IsSettlement(e) <=> e.type \in Kinds
    /\ Final = FinalOf(chain, Readable, Kinds)
<1>1. Kinds \in PriceKinds
  BY DEF Kinds, PriceKinds
<1>2. \A e : IsSettlement(e) <=> e.type \in Kinds
  BY DEF Kinds, IsSettlement
<1>3. Final = FinalOf(chain, Readable, Kinds)
  BY DEF Final, SalePrices, FinalOf, PriceSeqs, PricesOf, IsSettlement, Kinds
<1> QED
  BY <1>1, <1>2, <1>3

LEMMA ReadableIs ==
    ASSUME TypeInv
    PROVE  /\ chain \in Seq(PricedBlock) /\ Readable \in 0..Len(chain)
           /\ \A b \in Nat : Confirmed(b) <=> b \in 1..Readable
<1>1. chain \in Seq(PricedBlock) /\ Len(chain) \in Nat /\ confirmations \in Nat
  BY Basics DEF TypeInv, MarketOK
<1>2. Readable \in 0..Len(chain)
  BY <1>1 DEF Readable
<1>3. ASSUME NEW b \in Nat PROVE Confirmed(b) <=> b \in 1..Readable
  BY <1>1 DEF Readable, Confirmed
<1> QED
  BY <1>1, <1>2, <1>3

(* The table holds exactly the sales before the one that is settled.       *)
LEMMA SalesBefore ==
    ASSUME TypeInv, ChainInv, TablesOnChain, TailOnChain, SettleSale, ~SaleKnown,
           NEW h \in Nat, h = tail.h, NEW i \in Nat, i = tail.i
    PROVE  /\ h \in 1..Readable /\ i \in 1..Len(chain[h].events)
           /\ Current = chain[h].events[i] /\ Current.type \in Kinds
           /\ sales = RowsOf(chain, h - 1, Kinds) \cup RowsIn(h, chain[h].events, i - 1, Kinds)
<1>1. tail.at = "apply" /\ i \in 1..Len(tail.events) /\ IsSettlement(Current)
  BY SettlesIs, CurrentTypes DEF SettleSale, At
<1>2. /\ Confirmed(h) /\ tail.events = chain[h].events /\ SoldTo(h, i - 1)
      /\ \A b \in 1..(h - 1) : Done(b)
  BY <1>1 DEF TailOnChain, Busy, At
<1>3. h \in 1..Readable
  BY <1>2, ReadableIs
<1>4. Current = chain[h].events[i]
  BY <1>2 DEF Current
<1> DEFINE S == RowsOf(chain, h - 1, Kinds)
           T == RowsIn(h, chain[h].events, i - 1, Kinds)
<1>5. ASSUME NEW b \in 1..(h - 1), NEW n \in 1..Len(chain[b].events),
             IsSettlement(chain[b].events[n])
      PROVE  SaleOf(b, n, chain[b].events[n]) \in sales
  BY <1>2, <1>5 DEF Done, SoldTo, Sold
<1>6. ASSUME NEW n \in 1..(i - 1), IsSettlement(chain[h].events[n])
      PROVE  SaleOf(h, n, chain[h].events[n]) \in sales
  BY <1>2, <1>6 DEF SoldTo, Sold
<1>7. S \cup T \subseteq sales
  <2>1. S \subseteq sales
    BY <1>5, KindsAre DEF RowsOf, RowsIn
  <2>2. T \subseteq sales
    BY <1>6, KindsAre DEF RowsIn
  <2> QED
    BY <2>1, <2>2
<1>8. ASSUME NEW s \in sales PROVE s \in S \cup T
  <2>1. s \in SaleRow
    BY DEF TypeInv, TablesOK, SalesOK, FiniteSales
  <2>2. PICK b \in Nat, n \in Nat : b = s.block /\ n = s.index
    BY <2>1 DEF SaleRow
  <2>3. /\ b >= 1 /\ n \in 1..Len(chain[b].events)
        /\ chain[b].events[n].type \in Kinds
        /\ s = SaleOf(b, n, chain[b].events[n])
    <3>1. SaleOnChain(s)
      BY DEF TablesOnChain, SaleRowsOnChain
    <3>2. s = [block |-> b, index |-> n, price |-> s.price]
      BY <2>1, <2>2, SaleRowIs
    <3> QED
      BY <2>2, <3>1, <3>2, KindsAre DEF SaleOnChain, Confirmed, SaleOf
  <2>4. b < h \/ (b = h /\ n < i)
    <3>1. ~(b = h /\ n = i)
      BY <2>2 DEF SaleKnown
    <3> SUFFICES ASSUME h < b \/ (h = b /\ i < n) PROVE FALSE
      BY <3>1
    <3>2. h \in 1..b /\ i \in 1..Len(chain[h].events)
      BY <1>1, <1>2, <1>3
    <3>3. Sold(h, i)
      BY <2>2, <3>2 DEF TablesOnChain, SalesInOrder, Before
    <3>4. SaleOf(h, i, Current) \in sales
      BY <1>1, <1>4, <3>3 DEF Sold
    <3> QED
      BY <3>4 DEF SaleKnown, SaleOf
  <2>5. CASE b < h
    <3>1. b \in 1..(h - 1)
      BY <2>3, <2>5
    <3>2. s \in RowsIn(b, chain[b].events, Len(chain[b].events), Kinds)
      BY <2>3 DEF RowsIn
    <3> QED
      BY <3>1, <3>2 DEF RowsOf
  <2>6. CASE b = h /\ n < i
    <3>1. n \in 1..(i - 1)
      BY <2>3, <2>6
    <3> QED
      BY <2>3, <2>6, <3>1 DEF RowsIn
  <2> QED
    BY <2>4, <2>5, <2>6
<1>9. sales = S \cup T
  BY <1>7, <1>8
<1> QED
  BY <1>1, <1>2, <1>3, <1>4, <1>9, KindsAre

(* A new sale is the next of the feed.                                     *)
LEMMA SettledNext ==
    ASSUME TypeInv, ChainInv, TablesOnChain, TailOnChain, SettleSale, ~SaleKnown
    PROVE  /\ Cardinality(sales) \in Nat /\ Cardinality(sales) < Len(Final)
           /\ Final[Cardinality(sales) + 1] = Current.price
<1>1. PICK h \in Nat, i \in Nat : h = tail.h /\ i = tail.i
  BY Basics
<1>2. /\ h \in 1..Readable /\ i \in 1..Len(chain[h].events)
      /\ Current = chain[h].events[i] /\ Current.type \in Kinds
      /\ sales = RowsOf(chain, h - 1, Kinds) \cup RowsIn(h, chain[h].events, i - 1, Kinds)
  BY <1>1, SalesBefore
<1>3. chain \in Seq(PricedBlock) /\ Readable \in 0..Len(chain)
  BY ReadableIs
<1>4. PICK n \in 0..Len(chain) : n = Readable
  BY <1>3
<1>5. h \in 1..n /\ h \in 1..Len(chain)
  BY <1>2, <1>4
<1>6. PICK events \in Seq(PricedEvent) : events = chain[h].events
  BY <1>3, <1>5, BlockEvents
<1>7. PICK kinds \in PriceKinds : kinds = Kinds
  BY KindsAre
<1>8. /\ i \in 1..Len(events) /\ events[i].type \in kinds
      /\ sales = RowsOf(chain, h - 1, kinds) \cup RowsIn(h, events, i - 1, kinds)
  BY <1>2, <1>6, <1>7
<1>9. /\ Cardinality(sales) \in Nat /\ Cardinality(sales) < Len(FinalOf(chain, n, kinds))
      /\ FinalOf(chain, n, kinds)[Cardinality(sales) + 1] = events[i].price
  <2>1. PICK c, S :
           /\ c \in Seq(PricedBlock) /\ c = chain /\ S = sales /\ events = c[h].events
           /\ S = RowsOf(c, h - 1, kinds) \cup RowsIn(h, events, i - 1, kinds)
    BY <1>3, <1>6, <1>8
  <2>2. n \in 0..Len(c)
    BY <2>1
  <2>3. i \in 1..Len(events) /\ events[i].type \in kinds
    BY <1>8
  <2>4. NextIs(S, FinalOf(c, n, kinds), events[i].price)
    BY <1>5, <2>1, <2>2, <2>3, NextInFeed
  <2> QED
    BY <2>1, <2>4 DEF NextIs
<1>10. Final = FinalOf(chain, n, kinds) /\ events[i].price = Current.price
  BY <1>2, <1>4, <1>6, <1>7, KindsAre
<1> QED
  BY <1>9, <1>10

(* The feed grows with the chain.                                          *)
LEMMA ChainMovesFinal ==
    ASSUME TypeInv, TypeInv', ChainMoves, BehindReorgs
    PROVE  /\ Final \in Seq(Prices) /\ Final' \in Seq(Prices)
           /\ Len(Final') >= Len(Final) /\ SubSeq(Final', 1, Len(Final)) = Final
<1>1. chain \in Seq(PricedBlock) /\ Readable \in 0..Len(chain)
  BY ReadableIs
<1>2. chain' \in Seq(PricedBlock)
  BY DEF TypeInv, MarketOK
<1>3. /\ Len(chain) \in Nat /\ Len(chain') \in Nat /\ Len(chain') >= Len(chain)
      /\ confirmations' = confirmations /\ confirmations \in Nat /\ saleVolume' = saleVolume
  BY <1>1, <1>2, Basics, ChainMovesChange DEF ChainMoves
<1>4. PICK n \in 0..Len(chain) : n = Readable
  BY <1>1
<1>5. Readable' \in n..Len(chain')
  BY <1>3, <1>4 DEF Readable
<1>6. PICK m \in n..Len(chain') : m = Readable'
  BY <1>5
<1>7. ASSUME NEW b \in 1..n PROVE chain'[b] = chain[b]
  <2>1. b \in Nat /\ Confirmed(b)
    BY <1>4, ReadableIs
  <2>2. Stable'
    BY <1>3 DEF Stable, BehindReorgs
  <2> QED
    BY <2>1, <2>2, ConfirmedStays
<1>8. PICK kinds \in PriceKinds : kinds = Kinds
  BY KindsAre
<1>9. PICK d \in Seq(PricedBlock) : d = chain'
  BY <1>2
<1>10. PICK c \in Seq(PricedBlock) : c = chain
  BY <1>1
<1>11. n \in 0..Len(c) /\ m \in n..Len(d) /\ \A b \in 1..n : d[b] = c[b]
  BY <1>7, <1>9, <1>10
<1>12. PICK s \in Seq(Prices), t \in Seq(Prices) :
          s = FinalOf(c, n, kinds) /\ t = FinalOf(d, m, kinds) /\ Extends(s, t)
  BY <1>11, FinalGrows
<1>13. Final = s
  BY <1>4, <1>8, <1>10, <1>12, KindsAre
<1>14. Final' = t
  <2>1. Kinds' = Kinds
    BY <1>3 DEF Kinds
  <2>2. Final' = FinalOf(chain', Readable', Kinds')
    BY DEF Final, SalePrices, FinalOf, PriceSeqs, PricesOf, IsSettlement, Kinds
  <2> QED
    BY <1>6, <1>8, <1>9, <1>12, <2>1, <2>2
<1>15. Len(t) >= Len(s) /\ SubSeq(t, 1, Len(s)) = s
  BY <1>12, ExtendsSubSeq
<1> QED
  BY <1>13, <1>14, <1>15

LEMMA FinalKept ==
    ASSUME UNCHANGED <<chain, saleVolume, confirmations>>
    PROVE  Final' = Final
BY DEF Final, SalePrices, Readable, IsSettlement

LEMMA CountedStep ==
    ASSUME TypeInv, Counted, [Next]_vars
    PROVE  Counted'
<1>1. CASE RollbackFromHeight
  BY <1>1, RollbackAggregates
<1>2. CASE SettleSale
  BY <1>2, SettleSaleCounted
<1>3. CASE sales' = sales /\ collection' = collection
  BY <1>3 DEF Counted
<1>4. \/ RollbackFromHeight \/ SettleSale
      \/ sales' = sales /\ collection' = collection
  BY CycleKeeps DEF Next, Interrupt, WatchSeeded, ChainMoves, tableVars, vars
<1> QED
  BY <1>1, <1>2, <1>3, <1>4

FeedInv == TypeInv /\ ChainInv /\ StableInv /\ Counted

LEMMA FeedInvHolds == Spec => []FeedInv
<1>1. FeedInv /\ [Next]_vars => FeedInv'
  BY TypeInvStep, ChainInvStep, StableInvStep, CountedStep DEF FeedInv
<1>2. Init => FeedInv
  BY TypeInvInit, ChainInvInit, StableInvInit, AggregatesInit DEF FeedInv
<1> QED
  BY <1>1, <1>2, PTL DEF Spec

(* What the feed is mapped to.                                             *)
FeedFinal == IF BehindReorgs THEN Final ELSE <<>>
FeedCounted == IF BehindReorgs THEN collection.sales ELSE 0
FeedVolume == IF BehindReorgs THEN collection.volume ELSE 0

FeedFinalizes ==
    /\ Len(FeedFinal') >= Len(FeedFinal)
    /\ SubSeq(FeedFinal', 1, Len(FeedFinal)) = FeedFinal
    /\ FeedFinal' \in Seq(Prices)
    /\ UNCHANGED <<FeedCounted, FeedVolume>>
FeedCounts ==
    /\ FeedCounted < Len(FeedFinal)
    /\ FeedCounted' = FeedCounted + 1
    /\ FeedVolume' = FeedVolume + FeedFinal[FeedCounted + 1]
    /\ UNCHANGED FeedFinal
FeedStays == UNCHANGED <<FeedFinal, FeedCounted, FeedVolume>>

LEMMA FeedInitially ==
    ASSUME Init
    PROVE  FeedFinal = <<>> /\ FeedCounted = 0 /\ FeedVolume = 0
<1>1. TypeInv /\ chain = <<>>
  BY TypeInvInit DEF Init, MarketInit
<1>2. Readable = 0 /\ Len(chain) = 0 /\ chain \in Seq(PricedBlock)
  BY <1>1, ReadableIs
<1>3. PICK kinds \in PriceKinds : kinds = Kinds
  BY KindsAre
<1>4. PICK g \in [0..0 -> Seq(Prices)] :
         Joins(g, 0, PriceSeqs(chain, 0, kinds)) /\ FinalOf(chain, 0, kinds) = g[0]
  <2>1. 0 \in 0..Len(chain)
    BY <1>2
  <2> QED
    BY <1>2, <2>1, FinalIs
<1>5. g[0] = <<>>
  <2>1. JoinsFrom(g, 0, PriceSeqs(chain, 0, kinds))
    BY <1>4, JoinStep
  <2> QED
    BY <2>1 DEF JoinsFrom
<1>6. Final = <<>>
  BY <1>2, <1>3, <1>4, <1>5, KindsAre
<1> QED
  BY <1>6 DEF Init, FeedFinal, FeedCounted, FeedVolume

LEMMA FeedStep ==
    ASSUME FeedInv, TypeInv', [Next]_vars
    PROVE  FeedFinalizes \/ FeedCounts \/ FeedStays
<1>1. confirmations' = confirmations /\ BehindReorgs' = BehindReorgs
  <2>1. confirmations' = confirmations
    BY CycleKeeps DEF Next, Interrupt, WatchSeeded, ChainMoves, vars
  <2> QED
    BY <2>1 DEF BehindReorgs
<1>2. CASE ~BehindReorgs
  BY <1>1, <1>2 DEF FeedStays, FeedFinal, FeedCounted, FeedVolume
<1>3. CASE BehindReorgs
  <2>1. /\ TypeInv /\ ChainInv /\ TablesOnChain /\ TailOnChain /\ Counted
    BY <1>3 DEF FeedInv, StableInv, Stable
  <2>2. ~RollbackFromHeight
    BY <2>1 DEF TailOnChain, RollbackFromHeight
  <2>3. /\ FeedFinal = Final /\ FeedFinal' = Final'
        /\ FeedCounted = collection.sales /\ FeedCounted' = collection'.sales
        /\ FeedVolume = collection.volume /\ FeedVolume' = collection'.volume
    BY <1>1, <1>3 DEF FeedFinal, FeedCounted, FeedVolume
  <2>4. CASE ChainMoves
    <3>1. collection' = collection
      BY <2>4 DEF ChainMoves, tableVars
    <3>2. /\ Final' \in Seq(Prices)
          /\ Len(Final') >= Len(Final) /\ SubSeq(Final', 1, Len(Final)) = Final
      BY <1>3, <2>1, <2>4, ChainMovesFinal
    <3>3. FeedFinalizes
      BY <2>3, <3>1, <3>2 DEF FeedFinalizes
    <3> QED
      BY <3>3
  <2>5. CASE SettleSale /\ ~SaleKnown
    <3>1. /\ Cardinality(sales) < Len(Final)
          /\ Final[Cardinality(sales) + 1] = Current.price
      BY <2>1, <2>5, SettledNext
    <3>2. collection.sales = Cardinality(sales)
      BY <2>1 DEF Counted
    <3>3. /\ collection'.sales = collection.sales + 1
          /\ collection'.volume = collection.volume + Current.price
      BY <2>1, <2>5, SaleAdded
    <3>4. Final' = Final
      BY <1>1, <2>5, FinalKept DEF SettleSale, marketVars
    <3>5. FeedCounts
      BY <2>3, <3>1, <3>2, <3>3, <3>4 DEF FeedCounts
    <3> QED
      BY <3>5
  <2>6. CASE UNCHANGED marketVars /\ collection' = collection
    <3>1. Final' = Final
      BY <1>1, <2>6, FinalKept DEF marketVars
    <3> QED
      BY <2>3, <2>6, <3>1 DEF FeedStays
  <2>7. \/ ChainMoves \/ (SettleSale /\ ~SaleKnown)
        \/ UNCHANGED marketVars /\ collection' = collection
    <3>1. CASE Cycle
      <4>1. UNCHANGED marketVars /\ (SettleSale \/ collection' = collection)
        BY <2>2, <3>1, CycleKeeps
      <4>2. SettleSale /\ SaleKnown => collection' = collection
        BY DEF SettleSale
      <4> QED
        BY <4>1, <4>2
    <3>2. CASE ~Cycle
      BY <3>2 DEF Next, Interrupt, WatchSeeded, tableVars, vars
    <3> QED
      BY <3>1, <3>2
  <2> QED
    BY <2>4, <2>5, <2>6, <2>7
<1> QED
  BY <1>2, <1>3

(* Behind the reorgs every final sale is counted once, in the chain's      *)
(* order and at its price, and nothing else is ever counted: replays and   *)
(* interruptions are stutters (settleSale, tailOnce, confirmedEnd).        *)
THEOREM TailerImplementsFeed == Spec => ImplementsFeed
<1>1. Init => Feed!FeedInit
  BY FeedInitially DEF Feed!FeedInit, FeedFinal, FeedCounted, FeedVolume
<1>2. FeedInv /\ TypeInv' /\ [Next]_vars => [Feed!Finalize \/ Feed!Count]_(Feed!feedVars)
  BY FeedStep DEF Feed!Finalize, Feed!Count, Feed!feedVars, FeedFinalizes, FeedCounts,
     FeedStays, FeedFinal, FeedCounted, FeedVolume
<1>3. FeedInv => TypeInv
  BY DEF FeedInv
<1> QED
  BY <1>1, <1>2, <1>3, FeedInvHolds, PTL DEF Spec, ImplementsFeed, Feed!FeedSpec

(***************************************************************************)
(* With every block applied once and none of them replaced, the tables     *)
(* show the market of the chain.                                           *)
(***************************************************************************)

(* The events of each block lead from the market before it to the market   *)
(* after it.                                                               *)
MarketIn(c, h) == IF h = 0 THEN NoMarket ELSE c[h].market
LinkedAt(c, b, kinds) ==
    /\ Follows(kinds, MarketIn(c, b - 1), c[b].events, c[b].market)
    /\ MaxOps <= 2 => OneOffer(c[b].events)
Linked == \A b \in 1..Len(chain) : LinkedAt(chain, b, Kinds)

LEMMA LinkedInit == Init => Linked
BY DEF Init, MarketInit, Linked

LEMMA LinkedBlock ==
    ASSUME TypeInv, NEW m \in Market, NEW b \in Blocks(m), NEW hash
    PROVE  /\ b.market \in Market
           /\ Follows(Kinds, m, Block(hash, b).events, Block(hash, b).market)
           /\ MaxOps <= 2 => OneOffer(Block(hash, b).events)
           /\ Block(hash, b).market = b.market
<1>1. Block(hash, b).events = b.events /\ Block(hash, b).market = b.market
  BY DEF Block
<1>2. saleVolume \in BOOLEAN
  BY DEF TypeInv, MarketOK
<1>3. b.market \in Market
  BY BlockTypes DEF Outcome
<1> QED
  BY <1>1, <1>2, <1>3, BlockFollows, BlockOneOffer

(* The chain's moves keep the blocks linked: a block that is added or put  *)
(* in place of another is one that the market before it allows.            *)
LEMMA LinkedMoves ==
    ASSUME TypeInv, Linked, ChainMoves
    PROVE  Linked'
<1>0. /\ chain \in Seq(PricedBlock) /\ Len(chain) \in Nat /\ lastHash \in Nat
      /\ MarketOK
  BY Basics DEF TypeInv, MarketOK
<1>1. Kinds' = Kinds
  BY ChainMovesChange DEF Kinds
<1>2. PICK kinds : kinds = Kinds
  OBVIOUS
<1>3. \A h \in 0..Len(chain) : MarketAt(h) \in Market /\ MarketAt(h) = MarketIn(chain, h)
  BY <1>0, MarketAtTypes DEF MarketAt, MarketIn
<1>4. \A b \in 1..Len(chain) : LinkedAt(chain, b, kinds)
  BY <1>2 DEF Linked
<1>5. ASSUME NEW c, NEW d, NEW b, d[b] = c[b],
             MarketIn(d, b - 1) = MarketIn(c, b - 1), LinkedAt(c, b, kinds)
      PROVE  LinkedAt(d, b, kinds)
  BY <1>5 DEF LinkedAt
<1>6. CASE \E b \in Blocks(MarketAt(Len(chain))) : Produce(b)
  <2>1. PICK b \in Blocks(MarketAt(Len(chain))) : Produce(b)
    BY <1>6
  <2>2. chain' = Append(chain, Block(lastHash + 1, b))
    BY <2>1 DEF Produce
  <2>3. PICK N \in Nat : N = Len(chain)
    BY <1>0
  <2>4. /\ Len(chain') = N + 1
        /\ \A k \in 1..N : chain'[k] = chain[k]
        /\ chain'[N + 1] = Block(lastHash + 1, b)
    BY <1>0, <2>2, <2>3
  <2>5. \A h \in 0..N : MarketIn(chain', h) = MarketIn(chain, h)
    BY <2>4 DEF MarketIn
  <2>6. ASSUME NEW k \in 1..N PROVE LinkedAt(chain', k, kinds)
    <3>1. k - 1 \in 0..N
      BY <2>3
    <3> QED
      BY <1>4, <1>5, <2>3, <2>4, <2>5, <3>1
  <2>7. LinkedAt(chain', N + 1, kinds)
    <3>1. N \in 0..N /\ (N + 1) - 1 = N
      BY <2>3
    <3>2. PICK m \in Market : m = MarketAt(N) /\ m = MarketIn(chain', N)
      BY <1>3, <2>3, <2>5, <3>1
    <3>3. b \in Blocks(m)
      BY <2>3, <3>2
    <3> QED
      BY <1>2, <2>4, <3>1, <3>2, <3>3, LinkedBlock DEF LinkedAt
  <2>8. \A k \in 1..(N + 1) : k \in 1..N \/ k = N + 1
    OBVIOUS
  <2> QED
    BY <1>1, <1>2, <2>4, <2>6, <2>7, <2>8 DEF Linked
<1>7. CASE /\ Len(chain) >= 1
           /\ \E b \in Blocks(MarketAt(Len(chain) - 1)) :
                chain' = [chain EXCEPT ![Len(chain)] = Block(lastHash + 1, b)]
  <2>1. PICK b \in Blocks(MarketAt(Len(chain) - 1)) :
                chain' = [chain EXCEPT ![Len(chain)] = Block(lastHash + 1, b)]
    BY <1>7
  <2>2. PICK N \in Nat, h \in Nat : /\ N = Len(chain) /\ h = N - 1 /\ h \in 0..Len(chain)
                                    /\ N \in 1..Len(chain)
    BY <1>0, <1>7
  <2>3. MarketAt(h) \in Market /\ b \in Blocks(MarketAt(h))
    BY <1>3, <2>1, <2>2
  <2>4. Block(lastHash + 1, b) \in PricedBlock
    <3>1. lastHash + 1 \in Nat \ {0}
      BY <1>0
    <3> QED
      BY <2>3, <3>1, NewBlockTypes
  <2>5. /\ Len(chain') = N
        /\ \A k \in 1..N : k # N => chain'[k] = chain[k]
        /\ chain'[N] = Block(lastHash + 1, b)
    BY <1>0, <2>1, <2>2, <2>4, ExceptSeq
  <2>6. \A k \in 0..h : MarketIn(chain', k) = MarketIn(chain, k)
    BY <2>2, <2>5 DEF MarketIn
  <2>7. ASSUME NEW k \in 1..N, k # N PROVE LinkedAt(chain', k, kinds)
    <3>1. k - 1 \in 0..h /\ k \in 1..Len(chain)
      BY <2>2, <2>7
    <3> QED
      BY <1>4, <1>5, <2>5, <2>6, <2>7, <3>1
  <2>8. LinkedAt(chain', N, kinds)
    <3>1. h \in 0..h /\ N - 1 = h
      BY <2>2
    <3>2. PICK m \in Market : m = MarketAt(h) /\ m = MarketIn(chain', h)
      BY <1>3, <2>2, <2>6, <3>1
    <3>3. b \in Blocks(m)
      BY <2>3, <3>2
    <3> QED
      BY <1>2, <2>5, <3>1, <3>2, <3>3, LinkedBlock DEF LinkedAt
  <2> QED
    BY <1>1, <1>2, <2>5, <2>7, <2>8 DEF Linked
<1>8. CASE /\ Len(chain) >= 2
           /\ \E b \in Blocks(MarketAt(Len(chain) - 2)) : \E c \in Blocks(b.market) :
                chain' = [chain EXCEPT ![Len(chain) - 1] = Block(lastHash + 1, b),
                                       ![Len(chain)] = Block(lastHash + 2, c)]
  <2>1. PICK b \in Blocks(MarketAt(Len(chain) - 2)) : \E c \in Blocks(b.market) :
                chain' = [chain EXCEPT ![Len(chain) - 1] = Block(lastHash + 1, b),
                                       ![Len(chain)] = Block(lastHash + 2, c)]
    BY <1>8
  <2>2. PICK c \in Blocks(b.market) :
                chain' = [chain EXCEPT ![Len(chain) - 1] = Block(lastHash + 1, b),
                                       ![Len(chain)] = Block(lastHash + 2, c)]
    BY <2>1
  <2>3. PICK N \in Nat, M \in Nat, h \in Nat :
           /\ N = Len(chain) /\ M = N - 1 /\ h = N - 2 /\ h \in 0..Len(chain)
           /\ N \in 1..Len(chain) /\ M \in 1..Len(chain) /\ M # N /\ h = M - 1
    BY <1>0, <1>8
  <2>4. MarketAt(h) \in Market /\ b \in Blocks(MarketAt(h))
    BY <1>3, <2>1, <2>3
  <2>5. /\ Block(lastHash + 1, b) \in PricedBlock /\ b.market \in Market
        /\ Block(lastHash + 2, c) \in PricedBlock
    <3>1. lastHash + 1 \in Nat \ {0} /\ lastHash + 2 \in Nat \ {0}
      BY <1>0
    <3>2. Block(lastHash + 1, b) \in PricedBlock /\ b.market \in Market
      BY <2>4, <3>1, NewBlockTypes
    <3> QED
      BY <3>1, <3>2, NewBlockTypes
  <2>6. /\ Len(chain') = N
        /\ \A k \in 1..N : k # N /\ k # M => chain'[k] = chain[k]
        /\ chain'[M] = Block(lastHash + 1, b)
        /\ chain'[N] = Block(lastHash + 2, c)
    <3> DEFINE one == [chain EXCEPT ![Len(chain) - 1] = Block(lastHash + 1, b)]
    <3>1. /\ one \in Seq(PricedBlock) /\ Len(one) = N
          /\ one[M] = Block(lastHash + 1, b)
          /\ \A k \in 1..N : k # M => one[k] = chain[k]
      BY <1>0, <2>3, <2>5, ExceptSeq
    <3>2. chain' = [one EXCEPT ![N] = Block(lastHash + 2, c)]
      BY <2>2, <2>3
    <3> HIDE DEF one
    <3>3. N \in 1..Len(one)
      BY <2>3, <3>1
    <3>4. /\ Len(chain') = N
          /\ chain'[N] = Block(lastHash + 2, c)
          /\ \A k \in 1..N : k # N => chain'[k] = one[k]
      BY <2>5, <3>1, <3>2, <3>3, ExceptSeq
    <3> QED
      BY <2>3, <3>1, <3>4
  <2>7. \A k \in 0..h : MarketIn(chain', k) = MarketIn(chain, k)
    BY <2>3, <2>6 DEF MarketIn
  <2>8. ASSUME NEW k \in 1..N, k # N, k # M PROVE LinkedAt(chain', k, kinds)
    <3>1. k - 1 \in 0..h /\ k \in 1..Len(chain)
      BY <2>3, <2>8
    <3> QED
      BY <1>4, <1>5, <2>6, <2>7, <2>8, <3>1
  <2>9. LinkedAt(chain', M, kinds)
    <3>1. h \in 0..h /\ M - 1 = h
      BY <2>3
    <3>2. PICK m \in Market : m = MarketAt(h) /\ m = MarketIn(chain', h)
      BY <1>3, <2>3, <2>7, <3>1
    <3>3. b \in Blocks(m)
      BY <2>4, <3>2
    <3> QED
      BY <1>2, <2>6, <3>1, <3>2, <3>3, LinkedBlock DEF LinkedAt
  <2>10. LinkedAt(chain', N, kinds)
    <3>1. N - 1 = M /\ M # 0
      BY <2>3
    <3>2. b.market = MarketIn(chain', M) /\ b.market \in Market
      BY <2>4, <2>6, <3>1, LinkedBlock DEF MarketIn
    <3> QED
      BY <1>2, <2>6, <3>1, <3>2, LinkedBlock DEF LinkedAt
  <2> QED
    BY <1>1, <1>2, <2>6, <2>8, <2>9, <2>10 DEF Linked
<1> QED
  BY <1>6, <1>7, <1>8 DEF ChainMoves, Reorg

LEMMA LinkedStep ==
    ASSUME TypeInv, Linked, [Next]_vars
    PROVE  Linked'
<1>1. ASSUME UNCHANGED marketVars PROVE Linked'
  BY <1>1 DEF marketVars, Linked, Kinds
<1>2. CASE Cycle
  BY <1>1, <1>2, CycleKeeps
<1>3. CASE UNCHANGED vars
  BY <1>1, <1>3 DEF vars
<1> QED
  BY <1>1, <1>2, <1>3, LinkedMoves DEF Next, Interrupt, WatchSeeded

(* What the tables show: the token's price and its open listing, and the   *)
(* buyer's offer.                                                          *)
OpenAs(price) ==
    /\ token = price
    /\ price = Nothing => \A l \in listings : ~l.open
    /\ price # Nothing => \E l \in listings : l.open /\ \A k \in listings : k.open => k = l
OffersAs(amount) ==
    /\ amount = Nothing => \A o \in offers : o.status # "active"
    /\ amount # Nothing =>
          \E o \in offers : /\ o.status = "active" /\ o.amount = amount
                            /\ \A p \in offers : p.status = "active" => p = o

(* The rows are of blocks up to h, or of the first n events of block h.    *)
BlocksTo(T, h) == \A r \in T : r.block <= h
RowsUpTo(T, h, n) == \A r \in T : r.block < h \/ (r.block = h /\ r.index <= n)
MadeIn(h, events) == \A o \in offers : o.block = h => o.index \in OffersIn(events)

(* The buyer's offers are known by block: a second one of a block is not   *)
(* shown.                                                                  *)
ShownAs(listed, offer) == OpenAs(listed) /\ (MaxOps <= 2 => OffersAs(offer))

BetweenAt(h) ==
    /\ BlocksTo(sales, h) /\ BlocksTo(listings, h) /\ BlocksTo(offers, h)
    /\ ShownAs(MarketAt(h).listed, MarketAt(h).offer)
    /\ history = HistoryTo(chain, h, Kinds)

(* Within block h: n of its events are in the tables, and the offers of k. *)
WithinAt(h, events, n, k) ==
    /\ RowsUpTo(sales, h, n) /\ RowsUpTo(listings, h, n) /\ RowsUpTo(offers, h, n)
    /\ MadeIn(h, events)
    /\ ShownAs(Replay(Kinds, MarketAt(h - 1), events)[n].listed,
               Replay(Kinds, MarketAt(h - 1), events)[k].offer)
    /\ history = Then(HistoryTo(chain, h - 1, Kinds), HistoryUpTo(h, events, n, Kinds))

Shows ==
    /\ At("idle") => BetweenAt(cursors[1].block)
    /\ At("check") \/ At("next") => tail.h = cursors[1].block /\ BetweenAt(tail.h)
    /\ At("fetch") => BetweenAt(tail.h - 1)
    /\ At("dispatch") \/ At("apply") =>
          WithinAt(tail.h, tail.events, tail.i - 1, tail.i - 1)
    /\ At("resolve") =>
          ResolvesAfter(Current) /\ WithinAt(tail.h, tail.events, tail.i, tail.i - 1)
    /\ At("save") => BetweenAt(tail.h)

ShownInv == Undisturbed /\ Stable => Shows

(* One listing is opened where none was.                                   *)
LEMMA ListingOpened ==
    ASSUME NEW row, row.open, NEW price, price # Nothing,
           OpenAs(Nothing), listings' = listings \cup {row}, token' = price
    PROVE  OpenAs(price)'
BY DEF OpenAs

(* All are closed.                                                         *)
LEMMA AllClosed ==
    ASSUME ListingsOK, listings' = ListingsClosed, token' = Nothing
    PROVE  /\ OpenAs(Nothing)'
           /\ \A h, n : RowsUpTo(listings, h, n) => RowsUpTo(listings, h, n)'
<1>1. \A l \in listings : l \in [block : Nat, index : Nat, open : BOOLEAN]
  BY DEF ListingsOK
<1>2. \A l \in listings : /\ ~[l EXCEPT !.open = FALSE].open
                          /\ [l EXCEPT !.open = FALSE].block = l.block
                          /\ [l EXCEPT !.open = FALSE].index = l.index
  BY <1>1
<1>3. \A c \in ListingsClosed : \E l \in listings :
         /\ c = IF l.open THEN [l EXCEPT !.open = FALSE] ELSE l
         /\ c.block = l.block /\ c.index = l.index /\ ~c.open
  BY <1>2 DEF ListingsClosed
<1>4. OpenAs(Nothing)'
  BY <1>3 DEF OpenAs
<1>5. ASSUME NEW h, NEW n, RowsUpTo(listings, h, n) PROVE RowsUpTo(listings, h, n)'
  BY <1>3, <1>5 DEF RowsUpTo
<1> QED
  BY <1>4, <1>5

(* One offer is made where none was.                                       *)
LEMMA OfferOpened ==
    ASSUME NEW row, row.status = "active", NEW amount, row.amount = amount, amount # Nothing,
           OffersAs(Nothing), offers' = offers \cup {row}
    PROVE  OffersAs(amount)'
BY DEF OffersAs

(* The one there is is resolved.                                           *)
LEMMA OfferClosed ==
    ASSUME OffersOK, NEW status \in {"cancelled", "accepted"}, offers' = Resolve(status)
    PROVE  /\ \A amount : OffersAs(amount) => OffersAs(Nothing)'
           /\ \A h, n : RowsUpTo(offers, h, n) => RowsUpTo(offers, h, n)'
           /\ \A h, events : MadeIn(h, events) => MadeIn(h, events)'
<1> DEFINE Latest(o) == o.status = "active" /\
                        \A p \in offers : p.status = "active" => p.block <= o.block
           Set(o) == IF Latest(o) THEN [o EXCEPT !.status = status] ELSE o
<1>1. \A o \in offers : o \in OfferRow
  BY DEF OffersOK
<1>2. Resolve(status) = {Set(o) : o \in offers}
  BY DEF Resolve
<1>3. \A o \in offers : /\ Set(o).block = o.block /\ Set(o).index = o.index
                        /\ Latest(o) => Set(o).status = status
                        /\ ~Latest(o) => Set(o) = o
  <2> SUFFICES ASSUME NEW o \in offers
               PROVE  /\ Set(o).block = o.block /\ Set(o).index = o.index
                      /\ Latest(o) => Set(o).status = status
                      /\ ~Latest(o) => Set(o) = o
    OBVIOUS
  <2>1. o \in OfferRow
    BY <1>1
  <2> HIDE DEF Latest
  <2> QED
    BY <2>1 DEF OfferRow
<1> HIDE DEF Set
<1>4. \A p \in Resolve(status) : \E o \in offers :
         p = Set(o) /\ p.block = o.block /\ p.index = o.index
  BY <1>2, <1>3
<1>5. ASSUME NEW amount, OffersAs(amount) PROVE OffersAs(Nothing)'
  <2>1. \A o \in offers : o.status = "active" => Latest(o)
    <3>1. \A o \in offers : o.block \in Nat
      BY <1>1 DEF OfferRow
    <3> QED
      BY <1>5, <3>1 DEF OffersAs
  <2>2. \A o \in offers : Set(o).status # "active"
    BY <1>3, <2>1
  <2> QED
    BY <1>2, <2>2 DEF OffersAs
<1>6. ASSUME NEW h, NEW n, RowsUpTo(offers, h, n) PROVE RowsUpTo(offers, h, n)'
  BY <1>4, <1>6 DEF RowsUpTo
<1>7. ASSUME NEW h, NEW events, MadeIn(h, events) PROVE MadeIn(h, events)'
  BY <1>4, <1>7 DEF MadeIn
<1> QED
  BY <1>5, <1>6, <1>7

LEMMA RowsAfter ==
    ASSUME NEW T, NEW h \in Nat, NEW i \in Nat, RowsUpTo(T, h, i - 1),
           \A r \in T : r.index \in Nat
    PROVE  RowsUpTo(T, h, i) /\ \A r \in T : ~(r.block = h /\ r.index = i)
BY DEF RowsUpTo

LEMMA RowsWith ==
    ASSUME NEW T, NEW row, NEW h \in Nat, NEW i \in Nat, RowsUpTo(T, h, i - 1),
           \A r \in T : r.index \in Nat, row.block = h, row.index = i
    PROVE  RowsUpTo(T \cup {row}, h, i) /\ InsertOrIgnore(T, row) = T \cup {row}
<1>1. RowsUpTo(T, h, i) /\ \A r \in T : ~(r.block = h /\ r.index = i)
  BY RowsAfter
<1>2. RowsUpTo(T \cup {row}, h, i)
  BY <1>1 DEF RowsUpTo
<1> QED
  BY <1>1, <1>2 DEF InsertOrIgnore

LEMMA SameShown ==
    ASSUME UNCHANGED <<marketVars, sales, listings, offers, history, token>>
    PROVE  /\ \A h : BetweenAt(h)' <=> BetweenAt(h)
           /\ \A h, events, n, k : WithinAt(h, events, n, k)' <=> WithinAt(h, events, n, k)
<1>1. chain' = chain /\ Kinds' = Kinds
  BY ChainKept DEF Kinds
<1>2. \A h : MarketAt(h)' = MarketAt(h)
  BY <1>1 DEF MarketAt
<1>3. \A p, a : ShownAs(p, a)' <=> ShownAs(p, a)
  BY DEF ShownAs, OpenAs, OffersAs
<1>4. \A h, n : /\ RowsUpTo(sales, h, n)' <=> RowsUpTo(sales, h, n)
                /\ RowsUpTo(listings, h, n)' <=> RowsUpTo(listings, h, n)
                /\ RowsUpTo(offers, h, n)' <=> RowsUpTo(offers, h, n)
  BY DEF RowsUpTo
<1>5. \A h, events : MadeIn(h, events)' <=> MadeIn(h, events)
  BY DEF MadeIn
<1>6. \A h : BetweenAt(h)' <=> BetweenAt(h)
  BY <1>1, <1>2, <1>3 DEF BetweenAt, BlocksTo
<1>7. \A h, events, n, k : WithinAt(h, events, n, k)' <=> WithinAt(h, events, n, k)
  BY <1>1, <1>2, <1>3, <1>4, <1>5 DEF WithinAt
<1> QED
  BY <1>6, <1>7

LEMMA TailShown ==
    ASSUME NEW at, NEW h, NEW events, NEW i, NEW cursor,
           tail'.at = at, tail'.h = h, tail'.events = events, tail'.i = i,
           cursors'[1].block = cursor,
           at = "idle" => BetweenAt(cursor)',
           at \in {"check", "next"} => h = cursor /\ BetweenAt(h)',
           at = "fetch" => BetweenAt(h - 1)',
           at \in {"dispatch", "apply"} => WithinAt(h, events, i - 1, i - 1)',
           at = "resolve" => ResolvesAfter(events[i]) /\ WithinAt(h, events, i, i - 1)',
           at = "save" => BetweenAt(h)'
    PROVE  Shows'
BY DEF Shows, At, Current

LEMMA PollShown ==
    ASSUME TypeInv, watched = 1, Shows, Poll
    PROVE  Shows'
<1>1. LoadCursor = cursors[1] /\ At("idle")
  BY OneCursor DEF Poll
<1>2. PICK cursor : cursor = cursors[1].block
  OBVIOUS
<1>3. /\ UNCHANGED <<marketVars, sales, listings, offers, history, token>>
      /\ cursors'[1].block = cursor
  BY <1>2 DEF Poll, tableVars
<1>4. PICK events, i : events = <<>> /\ i = 0
  OBVIOUS
<1>5. tail'.at = "check" /\ tail'.h = cursor /\ tail'.events = events /\ tail'.i = i
  BY <1>1, <1>2, <1>4 DEF Poll, Idle
<1>6. BetweenAt(cursor)
  BY <1>1, <1>2 DEF Shows
<1>7. BetweenAt(cursor)'
  BY <1>3, <1>6, SameShown
<1> QED
  BY <1>3, <1>5, <1>7, TailShown

(* The hash is that of the chain: nothing is rolled back.                  *)
LEMMA CheckCursorShown ==
    ASSUME TypeInv, Shows, CheckCursor, ~At("rollback")'
    PROVE  Shows'
<1>1. tail \in TailState /\ At("check") /\ "next" \in Places
  BY Basics DEF CheckCursor, Places
<1>2. PICK h, events, i : h = tail.h /\ events = tail.events /\ i = tail.i
  OBVIOUS
<1>3. UNCHANGED <<marketVars, sales, listings, offers, history, token>> /\ cursors' = cursors
  BY DEF CheckCursor, tableVars
<1>4. StartAt(h)
  <2>1. tail'.at # "rollback"
    BY DEF At
  <2>2. ~Goto("rollback")
    BY <1>1, <2>1 DEF Goto, TailState
  <2> QED
    BY <1>2, <2>2 DEF CheckCursor
<1>5. tail'.at = "next" /\ tail'.h = h /\ tail'.events = events /\ tail'.i = i
  BY <1>1, <1>2, <1>4 DEF StartAt, TailState
<1>6. PICK cursor : cursor = cursors[1].block
  OBVIOUS
<1>7. h = cursor /\ BetweenAt(h)
  BY <1>1, <1>2, <1>6 DEF Shows
<1>8. BetweenAt(h)'
  BY <1>3, <1>7, SameShown
<1> QED
  BY <1>3, <1>5, <1>6, <1>7, <1>8, TailShown

LEMMA CycleEndsShown ==
    ASSUME Shows, CycleEnds
    PROVE  Shows'
<1>1. /\ UNCHANGED <<marketVars, sales, listings, offers, history, token>>
      /\ cursors' = cursors /\ At("next")
  BY DEF CycleEnds, tableVars
<1>2. PICK cursor, events : cursor = cursors[1].block /\ events = <<>>
  OBVIOUS
<1>3. tail'.at = "idle" /\ tail'.h = 0 /\ tail'.events = events /\ tail'.i = 0
  BY <1>2 DEF CycleEnds, Idle
<1>4. BetweenAt(cursor)
  BY <1>1, <1>2 DEF Shows
<1>5. BetweenAt(cursor)'
  BY <1>1, <1>4, SameShown
<1> QED
  BY <1>1, <1>2, <1>3, <1>5, TailShown

LEMMA FetchHashShown ==
    ASSUME TypeInv, Shows, FetchHash
    PROVE  Shows'
<1>1. tail \in TailState /\ At("next") /\ tail.h \in Nat
  BY Basics DEF FetchHash
<1>2. PICK h, i, events : /\ h \in Nat /\ h = tail.h
                          /\ events = tail.events /\ i = tail.i
  BY <1>1
<1>3. /\ UNCHANGED <<marketVars, sales, listings, offers, history, token>>
      /\ cursors' = cursors
  BY DEF FetchHash, tableVars
<1>4. tail'.at = "fetch" /\ tail'.h = h + 1 /\ tail'.events = events /\ tail'.i = i
  BY <1>1, <1>2 DEF FetchHash, TailState
<1>5. BetweenAt(h)
  BY <1>1, <1>2 DEF Shows
<1>6. BetweenAt(h)' /\ (h + 1) - 1 = h
  BY <1>2, <1>3, <1>5, SameShown
<1>7. PICK next, cursor : next = h + 1 /\ cursor = cursors[1].block
  OBVIOUS
<1>8. BetweenAt(next - 1)'
  BY <1>6, <1>7
<1> QED
  BY <1>3, <1>4, <1>7, <1>8, TailShown

(* The market before a block and what its events tell of it.               *)
LEMMA BlockTold ==
    ASSUME TypeInv, NEW h \in 1..Len(chain),
           NEW events, events = chain[h].events, NEW k, k = h - 1
    PROVE  /\ MarketAt(k) \in Market /\ events \in Seq(PricedEvent)
           /\ Len(events) \in Nat
           /\ ReplayFrom(Replay(Kinds, MarketAt(k), events), Kinds, MarketAt(k), events)
           /\ \A n \in 0..Len(events) : Replay(Kinds, MarketAt(k), events)[n] \in Market
           /\ HistoryTold(h, events, Kinds)
           /\ HistoryTo(chain, k, Kinds) \in Seq(HistoryRow)
           /\ HistoryTo(chain, h, Kinds)
                 = Then(HistoryTo(chain, k, Kinds), HistoryUpTo(h, events, Len(events), Kinds))
           /\ \A n \in 0..Len(events) : HistoryUpTo(h, events, n, Kinds) \in Seq(HistoryRow)
<1>1. /\ MarketOK /\ chain \in Seq(PricedBlock) /\ Len(chain) \in Nat
      /\ k \in 0..Len(chain) /\ h \in 0..Len(chain) /\ h \in Nat /\ h # 0
  <2>1. MarketOK /\ chain \in Seq(PricedBlock)
    BY DEF TypeInv, MarketOK
  <2>2. PICK N \in Nat : N = Len(chain)
    BY <2>1
  <2>3. k \in 0..N /\ h \in 0..N /\ h \in Nat /\ h # 0
    BY <2>2
  <2> QED
    BY <2>1, <2>2, <2>3
<1>2. MarketAt(k) \in Market
  BY <1>1, MarketAtTypes
<1>3. events \in Seq(PricedEvent)
  BY BlockOfChain
<1>4. PICK m \in Market : m = MarketAt(k)
  BY <1>2
<1>5. PICK kinds : kinds = Kinds
  OBVIOUS
<1>6. /\ Replay(kinds, m, events) \in [0..Len(events) -> Market]
      /\ ReplayFrom(Replay(kinds, m, events), kinds, m, events)
  BY <1>3, ReplayIs
<1>7. /\ HistoryTold(h, events, kinds)
      /\ \A n \in 0..Len(events) : HistoryUpTo(h, events, n, kinds) \in Seq(HistoryRow)
  BY <1>1, <1>3, HistoryUpToIs
<1>8. HistoryTo(chain, k, kinds) \in Seq(HistoryRow)
  BY <1>1, HistoryToIs
<1>9. HistoryTo(chain, h, kinds)
         = Then(HistoryTo(chain, k, kinds), HistoryUpTo(h, events, Len(events), kinds))
  <2>1. HistoryTo(chain, h, kinds)
           = Then(HistoryTo(chain, h - 1, kinds), HistoryIn(h, chain[h].events, kinds))
    BY <1>1, HistoryToIs
  <2> QED
    BY <2>1 DEF HistoryIn
<1>10. \A n \in 0..Len(events) : Replay(kinds, m, events)[n] \in Market
  BY <1>6
<1>11. Len(events) \in Nat
  BY <1>3
<1> QED
  BY <1>2, <1>3, <1>4, <1>5, <1>6, <1>7, <1>8, <1>9, <1>10, <1>11

LEMMA FetchEventsShown ==
    ASSUME TypeInv, Shows, FetchEvents
    PROVE  Shows'
<1>1. tail \in TailState /\ At("fetch") /\ tail.h \in 1..Len(chain)
  BY Basics, ConfirmedTo DEF FetchEvents, Busy, At
<1>2. PICK h, events, k : /\ h \in 1..Len(chain) /\ h = tail.h
                          /\ events = chain[h].events /\ k = h - 1
  BY <1>1
<1>3. /\ UNCHANGED <<marketVars, sales, listings, offers, history, token>>
      /\ cursors' = cursors
  BY DEF FetchEvents, tableVars
<1>4. tail'.at = "dispatch" /\ tail'.h = h /\ tail'.events = events /\ tail'.i = 1
  BY <1>1, <1>2 DEF FetchEvents, TailState
<1>5. BetweenAt(k)
  BY <1>1, <1>2 DEF Shows
<1>6. WithinAt(h, events, 0, 0)
  <2>1. h \in Nat /\ k \in Nat /\ k < h
    BY <1>2
  <2>2. Replay(Kinds, MarketAt(k), events)[0] = MarketAt(k)
    BY <1>2, BlockTold DEF ReplayFrom
  <2>3. history = Then(HistoryTo(chain, k, Kinds), HistoryUpTo(h, events, 0, Kinds))
    <3>1. HistoryUpTo(h, events, 0, Kinds) = <<>>
      BY <1>2, BlockTold DEF HistoryTold
    <3>2. HistoryTo(chain, k, Kinds) \in Seq(HistoryRow)
      BY <1>2, BlockTold
    <3>3. Then(HistoryTo(chain, k, Kinds), <<>>) = HistoryTo(chain, k, Kinds)
      BY <3>2, ThenNone
    <3> QED
      BY <1>5, <3>1, <3>3 DEF BetweenAt
  <2>4. /\ \A r \in sales : r.block \in Nat
        /\ \A r \in listings : r.block \in Nat
        /\ \A r \in offers : r.block \in Nat
    BY DEF TypeInv, TablesOK, SalesOK, FiniteSales, SaleRow, ListingsOK, OffersOK, OfferRow
  <2>5. /\ \A r \in sales : r.block < h
        /\ \A r \in listings : r.block < h
        /\ \A r \in offers : r.block < h
    BY <1>2, <1>5, <2>1, <2>4 DEF BetweenAt, BlocksTo
  <2>6. RowsUpTo(sales, h, 0) /\ RowsUpTo(listings, h, 0) /\ RowsUpTo(offers, h, 0)
    BY <2>5 DEF RowsUpTo
  <2>7. MadeIn(h, events)
    BY <2>1, <2>4, <2>5 DEF MadeIn
  <2>8. ShownAs(Replay(Kinds, MarketAt(k), events)[0].listed,
                Replay(Kinds, MarketAt(k), events)[0].offer)
    BY <1>5, <2>2 DEF BetweenAt
  <2> QED
    BY <1>2, <2>3, <2>6, <2>7, <2>8 DEF WithinAt
<1>7. WithinAt(h, events, 0, 0)'
  BY <1>3, <1>6, SameShown
<1>8. PICK cursor, i : cursor = cursors[1].block /\ i = 1
  OBVIOUS
<1>9. WithinAt(h, events, i - 1, i - 1)'
  <2>1. i - 1 = 0
    BY <1>8
  <2> QED
    BY <1>7, <2>1
<1> QED
  BY <1>3, <1>4, <1>8, <1>9, TailShown

LEMMA RecordRawEventShown ==
    ASSUME TypeInv, Shows, RecordRawEvent
    PROVE  Shows'
<1>1. tail \in TailState /\ At("dispatch") /\ "apply" \in Places
  BY Basics DEF RecordRawEvent, Places
<1>2. PICK h, i, events, cursor : /\ h = tail.h /\ events = tail.events /\ i = tail.i
                                  /\ cursor = cursors[1].block
  OBVIOUS
<1>3. /\ UNCHANGED <<marketVars, sales, listings, offers, history, token>>
      /\ cursors' = cursors
  BY DEF RecordRawEvent
<1>4. tail'.at = "apply" /\ tail'.h = h /\ tail'.events = events /\ tail'.i = i
  BY <1>1, <1>2 DEF RecordRawEvent, Goto, TailState
<1>5. WithinAt(h, events, i - 1, i - 1)
  BY <1>1, <1>2 DEF Shows
<1>6. WithinAt(h, events, i - 1, i - 1)'
  <2>1. PICK j : j = i - 1
    OBVIOUS
  <2> QED
    BY <1>3, <1>5, <2>1, SameShown
<1> QED
  BY <1>2, <1>3, <1>4, <1>6, TailShown

(* The last event of a block leads to the market after it.                 *)
LEMMA BlockAppliedShown ==
    ASSUME TypeInv, TailOnChain, Linked, Shows, BlockApplied
    PROVE  Shows'
<1>1. tail \in TailState /\ At("dispatch") /\ tail.h \in 1..Len(chain)
  BY Basics, ConfirmedTo DEF BlockApplied, Busy, At
<1>2. PICK h, events, k, i, cursor :
         /\ h \in 1..Len(chain)
         /\ h = tail.h /\ events = tail.events /\ k = h - 1 /\ i = tail.i
         /\ cursor = cursors[1].block
  BY <1>1
<1>3. /\ UNCHANGED <<marketVars, sales, listings, offers, history, token>>
      /\ cursors' = cursors
  BY DEF BlockApplied, tableVars
<1>4. tail'.at = "save" /\ tail'.h = h /\ tail'.events = events /\ tail'.i = i
  BY <1>1, <1>2 DEF BlockApplied, TailState
<1>5. events = chain[h].events /\ events \in Seq(PricedEvent)
  BY <1>1, <1>2, BlockOfChain DEF TailOnChain
<1>6. PICK n \in Nat : n = Len(events) /\ i - 1 = n
  <2>1. i \in 1..(Len(events) + 1) /\ i > Len(events) /\ Len(events) \in Nat
    BY <1>1, <1>2, Basics DEF BlockApplied, Position
  <2> QED
    BY <2>1
<1>7. WithinAt(h, events, n, n)
  BY <1>1, <1>2, <1>6 DEF Shows
<1>8. BetweenAt(h)
  <2>1. Replay(Kinds, MarketAt(k), events)[n] = MarketAt(h)
    <3>1. MarketIn(chain, k) = MarketAt(k) /\ MarketAt(h) = chain[h].market
      BY <1>2 DEF MarketIn, MarketAt
    <3>2. LinkedAt(chain, h, Kinds)
      BY <1>2 DEF Linked
    <3> QED
      BY <1>2, <1>5, <1>6, <3>1, <3>2 DEF LinkedAt, Follows
  <2>2. history = HistoryTo(chain, h, Kinds)
    BY <1>2, <1>5, <1>6, <1>7, BlockTold DEF WithinAt
  <2>3. ShownAs(MarketAt(h).listed, MarketAt(h).offer)
    BY <1>2, <1>7, <2>1 DEF WithinAt
  <2>4. /\ \A r \in sales : r.block \in Nat
        /\ \A r \in listings : r.block \in Nat
        /\ \A r \in offers : r.block \in Nat
    BY DEF TypeInv, TablesOK, SalesOK, FiniteSales, SaleRow, ListingsOK, OffersOK, OfferRow
  <2>5. h \in Nat
    BY <1>2
  <2>6. BlocksTo(sales, h) /\ BlocksTo(listings, h) /\ BlocksTo(offers, h)
    BY <1>7, <2>4, <2>5 DEF WithinAt, RowsUpTo, BlocksTo
  <2> QED
    BY <2>2, <2>3, <2>6 DEF BetweenAt
<1>9. BetweenAt(h)'
  BY <1>3, <1>8, SameShown
<1> QED
  BY <1>2, <1>3, <1>4, <1>9, TailShown

LEMMA SaveCursorShown ==
    ASSUME TypeInv, watched = 1, Shows, SaveCursor
    PROVE  Shows'
<1>1. /\ tail \in TailState /\ At("save") /\ tail.realm = 1 /\ "next" \in Places
      /\ cursors \in [1..Realms -> [block : Nat, hash : Nat]] /\ 1 \in 1..Realms
  <2>1. tail.realm \in 1..watched
    BY Basics DEF SaveCursor, Position
  <2> QED
    BY <2>1, Basics DEF SaveCursor, Places
<1>2. PICK h, events, i : h = tail.h /\ events = tail.events /\ i = tail.i
  OBVIOUS
<1>3. UNCHANGED <<marketVars, sales, listings, offers, history, token>>
  BY DEF SaveCursor, tableVars
<1>4. tail'.at = "next" /\ tail'.h = h /\ tail'.events = events /\ tail'.i = i
  BY <1>1, <1>2 DEF SaveCursor, TailState
<1>5. cursors'[1].block = h
  BY <1>1, <1>2 DEF SaveCursor
<1>6. BetweenAt(h)
  BY <1>1, <1>2 DEF Shows
<1>7. BetweenAt(h)'
  BY <1>3, <1>6, SameShown
<1> QED
  BY <1>4, <1>5, <1>7, TailShown

(* Where the goroutine is when it applies an event, and what the event     *)
(* does to the market.                                                     *)
Applying(h, events, i, k, m, n) ==
    /\ h \in 1..Len(chain) /\ h \in Nat /\ k = h - 1 /\ i \in 1..Len(events) /\ i \in Nat
    /\ events = chain[h].events /\ events \in Seq(PricedEvent)
    /\ h = tail.h /\ events = tail.events /\ i = tail.i /\ Current = events[i]
    /\ Replay(Kinds, MarketAt(k), events)[i - 1] = m
    /\ Replay(Kinds, MarketAt(k), events)[i] = n
    /\ m \in Market /\ n = Seen(Kinds, m, events[i]) /\ Fit(m, events[i])

LEMMA ApplyingIs ==
    ASSUME TypeInv, TailOnChain, Linked, At("apply") \/ At("resolve")
    PROVE  \E h, events, i, k, m, n : Applying(h, events, i, k, m, n)
<1>1. /\ tail.i \in 1..Len(tail.events) /\ tail.events \in Seq(PricedEvent)
      /\ tail.h \in 1..Len(chain) /\ tail.events = chain[tail.h].events
  BY Basics, ConfirmedTo, CurrentTypes DEF Busy, At, TailOnChain
<1>2. PICK h, events, i :
         /\ h \in 1..Len(chain) /\ events \in Seq(PricedEvent) /\ i \in 1..Len(events)
         /\ h = tail.h /\ events = tail.events /\ i = tail.i
  BY <1>1
<1>3. PICK k : k = h - 1
  OBVIOUS
<1>4. PICK N \in Nat : N = Len(events)
  BY <1>2
<1>5. i \in 1..N /\ i - 1 \in 0..N /\ i \in Nat
  BY <1>2, <1>4
<1>6. PICK after : after = Replay(Kinds, MarketAt(k), events)
  OBVIOUS
<1>7. /\ ReplayFrom(after, Kinds, MarketAt(k), events)
      /\ \A n \in 0..N : after[n] \in Market
  BY <1>1, <1>2, <1>3, <1>4, <1>6, BlockTold
<1>8. after[i - 1] \in Market /\ after[i] = Seen(Kinds, after[i - 1], events[i])
  BY <1>4, <1>5, <1>7 DEF ReplayFrom
<1>9. Fit(after[i - 1], events[i])
  <2>1. LinkedAt(chain, h, Kinds) /\ MarketIn(chain, k) = MarketAt(k)
    BY <1>2, <1>3 DEF Linked, MarketIn, MarketAt
  <2> QED
    BY <1>1, <1>2, <1>3, <1>6, <2>1 DEF LinkedAt, Follows
<1>10. Current = events[i] /\ h \in Nat
  BY <1>2 DEF Current
<1>11. Applying(h, events, i, k, after[i - 1], after[i])
  BY <1>1, <1>2, <1>3, <1>5, <1>6, <1>8, <1>9, <1>10 DEF Applying
<1> QED
  BY <1>11

(* The event is in the tables: its listing, its row of the history, and    *)
(* its offer unless it is resolved after.                                  *)
LEMMA EventShown ==
    ASSUME TypeInv, Shows, At("apply"), Applied(Current),
           UNCHANGED <<marketVars, cursors>>,
           NEW h, NEW events, NEW i, NEW k, NEW m, NEW n, Applying(h, events, i, k, m, n),
           RowsUpTo(sales, h, i)', RowsUpTo(listings, h, i)', RowsUpTo(offers, h, i)',
           MadeIn(h, events)', OpenAs(n.listed)',
           MaxOps <= 2 /\ ResolvesAfter(events[i]) => OffersAs(m.offer)',
           MaxOps <= 2 /\ ~ResolvesAfter(events[i]) => OffersAs(n.offer)',
           history' = IF MovesToken(events[i], Kinds)
                      THEN Append(history, HistoryRowOf(h, events[i])) ELSE history
    PROVE  Shows'
<1>1. chain' = chain /\ Kinds' = Kinds
  BY ChainKept DEF Kinds
<1>2. MarketAt(k)' = MarketAt(k)
  BY <1>1 DEF MarketAt
<1>3. PICK after, kinds : after = Replay(Kinds, MarketAt(k), events) /\ kinds = Kinds
  OBVIOUS
<1>4. /\ h \in 1..Len(chain) /\ k = h - 1 /\ i \in 1..Len(events) /\ i \in Nat
      /\ events = chain[h].events /\ events \in Seq(PricedEvent)
      /\ h = tail.h /\ events = tail.events /\ i = tail.i /\ Current = events[i]
      /\ after[i - 1] = m /\ after[i] = n
  BY <1>3 DEF Applying
<1>5. PICK rows, new, old, next :
         /\ rows = HistoryTo(chain, k, kinds) /\ new = HistoryRowOf(h, events[i])
         /\ old = HistoryUpTo(h, events, i - 1, kinds) /\ next = HistoryUpTo(h, events, i, kinds)
  OBVIOUS
<1>6. history = Then(rows, old)
  <2>1. WithinAt(h, events, i - 1, i - 1)
    BY <1>4 DEF Shows
  <2> QED
    BY <1>3, <1>4, <1>5, <2>1 DEF WithinAt
<1>7. /\ HistoryTold(h, events, kinds) /\ rows \in Seq(HistoryRow)
      /\ \A j \in 0..Len(events) : HistoryUpTo(h, events, j, kinds) \in Seq(HistoryRow)
  BY <1>3, <1>4, <1>5, BlockTold
<1>8. old \in Seq(HistoryRow) /\ next = IF MovesToken(events[i], kinds) THEN Append(old, new)
                                        ELSE old
  <2>1. i - 1 \in 0..Len(events)
    BY <1>4
  <2> QED
    BY <1>4, <1>5, <1>7, <2>1 DEF HistoryTold
<1>9. new \in HistoryRow
  BY <1>4, <1>5 DEF HistoryRow, HistoryRowOf
<1>10. history' = Then(rows, next)
  <2>1. Then(rows, Append(old, new)) = Append(Then(rows, old), new)
    BY <1>7, <1>8, <1>9, ThenAppend
  <2> QED
    BY <1>3, <1>5, <1>6, <1>8, <2>1
<1>11. PICK offer : offer = IF ResolvesAfter(events[i]) THEN i - 1 ELSE i
  OBVIOUS
<1>12. WithinAt(h, events, i, offer)'
  <2>1. ShownAs(n.listed, after[offer].offer)'
    BY <1>4, <1>11 DEF ShownAs
  <2>2. (history = Then(HistoryTo(chain, h - 1, Kinds), HistoryUpTo(h, events, i, Kinds)))'
    BY <1>1, <1>3, <1>4, <1>5, <1>10
  <2>3. Replay(Kinds, MarketAt(h - 1), events)' = after
    BY <1>1, <1>2, <1>3, <1>4
  <2> QED
    BY <1>4, <2>1, <2>2, <2>3 DEF WithinAt
<1>13. PICK cursor : cursor = cursors[1].block
  OBVIOUS
<1>14. tail'.h = h /\ tail'.events = events
  BY <1>4, AppliedIs
<1>15. CASE ResolvesAfter(events[i])
  <2>1. tail'.at = "resolve" /\ tail'.i = i
    BY <1>4, <1>15, AppliedIs
  <2>2. WithinAt(h, events, i, i - 1)'
    BY <1>11, <1>12, <1>15
  <2> QED
    BY <1>13, <1>14, <1>15, <2>1, <2>2, TailShown
<1>16. CASE ~ResolvesAfter(events[i])
  <2>1. PICK j : j = i + 1
    OBVIOUS
  <2>2. tail'.at = "dispatch" /\ tail'.i = j /\ j - 1 = i
    BY <1>4, <1>16, <2>1, AppliedIs
  <2>3. WithinAt(h, events, j - 1, j - 1)'
    BY <1>11, <1>12, <1>16, <2>2
  <2> QED
    BY <1>13, <1>14, <2>2, <2>3, TailShown
<1> QED
  BY <1>15, <1>16

(* What is in the tables when an event is applied.                         *)
LEMMA BeforeEvent ==
    ASSUME TypeInv, Shows, At("apply"),
           NEW h, NEW events, NEW i, NEW k, NEW m, NEW n, Applying(h, events, i, k, m, n)
    PROVE  /\ RowsUpTo(sales, h, i - 1) /\ RowsUpTo(listings, h, i - 1)
           /\ RowsUpTo(offers, h, i - 1)
           /\ RowsUpTo(sales, h, i) /\ RowsUpTo(listings, h, i) /\ RowsUpTo(offers, h, i)
           /\ MadeIn(h, events) /\ OpenAs(m.listed) /\ (MaxOps <= 2 => OffersAs(m.offer))
<1>1. /\ h \in Nat /\ k = h - 1 /\ i \in Nat /\ h = tail.h /\ events = tail.events /\ i = tail.i
      /\ Replay(Kinds, MarketAt(k), events)[i - 1] = m
  BY DEF Applying
<1>2. WithinAt(h, events, i - 1, i - 1)
  BY <1>1 DEF Shows
<1>3. /\ RowsUpTo(sales, h, i - 1) /\ RowsUpTo(listings, h, i - 1)
      /\ RowsUpTo(offers, h, i - 1) /\ MadeIn(h, events) /\ ShownAs(m.listed, m.offer)
  BY <1>1, <1>2 DEF WithinAt
<1>4. /\ \A r \in sales : r.index \in Nat
      /\ \A r \in listings : r.index \in Nat
      /\ \A r \in offers : r.index \in Nat
  BY DEF TypeInv, TablesOK, SalesOK, FiniteSales, SaleRow, ListingsOK, OffersOK, OfferRow
<1>5. RowsUpTo(sales, h, i) /\ RowsUpTo(listings, h, i) /\ RowsUpTo(offers, h, i)
  BY <1>1, <1>3, <1>4, RowsAfter
<1> QED
  BY <1>3, <1>5 DEF ShownAs

(* What an event does to the market that is not its own affair.            *)
LEMMA SeenIs ==
    ASSUME NEW kinds, NEW m, NEW e
    PROVE  /\ e.type = "NFTListed" => Seen(kinds, m, e).listed = e.price
           /\ e.type = "NFTDelisted" => Seen(kinds, m, e).listed = Nothing
           /\ e.type \in kinds /\ e.type # "NFTListed" => Seen(kinds, m, e).listed = Nothing
           /\ e.type \notin {"NFTListed", "NFTDelisted"} /\ e.type \notin kinds =>
                 Seen(kinds, m, e).listed = m.listed
           /\ e.type = "OfferMade" => Seen(kinds, m, e).offer = e.price
           /\ e.type # "OfferMade" /\ (e.type = "OfferCancelled" \/ ResolvesAfter(e)) =>
                 Seen(kinds, m, e).offer = Nothing
           /\ e.type \notin {"OfferMade", "OfferCancelled"} /\ ~ResolvesAfter(e) =>
                 Seen(kinds, m, e).offer = m.offer
BY DEF Seen

LEMMA KindsOnly ==
    /\ \A t \in Kinds : t \in {"Sale", "PurchaseConfirmed", "OfferAccepted"}
    /\ \A e : MovesToken(e, Kinds) <=> e.type = "Mint" \/ e.type \in Kinds
BY DEF Kinds, MovesToken

LEMMA ApplyMintShown ==
    ASSUME TypeInv, TailOnChain, Linked, Shows, ApplyMint
    PROVE  Shows'
<1>1. PICK h, events, i, k, m, n : Applying(h, events, i, k, m, n)
  BY ApplyingIs DEF ApplyMint
<1>2. PICK e : e = events[i]
  OBVIOUS
<1>3. /\ At("apply") /\ e.type = "Mint" /\ Applied(Current) /\ h = tail.h /\ Current = e
      /\ n = Seen(Kinds, m, e)
      /\ UNCHANGED <<marketVars, cursors, sales, listings, offers, token>>
      /\ history' = Append(history, [block |-> h, kind |-> "mint"])
  BY <1>1, <1>2 DEF Applying, ApplyMint
<1>4. e.type \notin Kinds /\ ~ResolvesAfter(e) /\ MovesToken(e, Kinds)
  BY <1>3, KindsOnly DEF ResolvesAfter
<1>5. n.listed = m.listed /\ n.offer = m.offer
  BY <1>3, <1>4, SeenIs
<1>6. /\ RowsUpTo(sales, h, i)' /\ RowsUpTo(listings, h, i)' /\ RowsUpTo(offers, h, i)'
      /\ MadeIn(h, events)'
  BY <1>1, <1>3, BeforeEvent DEF RowsUpTo, MadeIn
<1>7. OpenAs(n.listed)'
  BY <1>1, <1>3, <1>5, BeforeEvent DEF OpenAs
<1>8. MaxOps <= 2 => OffersAs(n.offer)'
  BY <1>1, <1>3, <1>5, BeforeEvent DEF OffersAs
<1>9. history' = Append(history, HistoryRowOf(h, e))
  BY <1>3 DEF HistoryRowOf
<1> QED
  BY <1>1, <1>2, <1>3, <1>4, <1>6, <1>7, <1>8, <1>9, EventShown

LEMMA ApplyNFTListedShown ==
    ASSUME TypeInv, TailOnChain, Linked, Shows, ApplyNFTListed
    PROVE  Shows'
<1>1. PICK h, events, i, k, m, n : Applying(h, events, i, k, m, n)
  BY ApplyingIs DEF ApplyNFTListed
<1>2. PICK e : e = events[i]
  OBVIOUS
<1>10. PICK row : row = [block |-> h, index |-> i, open |-> TRUE]
  OBVIOUS
<1>3. /\ At("apply") /\ e.type = "NFTListed" /\ Applied(Current) /\ h = tail.h /\ Current = e
      /\ n = Seen(Kinds, m, e) /\ m.listed = Nothing /\ h \in Nat /\ i \in Nat
      /\ UNCHANGED <<marketVars, cursors, sales, offers, history>>
      /\ token' = e.price /\ listings' = InsertOrIgnore(listings, row)
  BY <1>1, <1>2, <1>10 DEF Applying, ApplyNFTListed, Fit
<1>4. e.type \notin Kinds /\ ~ResolvesAfter(e) /\ ~MovesToken(e, Kinds)
  BY <1>3, KindsOnly DEF ResolvesAfter
<1>5. n.listed = e.price /\ n.offer = m.offer /\ e.price # Nothing
  <2>1. e.price \in Prices
    BY <1>3, CurrentTypes
  <2> QED
    BY <1>3, <1>4, <2>1, SeenIs DEF Prices, Nothing
<1>6. RowsUpTo(listings, h, i - 1) /\ OpenAs(Nothing)
  BY <1>1, <1>3, BeforeEvent
<1>7. row.block = h /\ row.index = i /\ row.open
  BY <1>10
<1>8. listings' = listings \cup {row} /\ RowsUpTo(listings, h, i)'
  <2>1. \A r \in listings : r.index \in Nat
    BY DEF TypeInv, TablesOK, ListingsOK
  <2>2. PICK T : T = listings
    OBVIOUS
  <2>3. RowsUpTo(T \cup {row}, h, i) /\ InsertOrIgnore(T, row) = T \cup {row}
    BY <1>3, <1>6, <1>7, <2>1, <2>2, RowsWith
  <2> QED
    BY <1>3, <2>2, <2>3
<1>9. OpenAs(n.listed)'
  BY <1>3, <1>5, <1>6, <1>7, <1>8, ListingOpened
<1>11. RowsUpTo(sales, h, i)' /\ RowsUpTo(offers, h, i)' /\ MadeIn(h, events)'
  BY <1>1, <1>3, BeforeEvent DEF RowsUpTo, MadeIn
<1>12. MaxOps <= 2 => OffersAs(n.offer)'
  BY <1>1, <1>3, <1>5, BeforeEvent DEF OffersAs
<1> QED
  BY <1>1, <1>2, <1>3, <1>4, <1>8, <1>9, <1>11, <1>12, EventShown

LEMMA ApplyNFTDelistedShown ==
    ASSUME TypeInv, TailOnChain, Linked, Shows, ApplyNFTDelisted
    PROVE  Shows'
<1>1. PICK h, events, i, k, m, n : Applying(h, events, i, k, m, n)
  BY ApplyingIs DEF ApplyNFTDelisted
<1>2. PICK e : e = events[i]
  OBVIOUS
<1>3. /\ At("apply") /\ e.type = "NFTDelisted" /\ Applied(Current) /\ h = tail.h /\ Current = e
      /\ n = Seen(Kinds, m, e)
      /\ UNCHANGED <<marketVars, cursors, sales, offers, history>>
      /\ token' = Nothing /\ listings' = ListingsClosed /\ ListingsOK
  BY <1>1, <1>2 DEF Applying, ApplyNFTDelisted, TypeInv, TablesOK
<1>4. e.type \notin Kinds /\ ~ResolvesAfter(e) /\ ~MovesToken(e, Kinds)
  BY <1>3, KindsOnly DEF ResolvesAfter
<1>5. n.listed = Nothing /\ n.offer = m.offer
  BY <1>3, <1>4, SeenIs
<1>6. OpenAs(n.listed)' /\ RowsUpTo(listings, h, i)'
  BY <1>1, <1>3, <1>5, AllClosed, BeforeEvent
<1>7. RowsUpTo(sales, h, i)' /\ RowsUpTo(offers, h, i)' /\ MadeIn(h, events)'
  BY <1>1, <1>3, BeforeEvent DEF RowsUpTo, MadeIn
<1>8. MaxOps <= 2 => OffersAs(n.offer)'
  BY <1>1, <1>3, <1>5, BeforeEvent DEF OffersAs
<1> QED
  BY <1>1, <1>2, <1>3, <1>4, <1>6, <1>7, <1>8, EventShown

(* In a block of at most two operations, the one offer is not known yet.   *)
LEMMA ApplyOfferMadeShown ==
    ASSUME TypeInv, TailOnChain, Linked, Shows, ApplyOfferMade
    PROVE  Shows'
<1>1. PICK h, events, i, k, m, n : Applying(h, events, i, k, m, n)
  BY ApplyingIs DEF ApplyOfferMade
<1>2. PICK e : e = events[i]
  OBVIOUS
<1>10. PICK row : row = [block |-> h, index |-> i, amount |-> e.price, status |-> "active"]
  OBVIOUS
<1>3. /\ At("apply") /\ e.type = "OfferMade" /\ Applied(Current) /\ h = tail.h /\ Current = e
      /\ n = Seen(Kinds, m, e) /\ m.offer = Nothing /\ h \in Nat /\ i \in Nat
      /\ UNCHANGED <<marketVars, cursors, sales, listings, token, history>>
      /\ offers' = IF OfferKnown THEN offers ELSE offers \cup {row}
      /\ h \in 1..Len(chain) /\ events = chain[h].events /\ i \in 1..Len(events)
  BY <1>1, <1>2, <1>10 DEF Applying, ApplyOfferMade, Fit
<1>4. e.type \notin Kinds /\ ~ResolvesAfter(e) /\ ~MovesToken(e, Kinds)
  BY <1>3, KindsOnly DEF ResolvesAfter
<1>5. n.listed = m.listed /\ n.offer = e.price /\ e.price # Nothing
  <2>1. e.price \in Prices
    BY <1>3, CurrentTypes
  <2> QED
    BY <1>3, <1>4, <2>1, SeenIs DEF Prices, Nothing
<1>6. /\ RowsUpTo(offers, h, i - 1) /\ RowsUpTo(offers, h, i) /\ MadeIn(h, events)
      /\ MaxOps <= 2 => OffersAs(Nothing)
  BY <1>1, <1>3, BeforeEvent
<1>7. row.block = h /\ row.index = i /\ row.amount = e.price /\ row.status = "active"
  BY <1>10
<1>8. i \in OffersIn(events)
  BY <1>2, <1>3 DEF OffersIn
<1>9. RowsUpTo(offers, h, i)' /\ MadeIn(h, events)'
  BY <1>3, <1>6, <1>7, <1>8 DEF RowsUpTo, MadeIn
<1>11. ASSUME MaxOps <= 2 PROVE OffersAs(n.offer)'
  <2>1. OneOffer(events)
    BY <1>3, <1>11 DEF Linked, LinkedAt
  <2>2. \A o \in offers : o.block # h
    <3>1. \A o \in offers : o.index \in Nat
      BY DEF TypeInv, TablesOK, OffersOK, OfferRow
    <3>2. \A o \in offers : o.block = h => o.index = i
      BY <1>6, <1>8, <2>1 DEF MadeIn, OneOffer
    <3> QED
      BY <1>3, <1>6, <3>1, <3>2 DEF RowsUpTo
  <2>3. ~OfferKnown
    BY <1>3, <2>2 DEF OfferKnown
  <2>4. offers' = offers \cup {row}
    BY <1>3, <2>3
  <2> QED
    BY <1>5, <1>6, <1>7, <1>11, <2>4, OfferOpened
<1>12. RowsUpTo(sales, h, i)' /\ RowsUpTo(listings, h, i)'
  BY <1>1, <1>3, BeforeEvent DEF RowsUpTo
<1>13. OpenAs(n.listed)'
  BY <1>1, <1>3, <1>5, BeforeEvent DEF OpenAs
<1> QED
  BY <1>1, <1>2, <1>3, <1>4, <1>9, <1>11, <1>12, <1>13, EventShown

LEMMA ApplyOfferCancelledShown ==
    ASSUME TypeInv, TailOnChain, Linked, Shows, ApplyOfferCancelled
    PROVE  Shows'
<1>1. PICK h, events, i, k, m, n : Applying(h, events, i, k, m, n)
  BY ApplyingIs DEF ApplyOfferCancelled
<1>2. PICK e : e = events[i]
  OBVIOUS
<1>3. /\ At("apply") /\ e.type = "OfferCancelled" /\ Applied(Current) /\ h = tail.h
      /\ Current = e /\ n = Seen(Kinds, m, e)
      /\ UNCHANGED <<marketVars, cursors, sales, listings, token, history>>
      /\ offers' = Resolve("cancelled") /\ OffersOK
  BY <1>1, <1>2 DEF Applying, ApplyOfferCancelled, TypeInv, TablesOK
<1>4. e.type \notin Kinds /\ ~ResolvesAfter(e) /\ ~MovesToken(e, Kinds)
  BY <1>3, KindsOnly DEF ResolvesAfter
<1>5. n.listed = m.listed /\ n.offer = Nothing
  BY <1>3, <1>4, SeenIs
<1>6. /\ \A amount : OffersAs(amount) => OffersAs(Nothing)'
      /\ \A b, j : RowsUpTo(offers, b, j) => RowsUpTo(offers, b, j)'
      /\ \A b, s : MadeIn(b, s) => MadeIn(b, s)'
  <2>1. "cancelled" \in {"cancelled", "accepted"}
    OBVIOUS
  <2> QED
    BY <1>3, <2>1, OfferClosed
<1>7. RowsUpTo(offers, h, i)' /\ MadeIn(h, events)' /\ (MaxOps <= 2 => OffersAs(n.offer)')
  BY <1>1, <1>3, <1>5, <1>6, BeforeEvent
<1>8. RowsUpTo(sales, h, i)' /\ RowsUpTo(listings, h, i)'
  BY <1>1, <1>3, BeforeEvent DEF RowsUpTo
<1>9. OpenAs(n.listed)'
  BY <1>1, <1>3, <1>5, BeforeEvent DEF OpenAs
<1> QED
  BY <1>1, <1>2, <1>3, <1>4, <1>7, <1>8, <1>9, EventShown

(* The sale is new: it closes the listing and is told in the history, and  *)
(* leaves an accepted offer to be resolved.                                *)
LEMMA SettleSaleShown ==
    ASSUME TypeInv, ChainInv, TailOnChain, Linked, Shows, SettleSale
    PROVE  Shows'
<1>1. PICK h, events, i, k, m, n : Applying(h, events, i, k, m, n)
  BY ApplyingIs DEF SettleSale
<1>2. PICK e : e = events[i]
  OBVIOUS
<1>3. /\ At("apply") /\ e.type \in Kinds /\ Applied(Current) /\ h = tail.h /\ i = tail.i
      /\ Current = e /\ n = Seen(Kinds, m, e) /\ h \in Nat /\ i \in Nat
      /\ UNCHANGED <<marketVars, cursors, offers>> /\ ListingsOK
  BY <1>1, <1>2, SettlesIs, KindsAre DEF Applying, SettleSale, TypeInv, TablesOK
<1>4. e.type \notin {"Mint", "NFTListed", "NFTDelisted", "OfferMade", "OfferCancelled"}
  BY <1>3, KindsOnly
<1>5. n.listed = Nothing /\ (~ResolvesAfter(e) => n.offer = m.offer) /\ MovesToken(e, Kinds)
  BY <1>3, <1>4, SeenIs, KindsOnly
<1>6. \A s \in sales : s.index \in Nat
  BY DEF TypeInv, TablesOK, SalesOK, FiniteSales, SaleRow
<1>7. RowsUpTo(sales, h, i - 1)
  BY <1>1, <1>3, BeforeEvent
<1>8. ~SaleKnown
  BY <1>3, <1>6, <1>7 DEF SaleKnown, RowsUpTo
<1>9. PICK row : row = [block |-> h, index |-> i, price |-> e.price]
  OBVIOUS
<1>10. /\ sales' = InsertOrIgnore(sales, row)
       /\ listings' = ListingsClosed /\ token' = Nothing
       /\ history' = Append(history, [block |-> h, kind |-> "sale"])
  BY <1>3, <1>8, <1>9 DEF SettleSale
<1>11. RowsUpTo(sales, h, i)'
  <2>1. row.block = h /\ row.index = i
    BY <1>9
  <2>2. PICK T : T = sales
    OBVIOUS
  <2>3. RowsUpTo(T \cup {row}, h, i) /\ InsertOrIgnore(T, row) = T \cup {row}
    BY <1>3, <1>6, <1>7, <2>1, <2>2, RowsWith
  <2> QED
    BY <1>10, <2>2, <2>3
<1>12. OpenAs(n.listed)' /\ RowsUpTo(listings, h, i)'
  BY <1>1, <1>3, <1>5, <1>10, AllClosed, BeforeEvent
<1>13. RowsUpTo(offers, h, i)' /\ MadeIn(h, events)' /\ (MaxOps <= 2 => OffersAs(m.offer)')
  BY <1>1, <1>3, BeforeEvent DEF RowsUpTo, MadeIn, OffersAs
<1>14. history' = Append(history, HistoryRowOf(h, e))
  BY <1>4, <1>10 DEF HistoryRowOf
<1> QED
  BY <1>1, <1>2, <1>3, <1>5, <1>11, <1>12, <1>13, <1>14, EventShown

LEMMA SkipCompanionShown ==
    ASSUME TypeInv, ChainInv, TailOnChain, Linked, Shows, SkipCompanion
    PROVE  Shows'
<1>1. PICK h, events, i, k, m, n : Applying(h, events, i, k, m, n)
  BY ApplyingIs DEF SkipCompanion
<1>2. PICK e : e = events[i]
  OBVIOUS
<1>3. /\ At("apply") /\ e.type \notin Kinds /\ Applied(Current) /\ h = tail.h
      /\ e.type \in {"PurchaseConfirmed", "OfferAccepted"}
      /\ Current = e /\ n = Seen(Kinds, m, e)
      /\ UNCHANGED <<marketVars, cursors, sales, listings, offers, token, history>>
  BY <1>1, <1>2, SettlesIs, KindsAre DEF Applying, SkipCompanion, tableVars
<1>4. /\ n.listed = m.listed /\ (~ResolvesAfter(e) => n.offer = m.offer)
      /\ ~MovesToken(e, Kinds)
  BY <1>3, SeenIs, KindsOnly
<1>5. /\ RowsUpTo(sales, h, i)' /\ RowsUpTo(listings, h, i)' /\ RowsUpTo(offers, h, i)'
      /\ MadeIn(h, events)'
  BY <1>1, <1>3, BeforeEvent DEF RowsUpTo, MadeIn
<1>6. OpenAs(n.listed)'
  BY <1>1, <1>3, <1>4, BeforeEvent DEF OpenAs
<1>7. MaxOps <= 2 => OffersAs(m.offer)'
  BY <1>1, <1>3, BeforeEvent DEF OffersAs
<1> QED
  BY <1>1, <1>2, <1>3, <1>4, <1>5, <1>6, <1>7, EventShown

LEMMA ResolveAcceptedShown ==
    ASSUME TypeInv, TailOnChain, Linked, Shows, ResolveAccepted
    PROVE  Shows'
<1>1. PICK h, events, i, k, m, n : Applying(h, events, i, k, m, n)
  BY ApplyingIs DEF ResolveAccepted
<1>2. PICK e : e = events[i]
  OBVIOUS
<1>3. /\ At("resolve") /\ h = tail.h /\ i = tail.i /\ events = tail.events /\ k = h - 1
      /\ Current = e /\ n = Seen(Kinds, m, e) /\ i \in Nat
      /\ Replay(Kinds, MarketAt(k), events)[i - 1] = m
      /\ Replay(Kinds, MarketAt(k), events)[i] = n
  BY <1>1, <1>2 DEF Applying, ResolveAccepted
<1>4. /\ UNCHANGED <<marketVars, cursors, sales, listings, token, history>>
      /\ offers' = Resolve("accepted") /\ OffersOK /\ tail \in TailState
  BY Basics DEF ResolveAccepted, TypeInv, TablesOK
<1>5. ResolvesAfter(e) /\ WithinAt(h, events, i, i - 1)
  BY <1>3 DEF Shows
<1>6. n.offer = Nothing
  BY <1>3, <1>5, SeenIs DEF ResolvesAfter
<1>7. /\ \A amount : OffersAs(amount) => OffersAs(Nothing)'
      /\ \A b, j : RowsUpTo(offers, b, j) => RowsUpTo(offers, b, j)'
      /\ \A b, s : MadeIn(b, s) => MadeIn(b, s)'
  <2>1. "accepted" \in {"cancelled", "accepted"}
    OBVIOUS
  <2> QED
    BY <1>4, <2>1, OfferClosed
<1>8. WithinAt(h, events, i, i)'
  <2>1. chain' = chain /\ Kinds' = Kinds /\ MarketAt(h - 1)' = MarketAt(h - 1)
    BY <1>4, ChainKept DEF Kinds, MarketAt
  <2>2. ShownAs(n.listed, m.offer)
    BY <1>3, <1>5 DEF WithinAt
  <2>3. ShownAs(n.listed, n.offer)'
    <3>1. OpenAs(n.listed)'
      BY <1>4, <2>2 DEF ShownAs, OpenAs
    <3>2. MaxOps <= 2 => OffersAs(n.offer)'
      BY <1>6, <1>7, <2>2 DEF ShownAs
    <3> QED
      BY <3>1, <3>2 DEF ShownAs
  <2>4. RowsUpTo(offers, h, i)' /\ MadeIn(h, events)'
    BY <1>5, <1>7 DEF WithinAt
  <2>5. RowsUpTo(sales, h, i)' /\ RowsUpTo(listings, h, i)'
    BY <1>4, <1>5 DEF WithinAt, RowsUpTo
  <2> QED
    BY <1>3, <1>4, <1>5, <2>1, <2>3, <2>4, <2>5 DEF WithinAt
<1>9. PICK j, cursor : j = i + 1 /\ cursor = cursors[1].block
  OBVIOUS
<1>10. /\ tail'.at = "dispatch" /\ tail'.h = h /\ tail'.events = events /\ tail'.i = j
       /\ j - 1 = i
  BY <1>3, <1>4, <1>9 DEF ResolveAccepted, TailState
<1>11. WithinAt(h, events, j - 1, j - 1)'
  BY <1>8, <1>10
<1> QED
  BY <1>4, <1>9, <1>10, <1>11, TailShown

(* The chain's moves keep the blocks that are shown.                       *)
LEMMA BlocksKept ==
    ASSUME NEW h \in Nat, \A b \in 1..h : chain'[b] = chain[b], Kinds' = Kinds,
           UNCHANGED <<sales, listings, offers, history, token>>
    PROVE  /\ BetweenAt(h) => BetweenAt(h)'
           /\ \A g, events, n, k :
                 g - 1 = h /\ WithinAt(g, events, n, k) => WithinAt(g, events, n, k)'
<1>1. MarketAt(h)' = MarketAt(h)
  <2>1. h # 0 => h \in 1..h
    OBVIOUS
  <2> QED
    BY <2>1 DEF MarketAt
<1>2. PICK d : d = chain'
  OBVIOUS
<1>3. HistoryTo(d, h, Kinds) = HistoryTo(chain, h, Kinds)
  <2>1. \A b \in 1..h : d[b] = chain[b]
    BY <1>2
  <2> QED
    BY <2>1, HistoryKept
<1>4. HistoryTo(chain, h, Kinds)' = HistoryTo(chain, h, Kinds)
  BY <1>2, <1>3
<1>5. \A p, a : ShownAs(p, a)' <=> ShownAs(p, a)
  BY DEF ShownAs, OpenAs, OffersAs
<1>6. BetweenAt(h) => BetweenAt(h)'
  BY <1>1, <1>4, <1>5 DEF BetweenAt, BlocksTo
<1>7. ASSUME NEW g, NEW events, NEW n, NEW k, g - 1 = h, WithinAt(g, events, n, k)
      PROVE  WithinAt(g, events, n, k)'
  <2>1. /\ RowsUpTo(sales, g, n)' /\ RowsUpTo(listings, g, n)' /\ RowsUpTo(offers, g, n)'
        /\ MadeIn(g, events)'
    BY <1>7 DEF WithinAt, RowsUpTo, MadeIn
  <2>2. ShownAs(Replay(Kinds, MarketAt(g - 1), events)[n].listed,
                Replay(Kinds, MarketAt(g - 1), events)[k].offer)'
    BY <1>1, <1>5, <1>7 DEF WithinAt
  <2>3. (history = Then(HistoryTo(chain, g - 1, Kinds), HistoryUpTo(g, events, n, Kinds)))'
    BY <1>4, <1>7 DEF WithinAt
  <2> QED
    BY <2>1, <2>2, <2>3 DEF WithinAt
<1> QED
  BY <1>6, <1>7

LEMMA ChainMovesShown ==
    ASSUME TypeInv, TablesOnChain, TailOnChain, Shows, ChainMoves, Stable'
    PROVE  Shows'
<1>1. /\ tail' = tail /\ cursors' = cursors
      /\ UNCHANGED <<sales, listings, offers, history, token>>
  BY DEF ChainMoves, tableVars
<1>2. Kinds' = Kinds
  BY ChainMovesChange DEF Kinds
<1>3. ASSUME NEW h \in Nat, \A b \in 1..h : Confirmed(b)
      PROVE  /\ BetweenAt(h) => BetweenAt(h)'
             /\ \A g, events, n, k :
                   g - 1 = h /\ WithinAt(g, events, n, k) => WithinAt(g, events, n, k)'
  <2>1. \A b \in 1..h : chain'[b] = chain[b]
    BY <1>3, ConfirmedStays
  <2> QED
    BY <1>1, <1>2, <2>1, BlocksKept
<1>4. /\ tail.h \in Nat /\ cursors[1].block \in Nat
  <2>1. 1 \in 1..Realms
    BY Basics
  <2> QED
    BY <2>1, Basics
<1>5. PICK h, cursor, k, at, events, i :
         /\ h \in Nat /\ cursor \in Nat
         /\ h = tail.h /\ cursor = cursors[1].block /\ k = h - 1
         /\ at = tail.at /\ events = tail.events /\ i = tail.i
  BY <1>4
<1>6. \A b \in 1..cursor : Confirmed(b)
  BY <1>5 DEF TablesOnChain, CursorDone
<1>7. Busy => k \in Nat /\ \A b \in 1..k : Confirmed(b)
  <2>1. ASSUME Busy PROVE h \in 1..Len(chain) /\ Confirmed(h)
    BY <1>5, <2>1, ConfirmedTo
  <2>2. ASSUME Busy PROVE \A b \in 1..h : Confirmed(b)
    BY <2>1, <2>2, ConfirmedIs
  <2>3. ASSUME Busy PROVE k \in Nat
    BY <1>5, <2>1, <2>3
  <2>4. ASSUME Busy PROVE \A b \in 1..k : b \in 1..h
    BY <1>5, <2>3, <2>4
  <2> QED
    BY <2>2, <2>3, <2>4
<1>8. Busy => \A b \in 1..h : Confirmed(b)
  BY <1>5, ConfirmedTo, ConfirmedIs
<1>9. at \in {"check", "next"} => h = cursor /\ BetweenAt(h)'
  <2>1. at \in {"check", "next"} => h = cursor /\ BetweenAt(h)
    BY <1>5 DEF Shows, At
  <2> QED
    BY <1>3, <1>5, <1>6, <2>1
<1>10. at = "idle" => BetweenAt(cursor)'
  <2>1. at = "idle" => BetweenAt(cursor)
    BY <1>5 DEF Shows, At
  <2> QED
    BY <1>3, <1>5, <1>6, <2>1
<1>11. at = "fetch" => BetweenAt(h - 1)'
  <2>1. at = "fetch" => Busy /\ BetweenAt(k)
    BY <1>5 DEF Shows, At, Busy
  <2>2. at = "fetch" => BetweenAt(k)'
    BY <1>3, <1>7, <2>1
  <2> QED
    BY <1>5, <2>2
<1>12. at \in {"dispatch", "apply"} => WithinAt(h, events, i - 1, i - 1)'
  <2>1. at \in {"dispatch", "apply"} => Busy /\ WithinAt(h, events, i - 1, i - 1)
    BY <1>5 DEF Shows, At, Busy
  <2>2. PICK j : j = i - 1
    OBVIOUS
  <2> QED
    BY <1>3, <1>5, <1>7, <2>1, <2>2
<1>13. at = "resolve" => ResolvesAfter(events[i]) /\ WithinAt(h, events, i, i - 1)'
  <2>1. at = "resolve" =>
           Busy /\ ResolvesAfter(events[i]) /\ WithinAt(h, events, i, i - 1)
    BY <1>5 DEF Shows, At, Busy, Current
  <2>2. PICK j : j = i - 1
    OBVIOUS
  <2> QED
    BY <1>3, <1>5, <1>7, <2>1, <2>2
<1>14. at = "save" => BetweenAt(h)'
  <2>1. at = "save" => Busy /\ BetweenAt(h)
    BY <1>5 DEF Shows, At, Busy
  <2> QED
    BY <1>3, <1>5, <1>8, <2>1
<1>15. /\ tail'.at = at /\ tail'.h = h /\ tail'.events = events /\ tail'.i = i
       /\ cursors'[1].block = cursor
  BY <1>1, <1>5
<1> QED
  BY <1>9, <1>10, <1>11, <1>12, <1>13, <1>14, <1>15, TailShown

LEMMA ShownInit == Init => ShownInv
<1> SUFFICES ASSUME Init PROVE Shows
  BY DEF ShownInv
<1>1. /\ sales = {} /\ listings = {} /\ offers = {} /\ history = <<>> /\ token = Nothing
      /\ cursors = [r \in 1..Realms |-> NoRow] /\ tail = Idle /\ 1 \in 1..Realms
      /\ chain = <<>>
  BY DEF Init, MarketInit
<1>2. tail.at = "idle" /\ cursors[1].block = 0
  BY <1>1 DEF NoRow, Idle
<1>3. BetweenAt(0)
  <2>1. MarketAt(0).listed = Nothing /\ MarketAt(0).offer = Nothing
    BY DEF MarketAt, NoMarket
  <2>2. ShownAs(Nothing, Nothing)
    BY <1>1 DEF ShownAs, OpenAs, OffersAs
  <2>3. BlocksTo(sales, 0) /\ BlocksTo(listings, 0) /\ BlocksTo(offers, 0)
    BY <1>1 DEF BlocksTo
  <2>4. HistoryTo(chain, 0, Kinds) = <<>>
    <3>1. PICK c \in Seq(PricedBlock) : c = chain /\ 0 \in 0..Len(c)
      <4>1. <<>> \in Seq(PricedBlock) /\ 0 \in 0..Len(<<>>)
        OBVIOUS
      <4> QED
        BY <1>1, <4>1
    <3> QED
      BY <3>1, HistoryToIs
  <2> QED
    BY <1>1, <2>1, <2>2, <2>3, <2>4 DEF BetweenAt
<1> QED
  BY <1>2, <1>3 DEF Shows, At

LEMMA ShownStep ==
    ASSUME TypeInv, ChainInv, StableInv, StableInv', Linked, ShownInv, [Next]_vars
    PROVE  ShownInv'
<1> SUFFICES ASSUME Undisturbed', Stable' PROVE Shows'
  BY DEF ShownInv
<1>1. faults \in Nat /\ watched \in 1..Realms /\ reorgs \in Nat
  BY Basics DEF TypeInv, SettingsOK, MarketOK
<1>2. ~Interrupt
  BY <1>1 DEF Interrupt, Undisturbed
<1>3. ASSUME NEW h \in 1..Len(chain) PROVE ~WatchSeeded(h)
  <2>1. watched + 1 # 1
    BY <1>1
  <2> QED
    BY <2>1 DEF WatchSeeded, Undisturbed
<1>4. CASE Cycle
  <2>1. UNCHANGED <<marketVars, watched, confirmations, faults>>
    BY <1>4, CycleKeeps
  <2>2. Undisturbed /\ Stable
    BY <2>1, ChainKept DEF Undisturbed, Stable, BehindReorgs
  <2>3. TailOnChain /\ Shows /\ watched = 1 /\ ~At("rollback")'
    BY <2>2 DEF StableInv, ShownInv, Undisturbed, TailOnChain
  <2>4. ~RollbackFromHeight
    BY <2>3 DEF TailOnChain, RollbackFromHeight
  <2> QED
    BY <1>4, <2>3, <2>4, PollShown, CheckCursorShown, CycleEndsShown, FetchHashShown,
       FetchEventsShown, RecordRawEventShown, ApplyMintShown, ApplyNFTListedShown,
       ApplyNFTDelistedShown, ApplyOfferMadeShown, ApplyOfferCancelledShown,
       SettleSaleShown, SkipCompanionShown, ResolveAcceptedShown, BlockAppliedShown,
       SaveCursorShown
    DEF Cycle
<1>5. CASE ChainMoves
  <2>1. reorgs' >= reorgs /\ confirmations' = confirmations /\ Undisturbed
    BY <1>5, ChainMovesChange DEF ChainMoves, Undisturbed
  <2>2. Stable
    BY <1>1, <2>1 DEF Stable, BehindReorgs
  <2> QED
    BY <1>5, <2>1, <2>2, ChainMovesShown DEF StableInv, ShownInv
<1>6. CASE UNCHANGED vars
  <2>1. /\ UNCHANGED <<marketVars, sales, listings, offers, history, token>>
        /\ UNCHANGED <<tail, cursors, confirmations, faults, watched>>
    BY <1>6 DEF vars, tableVars
  <2>2. Undisturbed /\ Stable
    BY <2>1, ChainKept DEF Undisturbed, Stable, BehindReorgs
  <2>3. Shows
    BY <2>2 DEF ShownInv
  <2>4. PICK h, cursor, at, events, i, k, j :
           /\ h = tail.h /\ cursor = cursors[1].block
           /\ at = tail.at /\ events = tail.events /\ i = tail.i /\ k = h - 1 /\ j = i - 1
    OBVIOUS
  <2>5. /\ at = "idle" => BetweenAt(cursor)
        /\ at \in {"check", "next"} => h = cursor /\ BetweenAt(h)
        /\ at = "fetch" => BetweenAt(k)
        /\ at \in {"dispatch", "apply"} => WithinAt(h, events, j, j)
        /\ at = "resolve" => ResolvesAfter(events[i]) /\ WithinAt(h, events, i, j)
        /\ at = "save" => BetweenAt(h)
    BY <2>3, <2>4 DEF Shows, At, Current
  <2>6. /\ \A b : BetweenAt(b)' <=> BetweenAt(b)
        /\ \A b, s, n, o : WithinAt(b, s, n, o)' <=> WithinAt(b, s, n, o)
    BY <2>1, SameShown
  <2>7. /\ tail'.at = at /\ tail'.h = h /\ tail'.events = events /\ tail'.i = i
        /\ cursors'[1].block = cursor
    BY <2>1, <2>4
  <2> QED
    BY <2>4, <2>5, <2>6, <2>7, TailShown
<1> QED
  BY <1>2, <1>3, <1>4, <1>5, <1>6 DEF Next

LEMMA ShownHolds == Spec => [](TypeInv /\ StableInv /\ ShownInv)
<1> DEFINE Inv == TypeInv /\ ChainInv /\ StableInv /\ Linked /\ ShownInv
<1>1. Init => Inv
  BY TypeInvInit, ChainInvInit, StableInvInit, LinkedInit, ShownInit
<1>2. Inv /\ [Next]_vars => Inv'
  <2> SUFFICES ASSUME Inv, [Next]_vars PROVE Inv'
    OBVIOUS
  <2>1. TypeInv' /\ ChainInv' /\ StableInv' /\ Linked'
    BY TypeInvStep, ChainInvStep, StableInvStep, LinkedStep
  <2>2. ShownInv'
    BY <2>1, ShownStep
  <2> QED
    BY <2>1, <2>2
<1> QED
  BY <1>1, <1>2, PTL DEF Spec

(* Between cycles: what is shown is the chain's, as the properties say it. *)
LEMMA OpenListings ==
    ASSUME NEW price, OpenAs(price)
    PROVE  Cardinality({l \in listings : l.open}) = IF token = Nothing THEN 0 ELSE 1
<1>1. PICK S : S = {l \in listings : l.open}
  OBVIOUS
<1>2. CASE price = Nothing
  <2>1. S = {}
    BY <1>1, <1>2 DEF OpenAs
  <2> QED
    BY <1>1, <1>2, <2>1, FS_EmptySet DEF OpenAs
<1>3. CASE price # Nothing
  <2>1. PICK l \in listings : l.open /\ \A k \in listings : k.open => k = l
    BY <1>3 DEF OpenAs
  <2>2. S = {l}
    BY <1>1, <2>1
  <2> QED
    BY <1>1, <1>3, <2>2, FS_Singleton DEF OpenAs
<1> QED
  BY <1>2, <1>3

LEMMA ActiveOffers ==
    ASSUME NEW amount, OffersAs(amount)
    PROVE  {o.amount : o \in {p \in offers : p.status = "active"}} = {amount} \ {Nothing}
<1>1. CASE amount = Nothing
  BY <1>1 DEF OffersAs
<1>2. CASE amount # Nothing
  <2>1. PICK o \in offers : /\ o.status = "active" /\ o.amount = amount
                            /\ \A p \in offers : p.status = "active" => p = o
    BY <1>2 DEF OffersAs
  <2> QED
    BY <1>2, <2>1
<1> QED
  BY <1>1, <1>2

LEMMA HistoryIs ==
    ASSUME NEW h
    PROVE  HistoryTo(chain, h, Kinds)
              = FlattenSeq([b \in 1..h |-> HistoryOf(b, chain[b].events)])
<1>1. \A b, events : HistoryOf(b, events) = HistoryIn(b, events, Kinds)
  BY DEF HistoryOf, HistoryIn, HistoryUpTo, IsSettlement, Kinds
<1> QED
  BY <1>1 DEF HistoryTo, HistorySeqs

LEMMA ShownToReaders ==
    ASSUME TypeInv, ShownInv, Undisturbed, Stable
    PROVE  /\ TokenOfTheChain /\ OneOpenListing /\ HistoryOfTheChain
           /\ MaxOps <= 2 => OffersOfTheChain
<1> SUFFICES ASSUME CaughtUp
             PROVE  /\ token = MarketAt(LoadCursor.block).listed
                    /\ Cardinality({l \in listings : l.open}) = IF token = Nothing THEN 0 ELSE 1
                    /\ history = FlattenSeq([b \in 1..LoadCursor.block |->
                                                HistoryOf(b, chain[b].events)])
                    /\ MaxOps <= 2 =>
                          {o.amount : o \in {p \in offers : p.status = "active"}}
                             = {MarketAt(LoadCursor.block).offer} \ {Nothing}
  BY DEF TokenOfTheChain, OneOpenListing, HistoryOfTheChain, OffersOfTheChain
<1>1. At("idle") /\ Shows /\ LoadCursor = cursors[1]
  BY OneCursor DEF CaughtUp, Agreed, ShownInv, Undisturbed
<1>2. PICK h : h = LoadCursor.block
  OBVIOUS
<1>3. BetweenAt(h)
  BY <1>1, <1>2 DEF Shows
<1>4. PICK m : m = MarketAt(h)
  OBVIOUS
<1>5. OpenAs(m.listed) /\ (MaxOps <= 2 => OffersAs(m.offer))
  BY <1>3, <1>4 DEF BetweenAt, ShownAs
<1>6. token = MarketAt(h).listed
  BY <1>4, <1>5 DEF OpenAs
<1>7. Cardinality({l \in listings : l.open}) = IF token = Nothing THEN 0 ELSE 1
  BY <1>5, OpenListings
<1>8. history = FlattenSeq([b \in 1..h |-> HistoryOf(b, chain[b].events)])
  BY <1>3, HistoryIs DEF BetweenAt
<1>9. MaxOps <= 2 =>
         {o.amount : o \in {p \in offers : p.status = "active"}} = {MarketAt(h).offer} \ {Nothing}
  BY <1>4, <1>5, ActiveOffers
<1> QED
  BY <1>2, <1>6, <1>7, <1>8, <1>9

(* With every block applied once, nft_tokens, nft_listings and             *)
(* nft_ownership_history show the token's price, its one open listing, and *)
(* the mint and every sale of the chain in order (dispatch.go), for chains *)
(* of any blocks, through every listing, delisting, purchase and           *)
(* acceptance.                                                             *)
THEOREM TablesShowTheToken ==
    Spec => [](Undisturbed /\ (BehindReorgs \/ reorgs = 0) =>
                  TokenOfTheChain /\ OneOpenListing /\ HistoryOfTheChain)
<1>1. TypeInv /\ StableInv /\ ShownInv =>
         (Undisturbed /\ (BehindReorgs \/ reorgs = 0) =>
             TokenOfTheChain /\ OneOpenListing /\ HistoryOfTheChain)
  BY ShownToReaders DEF Stable
<1> QED
  BY <1>1, ShownHolds, PTL

(* The offers too, where no block holds two offers of the buyer: the key   *)
(* of nft_offers (buyer, token, block) has one row for them, and the       *)
(* second, made after the first was cancelled, would not be shown. Two     *)
(* operations in a block leave no room for that.                           *)
THEOREM TablesShowTheMarket ==
    ASSUME MaxOps <= 2
    PROVE  Spec => []ProjectionOfTheChain
<1>1. TypeInv /\ StableInv /\ ShownInv => ProjectionOfTheChain
  BY ShownToReaders DEF Stable, ProjectionOfTheChain
<1> QED
  BY <1>1, ShownHolds, PTL

===============================================================================
