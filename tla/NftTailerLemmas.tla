---------------------------- MODULE NftTailerLemmas ----------------------------
(* What the operators of MarketChain and NftTailer compute, for the proofs  *)
(* about the tailer.                                                        *)
EXTENDS NftTailer, FiniteSetTheorems, SequenceTheorems, WellFoundedInduction, TLAPS

(***************************************************************************)
(* Numbers. Induction over data is by a least counterexample.              *)
(***************************************************************************)

LEMMA LeastOf ==
    ASSUME NEW S \in SUBSET Nat, S # {}
    PROVE \E n \in S : \A m \in S : n <= m
<1> DEFINE R == OpToRel(<, Nat)
<1>1. IsWellFoundedOn(R, Nat)
  BY NatLessThanWellFounded
<1>2. \A x, y \in Nat : <<x, y>> \in R <=> x < y
  BY DEF OpToRel
<1> HIDE DEF R
<1>3. PICK n \in S : \A m \in S : ~(<<m, n>> \in R)
  BY <1>1, WFMin
<1>4. n \in Nat /\ S \subseteq Nat
  OBVIOUS
<1>5. ASSUME NEW m \in S PROVE n <= m
  <2>1. m \in Nat /\ ~(<<m, n>> \in R)
    BY <1>3, <1>4
  <2>2. ~(m < n)
    BY <1>2, <1>4, <2>1
  <2> QED
    BY <1>4, <2>1, <2>2
<1> QED
  BY <1>3, <1>5

(* What is so at the first number of a range, and at each other number     *)
(* when it is at the one before, is so at all of them.                     *)
LEMMA CountingUp ==
    ASSUME NEW lo \in Nat, NEW N \in Nat, NEW Good, lo <= N => lo \in Good,
           \A n \in lo..N : n # lo /\ n - 1 \in Good => n \in Good
    PROVE  \A n \in lo..N : n \in Good
<1> DEFINE Bad == (lo..N) \ Good
<1> SUFFICES ASSUME Bad # {} PROVE FALSE
  OBVIOUS
<1>1. Bad \in SUBSET Nat
  OBVIOUS
<1>2. PICK n \in Bad : \A m \in Bad : n <= m
  BY <1>1, LeastOf
<1>3. n \in lo..N /\ n # lo /\ n - 1 \in lo..N
  BY <1>2
<1>4. n - 1 \in Good
  BY <1>2, <1>3
<1> QED
  BY <1>2, <1>3, <1>4

LEMMA GreatestOf ==
    ASSUME NEW S \in SUBSET Nat, S # {}, NEW N \in Nat, \A m \in S : m <= N
    PROVE \E n \in S : \A m \in S : m <= n
<1> DEFINE T == {N - m : m \in S}
<1>1. \A m \in S : N - m \in Nat
  OBVIOUS
<1>5. T \in SUBSET Nat /\ T # {}
  BY <1>1
<1>2. PICK k \in T : \A m \in T : k <= m
  BY <1>5, LeastOf
<1>3. PICK n \in S : k = N - n
  BY <1>2
<1>4. ASSUME NEW m \in S PROVE m <= n
  <2>1. N - m \in T /\ m \in Nat /\ n \in Nat
    OBVIOUS
  <2>2. k <= N - m
    BY <1>2, <2>1
  <2> QED
    BY <1>3, <2>1, <2>2
<1> QED
  BY <1>4

LEMMA MinIs ==
    ASSUME NEW S \in SUBSET Nat, S # {}
    PROVE  Min(S) \in S /\ \A m \in S : Min(S) <= m
BY LeastOf DEF Min

LEMMA MaxIs ==
    ASSUME NEW S \in SUBSET Nat, S # {}, NEW N \in Nat, \A m \in S : m <= N
    PROVE  Max(S) \in S /\ \A m \in S : m <= Max(S)
<1>1. \E n \in S : \A m \in S : n >= m
  BY GreatestOf
<1> QED
  BY <1>1 DEF Max

LEMMA MinOfTwo ==
    ASSUME NEW a \in Nat, NEW b \in Nat
    PROVE  Min({a, b}) = IF a <= b THEN a ELSE b
<1>1. Min({a, b}) \in {a, b} /\ \A m \in {a, b} : Min({a, b}) <= m
  BY MinIs
<1> QED
  BY <1>1

LEMMA MaxOfTwo ==
    ASSUME NEW a \in Nat, NEW b \in Nat
    PROVE  Max({a, b}) = IF a <= b THEN b ELSE a
<1>1. {a, b} \in SUBSET Nat /\ \A m \in {a, b} : m <= a + b
  OBVIOUS
<1>2. Max({a, b}) \in {a, b} /\ \A m \in {a, b} : m <= Max({a, b})
  BY <1>1, MaxIs
<1> QED
  BY <1>2

(***************************************************************************)
(* A function defined by recursion on a range of numbers exists, and is of *)
(* the type its steps are of: x0 at lo, and F[<<n, x>>] at n, where x is   *)
(* its value at n - 1.                                                     *)
(***************************************************************************)

Recurs(f, lo, N, x0, F) ==
    f = [n \in lo..N |-> IF n = lo THEN x0 ELSE F[<<n, f[n - 1]>>]]

LEMMA RecursionExists ==
    ASSUME NEW lo \in Nat, NEW N \in Nat, lo <= N, NEW X, NEW x0 \in X[lo], NEW F,
           \A n \in (lo + 1)..N : \A x \in X[n - 1] : F[<<n, x>>] \in X[n]
    PROVE  \E f : Recurs(f, lo, N, x0, F) /\ \A n \in lo..N : f[n] \in X[n]
<1> DEFINE Typed(f, k) == \A n \in lo..k : f[n] \in X[n]
           Good == {k \in lo..N : \E f : Recurs(f, lo, k, x0, F) /\ Typed(f, k)}
<1>1. lo \in Good
  <2> DEFINE f == [n \in lo..lo |-> x0]
  <2>1. f = [n \in lo..lo |-> IF n = lo THEN x0 ELSE F[<<n, f[n - 1]>>]]
    OBVIOUS
  <2>2. Typed(f, lo)
    OBVIOUS
  <2> HIDE DEF f
  <2> QED
    BY <2>1, <2>2 DEF Recurs
<1>2. ASSUME NEW k \in (lo + 1)..N, k - 1 \in Good PROVE k \in Good
  <2>1. PICK f : Recurs(f, lo, k - 1, x0, F) /\ Typed(f, k - 1)
    BY <1>2
  <2> DEFINE g == [n \in lo..k |-> IF n = k THEN F[<<k, f[k - 1]>>] ELSE f[n]]
  <2>2. \A n \in lo..(k - 1) : f[n] = IF n = lo THEN x0 ELSE F[<<n, f[n - 1]>>]
    BY <2>1 DEF Recurs
  <2>3. \A n \in lo..k : g[n] = IF n = lo THEN x0 ELSE F[<<n, g[n - 1]>>]
    <3> SUFFICES ASSUME NEW n \in lo..k
                 PROVE  g[n] = IF n = lo THEN x0 ELSE F[<<n, g[n - 1]>>]
      OBVIOUS
    <3>1. CASE n = k
      BY <3>1
    <3>2. CASE n # k
      <4>1. n \in lo..(k - 1) /\ g[n] = f[n] /\ (n # lo => g[n - 1] = f[n - 1])
        BY <3>2
      <4> QED
        BY <2>2, <4>1
    <3> QED
      BY <3>1, <3>2
  <2>4. g = [n \in lo..k |-> IF n = lo THEN x0 ELSE F[<<n, g[n - 1]>>]]
    <3> DEFINE h == [n \in lo..k |-> IF n = lo THEN x0 ELSE F[<<n, g[n - 1]>>]]
    <3>1. DOMAIN g = lo..k /\ DOMAIN h = lo..k /\ \A n \in lo..k : g[n] = h[n]
      BY <2>3
    <3>2. g = [n \in lo..k |-> g[n]] /\ h = [n \in lo..k |-> h[n]]
      OBVIOUS
    <3> HIDE DEF g, h
    <3>3. g = h
      BY <3>1, <3>2
    <3> QED
      BY <3>3 DEF h
  <2>5. ASSUME NEW n \in lo..k PROVE g[n] \in X[n]
    <3>1. CASE n = k
      <4>1. f[k - 1] \in X[k - 1]
        BY <2>1
      <4> QED
        BY <3>1, <4>1
    <3>2. CASE n # k
      BY <2>1, <3>2
    <3> QED
      BY <3>1, <3>2
  <2> HIDE DEF g
  <2>6. Recurs(g, lo, k, x0, F) /\ Typed(g, k)
    BY <2>4, <2>5 DEF Recurs
  <2> HIDE DEF Typed
  <2> QED
    BY <2>6
<1>3. \A n \in lo..N : n \in Good
  <2> HIDE DEF Good
  <2>1. \A n \in lo..N : n # lo /\ n - 1 \in Good => n \in Good
    BY <1>2
  <2> QED
    BY <1>1, <2>1, CountingUp
<1> QED
  BY <1>3

(***************************************************************************)
(* The events of a block, and what the blocks of the chain are.            *)
(***************************************************************************)

USE MarketAssumption, TailerAssumption

PricedEvent ==
    {e \in Event : e.type \in {"NFTListed", "OfferMade", "Sale", "PurchaseConfirmed",
                               "OfferAccepted"} => e.price \in Prices}
Outcome == [events : Seq(PricedEvent), market : Market]
PricedBlock == [hash : Nat \ {0}, events : Seq(PricedEvent), market : Market]

OneMore(S) ==
    S \cup UNION {{After(b.events \o o.events, o.market) : o \in Operations(b.market)} :
                     b \in S}
UpTo(f, m) == f = [n \in 0..MaxOps |-> IF n = 0 THEN {After(<<>>, m)} ELSE OneMore(f[n - 1])]

LEMMA OneMoreWithin ==
    ASSUME NEW S, NEW T, NEW U, S \subseteq T,
           \A b \in T :
              /\ b \in U
              /\ \A o \in Operations(b.market) :
                    After(b.events \o o.events, o.market) \in U
    PROVE  OneMore(S) \subseteq U
<1> SUFFICES ASSUME NEW x \in OneMore(S) PROVE x \in U
  OBVIOUS
<1>1. CASE x \in S
  BY <1>1
<1>2. CASE \E b \in S : \E o \in Operations(b.market) :
              x = After(b.events \o o.events, o.market)
  BY <1>2
<1> QED
  BY <1>1, <1>2 DEF OneMore

(* What holds of no operation and is kept by each holds of every block;    *)
(* Good[n] is what holds after at most n operations.                       *)
KeptFrom(m, Good) ==
    /\ After(<<>>, m) \in Good[0]
    /\ \A n \in 1..MaxOps : \A b \in Good[n - 1] :
          /\ b \in Good[n]
          /\ \A o \in Operations(b.market) :
                After(b.events \o o.events, o.market) \in Good[n]

LEMMA BlocksWithin ==
    ASSUME NEW m, NEW Good, KeptFrom(m, Good)
    PROVE  Blocks(m) \subseteq Good[MaxOps]
<1> DEFINE x0 == {After(<<>>, m)}
           X == [n \in 0..MaxOps |-> SUBSET Good[n]]
           Dom == {<<n, S>> : n \in 1..MaxOps, S \in SUBSET UNION {Good[k] : k \in 0..MaxOps}}
           F == [p \in Dom |-> OneMore(p[2])]
<1> HIDE DEF x0, X, Dom, F
<1>1. ASSUME NEW n \in 1..MaxOps, NEW S, S \subseteq Good[n - 1]
      PROVE  OneMore(S) \subseteq Good[n] /\ F[<<n, S>>] = OneMore(S)
  <2>1. OneMore(S) \subseteq Good[n]
    BY <1>1, OneMoreWithin DEF KeptFrom
  <2>2. <<n, S>> \in Dom
    <3>1. n - 1 \in 0..MaxOps
      OBVIOUS
    <3> QED
      BY <1>1, <3>1 DEF Dom
  <2> QED
    BY <2>1, <2>2 DEF F
<1>2. \A n \in 0..MaxOps : \A S : S \in X[n] <=> S \subseteq Good[n]
  BY DEF X
<1>3. \E f : Recurs(f, 0, MaxOps, x0, F) /\ \A n \in 0..MaxOps : f[n] \in X[n]
  <2>1. \A n \in 1..MaxOps : \A x \in X[n - 1] : F[<<n, x>>] \in X[n]
    <3> SUFFICES ASSUME NEW n \in 1..MaxOps, NEW x \in X[n - 1] PROVE F[<<n, x>>] \in X[n]
      OBVIOUS
    <3>1. n - 1 \in 0..MaxOps /\ n \in 0..MaxOps
      OBVIOUS
    <3>2. x \subseteq Good[n - 1]
      BY <1>2, <3>1
    <3>3. OneMore(x) \subseteq Good[n] /\ F[<<n, x>>] = OneMore(x)
      BY <1>1, <3>2
    <3> QED
      BY <1>2, <3>1, <3>3
  <2>2. x0 \in X[0]
    <3>1. x0 \subseteq Good[0] /\ 0 \in 0..MaxOps
      BY DEF x0, KeptFrom
    <3> QED
      BY <1>2, <3>1
  <2>3. 0 \in Nat /\ 0 <= MaxOps /\ MaxOps \in Nat /\ 0 + 1 = 1
    OBVIOUS
  <2> QED
    BY <2>1, <2>2, <2>3, RecursionExists
<1>4. \E f : UpTo(f, m)
  <2>1. PICK f : Recurs(f, 0, MaxOps, x0, F) /\ \A n \in 0..MaxOps : f[n] \in X[n]
    BY <1>3
  <2>2. ASSUME NEW n \in 1..MaxOps PROVE F[<<n, f[n - 1]>>] = OneMore(f[n - 1])
    <3>1. n - 1 \in 0..MaxOps /\ f[n - 1] \in X[n - 1]
      BY <2>1
    <3>2. f[n - 1] \subseteq Good[n - 1]
      BY <1>2, <3>1
    <3> QED
      BY <1>1, <3>2
  <2>3. f = [n \in 0..MaxOps |-> IF n = 0 THEN x0 ELSE F[<<n, f[n - 1]>>]]
    BY <2>1 DEF Recurs
  <2>4. f = [n \in 0..MaxOps |-> IF n = 0 THEN x0 ELSE OneMore(f[n - 1])]
    BY <2>2, <2>3
  <2> QED
    BY <2>4 DEF UpTo, x0
<1> DEFINE upTo == CHOOSE f : UpTo(f, m)
<1> HIDE DEF upTo
<1>5. UpTo(upTo, m)
  BY <1>4 DEF upTo
<1>6. Blocks(m) = upTo[MaxOps]
  BY DEF Blocks, upTo, UpTo, OneMore
<1> DEFINE Fine == {n \in 0..MaxOps : upTo[n] \subseteq Good[n]}
<1>7. 0 \in Fine
  BY <1>5 DEF UpTo, KeptFrom
<1>8. ASSUME NEW n \in 1..MaxOps, n - 1 \in Fine PROVE n \in Fine
  <2>1. upTo[n] = OneMore(upTo[n - 1]) /\ upTo[n - 1] \subseteq Good[n - 1]
    <3>1. n - 1 \in 0..MaxOps /\ n \in 0..MaxOps /\ n # 0
      OBVIOUS
    <3>2. upTo[n] = OneMore(upTo[n - 1])
      BY <1>5, <3>1 DEF UpTo
    <3> QED
      BY <1>8, <3>2
  <2>2. OneMore(upTo[n - 1]) \subseteq Good[n]
    BY <1>1, <2>1
  <2> QED
    BY <2>1, <2>2
<1>9. \A n \in 0..MaxOps : n \in Fine
  <2> HIDE DEF Fine
  <2>1. \A n \in 0..MaxOps : n # 0 /\ n - 1 \in Fine => n \in Fine
    BY <1>8
  <2> QED
    BY <1>7, <2>1, CountingUp
<1> QED
  BY <1>6, <1>9

LEMMA OneEvent ==
    ASSUME NEW type, NEW via, NEW price, Emit(type, via, price) \in PricedEvent
    PROVE  <<Emit(type, via, price)>> \in Seq(PricedEvent)
OBVIOUS

LEMMA EmittedTypes ==
    ASSUME NEW p \in Prices
    PROVE  /\ Emit("Mint", "none", 0) \in PricedEvent
           /\ Emit("NFTDelisted", "none", 0) \in PricedEvent
           /\ Emit("OfferCancelled", "none", 0) \in PricedEvent
           /\ Emit("NFTListed", "none", p) \in PricedEvent
           /\ Emit("OfferMade", "none", p) \in PricedEvent
           /\ Emit("Sale", "buy", p) \in PricedEvent
           /\ Emit("Sale", "offer", p) \in PricedEvent
           /\ Emit("PurchaseConfirmed", "none", p) \in PricedEvent
           /\ Emit("OfferAccepted", "none", p) \in PricedEvent
<1>1. p \in 0..MaxPrice /\ 0 \in 0..MaxPrice
  BY DEF Prices
<1> QED
  BY <1>1 DEF Emit, PricedEvent, Event

LEMMA SettlementTypes ==
    ASSUME NEW p \in Prices
    PROVE  Purchase(p) \in Seq(PricedEvent) /\ Acceptance(p) \in Seq(PricedEvent)
<1>1. /\ <<Emit("Sale", "buy", p)>> \in Seq(PricedEvent)
      /\ <<Emit("Sale", "offer", p)>> \in Seq(PricedEvent)
      /\ <<Emit("PurchaseConfirmed", "none", p)>> \in Seq(PricedEvent)
      /\ <<Emit("OfferAccepted", "none", p)>> \in Seq(PricedEvent)
      /\ <<>> \in Seq(PricedEvent)
  BY EmittedTypes
<1> QED
  BY <1>1 DEF Purchase, Acceptance

(* What an operation does to the market, one case of each kind.            *)
LEMMA OperationCases ==
    ASSUME NEW m \in Market, NEW o \in Operations(m)
    PROVE  \/ /\ ~m.minted
              /\ o = After(<<Emit("Mint", "none", 0)>>, [m EXCEPT !.minted = TRUE])
           \/ /\ m.listed # Nothing
              /\ o = After(<<Emit("NFTDelisted", "none", 0)>>, [m EXCEPT !.listed = Nothing])
           \/ /\ m.listed # Nothing
              /\ o = After(Purchase(m.listed), [m EXCEPT !.listed = Nothing])
           \/ /\ m.offer # Nothing
              /\ o = After(<<Emit("OfferCancelled", "none", 0)>>, [m EXCEPT !.offer = Nothing])
           \/ /\ m.offer # Nothing
              /\ o = After(Acceptance(m.offer),
                           [m EXCEPT !.listed = Nothing, !.offer = Nothing])
           \/ /\ m.minted /\ m.listed = Nothing
              /\ \E p \in Prices :
                    o = After(<<Emit("NFTListed", "none", p)>>, [m EXCEPT !.listed = p])
           \/ /\ m.minted /\ m.offer = Nothing
              /\ \E p \in Prices :
                    o = After(<<Emit("OfferMade", "none", p)>>, [m EXCEPT !.offer = p])
BY DEF Operations, When

LEMMA OperationTypes ==
    ASSUME NEW m \in Market, NEW o \in Operations(m)
    PROVE  o \in Outcome
<1>0. /\ \A s \in Seq(PricedEvent), n \in Market : After(s, n) \in Outcome
      /\ m \in [minted : BOOLEAN, listed : 0..MaxPrice, offer : 0..MaxPrice]
  BY DEF After, Outcome, Market
<1>1. /\ m.listed # Nothing => m.listed \in Prices
      /\ m.offer # Nothing => m.offer \in Prices
      /\ Nothing \in 0..MaxPrice /\ 1 \in Prices /\ Prices \subseteq 0..MaxPrice
  BY <1>0 DEF Nothing, Prices
<1>2. /\ [m EXCEPT !.minted = TRUE] \in Market
      /\ [m EXCEPT !.listed = Nothing] \in Market
      /\ [m EXCEPT !.offer = Nothing] \in Market
      /\ [m EXCEPT !.listed = Nothing, !.offer = Nothing] \in Market
      /\ \A p \in Prices : [m EXCEPT !.listed = p] \in Market /\ [m EXCEPT !.offer = p] \in Market
  BY <1>0, <1>1 DEF Market
<1>3. ASSUME NEW p \in Prices
      PROVE  /\ <<Emit("Mint", "none", 0)>> \in Seq(PricedEvent)
             /\ <<Emit("NFTDelisted", "none", 0)>> \in Seq(PricedEvent)
             /\ <<Emit("OfferCancelled", "none", 0)>> \in Seq(PricedEvent)
             /\ <<Emit("NFTListed", "none", p)>> \in Seq(PricedEvent)
             /\ <<Emit("OfferMade", "none", p)>> \in Seq(PricedEvent)
  BY EmittedTypes
<1>4. CASE o = After(<<Emit("Mint", "none", 0)>>, [m EXCEPT !.minted = TRUE])
  BY <1>0, <1>1, <1>2, <1>3, <1>4
<1>5. CASE o = After(<<Emit("NFTDelisted", "none", 0)>>, [m EXCEPT !.listed = Nothing])
  BY <1>0, <1>1, <1>2, <1>3, <1>5
<1>6. CASE m.listed # Nothing /\ o = After(Purchase(m.listed), [m EXCEPT !.listed = Nothing])
  <2>1. Purchase(m.listed) \in Seq(PricedEvent)
    BY <1>1, <1>6, SettlementTypes
  <2> QED
    BY <1>0, <1>2, <1>6, <2>1
<1>7. CASE o = After(<<Emit("OfferCancelled", "none", 0)>>, [m EXCEPT !.offer = Nothing])
  BY <1>0, <1>1, <1>2, <1>3, <1>7
<1>8. CASE /\ m.offer # Nothing
           /\ o = After(Acceptance(m.offer), [m EXCEPT !.listed = Nothing, !.offer = Nothing])
  <2>1. Acceptance(m.offer) \in Seq(PricedEvent)
    BY <1>1, <1>8, SettlementTypes
  <2> QED
    BY <1>0, <1>2, <1>8, <2>1
<1>9. CASE \E p \in Prices :
              \/ o = After(<<Emit("NFTListed", "none", p)>>, [m EXCEPT !.listed = p])
              \/ o = After(<<Emit("OfferMade", "none", p)>>, [m EXCEPT !.offer = p])
  <2>1. PICK p \in Prices :
              \/ o = After(<<Emit("NFTListed", "none", p)>>, [m EXCEPT !.listed = p])
              \/ o = After(<<Emit("OfferMade", "none", p)>>, [m EXCEPT !.offer = p])
    BY <1>9
  <2>2. /\ <<Emit("NFTListed", "none", p)>> \in Seq(PricedEvent)
        /\ <<Emit("OfferMade", "none", p)>> \in Seq(PricedEvent)
    BY <1>3
  <2> QED
    BY <1>0, <1>2, <2>1, <2>2
<1> QED
  BY <1>4, <1>5, <1>6, <1>7, <1>8, <1>9, OperationCases

LEMMA BlockTypes ==
    ASSUME NEW m \in Market
    PROVE  Blocks(m) \subseteq Outcome
<1> DEFINE Good == [n \in 0..MaxOps |-> Outcome]
<1>1. After(<<>>, m) \in Outcome
  BY DEF After, Outcome
<1>2. ASSUME NEW b \in Outcome, NEW o \in Operations(b.market)
      PROVE  After(b.events \o o.events, o.market) \in Outcome
  <2>1. b.market \in Market /\ b.events \in Seq(PricedEvent)
    BY DEF Outcome
  <2>2. o \in Outcome
    BY <2>1, OperationTypes
  <2>3. o.market \in Market /\ o.events \in Seq(PricedEvent)
    BY <2>2 DEF Outcome
  <2>4. b.events \o o.events \in Seq(PricedEvent)
    BY <2>1, <2>3, ConcatProperties
  <2> QED
    BY <2>3, <2>4 DEF After, Outcome
<1>3. KeptFrom(m, Good)
  BY <1>1, <1>2 DEF KeptFrom
<1>4. Good[MaxOps] = Outcome
  OBVIOUS
<1> HIDE DEF Good
<1> QED
  BY <1>3, <1>4, BlocksWithin

(***************************************************************************)
(* The aggregates of a set of sales.                                       *)
(***************************************************************************)

SaleRow == [block : Nat, index : Nat, price : Prices]
FiniteSales == {S \in SUBSET SaleRow : IsFiniteSet(S)}

Chosen(s) == CHOOSE x \in s : TRUE
Summed(it, s) == IF s = {} THEN 0 ELSE Chosen(s).price + it[s \ {Chosen(s)}]
Sums(it, S) == it = [s \in SUBSET S |-> Summed(it, s)]

LEMMA ChosenSale ==
    ASSUME NEW S \in FiniteSales, S # {}
    PROVE  /\ Chosen(S) \in S /\ Chosen(S) \in SaleRow /\ Chosen(S).price \in Nat
           /\ S \ {Chosen(S)} \in FiniteSales
           /\ Cardinality(S) \in Nat \ {0}
           /\ Cardinality(S \ {Chosen(S)}) = Cardinality(S) - 1
<1>1. Chosen(S) \in S /\ IsFiniteSet(S) /\ S \subseteq SaleRow
  BY DEF Chosen, FiniteSales
<1>2. Chosen(S).price \in Prices
  BY <1>1 DEF SaleRow
<1>3. IsFiniteSet(S \ {Chosen(S)}) /\ Cardinality(S \ {Chosen(S)}) = Cardinality(S) - 1
  BY <1>1, FS_RemoveElement
<1>4. Cardinality(S) \in Nat \ {0}
  BY <1>1, FS_CardinalityType, FS_EmptySet
<1> QED
  BY <1>1, <1>2, <1>3, <1>4 DEF FiniteSales, Prices

LEMMA SubsetsOfSales ==
    ASSUME NEW S \in FiniteSales, NEW s \in SUBSET S
    PROVE  s \in FiniteSales /\ Cardinality(s) \in Nat /\ Cardinality(s) <= Cardinality(S)
<1>1. IsFiniteSet(s) /\ Cardinality(s) <= Cardinality(S)
  BY FS_Subset DEF FiniteSales
<1> QED
  BY <1>1, FS_CardinalityType DEF FiniteSales

LEMMA SumsExist ==
    ASSUME NEW S \in FiniteSales
    PROVE  \E it \in [SUBSET S -> Nat] : Sums(it, S)
<1> DEFINE N == Cardinality(S) + 2
           X == [n \in 0..N |-> [SUBSET S -> Nat]]
           x0 == [s \in SUBSET S |-> 0]
           F == [p \in (1..N) \X [SUBSET S -> Nat] |->
                    [s \in SUBSET S |-> Summed(p[2], s)]]
<1>1. Cardinality(S) \in Nat /\ N \in Nat
  BY SubsetsOfSales
<1> HIDE DEF N, X, x0, F
<1>2. ASSUME NEW n \in 1..N, NEW g \in [SUBSET S -> Nat]
      PROVE  /\ F[<<n, g>>] = [s \in SUBSET S |-> Summed(g, s)]
             /\ F[<<n, g>>] \in [SUBSET S -> Nat]
  <2>1. F[<<n, g>>] = [s \in SUBSET S |-> Summed(g, s)]
    BY DEF F
  <2>2. ASSUME NEW s \in SUBSET S PROVE Summed(g, s) \in Nat
    <3>1. s # {} => Chosen(s).price \in Nat /\ s \ {Chosen(s)} \in SUBSET S
      BY ChosenSale, SubsetsOfSales
    <3> QED
      BY <3>1 DEF Summed
  <2> QED
    BY <2>1, <2>2
<1>3. \A n \in 0..N : X[n] = [SUBSET S -> Nat]
  BY DEF X
<1>4. PICK f : Recurs(f, 0, N, x0, F) /\ \A n \in 0..N : f[n] \in X[n]
  <2>1. \A n \in 1..N : \A x \in X[n - 1] : F[<<n, x>>] \in X[n]
    <3> SUFFICES ASSUME NEW n \in 1..N, NEW x \in X[n - 1] PROVE F[<<n, x>>] \in X[n]
      OBVIOUS
    <3>1. n - 1 \in 0..N /\ n \in 0..N
      BY <1>1
    <3>2. x \in [SUBSET S -> Nat]
      BY <1>3, <3>1
    <3>3. F[<<n, x>>] \in [SUBSET S -> Nat]
      BY <1>2, <3>2
    <3> QED
      BY <1>3, <3>1, <3>3
  <2>2. x0 \in X[0]
    <3>1. x0 \in [SUBSET S -> Nat] /\ 0 \in 0..N
      BY <1>1 DEF x0
    <3> QED
      BY <1>3, <3>1
  <2>3. 0 \in Nat /\ 0 <= N /\ N \in Nat /\ 0 + 1 = 1
    BY <1>1
  <2> QED
    BY <2>1, <2>2, <2>3, RecursionExists
<1>5. \A n \in 0..N : f[n] \in [SUBSET S -> Nat]
  BY <1>3, <1>4
<1>6. ASSUME NEW n \in 1..N, NEW s \in SUBSET S
      PROVE  f[n][s] = Summed(f[n - 1], s)
  <2>1. f[n] = F[<<n, f[n - 1]>>]
    BY <1>1, <1>4 DEF Recurs
  <2>2. n - 1 \in 0..N
    BY <1>1
  <2>3. f[n] = [t \in SUBSET S |-> Summed(f[n - 1], t)]
    BY <1>2, <1>5, <2>1, <2>2
  <2> QED
    BY <2>3
<1> DEFINE Steady == {n \in 1..N : \A s \in SUBSET S :
                          Cardinality(s) < n => f[n][s] = f[n - 1][s]}
<1>7. 1 \in Steady
  <2>1. ASSUME NEW s \in SUBSET S, Cardinality(s) < 1 PROVE f[1][s] = f[0][s]
    <3>1. s = {}
      BY <2>1, SubsetsOfSales, FS_EmptySet DEF FiniteSales
    <3>5. 1 \in 1..N
      BY <1>1 DEF N
    <3>6. f[1][s] = Summed(f[1 - 1], s)
      BY <1>6, <3>5
    <3>2. f[1][s] = 0
      BY <3>1, <3>6 DEF Summed
    <3>3. f[0] = x0
      BY <1>1, <1>4 DEF Recurs
    <3>4. f[0][s] = 0
      BY <3>3 DEF x0
    <3> QED
      BY <3>2, <3>4
  <2>2. 1 \in 1..N /\ 1 - 1 = 0
    BY <1>1 DEF N
  <2> QED
    BY <2>1, <2>2
<1>8. ASSUME NEW n \in 1..N, n # 1, n - 1 \in Steady PROVE n \in Steady
  <2> SUFFICES ASSUME NEW s \in SUBSET S, Cardinality(s) < n PROVE f[n][s] = f[n - 1][s]
    OBVIOUS
  <2>1. n - 1 \in 1..N
    BY <1>1, <1>8
  <2>2. f[n][s] = Summed(f[n - 1], s) /\ f[n - 1][s] = Summed(f[n - 1 - 1], s)
    BY <1>6, <2>1
  <2>3. CASE s = {}
    BY <2>2, <2>3 DEF Summed
  <2>4. CASE s # {}
    <3>1. s \in FiniteSales
      BY SubsetsOfSales
    <3>2. s \ {Chosen(s)} \in SUBSET S /\ Cardinality(s \ {Chosen(s)}) < n - 1
      BY <1>1, <2>4, <3>1, ChosenSale
    <3>3. f[n - 1][s \ {Chosen(s)}] = f[n - 1 - 1][s \ {Chosen(s)}]
      BY <1>8, <3>2
    <3> QED
      BY <2>2, <2>4, <3>3 DEF Summed
  <2> QED
    BY <2>3, <2>4
<1>9. N \in Steady
  <2>1. 1 \in Nat /\ 1 <= N /\ N \in 1..N
    BY <1>1 DEF N
  <2> HIDE DEF Steady
  <2>2. \A n \in 1..N : n \in Steady
    BY <1>1, <1>7, <1>8, <2>1, CountingUp
  <2> QED
    BY <2>1, <2>2
<1> DEFINE it == f[N - 1]
<1>10. N \in 1..N /\ N - 1 \in 0..N
  BY <1>1 DEF N
<1>11. ASSUME NEW s \in SUBSET S PROVE it[s] = Summed(it, s)
  <2>1. Cardinality(s) < N
    BY <1>1, SubsetsOfSales DEF N
  <2>2. f[N][s] = f[N - 1][s]
    BY <1>9, <2>1
  <2> QED
    BY <1>6, <1>10, <2>2
<1>12. it \in [SUBSET S -> Nat]
  BY <1>5, <1>10
<1> HIDE DEF it
<1>13. it = [s \in SUBSET S |-> it[s]]
  BY <1>12
<1>14. it = [s \in SUBSET S |-> Summed(it, s)]
  BY <1>11, <1>13
<1> QED
  BY <1>12, <1>14 DEF Sums

LEMMA SumsUnique ==
    ASSUME NEW S \in FiniteSales, NEW T \in SUBSET S, NEW f, NEW g, Sums(f, S), Sums(g, T)
    PROVE  f[T] = g[T]
<1> DEFINE N == Cardinality(T)
           Same == {n \in 0..N : \A s \in SUBSET T : Cardinality(s) = n => f[s] = g[s]}
<1>1. T \in FiniteSales /\ N \in Nat
  BY SubsetsOfSales
<1>2. \A s \in SUBSET T : f[s] = Summed(f, s) /\ g[s] = Summed(g, s)
  BY DEF Sums
<1> HIDE DEF N
<1>3. 0 \in Same
  <2>1. ASSUME NEW s \in SUBSET T, Cardinality(s) = 0 PROVE f[s] = g[s]
    <3>1. s = {}
      BY <1>1, <2>1, SubsetsOfSales, FS_EmptySet DEF FiniteSales
    <3> QED
      BY <1>2, <3>1 DEF Summed
  <2> QED
    BY <1>1, <2>1
<1>4. ASSUME NEW n \in 0..N, n # 0, n - 1 \in Same PROVE n \in Same
  <2> SUFFICES ASSUME NEW s \in SUBSET T, Cardinality(s) = n PROVE f[s] = g[s]
    OBVIOUS
  <2>1. s \in FiniteSales /\ s # {}
    BY <1>1, <1>4, SubsetsOfSales, FS_EmptySet
  <2>2. s \ {Chosen(s)} \in SUBSET T /\ Cardinality(s \ {Chosen(s)}) = n - 1
    BY <2>1, ChosenSale
  <2>3. f[s \ {Chosen(s)}] = g[s \ {Chosen(s)}]
    BY <1>4, <2>2
  <2> QED
    BY <1>2, <2>1, <2>3 DEF Summed
<1>5. N \in Same
  <2>1. 0 \in Nat /\ N \in 0..N
    BY <1>1
  <2> HIDE DEF Same
  <2>2. \A n \in 0..N : n \in Same
    BY <1>1, <1>3, <1>4, <2>1, CountingUp
  <2> QED
    BY <2>1, <2>2
<1> QED
  BY <1>5 DEF N

LEMMA VolumeSums ==
    ASSUME NEW S \in FiniteSales
    PROVE  \E it \in [SUBSET S -> Nat] : Sums(it, S) /\ Volume(S) = it[S]
<1> DEFINE it == CHOOSE it : Sums(it, S)
<1>1. PICK f \in [SUBSET S -> Nat] : Sums(f, S)
  BY SumsExist
<1>2. Volume(S) = it[S]
  BY DEF Volume, MapThenSumSet, MapThenFoldSet, Sums, Summed, Chosen
<1> HIDE DEF it
<1>3. Sums(it, S)
  BY <1>1 DEF it
<1>4. f[S] = it[S]
  BY <1>1, <1>3, SumsUnique
<1> QED
  BY <1>1, <1>2, <1>4

LEMMA VolumeStep ==
    ASSUME NEW S \in FiniteSales
    PROVE  /\ Volume(S) \in Nat
           /\ S = {} => Volume(S) = 0
           /\ S # {} => Volume(S) = Chosen(S).price + Volume(S \ {Chosen(S)})
<1>1. PICK f \in [SUBSET S -> Nat] : Sums(f, S) /\ Volume(S) = f[S]
  BY VolumeSums
<1>2. f[S] = Summed(f, S)
  BY <1>1 DEF Sums
<1>3. ASSUME S # {} PROVE Volume(S) = Chosen(S).price + Volume(S \ {Chosen(S)})
  <2> DEFINE T == S \ {Chosen(S)}
  <2>1. T \in FiniteSales /\ T \in SUBSET S
    BY <1>3, ChosenSale
  <2> HIDE DEF T
  <2>2. PICK g \in [SUBSET T -> Nat] : Sums(g, T) /\ Volume(T) = g[T]
    BY <2>1, VolumeSums
  <2>3. f[T] = g[T]
    BY <1>1, <2>1, <2>2, SumsUnique
  <2> QED
    BY <1>1, <1>2, <1>3, <2>2, <2>3 DEF Summed, T
<1> QED
  BY <1>1, <1>2, <1>3 DEF Summed

(* The volume grows by the price of a sale that is added.                  *)
Additive(S) == \A x \in SaleRow \ S : Volume(S \cup {x}) = Volume(S) + x.price

LEMMA AddSale ==
    ASSUME NEW S \in FiniteSales, NEW x \in SaleRow
    PROVE  /\ S \cup {x} \in FiniteSales
           /\ x \notin S => Cardinality(S \cup {x}) = Cardinality(S) + 1
           /\ x.price \in Nat
BY FS_AddElement DEF FiniteSales, SaleRow, Prices

LEMMA VolumeAdds ==
    ASSUME NEW S \in FiniteSales
    PROVE  Additive(S)
<1> DEFINE N == Cardinality(S)
           Good == {n \in 0..N : \A s \in FiniteSales : Cardinality(s) = n => Additive(s)}
<1>1. N \in Nat
  BY SubsetsOfSales
<1> HIDE DEF N
<1>2. \A s \in FiniteSales : Cardinality(s) = 0 => s = {}
  BY FS_EmptySet DEF FiniteSales
<1>3. ASSUME NEW n \in 0..N, n # 0 => n - 1 \in Good,
             NEW s \in FiniteSales, Cardinality(s) = n,
             NEW x \in SaleRow \ s
      PROVE  Volume(s \cup {x}) = Volume(s) + x.price
  <2> DEFINE t == s \cup {x}
             c == Chosen(t)
  <2>1. t \in FiniteSales /\ Cardinality(t) = n + 1 /\ t # {} /\ x.price \in Nat
    BY <1>3, AddSale
  <2>2. c \in t /\ c \in SaleRow /\ t \ {c} \in FiniteSales /\ c.price \in Nat
    BY <2>1, ChosenSale
  <2>3. Volume(t) = c.price + Volume(t \ {c}) /\ Volume(s) \in Nat
    BY <1>3, <2>1, VolumeStep
  <2> HIDE DEF c
  <2>4. CASE c = x
    <3>1. t \ {c} = s
      BY <1>3, <2>4
    <3>2. Volume(t \ {c}) = Volume(s) /\ c.price = x.price
      BY <2>4, <3>1
    <3> HIDE DEF t
    <3>3. Volume(t) = Volume(s) + x.price
      BY <2>1, <2>3, <3>2
    <3> QED
      BY <3>3 DEF t
  <2>5. CASE c # x
    <3> DEFINE u == s \ {c}
    <3>1. c \in s /\ n # 0 /\ u \in FiniteSales /\ Cardinality(u) = n - 1
      <4>1. c \in s
        BY <2>2, <2>5
      <4>2. IsFiniteSet(s) /\ Cardinality(s) \in Nat
        BY SubsetsOfSales DEF FiniteSales
      <4>3. IsFiniteSet(s \ {c}) /\ Cardinality(s \ {c}) = n - 1
        BY <1>3, <4>1, <4>2, FS_RemoveElement
      <4>4. s \ {c} \in FiniteSales
        BY <4>3 DEF FiniteSales
      <4>5. Cardinality(s) # 0
        BY <4>1, <4>2, FS_EmptySet
      <4> QED
        BY <1>3, <4>1, <4>3, <4>4, <4>5
    <3>2. Additive(u)
      BY <1>3, <3>1
    <3>3. t \ {c} = u \cup {x} /\ s = u \cup {c} /\ x \notin u /\ c \notin u
      BY <1>3, <2>5, <3>1
    <3> HIDE DEF u
    <3>4. Volume(t \ {c}) = Volume(u) + x.price /\ Volume(s) = Volume(u) + c.price
      BY <2>2, <3>2, <3>3 DEF Additive
    <3>5. Volume(u) \in Nat
      BY <3>1, VolumeStep
    <3> QED
      BY <2>1, <2>2, <2>3, <3>4, <3>5
  <2> QED
    BY <2>4, <2>5
<1>4. \A n \in 0..N : (n # 0 => n - 1 \in Good) => n \in Good
  BY <1>3 DEF Additive
<1>5. 0 \in Good
  BY <1>1, <1>4
<1>6. N \in Good
  <2> HIDE DEF Good
  <2>1. \A n \in 0..N : n \in Good
    BY <1>1, <1>4, <1>5, CountingUp
  <2> QED
    BY <1>1, <2>1
<1> QED
  BY <1>6 DEF N

(* The order of the last price: by block, then by position in the block.   *)
UpToSale(o, s) == o.block < s.block \/ (o.block = s.block /\ o.index <= s.index)
LastIn(s, S) == s \in S /\ \A o \in S : UpToSale(o, s)
UniqueKeys(S) == \A r, s \in S : r.block = s.block /\ r.index = s.index => r = s

LEMMA LastExists ==
    ASSUME NEW S \in FiniteSales, S # {}
    PROVE  \E s \in S : LastIn(s, S)
<1> DEFINE N == Cardinality(S)
           Good == {n \in 0..N : \A T \in FiniteSales :
                       Cardinality(T) = n /\ T # {} => \E s \in T : LastIn(s, T)}
<1>1. N \in Nat
  BY SubsetsOfSales
<1> HIDE DEF N
<1>2. 0 \in Good
  <2>1. \A T \in FiniteSales : Cardinality(T) = 0 => T = {}
    BY FS_EmptySet DEF FiniteSales
  <2> QED
    BY <1>1, <2>1
<1>3. ASSUME NEW n \in 0..N, n # 0, n - 1 \in Good PROVE n \in Good
  <2> SUFFICES ASSUME NEW T \in FiniteSales, Cardinality(T) = n, T # {}
               PROVE  \E s \in T : LastIn(s, T)
    OBVIOUS
  <2> DEFINE c == Chosen(T)
             U == T \ {c}
  <2>1. c \in T /\ U \in FiniteSales /\ Cardinality(U) = n - 1 /\ T = U \cup {c}
    BY ChosenSale
  <2>2. \A r \in T : r.block \in Nat /\ r.index \in Nat
    BY DEF FiniteSales, SaleRow
  <2> HIDE DEF c, U
  <2>3. CASE U = {}
    BY <2>1, <2>2, <2>3 DEF LastIn, UpToSale
  <2>4. CASE U # {}
    <3>1. PICK s \in U : LastIn(s, U)
      BY <1>3, <2>1, <2>4
    <3>2. CASE UpToSale(c, s)
      BY <2>1, <3>1, <3>2 DEF LastIn
    <3>3. CASE ~UpToSale(c, s)
      <4>1. s.block \in Nat /\ s.index \in Nat /\ c.block \in Nat /\ c.index \in Nat
        BY <2>1, <2>2
      <4>2. UpToSale(s, c) /\ UpToSale(c, c)
        BY <3>3, <4>1 DEF UpToSale
      <4>3. ASSUME NEW o \in U PROVE UpToSale(o, c)
        <5>1. o.block \in Nat /\ o.index \in Nat /\ UpToSale(o, s)
          BY <2>1, <2>2, <3>1 DEF LastIn
        <5> QED
          BY <4>1, <4>2, <5>1 DEF UpToSale
      <4> QED
        BY <2>1, <4>2, <4>3 DEF LastIn
    <3> QED
      BY <3>2, <3>3
  <2> QED
    BY <2>3, <2>4
<1>4. N \in Good
  <2> HIDE DEF Good
  <2>1. \A n \in 0..N : n \in Good
    BY <1>1, <1>2, <1>3, CountingUp
  <2> QED
    BY <1>1, <2>1
<1> QED
  BY <1>4 DEF N

LEMMA LastPriceTypes ==
    ASSUME NEW S \in FiniteSales
    PROVE  LastPrice(S) \in 0..MaxPrice
<1> DEFINE last == CHOOSE r \in S : \A o \in S : UpToSale(o, r)
<1>1. LastPrice(S) = IF S = {} THEN Nothing ELSE last.price
  BY DEF LastPrice, UpToSale
<1>2. S # {} => last \in S
  BY LastExists DEF LastIn
<1> HIDE DEF last
<1>3. S # {} => last.price \in Prices
  BY <1>2 DEF FiniteSales, SaleRow
<1> QED
  BY <1>1, <1>3 DEF Prices, Nothing

LEMMA LastPriceIs ==
    ASSUME NEW S \in FiniteSales, UniqueKeys(S), NEW s, LastIn(s, S)
    PROVE  LastPrice(S) = s.price
<1> DEFINE last == CHOOSE r \in S : \A o \in S : UpToSale(o, r)
<1>1. S # {} /\ LastPrice(S) = last.price
  BY DEF LastPrice, LastIn, UpToSale
<1>2. LastIn(last, S)
  BY DEF LastIn
<1> HIDE DEF last
<1>3. /\ s.block \in Nat /\ s.index \in Nat /\ last.block \in Nat /\ last.index \in Nat
      /\ s \in S /\ last \in S /\ UpToSale(s, last) /\ UpToSale(last, s)
  BY <1>2 DEF FiniteSales, SaleRow, LastIn
<1>4. s.block = last.block /\ s.index = last.index
  BY <1>3 DEF UpToSale
<1> QED
  BY <1>1, <1>3, <1>4 DEF UniqueKeys

(***************************************************************************)
(* Sequences built element by element.                                     *)
(***************************************************************************)

Builds(f, N, step) ==
    f = [n \in 0..N |-> IF n = 0 THEN <<>> ELSE step[<<n, f[n - 1]>>]]

LEMMA BuildExists ==
    ASSUME NEW N \in Nat, NEW A, NEW step \in [(1..N) \X Seq(A) -> Seq(A)]
    PROVE  \E f \in [0..N -> Seq(A)] : Builds(f, N, step)
<1> DEFINE X == [n \in 0..N |-> Seq(A)]
<1>1. \A n \in 0..N : X[n] = Seq(A)
  OBVIOUS
<1> HIDE DEF X
<1>2. \A n \in 1..N : \A x \in X[n - 1] : step[<<n, x>>] \in X[n]
  <2> SUFFICES ASSUME NEW n \in 1..N, NEW x \in X[n - 1] PROVE step[<<n, x>>] \in X[n]
    OBVIOUS
  <2>1. n - 1 \in 0..N /\ n \in 0..N
    OBVIOUS
  <2>2. x \in Seq(A)
    BY <1>1, <2>1
  <2>3. step[<<n, x>>] \in Seq(A)
    BY <2>2
  <2> QED
    BY <1>1, <2>1, <2>3
<1>3. <<>> \in X[0] /\ 0 + 1 = 1 /\ 0 \in Nat /\ 0 <= N
  <2>1. 0 \in 0..N /\ <<>> \in Seq(A)
    OBVIOUS
  <2>2. X[0] = Seq(A)
    BY <1>1, <2>1
  <2>3. 0 + 1 = 1 /\ 0 \in Nat /\ 0 <= N
    OBVIOUS
  <2> QED
    BY <2>1, <2>2, <2>3
<1>4. PICK f : Recurs(f, 0, N, <<>>, step) /\ \A n \in 0..N : f[n] \in X[n]
  BY <1>2, <1>3, RecursionExists
<1>5. f = [n \in 0..N |-> IF n = 0 THEN <<>> ELSE step[<<n, f[n - 1]>>]]
  BY <1>4 DEF Recurs
<1>6. \A n \in 0..N : f[n] \in Seq(A)
  BY <1>1, <1>4
<1>7. f \in [0..N -> Seq(A)]
  <2>1. DOMAIN f = 0..N /\ f = [n \in 0..N |-> f[n]]
    BY <1>5
  <2> QED
    BY <1>6, <2>1
<1> QED
  BY <1>5, <1>7 DEF Builds

(* The rows kept by a rollback, in their order.                            *)
Keeps(f, rows, h) ==
    f = [n \in 0..Len(rows) |->
            IF n = 0 THEN <<>>
            ELSE IF rows[n].block < h THEN Append(f[n - 1], rows[n]) ELSE f[n - 1]]

LEMMA RowsBelowIs ==
    ASSUME NEW A, NEW rows \in Seq(A), NEW h
    PROVE  \E f \in [0..Len(rows) -> Seq(A)] :
              Keeps(f, rows, h) /\ RowsBelow(rows, h) = f[Len(rows)]
<1> DEFINE N == Len(rows)
           step == [p \in (1..N) \X Seq(A) |->
                       IF rows[p[1]].block < h THEN Append(p[2], rows[p[1]]) ELSE p[2]]
           up == CHOOSE f : Keeps(f, rows, h)
<1>1. N \in Nat /\ \A n \in 1..N : rows[n] \in A
  OBVIOUS
<1>2. \A n \in 1..N : \A x \in Seq(A) :
         step[<<n, x>>] = IF rows[n].block < h THEN Append(x, rows[n]) ELSE x
  OBVIOUS
<1>3. step \in [(1..N) \X Seq(A) -> Seq(A)]
  <2>1. \A p \in (1..N) \X Seq(A) :
          (IF rows[p[1]].block < h THEN Append(p[2], rows[p[1]]) ELSE p[2]) \in Seq(A)
    BY <1>1
  <2> QED
    BY <2>1
<1>4. RowsBelow(rows, h) = up[Len(rows)]
  BY DEF RowsBelow, Keeps
<1> HIDE DEF step, up
<1>5. \A f \in [0..N -> Seq(A)] : Builds(f, N, step) <=> Keeps(f, rows, h)
  <2> SUFFICES ASSUME NEW f \in [0..N -> Seq(A)]
               PROVE  Builds(f, N, step) <=> Keeps(f, rows, h)
    OBVIOUS
  <2>1. \A n \in 0..N : n # 0 =>
          step[<<n, f[n - 1]>>] =
             IF rows[n].block < h THEN Append(f[n - 1], rows[n]) ELSE f[n - 1]
    <3> SUFFICES ASSUME NEW n \in 1..N
                 PROVE  step[<<n, f[n - 1]>>] =
                          IF rows[n].block < h THEN Append(f[n - 1], rows[n]) ELSE f[n - 1]
      OBVIOUS
    <3>1. n - 1 \in 0..N
      BY <1>1
    <3>2. f[n - 1] \in Seq(A)
      BY <3>1
    <3> QED
      BY <1>2, <3>2
  <2> QED
    BY <2>1 DEF Builds, Keeps
<1>6. PICK g \in [0..N -> Seq(A)] : Keeps(g, rows, h)
  <2>1. \E f \in [0..N -> Seq(A)] : Builds(f, N, step)
    BY <1>1, <1>3, BuildExists
  <2> QED
    BY <1>5, <2>1
<1>7. Keeps(up, rows, h)
  BY <1>6 DEF up
<1>8. \A n \in 0..N : up[n] = g[n]
  <2> DEFINE Same == {n \in 0..N : up[n] = g[n]}
  <2>1. 0 \in Same
    BY <1>1, <1>6, <1>7 DEF Keeps
  <2>2. ASSUME NEW n \in 0..N, n # 0, n - 1 \in Same PROVE n \in Same
    BY <1>6, <1>7, <2>2 DEF Keeps
  <2> HIDE DEF Same
  <2>3. \A n \in 0..N : n \in Same
    BY <1>1, <2>1, <2>2, CountingUp
  <2> QED
    BY <2>3 DEF Same
<1> QED
  BY <1>1, <1>4, <1>6, <1>8

LEMMA RowsBelowTypes ==
    ASSUME NEW A, NEW rows \in Seq(A), NEW h
    PROVE  RowsBelow(rows, h) \in Seq(A)
BY RowsBelowIs

(***************************************************************************)
(* The cursors, and the end of a cycle.                                    *)
(***************************************************************************)

LEMMA LoadCursorIs ==
    ASSUME cursors \in [1..Realms -> [block : Nat, hash : Nat]], watched \in 1..Realms
    PROVE  \E r \in 1..watched :
              LoadCursor = cursors[r] /\ \A q \in 1..watched : cursors[r].block <= cursors[q].block
<1> DEFINE S == {cursors[r].block : r \in 1..watched}
           least == Min(S)
           R == {r \in 1..watched : cursors[r].block = least}
<1>1. \A r \in 1..watched : r \in Nat /\ cursors[r].block \in Nat
  OBVIOUS
<1>2. S \in SUBSET Nat /\ S # {}
  BY <1>1
<1> HIDE DEF S
<1>3. least \in S /\ \A m \in S : least <= m
  BY <1>2, MinIs
<1> HIDE DEF least
<1>4. R \in SUBSET Nat /\ R # {}
  BY <1>1, <1>3 DEF S
<1>5. Min(R) \in R
  BY <1>4, MinIs
<1>6. LoadCursor = cursors[Min(R)]
  BY DEF LoadCursor, least, S
<1> HIDE DEF R
<1>7. Min(R) \in 1..watched /\ cursors[Min(R)].block = least
  BY <1>5 DEF R
<1>8. \A q \in 1..watched : least <= cursors[q].block
  BY <1>3 DEF S
<1> QED
  BY <1>6, <1>7, <1>8

LEMMA ConfirmedEndIs ==
    ASSUME NEW latest \in Nat, NEW cursor \in Nat, confirmations \in Nat
    PROVE  /\ ConfirmedEnd(latest, cursor) \in Nat
           /\ ConfirmedEnd(latest, cursor) >= cursor
           /\ ConfirmedEnd(latest, cursor) > cursor =>
                 ConfirmedEnd(latest, cursor) + confirmations <= latest
<1> DEFINE safeTip == IF latest < confirmations THEN 0 ELSE latest - confirmations
           most == Min({safeTip, cursor + MaxBlocksPerCycle})
<1>1. safeTip \in Nat /\ cursor + MaxBlocksPerCycle \in Nat
  OBVIOUS
<1>2. ConfirmedEnd(latest, cursor) = Max({cursor, most})
  BY DEF ConfirmedEnd
<1> HIDE DEF safeTip
<1>3. most \in Nat /\ most <= safeTip
  <2>1. most = IF safeTip <= cursor + MaxBlocksPerCycle THEN safeTip
               ELSE cursor + MaxBlocksPerCycle
    BY <1>1, MinOfTwo
  <2> QED
    BY <1>1, <2>1
<1> HIDE DEF most
<1>4. ConfirmedEnd(latest, cursor) = IF cursor <= most THEN most ELSE cursor
  BY <1>2, <1>3, MaxOfTwo
<1> QED
  BY <1>1, <1>3, <1>4 DEF safeTip

(* A market whose volume comes from Sale emits it, and no other does.      *)
Engine(events) == \A i \in DOMAIN events : events[i].type = "Sale" => saleVolume

LEMMA EngineEvents ==
    ASSUME NEW s \in Seq(PricedEvent), NEW t \in Seq(PricedEvent), Engine(s), Engine(t)
    PROVE  Engine(s \o t)
<1>1. /\ s \o t \in Seq(PricedEvent) /\ Len(s \o t) = Len(s) + Len(t)
      /\ \A i \in 1..(Len(s) + Len(t)) :
            (s \o t)[i] = IF i <= Len(s) THEN s[i] ELSE t[i - Len(s)]
  BY ConcatProperties
<1>2. /\ DOMAIN s = 1..Len(s) /\ DOMAIN t = 1..Len(t) /\ DOMAIN (s \o t) = 1..Len(s \o t)
      /\ Len(s) \in Nat /\ Len(t) \in Nat
  BY <1>1, LenProperties
<1> SUFFICES ASSUME NEW i \in 1..(Len(s) + Len(t)), (s \o t)[i].type = "Sale" PROVE saleVolume
  BY <1>1, <1>2 DEF Engine
<1>3. CASE i <= Len(s)
  <2>1. i \in DOMAIN s /\ (s \o t)[i] = s[i]
    BY <1>1, <1>2, <1>3
  <2> QED
    BY <2>1 DEF Engine
<1>4. CASE i > Len(s)
  <2>1. i - Len(s) \in DOMAIN t /\ (s \o t)[i] = t[i - Len(s)]
    BY <1>1, <1>2, <1>4
  <2> QED
    BY <2>1 DEF Engine
<1> QED
  BY <1>2, <1>3, <1>4

LEMMA OperationEngine ==
    ASSUME NEW m \in Market, NEW o \in Operations(m)
    PROVE  Engine(o.events)
<1>1. ASSUME NEW type, NEW via, NEW price, type # "Sale" \/ saleVolume
      PROVE  Engine(<<Emit(type, via, price)>>)
  BY <1>1 DEF Engine, Emit
<1>2. ASSUME NEW p \in Prices PROVE Engine(Purchase(p)) /\ Engine(Acceptance(p))
  <2>1. /\ <<Emit("Sale", "buy", p)>> \in Seq(PricedEvent)
        /\ <<Emit("PurchaseConfirmed", "none", p)>> \in Seq(PricedEvent)
        /\ <<>> \in Seq(PricedEvent)
    BY EmittedTypes
  <2>2. /\ Engine(<<>>)
        /\ Engine(<<Emit("PurchaseConfirmed", "none", p)>>)
        /\ Engine(<<Emit("OfferAccepted", "none", p)>>)
        /\ saleVolume => /\ Engine(<<Emit("Sale", "buy", p)>>)
                         /\ Engine(<<Emit("Sale", "offer", p)>>)
    BY <1>1 DEF Engine
  <2>3. Engine(Purchase(p))
    BY <2>1, <2>2, EngineEvents DEF Purchase
  <2> QED
    BY <2>2, <2>3 DEF Acceptance
<1>3. /\ m.listed # Nothing => m.listed \in Prices
      /\ m.offer # Nothing => m.offer \in Prices
  BY DEF Nothing, Prices, Market
<1>4. CASE m.listed # Nothing /\ o.events = Purchase(m.listed)
  BY <1>2, <1>3, <1>4
<1>5. CASE m.offer # Nothing /\ o.events = Acceptance(m.offer)
  BY <1>2, <1>3, <1>5
<1>6. CASE \E type \in {"Mint", "NFTDelisted", "OfferCancelled", "NFTListed", "OfferMade"} :
              \E p : o.events = <<Emit(type, "none", p)>>
  BY <1>1, <1>6
<1>7. \/ m.listed # Nothing /\ o.events = Purchase(m.listed)
      \/ m.offer # Nothing /\ o.events = Acceptance(m.offer)
      \/ \E type \in {"Mint", "NFTDelisted", "OfferCancelled", "NFTListed", "OfferMade"} :
            \E p : o.events = <<Emit(type, "none", p)>>
  <2>2. \/ o.events = <<Emit("Mint", "none", 0)>>
        \/ o.events = <<Emit("NFTDelisted", "none", 0)>>
        \/ m.listed # Nothing /\ o.events = Purchase(m.listed)
        \/ o.events = <<Emit("OfferCancelled", "none", 0)>>
        \/ m.offer # Nothing /\ o.events = Acceptance(m.offer)
        \/ \E p \in Prices : o.events = <<Emit("NFTListed", "none", p)>>
        \/ \E p \in Prices : o.events = <<Emit("OfferMade", "none", p)>>
    BY DEF Operations, When, After
  <2> QED
    BY <2>2
<1> QED
  BY <1>4, <1>5, <1>6, <1>7

LEMMA BlockEngine ==
    ASSUME NEW m \in Market, NEW b \in Blocks(m)
    PROVE  Engine(b.events)
<1> DEFINE Fits == {o \in Outcome : Engine(o.events)}
           Good == [n \in 0..MaxOps |-> Fits]
<1>1. After(<<>>, m) \in Fits
  BY DEF After, Outcome, Engine
<1>2. ASSUME NEW o \in Fits, NEW p \in Operations(o.market)
      PROVE  After(o.events \o p.events, p.market) \in Fits
  <2>1. o.market \in Market /\ o.events \in Seq(PricedEvent) /\ Engine(o.events)
    BY DEF Outcome
  <2>2. p \in Outcome /\ Engine(p.events)
    BY <2>1, OperationTypes, OperationEngine
  <2>3. p.market \in Market /\ p.events \in Seq(PricedEvent)
    BY <2>2 DEF Outcome
  <2>4. o.events \o p.events \in Seq(PricedEvent) /\ Engine(o.events \o p.events)
    BY <2>1, <2>2, <2>3, ConcatProperties, EngineEvents
  <2> QED
    BY <2>3, <2>4 DEF After, Outcome
<1>3. KeptFrom(m, Good)
  BY <1>1, <1>2 DEF KeptFrom
<1>4. Good[MaxOps] = Fits
  OBVIOUS
<1> HIDE DEF Good
<1> QED
  BY <1>3, <1>4, BlocksWithin

(***************************************************************************)
(* Sequences that only grow.                                               *)
(***************************************************************************)

Extends(s, t) == Len(s) <= Len(t) /\ \A k \in 1..Len(s) : t[k] = s[k]

LEMMA AppendExtends ==
    ASSUME NEW A, NEW s \in Seq(A), NEW x \in A
    PROVE  /\ Extends(s, Append(s, x)) /\ Append(s, x) \in Seq(A)
           /\ Len(Append(s, x)) = Len(s) + 1 /\ Append(s, x)[Len(s) + 1] = x
BY DEF Extends

LEMMA ConcatExtends ==
    ASSUME NEW A, NEW s \in Seq(A), NEW t \in Seq(A)
    PROVE  /\ Extends(s, s \o t) /\ s \o t \in Seq(A) /\ Len(s \o t) = Len(s) + Len(t)
           /\ \A k \in 1..Len(t) : (s \o t)[Len(s) + k] = t[k]
<1>1. /\ s \o t \in Seq(A) /\ Len(s \o t) = Len(s) + Len(t)
      /\ \A i \in 1..(Len(s) + Len(t)) : (s \o t)[i] = IF i <= Len(s) THEN s[i] ELSE t[i - Len(s)]
  BY ConcatProperties
<1>2. Len(s) \in Nat /\ Len(t) \in Nat
  OBVIOUS
<1>3. ASSUME NEW k \in 1..Len(t) PROVE (s \o t)[Len(s) + k] = t[k]
  <2>1. /\ Len(s) + k \in 1..(Len(s) + Len(t)) /\ ~(Len(s) + k <= Len(s))
        /\ (Len(s) + k) - Len(s) = k
    BY <1>2
  <2> QED
    BY <1>1, <2>1
<1>4. \A k \in 1..Len(s) : k \in 1..(Len(s) + Len(t)) /\ k <= Len(s)
  BY <1>2
<1> QED
  BY <1>1, <1>2, <1>3, <1>4 DEF Extends

LEMMA ExtendsAll ==
    ASSUME NEW A, NEW N \in Nat, NEW f \in [0..N -> Seq(A)],
           \A n \in 1..N : Extends(f[n - 1], f[n]),
           NEW m \in 0..N
    PROVE  \A n \in m..N : Extends(f[m], f[n])
<1> DEFINE Good == {n \in m..N : Extends(f[m], f[n])}
<1>1. m \in Good
  BY DEF Extends
<1>2. ASSUME NEW n \in m..N, n # m, n - 1 \in Good PROVE n \in Good
  <2>1. n \in 1..N /\ n - 1 \in 0..N /\ n \in 0..N
    BY <1>2
  <2>2. Extends(f[m], f[n - 1]) /\ Extends(f[n - 1], f[n])
    BY <1>2, <2>1
  <2>3. Len(f[m]) \in Nat /\ Len(f[n - 1]) \in Nat /\ Len(f[n]) \in Nat
    BY <2>1
  <2>4. Extends(f[m], f[n])
    BY <2>2, <2>3 DEF Extends
  <2> QED
    BY <2>4
<1> HIDE DEF Good
<1>3. m \in Nat /\ m <= N
  OBVIOUS
<1>4. \A n \in m..N : n \in Good
  BY <1>1, <1>2, <1>3, CountingUp
<1> QED
  BY <1>4 DEF Good

LEMMA ExtendsSubSeq ==
    ASSUME NEW A, NEW s \in Seq(A), NEW t \in Seq(A), Extends(s, t)
    PROVE  Len(t) >= Len(s) /\ SubSeq(t, 1, Len(s)) = s
<1>1. Len(s) \in Nat /\ Len(t) \in Nat /\ Len(s) <= Len(t)
  BY DEF Extends
<1>2. /\ SubSeq(t, 1, Len(s)) \in Seq(A) /\ Len(SubSeq(t, 1, Len(s))) = Len(s)
      /\ \A k \in 1..Len(s) : SubSeq(t, 1, Len(s))[k] = t[k]
  <2>1. \A k \in 1..Len(s) : k \in 1..Len(t) /\ t[k] \in A
    BY <1>1
  <2>2. SubSeq(t, 1, Len(s)) = [k \in 1..Len(s) |-> t[k]]
    BY <1>1
  <2> QED
    BY <1>1, <2>1, <2>2
<1>3. \A k \in 1..Len(s) : SubSeq(t, 1, Len(s))[k] = s[k]
  BY <1>2 DEF Extends
<1>4. SubSeq(t, 1, Len(s)) = s
  BY <1>1, <1>2, <1>3, SeqEqual
<1> QED
  BY <1>1, <1>4

(***************************************************************************)
(* The prices of the sales in a block, and the feed of a chain.            *)
(***************************************************************************)

(* Of the numbers up to n, the values of those that are kept, in order.    *)
Collects(f, N, keep, value) ==
    f = [n \in 0..N |->
            IF n = 0 THEN <<>>
            ELSE IF n \in keep THEN Append(f[n - 1], value[n]) ELSE f[n - 1]]

LEMMA CollectExists ==
    ASSUME NEW N \in Nat, NEW A, NEW keep \in SUBSET (1..N), NEW value \in [keep -> A]
    PROVE  \E f \in [0..N -> Seq(A)] : Collects(f, N, keep, value)
<1> DEFINE step == [p \in (1..N) \X Seq(A) |->
                       IF p[1] \in keep THEN Append(p[2], value[p[1]]) ELSE p[2]]
<1>1. \A n \in 1..N : \A x \in Seq(A) :
         step[<<n, x>>] = IF n \in keep THEN Append(x, value[n]) ELSE x
  OBVIOUS
<1>2. step \in [(1..N) \X Seq(A) -> Seq(A)]
  <2>1. \A p \in (1..N) \X Seq(A) :
          (IF p[1] \in keep THEN Append(p[2], value[p[1]]) ELSE p[2]) \in Seq(A)
    OBVIOUS
  <2> QED
    BY <2>1
<1> HIDE DEF step
<1>3. PICK f \in [0..N -> Seq(A)] : Builds(f, N, step)
  BY <1>2, BuildExists
<1>4. ASSUME NEW n \in 0..N, n # 0
      PROVE  step[<<n, f[n - 1]>>] =
                IF n \in keep THEN Append(f[n - 1], value[n]) ELSE f[n - 1]
  <2>1. n \in 1..N /\ n - 1 \in 0..N
    BY <1>4
  <2>2. f[n - 1] \in Seq(A)
    BY <2>1
  <2> QED
    BY <1>1, <2>1, <2>2
<1> QED
  BY <1>3, <1>4 DEF Builds, Collects

(* It grows by the values kept, and counts them.                           *)
CollectsGrow(f, N, keep, value) ==
    \A n \in 1..N :
       /\ n \in keep => /\ f[n][Len(f[n - 1]) + 1] = value[n]
                        /\ Len(f[n]) = Len(f[n - 1]) + 1
       /\ n \notin keep => f[n] = f[n - 1]
       /\ Extends(f[n - 1], f[n])

LEMMA CollectIs ==
    ASSUME NEW N \in Nat, NEW A, NEW keep \in SUBSET (1..N), NEW value \in [keep -> A],
           NEW f \in [0..N -> Seq(A)], Collects(f, N, keep, value)
    PROVE  f[0] = <<>> /\ CollectsGrow(f, N, keep, value)
<1>1. f[0] = <<>>
  BY DEF Collects
<1>2. ASSUME NEW n \in 1..N
      PROVE  /\ n \in keep => /\ f[n][Len(f[n - 1]) + 1] = value[n]
                              /\ Len(f[n]) = Len(f[n - 1]) + 1
             /\ n \notin keep => f[n] = f[n - 1]
             /\ Extends(f[n - 1], f[n])
  <2>1. n \in 0..N /\ n # 0 /\ n - 1 \in 0..N
    OBVIOUS
  <2>2. f[n] = IF n \in keep THEN Append(f[n - 1], value[n]) ELSE f[n - 1]
    BY <2>1 DEF Collects
  <2>3. f[n - 1] \in Seq(A)
    BY <2>1
  <2>4. CASE n \in keep
    <3>1. value[n] \in A
      BY <2>4
    <3> QED
      BY <2>2, <2>3, <2>4, <3>1, AppendExtends
  <2>5. CASE n \notin keep
    BY <2>2, <2>3, <2>5 DEF Extends
  <2> QED
    BY <2>4, <2>5
<1> QED
  BY <1>1, <1>2 DEF CollectsGrow

LEMMA CollectUnique ==
    ASSUME NEW N \in Nat, NEW keep, NEW value, NEW f, NEW g,
           Collects(f, N, keep, value), Collects(g, N, keep, value)
    PROVE  \A n \in 0..N : f[n] = g[n]
<1> DEFINE Same == {n \in 0..N : f[n] = g[n]}
<1>1. 0 \in Same
  BY DEF Collects
<1>2. ASSUME NEW n \in 0..N, n # 0, n - 1 \in Same PROVE n \in Same
  BY <1>2 DEF Collects
<1> HIDE DEF Same
<1>3. \A n \in 0..N : n \in Same
  BY <1>1, <1>2, CountingUp
<1> QED
  BY <1>3 DEF Same

(* The kinds of events that stand for a settlement, and their prices.      *)
PriceKinds == {{"Sale"}, {"PurchaseConfirmed", "OfferAccepted"}}
SaleAt(events, kinds) == {n \in 1..Len(events) : events[n].type \in kinds}
PriceAt(events, kinds) == [n \in SaleAt(events, kinds) |-> events[n].price]

PricesOf(events, kinds) ==
    LET upTo[n \in 0..Len(events)] ==
            IF n = 0 THEN <<>>
            ELSE IF events[n].type \in kinds THEN Append(upTo[n - 1], events[n].price)
            ELSE upTo[n - 1]
    IN upTo[Len(events)]

LEMMA PricesOfIs ==
    ASSUME NEW events \in Seq(PricedEvent), NEW kinds \in PriceKinds
    PROVE  /\ SaleAt(events, kinds) \in SUBSET (1..Len(events))
           /\ PriceAt(events, kinds) \in [SaleAt(events, kinds) -> Prices]
           /\ \E f \in [0..Len(events) -> Seq(Prices)] :
                 /\ Collects(f, Len(events), SaleAt(events, kinds), PriceAt(events, kinds))
                 /\ PricesOf(events, kinds) = f[Len(events)]
<1> DEFINE N == Len(events)
           keep == SaleAt(events, kinds)
           value == PriceAt(events, kinds)
           To(f) == f = [n \in 0..Len(events) |->
                           IF n = 0 THEN <<>>
                           ELSE IF events[n].type \in kinds
                                THEN Append(f[n - 1], events[n].price)
                                ELSE f[n - 1]]
           up == CHOOSE f : To(f)
<1>1. N \in Nat /\ \A n \in 1..N : events[n] \in PricedEvent
  OBVIOUS
<1>2. keep \in SUBSET (1..N) /\ \A n \in 1..N : n \in keep <=> events[n].type \in kinds
  BY DEF SaleAt
<1>3. value \in [keep -> Prices] /\ \A n \in keep : value[n] = events[n].price
  <2>1. \A n \in keep : events[n].price \in Prices
    BY <1>1, <1>2 DEF PricedEvent, PriceKinds
  <2> QED
    BY <2>1 DEF PriceAt
<1>4. PricesOf(events, kinds) = up[N]
  BY DEF PricesOf
<1> HIDE DEF keep, value, up
<1>5. \A f : To(f) <=> Collects(f, N, keep, value)
  <2> SUFFICES ASSUME NEW f PROVE To(f) <=> Collects(f, N, keep, value)
    OBVIOUS
  <2>1. \A n \in 0..N :
          (IF n = 0 THEN <<>>
           ELSE IF events[n].type \in kinds THEN Append(f[n - 1], events[n].price)
           ELSE f[n - 1])
          = (IF n = 0 THEN <<>>
             ELSE IF n \in keep THEN Append(f[n - 1], value[n]) ELSE f[n - 1])
    BY <1>1, <1>2, <1>3
  <2> QED
    BY <2>1 DEF Collects
<1>6. PICK g \in [0..N -> Seq(Prices)] : Collects(g, N, keep, value)
  BY <1>1, <1>2, <1>3, CollectExists
<1>7. To(up)
  BY <1>5, <1>6 DEF up
<1> HIDE DEF To
<1>8. Collects(up, N, keep, value)
  BY <1>5, <1>7
<1>9. up[N] = g[N]
  <2>1. \A n \in 0..N : up[n] = g[n]
    BY <1>1, <1>6, <1>8, CollectUnique
  <2> QED
    BY <1>1, <2>1
<1> QED
  BY <1>2, <1>3, <1>4, <1>6, <1>9 DEF keep, value

(* One sequence after another.                                             *)
Then(s, t) == s \o t
Joins(g, N, seqs) == g = [n \in 0..N |-> IF n = 0 THEN <<>> ELSE Then(g[n - 1], seqs[n])]

JoinsFrom(g, N, seqs) == g[0] = <<>> /\ \A n \in 1..N : g[n] = Then(g[n - 1], seqs[n])

LEMMA JoinStep ==
    ASSUME NEW N \in Nat, NEW seqs, NEW g, Joins(g, N, seqs)
    PROVE  JoinsFrom(g, N, seqs)
<1>1. g[0] = <<>>
  BY DEF Joins
<1>2. \A n \in 1..N : n \in 0..N /\ n # 0
  OBVIOUS
<1>3. \A n \in 0..N : n # 0 => g[n] = Then(g[n - 1], seqs[n])
  BY DEF Joins
<1> QED
  BY <1>1, <1>2, <1>3 DEF JoinsFrom

LEMMA JoinExists ==
    ASSUME NEW N \in Nat, NEW A, NEW seqs \in [1..N -> Seq(A)]
    PROVE  \E g \in [0..N -> Seq(A)] : Joins(g, N, seqs)
<1> DEFINE step == [p \in (1..N) \X Seq(A) |-> Then(p[2], seqs[p[1]])]
<1>1. ASSUME NEW n \in 1..N, NEW x \in Seq(A)
      PROVE  step[<<n, x>>] = Then(x, seqs[n]) /\ Then(x, seqs[n]) \in Seq(A)
  <2>1. seqs[n] \in Seq(A)
    OBVIOUS
  <2> QED
    BY <2>1, ConcatProperties DEF Then
<1>2. step \in [(1..N) \X Seq(A) -> Seq(A)]
  <2>1. \A p \in (1..N) \X Seq(A) : Then(p[2], seqs[p[1]]) \in Seq(A)
    BY <1>1
  <2> QED
    BY <2>1
<1> HIDE DEF step
<1>3. PICK g \in [0..N -> Seq(A)] : Builds(g, N, step)
  BY <1>2, BuildExists
<1>4. ASSUME NEW n \in 0..N, n # 0 PROVE step[<<n, g[n - 1]>>] = Then(g[n - 1], seqs[n])
  <2>1. n \in 1..N /\ n - 1 \in 0..N
    BY <1>4
  <2>2. g[n - 1] \in Seq(A)
    BY <2>1
  <2> QED
    BY <1>1, <2>1, <2>2
<1> QED
  BY <1>3, <1>4 DEF Builds, Joins

JoinsGrow(g, N, seqs) ==
    \A n \in 1..N :
       /\ Len(g[n]) = Len(g[n - 1]) + Len(seqs[n])
       /\ \A k \in 1..Len(seqs[n]) : g[n][Len(g[n - 1]) + k] = seqs[n][k]
       /\ Extends(g[n - 1], g[n])

LEMMA JoinIs ==
    ASSUME NEW N \in Nat, NEW A, NEW seqs \in [1..N -> Seq(A)],
           NEW g \in [0..N -> Seq(A)], Joins(g, N, seqs)
    PROVE  JoinsGrow(g, N, seqs)
<1>2. ASSUME NEW n \in 1..N
      PROVE  /\ Len(g[n]) = Len(g[n - 1]) + Len(seqs[n])
             /\ \A k \in 1..Len(seqs[n]) : g[n][Len(g[n - 1]) + k] = seqs[n][k]
             /\ Extends(g[n - 1], g[n])
  <2>1. n \in 0..N /\ n # 0 /\ n - 1 \in 0..N
    OBVIOUS
  <2>2. g[n] = Then(g[n - 1], seqs[n])
    <3>1. JoinsFrom(g, N, seqs)
      BY JoinStep
    <3> QED
      BY <3>1 DEF JoinsFrom
  <2>3. g[n - 1] \in Seq(A) /\ seqs[n] \in Seq(A)
    BY <2>1
  <2>4. PICK x \in Seq(A), y \in Seq(A) : x = g[n - 1] /\ y = seqs[n]
    BY <2>3
  <2>5. /\ Extends(x, x \o y) /\ Len(x \o y) = Len(x) + Len(y)
        /\ \A k \in 1..Len(y) : (x \o y)[Len(x) + k] = y[k]
    BY ConcatExtends
  <2> QED
    BY <2>2, <2>4, <2>5 DEF Then
<1> QED
  BY <1>2 DEF JoinsGrow

(* FlattenSeq joins.                                                       *)
LEMMA FlattenIs ==
    ASSUME NEW N \in Nat, NEW A, NEW seqs \in [1..N -> Seq(A)],
           NEW g \in [0..N -> Seq(A)], Joins(g, N, seqs)
    PROVE  FlattenSeq(seqs) = g[N]
<1>1. seqs \in Seq(Seq(A)) /\ Len(seqs) = N
  OBVIOUS
<1> DEFINE To(f) == f = [i \in 1..Len(seqs) |->
                            IF i = 1 THEN seqs[i] ELSE Then(f[i - 1], seqs[i])]
           flatten == CHOOSE f : To(f)
<1>2. FlattenSeq(seqs) = IF Len(seqs) = 0 THEN seqs ELSE flatten[Len(seqs)]
  BY DEF FlattenSeq, Then
<1>3. g[0] = <<>> /\ \A n \in 1..N : g[n] = Then(g[n - 1], seqs[n])
  <2>1. JoinsFrom(g, N, seqs)
    BY JoinStep
  <2> QED
    BY <2>1 DEF JoinsFrom
<1>4. CASE N = 0
  <2>1. seqs = <<>> /\ g[N] = <<>>
    BY <1>1, <1>3, <1>4
  <2> QED
    BY <1>1, <1>2, <1>4, <2>1
<1>5. CASE N # 0
  <2>1. ASSUME NEW i \in 1..N
        PROVE  g[i] = IF i = 1 THEN seqs[i] ELSE Then(g[i - 1], seqs[i])
    <3>1. CASE i = 1
      <4>1. seqs[i] \in Seq(A) /\ i - 1 = 0 /\ g[i] = Then(g[i - 1], seqs[i])
        <5>1. seqs[i] \in Seq(A)
          OBVIOUS
        <5>2. i - 1 = 0
          BY <3>1
        <5> QED
          BY <1>3, <5>1, <5>2
      <4>2. Then(<<>>, seqs[i]) = seqs[i]
        BY <4>1 DEF Then
      <4> QED
        BY <1>3, <3>1, <4>1, <4>2
    <3> QED
      BY <1>3, <3>1
  <2> DEFINE f == [i \in 1..N |-> g[i]]
  <2>2. ASSUME NEW i \in 1..N
        PROVE  f[i] = IF i = 1 THEN seqs[i] ELSE Then(f[i - 1], seqs[i])
    <3>1. i # 1 => i - 1 \in 1..N
      OBVIOUS
    <3> QED
      BY <2>1, <3>1
  <2>3. f = [i \in 1..N |-> f[i]]
    OBVIOUS
  <2> HIDE DEF f
  <2>4. f = [i \in 1..N |-> IF i = 1 THEN seqs[i] ELSE Then(f[i - 1], seqs[i])]
    BY <2>2, <2>3
  <2>5. To(flatten)
    BY <1>1, <2>4
  <2> HIDE DEF flatten
  <2> DEFINE Same == {i \in 1..N : flatten[i] = g[i]}
  <2>6. 1 \in Same
    <3>1. 1 \in 1..N
      BY <1>5
    <3>2. flatten[1] = seqs[1]
      BY <1>1, <2>5, <3>1
    <3> QED
      BY <2>1, <3>1, <3>2
  <2>7. ASSUME NEW i \in 1..N, i # 1, i - 1 \in Same PROVE i \in Same
    <3>1. flatten[i] = Then(flatten[i - 1], seqs[i])
      BY <1>1, <2>5, <2>7
    <3> QED
      BY <2>1, <2>7, <3>1
  <2> HIDE DEF Same, To
  <2>8. \A i \in 1..N : i \in Same
    BY <1>5, <2>6, <2>7, CountingUp
  <2>9. flatten[N] = g[N]
    BY <1>5, <2>8 DEF Same
  <2> QED
    BY <1>1, <1>2, <1>5, <2>9
<1> QED
  BY <1>4, <1>5

(* The feed of the first n blocks of a chain c.                            *)
PriceSeqs(c, n, kinds) == [b \in 1..n |-> PricesOf(c[b].events, kinds)]
FinalOf(c, n, kinds) == FlattenSeq(PriceSeqs(c, n, kinds))

LEMMA FinalIs ==
    ASSUME NEW c \in Seq(PricedBlock), NEW n \in 0..Len(c), NEW kinds \in PriceKinds
    PROVE  /\ PriceSeqs(c, n, kinds) \in [1..n -> Seq(Prices)]
           /\ \E g \in [0..n -> Seq(Prices)] :
                 Joins(g, n, PriceSeqs(c, n, kinds)) /\ FinalOf(c, n, kinds) = g[n]
<1>1. n \in Nat /\ \A b \in 1..n : c[b] \in PricedBlock
  OBVIOUS
<1>2. \A b \in 1..n : PricesOf(c[b].events, kinds) \in Seq(Prices)
  <2> SUFFICES ASSUME NEW b \in 1..n PROVE PricesOf(c[b].events, kinds) \in Seq(Prices)
    OBVIOUS
  <2>1. PICK events \in Seq(PricedEvent) : events = c[b].events
    BY <1>1 DEF PricedBlock
  <2>2. PICK f \in [0..Len(events) -> Seq(Prices)] : PricesOf(events, kinds) = f[Len(events)]
    BY PricesOfIs
  <2>3. Len(events) \in 0..Len(events)
    OBVIOUS
  <2> QED
    BY <2>1, <2>2, <2>3
<1>3. PriceSeqs(c, n, kinds) \in [1..n -> Seq(Prices)]
  BY <1>2 DEF PriceSeqs
<1>4. PICK g \in [0..n -> Seq(Prices)] : Joins(g, n, PriceSeqs(c, n, kinds))
  BY <1>1, <1>3, JoinExists
<1>5. FinalOf(c, n, kinds) = g[n]
  BY <1>1, <1>3, <1>4, FlattenIs DEF FinalOf
<1> QED
  BY <1>3, <1>4, <1>5

(* A chain that keeps its first n blocks keeps their feed.                 *)
LEMMA FinalGrows ==
    ASSUME NEW c \in Seq(PricedBlock), NEW n \in 0..Len(c),
           NEW d \in Seq(PricedBlock), NEW m \in n..Len(d),
           \A b \in 1..n : d[b] = c[b], NEW kinds \in PriceKinds
    PROVE  /\ FinalOf(c, n, kinds) \in Seq(Prices) /\ FinalOf(d, m, kinds) \in Seq(Prices)
           /\ Extends(FinalOf(c, n, kinds), FinalOf(d, m, kinds))
<1>1. n \in Nat /\ m \in Nat /\ m \in 0..Len(d)
  OBVIOUS
<1>2. PICK seqs \in [1..n -> Seq(Prices)] : seqs = PriceSeqs(c, n, kinds)
  BY FinalIs
<1>3. PICK tseqs \in [1..m -> Seq(Prices)] : tseqs = PriceSeqs(d, m, kinds)
  BY <1>1, FinalIs
<1>4. PICK g \in [0..n -> Seq(Prices)] : Joins(g, n, seqs) /\ FinalOf(c, n, kinds) = g[n]
  BY <1>2, FinalIs
<1>5. PICK h \in [0..m -> Seq(Prices)] : Joins(h, m, tseqs) /\ FinalOf(d, m, kinds) = h[m]
  BY <1>1, <1>3, FinalIs
<1>6. \A b \in 1..n : tseqs[b] = seqs[b]
  BY <1>1, <1>2, <1>3 DEF PriceSeqs
<1> DEFINE Same == {b \in 0..n : h[b] = g[b]}
<1>15. g[0] = <<>> /\ \A b \in 1..n : g[b] = Then(g[b - 1], seqs[b])
  <2>1. JoinsFrom(g, n, seqs)
    BY <1>1, <1>4, JoinStep
  <2> QED
    BY <2>1 DEF JoinsFrom
<1>16. h[0] = <<>> /\ \A b \in 1..m : h[b] = Then(h[b - 1], tseqs[b])
  <2>1. JoinsFrom(h, m, tseqs)
    BY <1>1, <1>5, JoinStep
  <2> QED
    BY <2>1 DEF JoinsFrom
<1>7. 0 \in Same
  BY <1>1, <1>15, <1>16
<1>8. ASSUME NEW b \in 0..n, b # 0, b - 1 \in Same PROVE b \in Same
  <2>1. b \in 1..n /\ b \in 1..m
    BY <1>8
  <2>2. g[b] = Then(g[b - 1], seqs[b]) /\ h[b] = Then(h[b - 1], tseqs[b])
    BY <1>15, <1>16, <2>1
  <2> QED
    BY <1>6, <1>8, <2>1, <2>2
<1> HIDE DEF Same
<1>9. \A b \in 0..n : b \in Same
  BY <1>1, <1>7, <1>8, CountingUp
<1>10. h[n] = g[n]
  BY <1>1, <1>9 DEF Same
<1>11. \A b \in 1..m : Extends(h[b - 1], h[b])
  <2>1. JoinsGrow(h, m, tseqs)
    BY <1>1, <1>5, JoinIs
  <2> QED
    BY <2>1 DEF JoinsGrow
<1>12. n \in 0..m /\ m \in n..m
  BY <1>1
<1>13. Extends(h[n], h[m])
  BY <1>1, <1>11, <1>12, ExtendsAll
<1>14. g[n] \in Seq(Prices) /\ h[m] \in Seq(Prices)
  BY <1>1
<1> QED
  BY <1>4, <1>5, <1>10, <1>13, <1>14

LEMMA BlockEvents ==
    ASSUME NEW c \in Seq(PricedBlock), NEW h \in 1..Len(c)
    PROVE  c[h].events \in Seq(PricedEvent)
<1>1. c[h] \in PricedBlock
  OBVIOUS
<1> QED
  BY <1>1 DEF PricedBlock

(* The sales table the first n events of a block, and the first h blocks   *)
(* of a chain c, make.                                                     *)
SaleOf(b, i, e) == [block |-> b, index |-> i, price |-> e.price]
RowsIn(b, events, n, kinds) ==
    {SaleOf(b, i, events[i]) : i \in {j \in 1..n : events[j].type \in kinds}}
RowsOf(c, h, kinds) ==
    UNION {RowsIn(b, c[b].events, Len(c[b].events), kinds) : b \in 1..h}

LEMMA RowsApart ==
    ASSUME NEW c, NEW h \in Nat \ {0}, NEW kinds, NEW events, NEW n
    PROVE  RowsOf(c, h - 1, kinds) \cap RowsIn(h, events, n, kinds) = {}
<1>1. \A s \in RowsOf(c, h - 1, kinds) : s.block \in 1..(h - 1)
  BY DEF RowsOf, RowsIn, SaleOf
<1>2. \A s \in RowsIn(h, events, n, kinds) : s.block = h
  BY DEF RowsIn, SaleOf
<1>3. h \notin 1..(h - 1)
  OBVIOUS
<1> QED
  BY <1>1, <1>2, <1>3

LEMMA ApartAdd ==
    ASSUME NEW S, NEW T, IsFiniteSet(S), IsFiniteSet(T), S \cap T = {}
    PROVE  /\ IsFiniteSet(S \cup T)
           /\ Cardinality(S \cup T) = Cardinality(S) + Cardinality(T)
           /\ Cardinality(S) \in Nat /\ Cardinality(T) \in Nat
<1>1. /\ IsFiniteSet(S \cup T)
      /\ Cardinality(S \cup T) = Cardinality(S) + Cardinality(T) - Cardinality(S \cap T)
  BY FS_Union
<1>2. Cardinality(S \cap T) = 0
  BY FS_EmptySet
<1>3. Cardinality(S) \in Nat /\ Cardinality(T) \in Nat
  BY FS_CardinalityType
<1> QED
  BY <1>1, <1>2, <1>3

(* There are as many of them as prices.                                    *)
CountsIn(b, events, kinds, f) ==
    \A n \in 0..Len(events) : /\ IsFiniteSet(RowsIn(b, events, n, kinds))
                              /\ Cardinality(RowsIn(b, events, n, kinds)) = Len(f[n])
CountsOf(c, n, kinds, g) ==
    \A h \in 0..n : /\ IsFiniteSet(RowsOf(c, h, kinds))
                    /\ Cardinality(RowsOf(c, h, kinds)) = Len(g[h])

LEMMA RowsInCount ==
    ASSUME NEW b, NEW events \in Seq(PricedEvent), NEW kinds \in PriceKinds,
           NEW f \in [0..Len(events) -> Seq(Prices)],
           Collects(f, Len(events), SaleAt(events, kinds), PriceAt(events, kinds))
    PROVE  CountsIn(b, events, kinds, f)
<1> DEFINE N == Len(events)
           keep == SaleAt(events, kinds)
           Rows(n) == RowsIn(b, events, n, kinds)
           Good == {n \in 0..N : IsFiniteSet(Rows(n)) /\ Cardinality(Rows(n)) = Len(f[n])}
<1>1. N \in Nat /\ \A n \in 1..N : n \in keep <=> events[n].type \in kinds
  BY DEF SaleAt
<1>2. /\ f[0] = <<>>
      /\ CollectsGrow(f, N, keep, PriceAt(events, kinds))
  <2>1. /\ keep \in SUBSET (1..N)
        /\ PriceAt(events, kinds) \in [keep -> Prices]
    BY PricesOfIs
  <2> HIDE DEF keep
  <2> QED
    BY <1>1, <2>1, CollectIs DEF keep
<1>3. 0 \in Good
  <2>1. Rows(0) = {}
    BY DEF RowsIn
  <2>2. IsFiniteSet(Rows(0)) /\ Cardinality(Rows(0)) = 0
    BY <2>1, FS_EmptySet
  <2>3. Len(f[0]) = 0 /\ 0 \in 0..N
    BY <1>1, <1>2
  <2> QED
    BY <2>2, <2>3
<1>4. ASSUME NEW n \in 0..N, n # 0, n - 1 \in Good PROVE n \in Good
  <2>1. n \in 1..N /\ n \in Nat /\ n - 1 \in 0..N
    BY <1>1, <1>4
  <2>2. \A j \in 1..n : j = n \/ j \in 1..(n - 1)
    BY <2>1
  <2>3. \A j \in 1..(n - 1) : j \in 1..n /\ j # n
    BY <2>1
  <2>4. IsFiniteSet(Rows(n - 1)) /\ Cardinality(Rows(n - 1)) = Len(f[n - 1])
    BY <1>4
  <2>5. CASE n \in keep
    <3>1. Rows(n) = Rows(n - 1) \cup {SaleOf(b, n, events[n])}
      <4>1. events[n].type \in kinds /\ n \in 1..n
        BY <1>1, <2>1, <2>5
      <4> QED
        BY <2>2, <2>3, <4>1 DEF RowsIn
    <3>2. SaleOf(b, n, events[n]) \notin Rows(n - 1)
      <4>1. \A j \in 1..(n - 1) : SaleOf(b, j, events[j]) # SaleOf(b, n, events[n])
        BY <2>3 DEF SaleOf
      <4> QED
        BY <4>1 DEF RowsIn
    <3> HIDE DEF Rows
    <3>3. IsFiniteSet(Rows(n)) /\ Cardinality(Rows(n)) = Cardinality(Rows(n - 1)) + 1
      BY <2>4, <3>1, <3>2, FS_AddElement
    <3>4. Len(f[n]) = Len(f[n - 1]) + 1
      BY <1>2, <2>1, <2>5 DEF CollectsGrow
    <3> QED
      BY <2>1, <2>4, <3>3, <3>4
  <2>6. CASE n \notin keep
    <3>1. Rows(n) = Rows(n - 1)
      <4>1. ~(events[n].type \in kinds)
        BY <1>1, <2>1, <2>6
      <4> QED
        BY <2>2, <2>3, <4>1 DEF RowsIn
    <3>2. f[n] = f[n - 1]
      BY <1>2, <2>1, <2>6 DEF CollectsGrow
    <3> QED
      BY <2>1, <2>4, <3>1, <3>2
  <2> QED
    BY <2>5, <2>6
<1> HIDE DEF Good
<1>5. \A n \in 0..N : n \in Good
  BY <1>1, <1>3, <1>4, CountingUp
<1> QED
  BY <1>5 DEF Good, CountsIn

LEMMA RowsOfCount ==
    ASSUME NEW c \in Seq(PricedBlock), NEW n \in 0..Len(c), NEW kinds \in PriceKinds,
           NEW g \in [0..n -> Seq(Prices)], Joins(g, n, PriceSeqs(c, n, kinds))
    PROVE  CountsOf(c, n, kinds, g)
<1> DEFINE Good == {h \in 0..n : /\ IsFiniteSet(RowsOf(c, h, kinds))
                                 /\ Cardinality(RowsOf(c, h, kinds)) = Len(g[h])}
<1>1. n \in Nat /\ n <= Len(c)
  OBVIOUS
<1>2. PICK seqs \in [1..n -> Seq(Prices)] : seqs = PriceSeqs(c, n, kinds)
  BY FinalIs
<1>3. g[0] = <<>> /\ JoinsGrow(g, n, seqs)
  <2>1. JoinsGrow(g, n, seqs)
    BY <1>1, <1>2, JoinIs
  <2>2. JoinsFrom(g, n, seqs)
    BY <1>1, <1>2, JoinStep
  <2> QED
    BY <2>1, <2>2 DEF JoinsFrom
<1>4. 0 \in Good
  <2>1. RowsOf(c, 0, kinds) = {}
    BY DEF RowsOf
  <2>2. IsFiniteSet(RowsOf(c, 0, kinds)) /\ Cardinality(RowsOf(c, 0, kinds)) = 0
    BY <2>1, FS_EmptySet
  <2>3. Len(g[0]) = 0 /\ 0 \in 0..n
    BY <1>1, <1>3
  <2> QED
    BY <2>2, <2>3
<1>5. ASSUME NEW h \in 0..n, h # 0, h - 1 \in Good PROVE h \in Good
  <2>1. h \in 1..n /\ h \in Nat \ {0} /\ h \in 1..Len(c)
    BY <1>1, <1>5
  <2>2. PICK events \in Seq(PricedEvent) : events = c[h].events
    BY <2>1, BlockEvents
  <2>3. PICK f \in [0..Len(events) -> Seq(Prices)] :
           /\ Collects(f, Len(events), SaleAt(events, kinds), PriceAt(events, kinds))
           /\ PricesOf(events, kinds) = f[Len(events)]
    BY PricesOfIs
  <2>4. seqs[h] = f[Len(events)]
    BY <1>2, <2>1, <2>2, <2>3 DEF PriceSeqs
  <2> DEFINE S == RowsOf(c, h - 1, kinds)
             T == RowsIn(h, events, Len(events), kinds)
  <2>5. IsFiniteSet(T) /\ Cardinality(T) = Len(seqs[h])
    <3>1. CountsIn(h, events, kinds, f)
      BY <2>3, RowsInCount
    <3>2. Len(events) \in 0..Len(events)
      OBVIOUS
    <3> QED
      BY <2>4, <3>1, <3>2 DEF CountsIn
  <2>6. IsFiniteSet(S) /\ Cardinality(S) = Len(g[h - 1])
    BY <1>5
  <2>7. RowsOf(c, h, kinds) = S \cup T
    <3>1. \A b : b \in 1..h <=> b \in 1..(h - 1) \/ b = h
      BY <2>1
    <3> QED
      BY <2>2, <3>1 DEF RowsOf
  <2>8. S \cap T = {}
    BY <2>1, RowsApart
  <2> HIDE DEF S, T
  <2>9. IsFiniteSet(S \cup T) /\ Cardinality(S \cup T) = Cardinality(S) + Cardinality(T)
    BY <2>5, <2>6, <2>8, ApartAdd
  <2>10. Len(g[h]) = Len(g[h - 1]) + Len(seqs[h])
    BY <1>3, <2>1 DEF JoinsGrow
  <2> QED
    BY <2>5, <2>6, <2>7, <2>9, <2>10
<1> HIDE DEF Good
<1>6. \A h \in 0..n : h \in Good
  BY <1>1, <1>4, <1>5, CountingUp
<1> QED
  BY <1>6 DEF Good, CountsOf

(* With the sales before it in the table, a sale is the next in the feed.  *)
PlaceOf(events, kinds, i, b, j) ==
    /\ j \in 1..Len(PricesOf(events, kinds))
    /\ IsFiniteSet(RowsIn(b, events, i - 1, kinds))
    /\ Cardinality(RowsIn(b, events, i - 1, kinds)) = j - 1
    /\ PricesOf(events, kinds)[j] = events[i].price

LEMMA NextInBlock ==
    ASSUME NEW events \in Seq(PricedEvent), NEW kinds \in PriceKinds,
           NEW i \in 1..Len(events), events[i].type \in kinds, NEW b
    PROVE  \E j \in Nat : PlaceOf(events, kinds, i, b, j)
<1> DEFINE N == Len(events)
           keep == SaleAt(events, kinds)
           value == PriceAt(events, kinds)
<1>1. PICK f \in [0..N -> Seq(Prices)] :
         Collects(f, N, keep, value) /\ PricesOf(events, kinds) = f[N]
  BY PricesOfIs
<1>2. keep \in SUBSET (1..N) /\ value \in [keep -> Prices]
  BY PricesOfIs
<1>3. i \in keep /\ value[i] = events[i].price
  BY DEF SaleAt, PriceAt
<1>4. N \in Nat /\ i \in 1..N /\ i - 1 \in 0..N /\ i \in 0..N /\ N \in i..N
  OBVIOUS
<1>5. CountsIn(b, events, kinds, f)
  BY <1>1, RowsInCount
<1> HIDE DEF N, keep, value
<1>6. CollectsGrow(f, N, keep, value)
  BY <1>1, <1>2, <1>4, CollectIs
<1>7. f[i][Len(f[i - 1]) + 1] = value[i] /\ Len(f[i]) = Len(f[i - 1]) + 1
  BY <1>3, <1>4, <1>6 DEF CollectsGrow
<1>8. \A n \in 1..N : Extends(f[n - 1], f[n])
  BY <1>6 DEF CollectsGrow
<1>9. Extends(f[i], f[N])
  BY <1>4, <1>8, ExtendsAll
<1>10. Len(f[i - 1]) \in Nat /\ Len(f[N]) \in Nat
  BY <1>4
<1>11. PICK j \in Nat : j = Len(f[i - 1]) + 1 /\ j - 1 = Len(f[i - 1])
  BY <1>10
<1>12. j \in 1..Len(f[i]) /\ f[i][j] = value[i] /\ Len(f[i]) \in Nat /\ j >= 1
  BY <1>7, <1>10, <1>11
<1>13. j \in 1..Len(f[N]) /\ f[N][j] = value[i]
  BY <1>9, <1>10, <1>12 DEF Extends
<1>14. /\ IsFiniteSet(RowsIn(b, events, i - 1, kinds))
       /\ Cardinality(RowsIn(b, events, i - 1, kinds)) = Len(f[i - 1])
  BY <1>4, <1>5 DEF CountsIn, N
<1> QED
  BY <1>1, <1>3, <1>11, <1>13, <1>14 DEF PlaceOf

NextIs(S, feed, price) ==
    /\ Cardinality(S) \in Nat /\ Cardinality(S) < Len(feed)
    /\ feed[Cardinality(S) + 1] = price

LEMMA NextInFeed ==
    ASSUME NEW c \in Seq(PricedBlock), NEW n \in 0..Len(c), NEW kinds \in PriceKinds,
           NEW h \in 1..n, NEW events \in Seq(PricedEvent), events = c[h].events,
           NEW i \in 1..Len(events), events[i].type \in kinds,
           NEW S, S = RowsOf(c, h - 1, kinds) \cup RowsIn(h, events, i - 1, kinds)
    PROVE  NextIs(S, FinalOf(c, n, kinds), events[i].price)
<1>1. /\ n \in Nat /\ h \in Nat \ {0} /\ h - 1 \in 0..n /\ h \in 0..n /\ n \in h..n
      /\ n \in 0..n
  OBVIOUS
<1>2. PICK seqs \in [1..n -> Seq(Prices)] : seqs = PriceSeqs(c, n, kinds)
  BY FinalIs
<1>3. PICK g \in [0..n -> Seq(Prices)] : Joins(g, n, seqs) /\ FinalOf(c, n, kinds) = g[n]
  BY <1>2, FinalIs
<1>4. seqs[h] = PricesOf(events, kinds)
  BY <1>2 DEF PriceSeqs
<1>16. PICK j \in Nat : PlaceOf(events, kinds, i, h, j)
  BY NextInBlock
<1>5. /\ j \in 1..Len(seqs[h]) /\ seqs[h][j] = events[i].price
      /\ IsFiniteSet(RowsIn(h, events, i - 1, kinds))
      /\ Cardinality(RowsIn(h, events, i - 1, kinds)) = j - 1
  BY <1>4, <1>16 DEF PlaceOf
<1>6. JoinsGrow(g, n, seqs)
  BY <1>1, <1>3, JoinIs
<1>7. /\ IsFiniteSet(RowsOf(c, h - 1, kinds))
      /\ Cardinality(RowsOf(c, h - 1, kinds)) = Len(g[h - 1])
  <2>1. CountsOf(c, n, kinds, g)
    BY <1>2, <1>3, RowsOfCount
  <2> QED
    BY <1>1, <2>1 DEF CountsOf
<1>8. PICK before \in Seq(Prices), with \in Seq(Prices), all \in Seq(Prices), own \in Seq(Prices) :
         before = g[h - 1] /\ with = g[h] /\ all = g[n] /\ own = seqs[h]
  BY <1>1
<1>9. /\ Len(with) = Len(before) + Len(own)
      /\ \A l \in 1..Len(own) : with[Len(before) + l] = own[l]
  <2>1. /\ Len(g[h]) = Len(g[h - 1]) + Len(seqs[h])
        /\ \A l \in 1..Len(seqs[h]) : g[h][Len(g[h - 1]) + l] = seqs[h][l]
    BY <1>6 DEF JoinsGrow
  <2> QED
    BY <1>8, <2>1
<1>10. Extends(with, all)
  <2>1. \A b \in 1..n : Extends(g[b - 1], g[b])
    BY <1>6 DEF JoinsGrow
  <2> QED
    BY <1>1, <1>8, <2>1, ExtendsAll
<1>11. PICK m \in Nat : m = Len(before) /\ Cardinality(RowsOf(c, h - 1, kinds)) = m
  BY <1>7, <1>8
<1>12. j \in 1..Len(own) /\ own[j] = events[i].price /\ Len(own) \in Nat
  BY <1>5, <1>8
<1>13. PICK k \in Nat : k + 1 = m + j /\ m + (j - 1) = k /\ m + j \in 1..(m + Len(own))
  <2>1. PICK l \in Nat : l = Len(own)
    BY <1>12
  <2>2. j \in 1..l
    BY <1>12, <2>1
  <2>3. PICK i0 \in Nat : i0 = j - 1 /\ i0 + 1 = j
    BY <2>2
  <2>4. m + i0 \in Nat /\ (m + i0) + 1 = m + j /\ m + j \in 1..(m + l)
    BY <2>2, <2>3
  <2> QED
    BY <2>1, <2>3, <2>4
<1>14. Cardinality(S) = k
  <2>1. PICK U, V : U = RowsOf(c, h - 1, kinds) /\ V = RowsIn(h, events, i - 1, kinds)
    OBVIOUS
  <2>2. U \cap V = {}
    BY <1>1, <2>1, RowsApart
  <2>3. IsFiniteSet(U) /\ IsFiniteSet(V) /\ Cardinality(U) = m /\ Cardinality(V) = j - 1
    BY <1>5, <1>7, <1>11, <2>1
  <2>4. Cardinality(U \cup V) = m + (j - 1)
    BY <2>2, <2>3, ApartAdd
  <2> QED
    BY <1>13, <2>1, <2>4
<1>15. k + 1 \in 1..Len(with) /\ with[k + 1] = events[i].price
  BY <1>9, <1>11, <1>12, <1>13
<1>17. k + 1 <= Len(all) /\ all[k + 1] = events[i].price
  <2>1. Len(with) <= Len(all) /\ \A l \in 1..Len(with) : all[l] = with[l]
    BY <1>10 DEF Extends
  <2>2. all[k + 1] = with[k + 1]
    BY <1>15, <2>1
  <2>3. Len(with) \in Nat /\ Len(all) \in Nat
    OBVIOUS
  <2> QED
    BY <1>15, <2>1, <2>2, <2>3
<1>18. k < Len(all)
  BY <1>17
<1> QED
  BY <1>3, <1>8, <1>14, <1>17, <1>18 DEF NextIs

(***************************************************************************)
(* The market, as the events of a block tell it.                           *)
(***************************************************************************)

(* The events that stand for a settlement.                                 *)
Kinds == IF saleVolume THEN {"Sale"} ELSE {"PurchaseConfirmed", "OfferAccepted"}

Seen(kinds, m, e) ==
    [minted |-> m.minted \/ e.type = "Mint",
     listed |-> IF e.type = "NFTListed" THEN e.price
                ELSE IF e.type = "NFTDelisted" \/ e.type \in kinds THEN Nothing
                ELSE m.listed,
     offer |-> IF e.type = "OfferMade" THEN e.price
               ELSE IF e.type = "OfferCancelled" \/ ResolvesAfter(e) THEN Nothing
               ELSE m.offer]

Replay(kinds, m, events) ==
    LET after[n \in 0..Len(events)] ==
            IF n = 0 THEN m ELSE Seen(kinds, after[n - 1], events[n])
    IN after

(* A token is listed, and an offer made, where there is none.              *)
Fit(m, e) ==
    /\ e.type = "NFTListed" => m.listed = Nothing
    /\ e.type = "OfferMade" => m.offer = Nothing

(* The events lead from one market to the other.                           *)
Follows(kinds, m, events, n) ==
    /\ Replay(kinds, m, events)[Len(events)] = n
    /\ \A i \in 1..Len(events) : Fit(Replay(kinds, m, events)[i - 1], events[i])

Replays(f, kinds, m, events) ==
    f = [n \in 0..Len(events) |-> IF n = 0 THEN m ELSE Seen(kinds, f[n - 1], events[n])]
ReplayFrom(f, kinds, m, events) ==
    f[0] = m /\ \A n \in 1..Len(events) : f[n] = Seen(kinds, f[n - 1], events[n])

LEMMA SeenTypes ==
    ASSUME NEW kinds, NEW m \in Market, NEW e \in Event
    PROVE  Seen(kinds, m, e) \in Market
<1>1. /\ m.listed \in 0..MaxPrice /\ m.offer \in 0..MaxPrice /\ m.minted \in BOOLEAN
      /\ e.price \in 0..MaxPrice /\ Nothing \in 0..MaxPrice
  BY DEF Market, Event, Nothing
<1>2. (m.minted \/ e.type = "Mint") \in BOOLEAN
  OBVIOUS
<1> QED
  BY <1>1, <1>2 DEF Seen, Market

LEMMA ReplayIs ==
    ASSUME NEW kinds, NEW m \in Market, NEW events \in Seq(PricedEvent)
    PROVE  /\ Replay(kinds, m, events) \in [0..Len(events) -> Market]
           /\ ReplayFrom(Replay(kinds, m, events), kinds, m, events)
<1> DEFINE N == Len(events)
           X == [n \in 0..N |-> Market]
           F == [p \in (1..N) \X Market |-> Seen(kinds, p[2], events[p[1]])]
           after == CHOOSE f : Replays(f, kinds, m, events)
<1>1. N \in Nat /\ \A n \in 1..N : events[n] \in Event
  BY DEF PricedEvent
<1>2. \A n \in 1..N : \A x \in Market :
         F[<<n, x>>] = Seen(kinds, x, events[n]) /\ Seen(kinds, x, events[n]) \in Market
  BY <1>1, SeenTypes
<1>3. \A n \in 0..N : X[n] = Market
  OBVIOUS
<1>4. Replay(kinds, m, events) = after
  BY DEF Replay, Replays
<1> HIDE DEF X, F, after
<1>5. \A n \in 1..N : \A x \in X[n - 1] : F[<<n, x>>] \in X[n]
  <2> SUFFICES ASSUME NEW n \in 1..N, NEW x \in X[n - 1] PROVE F[<<n, x>>] \in X[n]
    OBVIOUS
  <2>1. n - 1 \in 0..N /\ n \in 0..N
    BY <1>1
  <2> QED
    BY <1>2, <1>3, <2>1
<1>6. m \in X[0] /\ 0 \in Nat /\ 0 <= N /\ 0 + 1 = 1
  BY <1>1, <1>3
<1>7. PICK f : Recurs(f, 0, N, m, F) /\ \A n \in 0..N : f[n] \in X[n]
  BY <1>1, <1>5, <1>6, RecursionExists
<1>8. f = [n \in 0..N |-> IF n = 0 THEN m ELSE F[<<n, f[n - 1]>>]]
  BY <1>7 DEF Recurs
<1>9. \A n \in 0..N : n # 0 => F[<<n, f[n - 1]>>] = Seen(kinds, f[n - 1], events[n])
  <2> SUFFICES ASSUME NEW n \in 1..N
               PROVE  F[<<n, f[n - 1]>>] = Seen(kinds, f[n - 1], events[n])
    BY <1>1
  <2>1. n - 1 \in 0..N
    BY <1>1
  <2>2. f[n - 1] \in Market
    BY <1>3, <1>7, <2>1
  <2> QED
    BY <1>2, <2>2
<1>10. f = [n \in 0..N |-> IF n = 0 THEN m ELSE Seen(kinds, f[n - 1], events[n])]
  BY <1>8, <1>9
<1>11. Replays(f, kinds, m, events)
  BY <1>10 DEF Replays
<1>12. Replays(after, kinds, m, events)
  BY <1>11 DEF after
<1>13. /\ DOMAIN after = 0..N /\ after = [n \in 0..N |-> after[n]]
       /\ after[0] = m /\ \A n \in 1..N : after[n] = Seen(kinds, after[n - 1], events[n])
  <2>1. after = [n \in 0..N |-> IF n = 0 THEN m ELSE Seen(kinds, after[n - 1], events[n])]
    BY <1>12 DEF Replays
  <2>2. DOMAIN after = 0..N /\ after[0] = m
    BY <1>1, <2>1
  <2>3. \A n \in 1..N : n \in 0..N /\ n # 0
    BY <1>1
  <2>4. \A n \in 0..N : n # 0 => after[n] = Seen(kinds, after[n - 1], events[n])
    BY <2>1
  <2>5. after = [n \in 0..N |-> after[n]]
    BY <2>1
  <2> QED
    BY <2>2, <2>3, <2>4, <2>5
<1> DEFINE Good == {n \in 0..N : after[n] \in Market}
<1>14. 0 \in Good
  BY <1>1, <1>13
<1>15. ASSUME NEW n \in 0..N, n # 0, n - 1 \in Good PROVE n \in Good
  <2>1. n \in 1..N
    BY <1>1, <1>15
  <2> QED
    BY <1>2, <1>13, <1>15, <2>1
<1> HIDE DEF Good
<1>16. \A n \in 0..N : n \in Good
  BY <1>1, <1>14, <1>15, CountingUp
<1>17. \A n \in 0..N : after[n] \in Market
  BY <1>16 DEF Good
<1>18. after \in [0..N -> Market]
  BY <1>13, <1>17
<1> QED
  BY <1>4, <1>13, <1>18 DEF ReplayFrom

(* One event after another, and those of two sequences.                    *)
Continues(h, f, g, s, t) ==
    /\ \A n \in 0..Len(s) : h[n] = f[n]
    /\ \A n \in 0..Len(t) : h[Len(s) + n] = g[n]

LEMMA ReplayJoins ==
    ASSUME NEW kinds, NEW m \in Market, NEW s \in Seq(PricedEvent),
           NEW t \in Seq(PricedEvent),
           NEW f, f = Replay(kinds, m, s), NEW mid \in Market, mid = f[Len(s)],
           NEW u \in Seq(PricedEvent), u = s \o t,
           NEW g, g = Replay(kinds, mid, t), NEW h, h = Replay(kinds, m, u)
    PROVE  Continues(h, f, g, s, t)
<1>1. /\ s \o t \in Seq(PricedEvent) /\ Len(s \o t) = Len(s) + Len(t)
      /\ \A i \in 1..Len(s) : (s \o t)[i] = s[i]
      /\ \A k \in 1..Len(t) : (s \o t)[Len(s) + k] = t[k]
  <2>1. Extends(s, s \o t)
    BY ConcatExtends
  <2> QED
    BY <2>1, ConcatExtends DEF Extends
<1>2. Len(s) \in Nat /\ Len(t) \in Nat
  OBVIOUS
<1>4. /\ f[0] = m /\ \A n \in 1..Len(s) : f[n] = Seen(kinds, f[n - 1], s[n])
      /\ g[0] = mid /\ \A n \in 1..Len(t) : g[n] = Seen(kinds, g[n - 1], t[n])
      /\ h[0] = m /\ \A n \in 1..Len(u) : h[n] = Seen(kinds, h[n - 1], u[n])
  <2>1. ReplayFrom(f, kinds, m, s) /\ ReplayFrom(g, kinds, mid, t) /\ ReplayFrom(h, kinds, m, u)
    BY ReplayIs
  <2> QED
    BY <2>1 DEF ReplayFrom
<1>5. /\ Len(u) = Len(s) + Len(t) /\ \A i \in 1..Len(s) : u[i] = s[i]
      /\ \A k \in 1..Len(t) : u[Len(s) + k] = t[k]
  BY <1>1
<1> DEFINE Same == {n \in 0..Len(s) : h[n] = f[n]}
           Rest == {n \in 0..Len(t) : h[Len(s) + n] = g[n]}
<1>6. 0 \in Same
  BY <1>2, <1>4
<1>7. ASSUME NEW n \in 0..Len(s), n # 0, n - 1 \in Same PROVE n \in Same
  <2>1. n \in 1..Len(s) /\ n \in 1..Len(u)
    BY <1>2, <1>5, <1>7
  <2> QED
    BY <1>4, <1>5, <1>7, <2>1
<1> HIDE DEF Same
<1>8. \A n \in 0..Len(s) : n \in Same
  BY <1>2, <1>6, <1>7, CountingUp
<1>9. \A n \in 0..Len(s) : h[n] = f[n]
  BY <1>8 DEF Same
<1>10. 0 \in Rest
  BY <1>2, <1>4, <1>9
<1>11. ASSUME NEW n \in 0..Len(t), n # 0, n - 1 \in Rest PROVE n \in Rest
  <2>1. /\ n \in 1..Len(t) /\ Len(s) + n \in 1..Len(u) /\ (Len(s) + n) - 1 = Len(s) + (n - 1)
    BY <1>2, <1>5, <1>11
  <2>2. h[Len(s) + n] = Seen(kinds, h[Len(s) + (n - 1)], t[n])
    BY <1>4, <1>5, <2>1
  <2>3. g[n] = Seen(kinds, g[n - 1], t[n]) /\ h[Len(s) + (n - 1)] = g[n - 1]
    BY <1>4, <1>11, <2>1
  <2> QED
    BY <2>2, <2>3
<1> HIDE DEF Rest
<1>12. \A n \in 0..Len(t) : n \in Rest
  BY <1>2, <1>10, <1>11, CountingUp
<1> QED
  BY <1>9, <1>12 DEF Rest, Continues

LEMMA FollowsJoins ==
    ASSUME NEW kinds, NEW m \in Market, NEW mid \in Market, NEW last,
           NEW s \in Seq(PricedEvent), NEW t \in Seq(PricedEvent),
           Follows(kinds, m, s, mid), Follows(kinds, mid, t, last)
    PROVE  Follows(kinds, m, s \o t, last)
<1>8. s \o t \in Seq(PricedEvent)
  BY ConcatProperties
<1>9. PICK u \in Seq(PricedEvent) : u = s \o t
  BY <1>8
<1>1. PICK f, g, h : /\ f = Replay(kinds, m, s) /\ g = Replay(kinds, mid, t)
                     /\ h = Replay(kinds, m, u)
  OBVIOUS
<1>2. f[Len(s)] = mid /\ \A i \in 1..Len(s) : Fit(f[i - 1], s[i])
  BY <1>1 DEF Follows
<1>3. g[Len(t)] = last /\ \A i \in 1..Len(t) : Fit(g[i - 1], t[i])
  BY <1>1 DEF Follows
<1>10. Continues(h, f, g, s, t)
  BY <1>1, <1>2, <1>9, ReplayJoins
<1>4. /\ \A n \in 0..Len(s) : h[n] = f[n]
      /\ \A n \in 0..Len(t) : h[Len(s) + n] = g[n]
  BY <1>10 DEF Continues
<1>5. /\ Len(u) = Len(s) + Len(t) /\ Len(s) \in Nat /\ Len(t) \in Nat
      /\ \A i \in 1..(Len(s) + Len(t)) : u[i] = IF i <= Len(s) THEN s[i] ELSE t[i - Len(s)]
  BY <1>9, ConcatProperties
<1>6. h[Len(u)] = last
  BY <1>3, <1>4, <1>5
<1>7. ASSUME NEW i \in 1..Len(u) PROVE Fit(h[i - 1], u[i])
  <2>1. i \in 1..(Len(s) + Len(t))
    BY <1>5
  <2>2. CASE i <= Len(s)
    <3>1. i \in 1..Len(s) /\ i - 1 \in 0..Len(s)
      BY <1>5, <2>1, <2>2
    <3> QED
      BY <1>2, <1>4, <1>5, <2>1, <2>2, <3>1
  <2>3. CASE i > Len(s)
    <3>1. PICK k \in 1..Len(t) : i = Len(s) + k
      <4>1. i - Len(s) \in 1..Len(t) /\ i = Len(s) + (i - Len(s))
        BY <1>5, <2>1, <2>3
      <4> QED
        BY <4>1
    <3>2. /\ k - 1 \in 0..Len(t) /\ i - 1 = Len(s) + (k - 1) /\ ~(i <= Len(s)) /\ i - Len(s) = k
      BY <1>5, <3>1
    <3>3. h[i - 1] = g[k - 1] /\ u[i] = t[k]
      BY <1>4, <1>5, <2>1, <3>2
    <3> QED
      BY <1>3, <3>3
  <2> QED
    BY <1>5, <2>1, <2>2, <2>3
<1>11. Follows(kinds, m, u, last)
  BY <1>1, <1>6, <1>7 DEF Follows
<1> QED
  BY <1>9, <1>11

LEMMA FollowsNone ==
    ASSUME NEW kinds, NEW m \in Market
    PROVE  Follows(kinds, m, <<>>, m)
<1>1. <<>> \in Seq(PricedEvent) /\ Len(<<>>) = 0
  OBVIOUS
<1>2. ReplayFrom(Replay(kinds, m, <<>>), kinds, m, <<>>)
  BY <1>1, ReplayIs
<1> QED
  BY <1>1, <1>2 DEF ReplayFrom, Follows

LEMMA FollowsOne ==
    ASSUME NEW kinds, NEW m \in Market, NEW e \in PricedEvent, Fit(m, e),
           NEW n, n = Seen(kinds, m, e)
    PROVE  Follows(kinds, m, <<e>>, n)
<1>7. <<e>> \in Seq(PricedEvent)
  OBVIOUS
<1>1. PICK s \in Seq(PricedEvent) : s = <<e>>
  BY <1>7
<1>2. Len(s) = 1 /\ s[1] = e
  BY <1>1
<1>3. PICK f : f = Replay(kinds, m, s)
  OBVIOUS
<1>4. ReplayFrom(f, kinds, m, s)
  BY <1>3, ReplayIs
<1>5. f[0] = m /\ f[1] = n
  BY <1>2, <1>4 DEF ReplayFrom
<1>6. Follows(kinds, m, s, n)
  BY <1>2, <1>3, <1>5 DEF Follows
<1> QED
  BY <1>1, <1>6

(* An operation leads to the market that it says it leaves.                *)
LEMMA MarketIs ==
    ASSUME NEW m \in Market
    PROVE  /\ m = [minted |-> m.minted, listed |-> m.listed, offer |-> m.offer]
           /\ [m EXCEPT !.minted = TRUE]
                 = [minted |-> TRUE, listed |-> m.listed, offer |-> m.offer]
           /\ \A p : /\ [m EXCEPT !.listed = p]
                           = [minted |-> m.minted, listed |-> p, offer |-> m.offer]
                     /\ [m EXCEPT !.offer = p]
                           = [minted |-> m.minted, listed |-> m.listed, offer |-> p]
           /\ [m EXCEPT !.listed = Nothing, !.offer = Nothing]
                 = [minted |-> m.minted, listed |-> Nothing, offer |-> Nothing]
<1>1. m = [minted |-> m.minted, listed |-> m.listed, offer |-> m.offer]
  BY DEF Market
<1>2. PICK x, y, z : m = [minted |-> x, listed |-> y, offer |-> z]
  BY <1>1
<1>3. m.minted = x /\ m.listed = y /\ m.offer = z
  BY <1>2
<1>4. [m EXCEPT !.minted = TRUE] = [minted |-> TRUE, listed |-> y, offer |-> z]
  <2>1. \A t : [m EXCEPT !.minted = t] = [minted |-> t, listed |-> y, offer |-> z]
    BY <1>2
  <2> QED
    BY <2>1, Zenon
<1>5. \A p : [m EXCEPT !.listed = p] = [minted |-> x, listed |-> p, offer |-> z]
  BY <1>2
<1>6. \A p : [m EXCEPT !.offer = p] = [minted |-> x, listed |-> y, offer |-> p]
  BY <1>2
<1>7. [m EXCEPT !.listed = Nothing, !.offer = Nothing]
         = [minted |-> x, listed |-> Nothing, offer |-> Nothing]
  <2>1. \A a, c : [m EXCEPT !.listed = a, !.offer = c]
                     = [[m EXCEPT !.listed = a] EXCEPT !.offer = c]
    OBVIOUS
  <2>2. \A a, c : [[minted |-> x, listed |-> a, offer |-> z] EXCEPT !.offer = c]
                     = [minted |-> x, listed |-> a, offer |-> c]
    OBVIOUS
  <2> QED
    BY <1>5, <2>1, <2>2
<1> QED
  BY <1>1, <1>3, <1>4, <1>5, <1>6, <1>7

LEMMA PurchaseFollows ==
    ASSUME NEW m \in Market, NEW p \in Prices, saleVolume \in BOOLEAN
    PROVE  Follows(Kinds, m, Purchase(p), [m EXCEPT !.listed = Nothing])
<1>1. PICK n : n = [m EXCEPT !.listed = Nothing]
  OBVIOUS
<1>2. n = [minted |-> m.minted, listed |-> Nothing, offer |-> m.offer]
  BY <1>1, MarketIs
<1>3. n \in Market
  BY <1>2 DEF Market, Nothing
<1>4. PICK e \in PricedEvent : e = Emit("PurchaseConfirmed", "none", p)
  BY EmittedTypes
<1>5. e.type = "PurchaseConfirmed" /\ ~ResolvesAfter(e) /\ Fit(m, e) /\ Fit(n, e)
  BY <1>4 DEF Emit, ResolvesAfter, Fit
<1>6. CASE saleVolume
  <2>1. PICK s \in PricedEvent : s = Emit("Sale", "buy", p)
    BY EmittedTypes
  <2>2. s.type = "Sale" /\ ~ResolvesAfter(s) /\ Fit(m, s)
    BY <2>1 DEF Emit, ResolvesAfter, Fit
  <2>3. Seen(Kinds, m, s) = n
    <3>1. m.minted \in BOOLEAN
      BY DEF Market
    <3> QED
      BY <1>2, <1>6, <2>2, <3>1 DEF Seen, Kinds
  <2>4. Seen(Kinds, n, e) = n
    <3>1. n.minted \in BOOLEAN
      BY <1>3 DEF Market
    <3> QED
      BY <1>2, <1>5, <1>6, <3>1 DEF Seen, Kinds
  <2>5. Follows(Kinds, m, <<s>>, n)
    BY <2>2, <2>3, FollowsOne
  <2>6. Follows(Kinds, n, <<e>>, n)
    BY <1>3, <1>5, <2>4, FollowsOne
  <2>7. <<s>> \in Seq(PricedEvent) /\ <<e>> \in Seq(PricedEvent)
    OBVIOUS
  <2>8. Follows(Kinds, m, <<s>> \o <<e>>, n)
    BY <1>3, <2>5, <2>6, <2>7, FollowsJoins
  <2> QED
    BY <1>1, <1>4, <1>6, <2>1, <2>8 DEF Purchase
<1>7. CASE ~saleVolume
  <2>1. Seen(Kinds, m, e) = n
    <3>1. m.minted \in BOOLEAN
      BY DEF Market
    <3> QED
      BY <1>2, <1>5, <1>7, <3>1 DEF Seen, Kinds
  <2>2. Follows(Kinds, m, <<e>>, n)
    BY <1>5, <2>1, FollowsOne
  <2>3. Purchase(p) = <<e>>
    BY <1>4, <1>7 DEF Purchase
  <2> QED
    BY <1>1, <2>2, <2>3
<1> QED
  BY <1>6, <1>7

LEMMA AcceptanceFollows ==
    ASSUME NEW m \in Market, NEW p \in Prices, saleVolume \in BOOLEAN
    PROVE  Follows(Kinds, m, Acceptance(p), [m EXCEPT !.listed = Nothing, !.offer = Nothing])
<1>1. PICK n : n = [m EXCEPT !.listed = Nothing, !.offer = Nothing]
  OBVIOUS
<1>2. n = [minted |-> m.minted, listed |-> Nothing, offer |-> Nothing]
  BY <1>1, MarketIs
<1>3. PICK e \in PricedEvent : e = IF saleVolume THEN Emit("Sale", "offer", p)
                                   ELSE Emit("OfferAccepted", "none", p)
  BY EmittedTypes
<1>4. /\ e.type \in Kinds /\ ResolvesAfter(e) /\ Fit(m, e)
      /\ e.type \notin {"Mint", "NFTListed", "OfferMade"}
  BY <1>3 DEF Emit, ResolvesAfter, Fit, Kinds
<1>5. Seen(Kinds, m, e) = n
  <2>1. m.minted \in BOOLEAN
    BY DEF Market
  <2> QED
    BY <1>2, <1>4, <2>1 DEF Seen
<1>6. Follows(Kinds, m, <<e>>, n)
  BY <1>4, <1>5, FollowsOne
<1>7. Acceptance(p) = <<e>>
  BY <1>3 DEF Acceptance
<1> QED
  BY <1>1, <1>6, <1>7

LEMMA OperationFollows ==
    ASSUME NEW m \in Market, NEW o \in Operations(m), saleVolume \in BOOLEAN
    PROVE  Follows(Kinds, m, o.events, o.market)
<1>1. m.minted \in BOOLEAN /\ m.listed \in 0..MaxPrice /\ m.offer \in 0..MaxPrice
  BY DEF Market
<1>2. /\ m.listed # Nothing => m.listed \in Prices
      /\ m.offer # Nothing => m.offer \in Prices
  BY <1>1 DEF Nothing, Prices
<1>3. \A s, n : After(s, n).events = s /\ After(s, n).market = n
  BY DEF After
<1>4. ASSUME NEW type, NEW price, Emit(type, "none", price) \in PricedEvent,
             type \notin Kinds, type # "OfferAccepted", type # "Sale",
             NEW n,
             n = [minted |-> m.minted \/ type = "Mint",
                  listed |-> IF type = "NFTListed" THEN price
                             ELSE IF type = "NFTDelisted" THEN Nothing ELSE m.listed,
                  offer |-> IF type = "OfferMade" THEN price
                            ELSE IF type = "OfferCancelled" THEN Nothing ELSE m.offer],
             type = "NFTListed" => m.listed = Nothing,
             type = "OfferMade" => m.offer = Nothing,
             o = After(<<Emit(type, "none", price)>>, n)
      PROVE  Follows(Kinds, m, o.events, o.market)
  <2>1. PICK e \in PricedEvent : e = Emit(type, "none", price)
    BY <1>4
  <2>2. e.type = type /\ e.price = price /\ ~ResolvesAfter(e)
    BY <1>4, <2>1 DEF Emit, ResolvesAfter
  <2>3. Fit(m, e) /\ Seen(Kinds, m, e) = n
    BY <1>4, <2>2 DEF Fit, Seen
  <2>4. Follows(Kinds, m, <<e>>, n)
    BY <2>3, FollowsOne
  <2>5. o.events = <<e>> /\ o.market = n
    BY <1>3, <1>4, <2>1
  <2> QED
    BY <2>4, <2>5
<1>5. /\ "Mint" \notin Kinds /\ "NFTListed" \notin Kinds /\ "NFTDelisted" \notin Kinds
      /\ "OfferMade" \notin Kinds /\ "OfferCancelled" \notin Kinds
  BY DEF Kinds
<1>6. PICK p0 : p0 \in Prices
  BY DEF Prices
<1>7. /\ Emit("Mint", "none", 0) \in PricedEvent
      /\ Emit("NFTDelisted", "none", 0) \in PricedEvent
      /\ Emit("OfferCancelled", "none", 0) \in PricedEvent
  BY <1>6, EmittedTypes
<1>8. CASE o = After(<<Emit("Mint", "none", 0)>>, [m EXCEPT !.minted = TRUE])
  <2>1. PICK n : n = [m EXCEPT !.minted = TRUE]
    OBVIOUS
  <2>2. n = [minted |-> TRUE, listed |-> m.listed, offer |-> m.offer]
    BY <2>1, MarketIs
  <2>3. PICK e \in PricedEvent : e = Emit("Mint", "none", 0)
    BY <1>7
  <2>4. e.type = "Mint" /\ ~ResolvesAfter(e) /\ Fit(m, e)
    BY <2>3 DEF Emit, ResolvesAfter, Fit
  <2>5. (m.minted \/ e.type = "Mint") = TRUE
    BY <2>4
  <2>6. Seen(Kinds, m, e) = [minted |-> TRUE, listed |-> m.listed, offer |-> m.offer]
    BY <1>5, <2>4, <2>5 DEF Seen
  <2>7. Follows(Kinds, m, <<e>>, n)
    BY <2>2, <2>4, <2>6, FollowsOne
  <2>8. o.events = <<e>> /\ o.market = n
    BY <1>3, <1>8, <2>1, <2>3
  <2> QED
    BY <2>7, <2>8
<1>9. CASE o = After(<<Emit("NFTDelisted", "none", 0)>>, [m EXCEPT !.listed = Nothing])
  <2>1. [m EXCEPT !.listed = Nothing]
           = [minted |-> m.minted, listed |-> Nothing, offer |-> m.offer]
    BY MarketIs
  <2> QED
    BY <1>1, <1>4, <1>5, <1>7, <1>9, <2>1
<1>10. CASE m.listed # Nothing /\ o = After(Purchase(m.listed), [m EXCEPT !.listed = Nothing])
  BY <1>2, <1>3, <1>10, PurchaseFollows
<1>11. CASE o = After(<<Emit("OfferCancelled", "none", 0)>>, [m EXCEPT !.offer = Nothing])
  <2>1. [m EXCEPT !.offer = Nothing]
           = [minted |-> m.minted, listed |-> m.listed, offer |-> Nothing]
    BY MarketIs
  <2> QED
    BY <1>1, <1>4, <1>5, <1>7, <1>11, <2>1
<1>12. CASE /\ m.offer # Nothing
            /\ o = After(Acceptance(m.offer), [m EXCEPT !.listed = Nothing, !.offer = Nothing])
  <2>1. PICK p \in Prices : p = m.offer
    BY <1>2, <1>12
  <2>2. o.events = Acceptance(p) /\ o.market = [m EXCEPT !.listed = Nothing, !.offer = Nothing]
    BY <1>3, <1>12, <2>1
  <2>3. Follows(Kinds, m, Acceptance(p), [m EXCEPT !.listed = Nothing, !.offer = Nothing])
    BY AcceptanceFollows
  <2> QED
    BY <2>2, <2>3
<1>13. ASSUME NEW p \in Prices, m.listed = Nothing,
              o = After(<<Emit("NFTListed", "none", p)>>, [m EXCEPT !.listed = p])
       PROVE  Follows(Kinds, m, o.events, o.market)
  <2>1. [m EXCEPT !.listed = p] = [minted |-> m.minted, listed |-> p, offer |-> m.offer]
    BY MarketIs
  <2>2. Emit("NFTListed", "none", p) \in PricedEvent
    BY EmittedTypes
  <2> QED
    BY <1>1, <1>4, <1>5, <1>13, <2>1, <2>2
<1>14. ASSUME NEW p \in Prices, m.offer = Nothing,
              o = After(<<Emit("OfferMade", "none", p)>>, [m EXCEPT !.offer = p])
       PROVE  Follows(Kinds, m, o.events, o.market)
  <2>1. [m EXCEPT !.offer = p] = [minted |-> m.minted, listed |-> m.listed, offer |-> p]
    BY MarketIs
  <2>2. Emit("OfferMade", "none", p) \in PricedEvent
    BY EmittedTypes
  <2> QED
    BY <1>1, <1>4, <1>5, <1>14, <2>1, <2>2
<1> QED
  BY <1>8, <1>9, <1>10, <1>11, <1>12, <1>13, <1>14, OperationCases

(* The events of a block lead to the market after it.                      *)
LEMMA BlockFollows ==
    ASSUME NEW m \in Market, NEW b \in Blocks(m), saleVolume \in BOOLEAN
    PROVE  Follows(Kinds, m, b.events, b.market)
<1> DEFINE Led == {o \in Outcome : Follows(Kinds, m, o.events, o.market)}
           Good == [n \in 0..MaxOps |-> Led]
<1>1. After(<<>>, m) \in Led
  <2>1. After(<<>>, m) \in Outcome /\ After(<<>>, m).events = <<>> /\ After(<<>>, m).market = m
    BY DEF After, Outcome
  <2> QED
    BY <2>1, FollowsNone
<1>2. ASSUME NEW o \in Led, NEW p \in Operations(o.market)
      PROVE  After(o.events \o p.events, p.market) \in Led
  <2>1. o.market \in Market /\ o.events \in Seq(PricedEvent)
    BY DEF Outcome
  <2>2. p \in Outcome /\ Follows(Kinds, o.market, p.events, p.market)
    BY <2>1, OperationTypes, OperationFollows
  <2>3. p.market \in Market /\ p.events \in Seq(PricedEvent)
    BY <2>2 DEF Outcome
  <2>4. PICK u \in Seq(PricedEvent) : u = o.events \o p.events
    BY <2>1, <2>3, ConcatProperties
  <2>5. Follows(Kinds, m, u, p.market)
    BY <2>1, <2>2, <2>3, <2>4, FollowsJoins
  <2>6. /\ After(u, p.market) \in Outcome /\ After(u, p.market).events = u
        /\ After(u, p.market).market = p.market
    BY <2>3, <2>4 DEF After, Outcome
  <2> QED
    BY <2>4, <2>5, <2>6
<1> HIDE DEF Led
<1>3. KeptFrom(m, Good)
  BY <1>1, <1>2 DEF KeptFrom
<1>4. Good[MaxOps] = Led
  OBVIOUS
<1> HIDE DEF Good
<1>5. Blocks(m) \subseteq Led
  BY <1>3, <1>4, BlocksWithin
<1> QED
  BY <1>5 DEF Led

(* No two offers in a block of at most two operations: the first has to be *)
(* cancelled or accepted before the second.                                *)
OffersIn(events) == {i \in 1..Len(events) : events[i].type = "OfferMade"}
OneOffer(events) == \A i, j \in OffersIn(events) : i = j

LEMMA OperationOffers ==
    ASSUME NEW m \in Market, NEW o \in Operations(m), OffersIn(o.events) # {}
    PROVE  /\ m.offer = Nothing /\ o.market.offer # Nothing
           /\ OneOffer(o.events)
<1>1. \A s, n : After(s, n).events = s /\ After(s, n).market = n
  BY DEF After
<1>2. ASSUME NEW type, NEW via, NEW price, type # "OfferMade"
      PROVE  OffersIn(<<Emit(type, via, price)>>) = {}
  BY <1>2 DEF OffersIn, Emit
<1>3. ASSUME NEW p PROVE OffersIn(Purchase(p)) = {} /\ OffersIn(Acceptance(p)) = {}
  <2>1. OffersIn(Acceptance(p)) = {}
    BY <1>2 DEF Acceptance
  <2>2. CASE saleVolume
    <3>1. PICK s, e : s = Emit("Sale", "buy", p) /\ e = Emit("PurchaseConfirmed", "none", p)
      OBVIOUS
    <3>2. s.type # "OfferMade" /\ e.type # "OfferMade"
      BY <3>1 DEF Emit
    <3>3. PICK x \in Seq({s, e}), y \in Seq({s, e}) : x = <<s>> /\ y = <<e>>
      <4>1. <<s>> \in Seq({s, e}) /\ <<e>> \in Seq({s, e})
        OBVIOUS
      <4> QED
        BY <4>1
    <3>4. PICK u \in Seq({s, e}) : u = x \o y
      BY ConcatProperties
    <3>5. \A i \in 1..Len(u) : u[i] \in {s, e}
      OBVIOUS
    <3>6. OffersIn(u) = {}
      BY <3>2, <3>5 DEF OffersIn
    <3>7. Purchase(p) = u
      BY <2>2, <3>1, <3>3, <3>4 DEF Purchase
    <3> QED
      BY <2>1, <3>6, <3>7
  <2>3. CASE ~saleVolume
    <3>1. Purchase(p) = <<Emit("PurchaseConfirmed", "none", p)>>
      BY <2>3 DEF Purchase
    <3> QED
      BY <1>2, <2>1, <3>1
  <2> QED
    BY <2>2, <2>3
<1>4. PICK p \in Prices : /\ m.offer = Nothing
                          /\ o = After(<<Emit("OfferMade", "none", p)>>, [m EXCEPT !.offer = p])
  <2>1. \/ o.events = <<Emit("Mint", "none", 0)>>
        \/ o.events = <<Emit("NFTDelisted", "none", 0)>>
        \/ o.events = Purchase(m.listed)
        \/ o.events = <<Emit("OfferCancelled", "none", 0)>>
        \/ o.events = Acceptance(m.offer)
        \/ \E p \in Prices : o.events = <<Emit("NFTListed", "none", p)>>
        \/ /\ m.offer = Nothing
           /\ \E p \in Prices :
                 o = After(<<Emit("OfferMade", "none", p)>>, [m EXCEPT !.offer = p])
    BY DEF Operations, When, After
  <2>2. \A type \in {"Mint", "NFTDelisted", "OfferCancelled", "NFTListed"} :
           \A p : o.events # <<Emit(type, "none", p)>>
    BY <1>2
  <2>3. \A p : o.events # Purchase(p) /\ o.events # Acceptance(p)
    BY <1>3
  <2> QED
    BY <2>1, <2>2, <2>3
<1>5. PICK n : n = [m EXCEPT !.offer = p]
  OBVIOUS
<1>6. n.offer = p /\ p # Nothing
  BY <1>5 DEF Market, Prices, Nothing
<1>7. o.events = <<Emit("OfferMade", "none", p)>> /\ o.market = n
  BY <1>1, <1>4, <1>5
<1>8. OneOffer(<<Emit("OfferMade", "none", p)>>)
  BY DEF OneOffer, OffersIn
<1> QED
  BY <1>4, <1>6, <1>7, <1>8

LEMMA BlockOneOffer ==
    ASSUME NEW m \in Market, NEW b \in Blocks(m), MaxOps <= 2
    PROVE  OneOffer(b.events)
<1> DEFINE None == {o \in Outcome : OffersIn(o.events) = {}}
           One == {o \in Outcome : /\ OneOffer(o.events)
                                   /\ OffersIn(o.events) # {} => o.market.offer # Nothing}
           Two == {o \in Outcome : OneOffer(o.events)}
           Good == [n \in 0..MaxOps |-> IF n = 0 THEN None ELSE IF n = 1 THEN One ELSE Two]
<1>1. After(<<>>, m) \in None
  BY DEF After, Outcome, OffersIn
<1>2. ASSUME NEW o \in Outcome, NEW p \in Operations(o.market)
      PROVE  LET q == After(o.events \o p.events, p.market) IN
             /\ o \in None => q \in One
             /\ o \in One => q \in Two
  <2>1. o.market \in Market /\ o.events \in Seq(PricedEvent)
    BY DEF Outcome
  <2>2. p \in Outcome /\ (OffersIn(p.events) # {} => /\ o.market.offer = Nothing
                                                     /\ p.market.offer # Nothing
                                                     /\ OneOffer(p.events))
    BY <2>1, OperationTypes, OperationOffers
  <2>3. p.market \in Market /\ p.events \in Seq(PricedEvent)
    BY <2>2 DEF Outcome
  <2>4. PICK s \in Seq(PricedEvent), t \in Seq(PricedEvent) : s = o.events /\ t = p.events
    BY <2>1, <2>3
  <2>5. PICK u \in Seq(PricedEvent) : u = s \o t
    BY <2>4, ConcatProperties
  <2>6. PICK q : q = After(u, p.market)
    OBVIOUS
  <2>7. q \in Outcome /\ q.events = u /\ q.market = p.market
    BY <2>3, <2>6 DEF After, Outcome
  <2>8. /\ Len(u) = Len(s) + Len(t) /\ Len(s) \in Nat /\ Len(t) \in Nat
        /\ \A i \in 1..(Len(s) + Len(t)) : u[i] = IF i <= Len(s) THEN s[i] ELSE t[i - Len(s)]
    BY <2>5, ConcatProperties
  <2>9. \A i \in OffersIn(u) :
          \/ i \in OffersIn(s)
          \/ i - Len(s) \in OffersIn(t) /\ i \in Nat
    BY <2>8 DEF OffersIn
  <2>10. ASSUME OffersIn(s) = {} \/ OffersIn(t) = {}, OneOffer(s),
                OffersIn(t) # {} => OneOffer(t)
         PROVE  OneOffer(u)
    <3>1. CASE OffersIn(t) = {}
      BY <2>9, <2>10, <3>1 DEF OneOffer
    <3>2. CASE OffersIn(s) = {} /\ OffersIn(t) # {}
      <4>1. \A i, j \in OffersIn(u) : i - Len(s) = j - Len(s) /\ i \in Nat /\ j \in Nat
        BY <2>9, <2>10, <3>2 DEF OneOffer
      <4> QED
        BY <2>8, <4>1 DEF OneOffer
    <3> QED
      BY <2>10, <3>1, <3>2
  <2>11. OffersIn(u) # {} => OffersIn(s) # {} \/ OffersIn(t) # {}
    BY <2>9
  <2>12. ASSUME o \in None PROVE q \in One
    <3>1. OffersIn(s) = {} /\ OneOffer(s)
      BY <2>4, <2>12 DEF OneOffer
    <3> QED
      BY <2>2, <2>4, <2>7, <2>10, <2>11, <3>1
  <2>13. ASSUME o \in One PROVE q \in Two
    <3>1. OneOffer(s) /\ (OffersIn(s) = {} \/ OffersIn(t) = {})
      BY <2>2, <2>4, <2>13
    <3> QED
      BY <2>2, <2>4, <2>7, <2>10, <3>1
  <2> QED
    BY <2>4, <2>5, <2>6, <2>12, <2>13
<1>3. None \subseteq One /\ One \subseteq Two
  BY DEF OneOffer
<1>4. None \subseteq Outcome /\ One \subseteq Outcome /\ Two \subseteq Outcome
  OBVIOUS
<1>5. Good[MaxOps] \subseteq Two
  BY <1>3
<1>6. KeptFrom(m, Good)
  <2> HIDE DEF None, One, Two
  <2>1. Good[0] = None
    OBVIOUS
  <2>2. ASSUME NEW n \in 1..MaxOps, NEW o \in Good[n - 1]
        PROVE  /\ o \in Good[n]
               /\ \A p \in Operations(o.market) :
                     After(o.events \o p.events, p.market) \in Good[n]
    <3>1. CASE n = 1
      <4>1. Good[n - 1] = None /\ Good[n] = One
        BY <3>1
      <4> HIDE DEF Good
      <4> QED
        BY <1>2, <1>3, <1>4, <2>2, <4>1
    <3>2. CASE n = 2
      <4>1. Good[n - 1] = One /\ Good[n] = Two
        BY <3>2
      <4> HIDE DEF Good
      <4> QED
        BY <1>2, <1>3, <1>4, <2>2, <4>1
    <3> QED
      BY <3>1, <3>2
  <2> HIDE DEF Good
  <2> QED
    BY <1>1, <2>1, <2>2 DEF KeptFrom
<1> HIDE DEF Good
<1>7. Blocks(m) \subseteq Good[MaxOps]
  BY <1>6, BlocksWithin
<1> QED
  BY <1>5, <1>7

(***************************************************************************)
(* The ownership history that a chain tells.                               *)
(***************************************************************************)

HistoryRow == [block : Nat, kind : {"mint", "sale"}]
HistoryRowOf(b, e) == [block |-> b, kind |-> IF e.type = "Mint" THEN "mint" ELSE "sale"]
MovesToken(e, kinds) == e.type = "Mint" \/ e.type \in kinds

(* What the first n events of block b tell.                                *)
HistoryUpTo(b, events, n, kinds) ==
    LET upTo[k \in 0..Len(events)] ==
            IF k = 0 THEN <<>>
            ELSE IF events[k].type = "Mint"
                 THEN Append(upTo[k - 1], [block |-> b, kind |-> "mint"])
            ELSE IF events[k].type \in kinds
                 THEN Append(upTo[k - 1], [block |-> b, kind |-> "sale"])
            ELSE upTo[k - 1]
    IN upTo[n]

HistoryTold(b, events, kinds) ==
    /\ HistoryUpTo(b, events, 0, kinds) = <<>>
    /\ \A n \in 1..Len(events) :
          HistoryUpTo(b, events, n, kinds) =
             IF MovesToken(events[n], kinds)
             THEN Append(HistoryUpTo(b, events, n - 1, kinds), HistoryRowOf(b, events[n]))
             ELSE HistoryUpTo(b, events, n - 1, kinds)

LEMMA HistoryUpToIs ==
    ASSUME NEW b \in Nat, NEW events \in Seq(PricedEvent), NEW kinds
    PROVE  /\ HistoryTold(b, events, kinds)
           /\ \A n \in 0..Len(events) : HistoryUpTo(b, events, n, kinds) \in Seq(HistoryRow)
<1> DEFINE N == Len(events)
           keep == {n \in 1..N : MovesToken(events[n], kinds)}
           value == [n \in keep |-> HistoryRowOf(b, events[n])]
           To(f) == f = [k \in 0..Len(events) |->
                           IF k = 0 THEN <<>>
                           ELSE IF events[k].type = "Mint"
                                THEN Append(f[k - 1], [block |-> b, kind |-> "mint"])
                           ELSE IF events[k].type \in kinds
                                THEN Append(f[k - 1], [block |-> b, kind |-> "sale"])
                           ELSE f[k - 1]]
           up == CHOOSE f : To(f)
<1>1. N \in Nat
  OBVIOUS
<1>2. \A n : HistoryUpTo(b, events, n, kinds) = up[n]
  BY DEF HistoryUpTo
<1>3. \A n \in 1..N : n \in keep <=> MovesToken(events[n], kinds)
  OBVIOUS
<1>4. \A e : HistoryRowOf(b, e) \in HistoryRow
  BY DEF HistoryRowOf, HistoryRow
<1>5. value \in [keep -> HistoryRow] /\ keep \in SUBSET (1..N)
      /\ \A n \in keep : value[n] = HistoryRowOf(b, events[n])
  BY <1>4
<1> HIDE DEF keep, value, up
<1>6. \A f : To(f) <=> Collects(f, N, keep, value)
  <2> SUFFICES ASSUME NEW f PROVE To(f) <=> Collects(f, N, keep, value)
    OBVIOUS
  <2>1. ASSUME NEW k \in 0..N
        PROVE  (IF k = 0 THEN <<>>
                ELSE IF events[k].type = "Mint"
                     THEN Append(f[k - 1], [block |-> b, kind |-> "mint"])
                ELSE IF events[k].type \in kinds
                     THEN Append(f[k - 1], [block |-> b, kind |-> "sale"])
                ELSE f[k - 1])
               = (IF k = 0 THEN <<>>
                  ELSE IF k \in keep THEN Append(f[k - 1], value[k]) ELSE f[k - 1])
    <3>1. CASE k # 0 /\ MovesToken(events[k], kinds)
      <4>1. k \in keep /\ value[k] = HistoryRowOf(b, events[k])
        BY <1>3, <1>5, <3>1
      <4> QED
        BY <3>1, <4>1 DEF HistoryRowOf, MovesToken
    <3>2. CASE k # 0 /\ ~MovesToken(events[k], kinds)
      BY <1>3, <3>2 DEF MovesToken
    <3> QED
      BY <3>1, <3>2
  <2> QED
    BY <2>1 DEF Collects
<1>7. PICK g \in [0..N -> Seq(HistoryRow)] : Collects(g, N, keep, value)
  BY <1>1, <1>5, CollectExists
<1>8. To(up)
  BY <1>6, <1>7 DEF up
<1> HIDE DEF To
<1>9. Collects(up, N, keep, value)
  BY <1>6, <1>8
<1>10. \A n \in 0..N : up[n] = g[n]
  BY <1>1, <1>7, <1>9, CollectUnique
<1>11. \A n \in 0..N : HistoryUpTo(b, events, n, kinds) \in Seq(HistoryRow)
  BY <1>2, <1>7, <1>10
<1>12. up = [n \in 0..N |-> IF n = 0 THEN <<>>
                            ELSE IF n \in keep THEN Append(up[n - 1], value[n]) ELSE up[n - 1]]
  BY <1>9 DEF Collects
<1>13. up[0] = <<>>
  BY <1>1, <1>12
<1>14. ASSUME NEW n \in 1..N
       PROVE  up[n] = IF MovesToken(events[n], kinds)
                      THEN Append(up[n - 1], HistoryRowOf(b, events[n])) ELSE up[n - 1]
  <2>1. n \in 0..N /\ n # 0
    BY <1>1
  <2> QED
    BY <1>3, <1>5, <1>12, <2>1
<1> QED
  BY <1>2, <1>11, <1>13, <1>14 DEF HistoryTold

(* What the first h blocks of a chain c tell.                              *)
HistoryIn(b, events, kinds) == HistoryUpTo(b, events, Len(events), kinds)
HistorySeqs(c, h, kinds) == [b \in 1..h |-> HistoryIn(b, c[b].events, kinds)]
HistoryTo(c, h, kinds) == FlattenSeq(HistorySeqs(c, h, kinds))

LEMMA HistoryInTypes ==
    ASSUME NEW c \in Seq(PricedBlock), NEW h \in 0..Len(c), NEW kinds
    PROVE  HistorySeqs(c, h, kinds) \in [1..h -> Seq(HistoryRow)]
<1>1. ASSUME NEW b \in 1..h PROVE HistoryIn(b, c[b].events, kinds) \in Seq(HistoryRow)
  <2>1. b \in Nat /\ b \in 1..Len(c)
    OBVIOUS
  <2>2. PICK events \in Seq(PricedEvent) : events = c[b].events
    BY <2>1, BlockEvents
  <2>3. \A n \in 0..Len(events) : HistoryUpTo(b, events, n, kinds) \in Seq(HistoryRow)
    BY <2>1, HistoryUpToIs
  <2>4. Len(events) \in 0..Len(events)
    OBVIOUS
  <2> QED
    BY <2>2, <2>3, <2>4 DEF HistoryIn
<1> QED
  BY <1>1 DEF HistorySeqs

LEMMA HistoryToIs ==
    ASSUME NEW c \in Seq(PricedBlock), NEW h \in 0..Len(c), NEW kinds
    PROVE  /\ HistoryTo(c, h, kinds) \in Seq(HistoryRow)
           /\ h = 0 => HistoryTo(c, h, kinds) = <<>>
           /\ h # 0 => HistoryTo(c, h, kinds)
                          = Then(HistoryTo(c, h - 1, kinds), HistoryIn(h, c[h].events, kinds))
<1>1. h \in Nat
  OBVIOUS
<1>2. PICK seqs \in [1..h -> Seq(HistoryRow)] : seqs = HistorySeqs(c, h, kinds)
  BY HistoryInTypes
<1>3. PICK g \in [0..h -> Seq(HistoryRow)] : Joins(g, h, seqs)
  BY <1>1, JoinExists
<1>4. HistoryTo(c, h, kinds) = g[h]
  BY <1>1, <1>2, <1>3, FlattenIs DEF HistoryTo
<1>5. g[0] = <<>> /\ \A n \in 1..h : g[n] = Then(g[n - 1], seqs[n])
  <2>1. JoinsFrom(g, h, seqs)
    BY <1>1, <1>3, JoinStep
  <2> QED
    BY <2>1 DEF JoinsFrom
<1>6. ASSUME h # 0
      PROVE  HistoryTo(c, h, kinds)
                = Then(HistoryTo(c, h - 1, kinds), HistoryIn(h, c[h].events, kinds))
  <2>1. PICK k \in Nat : k = h - 1 /\ k \in 0..h /\ k \in 0..Len(c) /\ h \in 1..h
    BY <1>1, <1>6
  <2>2. PICK tseqs \in [1..k -> Seq(HistoryRow)] : tseqs = HistorySeqs(c, k, kinds)
    BY <2>1, HistoryInTypes
  <2>3. \A b \in 1..k : b \in 1..h /\ tseqs[b] = seqs[b]
    BY <1>1, <1>2, <2>1, <2>2 DEF HistorySeqs
  <2> DEFINE f == [n \in 0..k |-> g[n]]
  <2>4. \A n \in 0..k : n \in 0..h /\ f[n] = g[n]
    BY <1>1, <2>1
  <2>5. f \in [0..k -> Seq(HistoryRow)]
    BY <2>4
  <2>6. \A n \in 0..k : f[n] = IF n = 0 THEN <<>> ELSE Then(f[n - 1], tseqs[n])
    <3> SUFFICES ASSUME NEW n \in 0..k
                 PROVE  f[n] = IF n = 0 THEN <<>> ELSE Then(f[n - 1], tseqs[n])
      OBVIOUS
    <3>1. CASE n = 0
      BY <1>5, <2>4, <3>1
    <3>2. CASE n # 0
      <4>1. n \in 1..k /\ n \in 1..h /\ n - 1 \in 0..k
        BY <2>1, <3>2
      <4>2. f[n] = g[n] /\ f[n - 1] = g[n - 1] /\ tseqs[n] = seqs[n]
        BY <2>3, <2>4, <4>1
      <4>3. g[n] = Then(g[n - 1], seqs[n])
        BY <1>5, <4>1
      <4> QED
        BY <3>2, <4>2, <4>3
    <3> QED
      BY <3>1, <3>2
  <2>7. f = [n \in 0..k |-> f[n]]
    OBVIOUS
  <2> HIDE DEF f
  <2>8. f = [n \in 0..k |-> IF n = 0 THEN <<>> ELSE Then(f[n - 1], tseqs[n])]
    BY <2>6, <2>7
  <2>9. Joins(f, k, tseqs)
    BY <2>8 DEF Joins
  <2>10. HistoryTo(c, k, kinds) = f[k]
    BY <2>2, <2>5, <2>9, FlattenIs DEF HistoryTo
  <2>11. k \in 0..k
    BY <2>1
  <2>12. HistoryTo(c, k, kinds) = g[k]
    BY <2>4, <2>10, <2>11
  <2>13. seqs[h] = HistoryIn(h, c[h].events, kinds)
    BY <1>2, <2>1 DEF HistorySeqs
  <2> QED
    BY <1>4, <1>5, <2>1, <2>12, <2>13
<1> QED
  BY <1>1, <1>3, <1>4, <1>5, <1>6

(* A chain that keeps its first h blocks keeps what they tell.             *)
LEMMA HistoryKept ==
    ASSUME NEW c, NEW d, NEW h \in Nat, \A b \in 1..h : d[b] = c[b], NEW kinds
    PROVE  HistoryTo(d, h, kinds) = HistoryTo(c, h, kinds)
<1>1. HistorySeqs(d, h, kinds) = HistorySeqs(c, h, kinds)
  BY DEF HistorySeqs
<1> QED
  BY <1>1 DEF HistoryTo

LEMMA ThenNone ==
    ASSUME NEW A, NEW s \in Seq(A)
    PROVE  Then(s, <<>>) = s
<1>1. <<>> \in Seq(A) /\ s \o <<>> \in Seq(A) /\ Len(s \o <<>>) = Len(s)
      /\ \A i \in 1..Len(s) : (s \o <<>>)[i] = s[i]
  OBVIOUS
<1> QED
  BY <1>1, SeqEqual DEF Then

LEMMA ThenAppend ==
    ASSUME NEW A, NEW s \in Seq(A), NEW t \in Seq(A), NEW x \in A
    PROVE  Then(s, Append(t, x)) = Append(Then(s, t), x)
<1>1. PICK u \in Seq(A) : u = Append(t, x)
  BY AppendProperties
<1>2. Len(u) = Len(t) + 1 /\ u[Len(t) + 1] = x /\ \A k \in 1..Len(t) : u[k] = t[k]
  BY <1>1, AppendProperties
<1>3. Len(s) \in Nat /\ Len(t) \in Nat
  OBVIOUS
<1>4. PICK v \in Seq(A) : v = s \o t
  BY ConcatProperties
<1>5. PICK w \in Seq(A) : w = s \o u
  BY ConcatProperties
<1>11. /\ Len(v) = Len(s) + Len(t)
       /\ \A i \in 1..(Len(s) + Len(t)) : v[i] = IF i <= Len(s) THEN s[i] ELSE t[i - Len(s)]
  BY <1>4, ConcatProperties
<1>12. /\ Len(w) = Len(s) + Len(u)
       /\ \A i \in 1..(Len(s) + Len(u)) : w[i] = IF i <= Len(s) THEN s[i] ELSE u[i - Len(s)]
  BY <1>5, ConcatProperties
<1>6. PICK y \in Seq(A) : y = Append(v, x)
  BY AppendProperties
<1>7. Len(y) = Len(v) + 1 /\ y[Len(v) + 1] = x /\ \A k \in 1..Len(v) : y[k] = v[k]
  BY <1>6, AppendProperties
<1>8. Len(w) = Len(y)
  BY <1>2, <1>3, <1>7, <1>11, <1>12
<1>9. ASSUME NEW i \in 1..Len(w) PROVE w[i] = y[i]
  <2>1. CASE i <= Len(s)
    <3>1. i \in 1..(Len(s) + Len(t)) /\ i \in 1..(Len(s) + Len(u)) /\ i \in 1..Len(v)
      BY <1>2, <1>3, <1>11, <1>12, <2>1
    <3> QED
      BY <1>7, <1>11, <1>12, <2>1, <3>1
  <2>2. CASE i > Len(s) /\ i <= Len(s) + Len(t)
    <3>1. /\ i \in 1..(Len(s) + Len(t)) /\ i \in 1..(Len(s) + Len(u)) /\ i \in 1..Len(v)
          /\ i - Len(s) \in 1..Len(t) /\ ~(i <= Len(s))
      BY <1>2, <1>3, <1>11, <1>12, <2>2
    <3> QED
      BY <1>2, <1>7, <1>11, <1>12, <3>1
  <2>3. CASE i = Len(s) + Len(t) + 1
    <3>1. /\ i \in 1..(Len(s) + Len(u)) /\ ~(i <= Len(s)) /\ i - Len(s) = Len(t) + 1
          /\ i = Len(v) + 1
      BY <1>2, <1>3, <1>11, <2>3
    <3> QED
      BY <1>2, <1>7, <1>12, <3>1
  <2>4. i <= Len(s) \/ (i > Len(s) /\ i <= Len(s) + Len(t)) \/ i = Len(s) + Len(t) + 1
    <3>1. PICK a \in Nat, c \in Nat : a = Len(s) /\ c = Len(t)
      BY <1>3
    <3>2. i \in Nat /\ i <= a + c + 1
      BY <1>2, <1>12, <3>1
    <3>3. i <= a \/ (i > a /\ i <= a + c) \/ i = a + c + 1
      BY <3>2
    <3> QED
      BY <3>1, <3>3
  <2> QED
    BY <2>1, <2>2, <2>3, <2>4
<1>10. w = y
  BY <1>8, <1>9, SeqEqual
<1> QED
  BY <1>1, <1>4, <1>5, <1>6, <1>10 DEF Then

===============================================================================
