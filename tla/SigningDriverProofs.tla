-------------------------- MODULE SigningDriverProofs --------------------------
(***************************************************************************)
(* Proofs about SigningDriver, for any pages, attempts, lag and chain.     *)
(*                                                                         *)
(* The argument: what a call says of its request fits what is with the     *)
(* wallet and the network (AllFit); the coins of the account only go up    *)
(* here, past every attempt that ran (CoinsRise), so an account that reads *)
(* the same did not run it in between; and the lock stays while an attempt *)
(* may still run, with its page showing the lock or the attempt itself     *)
(* (AllKept), until one of the excuses of OneIsOut.                        *)
(***************************************************************************)
EXTENDS SigningDriver, FiniteSetTheorems, TLAPS

Reached(a) == Live(a) \/ ranAt[a] # 0

(* The account as the call first read it, before its transaction ran.      *)
Before(a, mark) ==
    \E h \in 1..Latest : marks[h] = mark /\ (ranAt[a] # 0 => h < ranAt[a])

Fits(a, c) ==
    /\ c.stage # "none" => c.page \in Pages
    /\ c.outcome # "none" => c.stage \in {"failed", "over"}
    /\ Reached(a) => c.stage \in {"asked", "settling", "over"}
                   /\ c.outcome \notin {"failed", "refused"}
    /\ c.mark # NoMark => Before(a, c.mark)
    /\ c.stage = "settling" =>
          c.mark # NoMark /\ c.target + MaxLag >= c.replied + SettleBlocks
    /\ c.outcome = "cancelled" =>
          IF ranAt[a] = 0 THEN Latest + MaxLag >= c.replied + SettleBlocks
          ELSE ranAt[a] + MaxLag > c.replied + SettleBlocks

AllFit == \A a \in Attempts : Fits(a, calls[a])

(* A request is in one place at a time.                                    *)
OnePlace ==
    \A a \in Attempts :
        /\ ~(a \in wallet /\ a \in inFlight)
        /\ a \in mempool => a \notin wallet \cup inFlight
        /\ ranAt[a] # 0 => ~Live(a)

CoinsRise ==
    \A i, j \in 1..Latest : i < j =>
        /\ marks[i].coins <= marks[j].coins
        /\ \A a \in Attempts :
              i < ranAt[a] /\ ranAt[a] <= j => marks[i].coins < marks[j].coins

NotYet == \A c \in Attempts : ranAt[c] = 0

Excused(a) == a \in checked \cup taken \/ calls[a].outcome = "cancelled"

Released == {"failed", "refused", "cancelled", "confirmed"}

(* The lock keeps a page from the action while an attempt of it waits.     *)
Kept(a) ==
    UnderWay(a) /\ NotYet /\ ~Excused(a) =>
        /\ locked
        /\ OnSheet(a) \/ calls[a].page \in showing
        /\ \A b \in Attempts : b # a /\ calls[b].page = calls[a].page =>
              ~Active(b) /\ ~OnSheet(b) /\ (Live(b) => Excused(b))

AllKept == \A a \in Attempts : Kept(a)

OneSheet ==
    \A a, b \in Attempts :
        OnSheet(a) /\ OnSheet(b) /\ calls[a].page = calls[b].page => a = b

IInv == TypeOK /\ AllFit /\ OnePlace /\ CoinsRise /\ AllKept /\ OneSheet

-------------------------------------------------------------------------------
(* Steps of one call.                                                      *)

CallStep(a) ==
    /\ calls' \in [Attempts -> Call]
    /\ \A b \in Attempts : b # a => calls'[b] = calls[b]
    /\ UNCHANGED <<marks, mempool, ranAt, others, checked, ends>>
    /\ wallet' \in SUBSET Attempts /\ inFlight' \in SUBSET Attempts
    /\ \A b \in Attempts : b # a => (b \in wallet' <=> b \in wallet)
                                    /\ (b \in inFlight' <=> b \in inFlight)
    /\ locked' \in BOOLEAN /\ showing' \in SUBSET Pages
    /\ taken' \in SUBSET Attempts

SafeStep(a) ==
    /\ Fits(a, calls[a])'
    /\ a \in wallet' => a \notin inFlight'
    /\ a \in mempool \/ ranAt[a] # 0 => a \notin wallet' /\ a \notin inFlight'

LEMMA CallKeepsSafe ==
    ASSUME IInv, NEW a \in Attempts, CallStep(a), SafeStep(a)
    PROVE  TypeOK' /\ AllFit' /\ OnePlace' /\ CoinsRise'
<1>1. TypeOK'
  BY DEF IInv, TypeOK, CallStep, Latest
<1>2. ASSUME NEW b \in Attempts PROVE Fits(b, calls[b])'
  <2>1. CASE b = a
    BY <2>1 DEF SafeStep
  <2>2. CASE b # a
    <3>1. Fits(b, calls[b])
      BY DEF IInv, AllFit
    <3>2. calls'[b] = calls[b] /\ (Reached(b)' <=> Reached(b))
      BY <2>2 DEF CallStep, Reached, Live
    <3>3. QED
      BY <3>1, <3>2 DEF CallStep, Fits, Before, Latest
  <2>3. QED
    BY <2>1, <2>2
<1>3. OnePlace'
  <2>1. ASSUME NEW b \in Attempts
        PROVE  /\ ~(b \in wallet' /\ b \in inFlight')
               /\ b \in mempool' => b \notin wallet' \cup inFlight'
               /\ ranAt'[b] # 0 => ~Live(b)'
    <3>1. CASE b = a
      BY <3>1 DEF CallStep, SafeStep, IInv, OnePlace, Live
    <3>2. CASE b # a
      BY <3>2 DEF CallStep, IInv, OnePlace, Live
    <3>3. QED
      BY <3>1, <3>2
  <2>2. QED
    BY <2>1 DEF OnePlace
<1>4. CoinsRise'
  BY DEF IInv, CoinsRise, CallStep, Latest
<1>5. QED
  BY <1>1, <1>2, <1>3, <1>4 DEF AllFit

LockStep(a) ==
    /\ calls'[a].page = calls[a].page
    /\ calls[a].outcome \in Released => calls'[a].outcome = calls[a].outcome
    /\ taken \subseteq taken'
    /\ Live(a)' => UnderWay(a)
    /\ Active(a)' => Active(a)
    /\ OnSheet(a)' => OnSheet(a)
    /\ locked /\ ~locked' =>
          /\ \A b \in Attempts :
                UnderWay(b) /\ calls[b].page # calls[a].page => b \in taken'
          /\ \/ ~NotYet
             \/ /\ Active(a) \/ OnSheet(a)
                /\ calls'[a].outcome = "cancelled" \/ ~UnderWay(a)'
    /\ locked' => showing \subseteq showing'
    /\ OnSheet(a) /\ ~OnSheet(a)' /\ locked' /\ UnderWay(a)' => calls[a].page \in showing'

LEMMA ExcusesStay ==
    ASSUME NEW a \in Attempts, CallStep(a), LockStep(a), NEW b \in Attempts, Excused(b)
    PROVE  Excused(b)'
<1>1. /\ calls'[b].page = calls[b].page
      /\ calls[b].outcome \in Released => calls'[b].outcome = calls[b].outcome
  BY DEF CallStep, LockStep
<1>2. CASE b \in checked \cup taken
  BY <1>2 DEF CallStep, LockStep, Excused
<1>3. CASE calls[b].outcome = "cancelled"
  BY <1>1, <1>3 DEF Excused, Released
<1>4. QED
  BY <1>2, <1>3 DEF Excused

LEMMA CallKeepsLock ==
    ASSUME IInv, NEW a \in Attempts, CallStep(a), LockStep(a)
    PROVE  AllKept' /\ OneSheet'
<1>1. ASSUME NEW b \in Attempts, b # a
      PROVE  /\ Active(b)' <=> Active(b)
             /\ OnSheet(b)' <=> OnSheet(b)
             /\ Live(b)' <=> Live(b)
             /\ calls'[b].page = calls[b].page
  BY <1>1 DEF CallStep, Active, OnSheet, Live
<1>2. /\ calls'[a].page = calls[a].page
      /\ Active(a)' => Active(a)
      /\ OnSheet(a)' => OnSheet(a)
      /\ Live(a)' => UnderWay(a)
  BY DEF LockStep
<1>3. NotYet' <=> NotYet
  BY DEF CallStep, NotYet
<1>4. ASSUME NEW b \in Attempts, UnderWay(b)', NotYet', ~Excused(b)'
      PROVE  /\ locked'
             /\ OnSheet(b)' \/ calls'[b].page \in showing'
             /\ \A x \in Attempts : x # b /\ calls'[x].page = calls'[b].page =>
                    ~Active(x)' /\ ~OnSheet(x)' /\ (Live(x)' => Excused(x)')
  <2>1. UnderWay(b) /\ NotYet /\ ~Excused(b)
    BY <1>1, <1>2, <1>3, <1>4, ExcusesStay DEF UnderWay
  <2>2. /\ locked
        /\ OnSheet(b) \/ calls[b].page \in showing
        /\ \A x \in Attempts : x # b /\ calls[x].page = calls[b].page =>
              ~Active(x) /\ ~OnSheet(x) /\ (Live(x) => Excused(x))
    BY <2>1 DEF IInv, AllKept, Kept
  <2>3. calls'[b].page = calls[b].page
    BY <1>1, <1>2
  <2>4. locked'
    <3>1. SUFFICES ASSUME ~locked' PROVE FALSE
      OBVIOUS
    <3>2. /\ calls[b].page # calls[a].page => b \in taken'
          /\ Active(a) \/ OnSheet(a)
          /\ calls'[a].outcome = "cancelled" \/ ~UnderWay(a)'
      BY <2>1, <2>2, <3>1 DEF LockStep
    <3>3. CASE b = a
      BY <1>4, <3>2, <3>3 DEF Excused
    <3>4. CASE b # a /\ calls[b].page = calls[a].page
      BY <2>2, <3>2, <3>4
    <3>5. CASE calls[b].page # calls[a].page
      BY <1>4, <3>2, <3>5 DEF Excused
    <3>6. QED
      BY <3>3, <3>4, <3>5
  <2>5. OnSheet(b)' \/ calls'[b].page \in showing'
    <3>1. showing \subseteq showing'
      BY <2>4 DEF LockStep
    <3>2. CASE b # a
      BY <1>1, <2>2, <2>3, <3>1, <3>2
    <3>3. CASE b = a
      BY <1>4, <2>2, <2>3, <2>4, <3>1, <3>3 DEF LockStep
    <3>4. QED
      BY <3>2, <3>3
  <2>6. ASSUME NEW x \in Attempts, x # b, calls'[x].page = calls'[b].page
        PROVE  ~Active(x)' /\ ~OnSheet(x)' /\ (Live(x)' => Excused(x)')
    <3>1. calls[x].page = calls[b].page
      BY <1>1, <1>2, <2>3, <2>6
    <3>2. ~Active(x) /\ ~OnSheet(x) /\ (Live(x) => Excused(x))
      BY <2>2, <2>6, <3>1
    <3>3. Live(x)' => Live(x)
      BY <1>1, <1>2, <3>2 DEF UnderWay
    <3>4. QED
      BY <1>1, <1>2, <3>2, <3>3, ExcusesStay
  <2>7. QED
    BY <2>4, <2>5, <2>6
<1>5. AllKept'
  BY <1>4 DEF AllKept, Kept
<1>6. OneSheet'
  <2>1. ASSUME NEW x \in Attempts, NEW y \in Attempts, OnSheet(x)', OnSheet(y)',
               calls'[x].page = calls'[y].page
        PROVE  x = y
    <3>1. OnSheet(x) /\ OnSheet(y) /\ calls[x].page = calls[y].page
      BY <1>1, <1>2, <2>1
    <3>2. QED
      BY <3>1 DEF IInv, OneSheet
  <2>2. QED
    BY <2>1 DEF OneSheet
<1>7. QED
  BY <1>5, <1>6

LEMMA CallKeeps ==
    ASSUME IInv, NEW a \in Attempts, CallStep(a), SafeStep(a), LockStep(a)
    PROVE  IInv'
BY CallKeepsSafe, CallKeepsLock DEF IInv

-------------------------------------------------------------------------------
(* What the operators of a step do to a call.                              *)

Outcomes == {"failed", "cancelled", "refused", "unknown", "seen", "sent", "confirmed"}

LEMMA MovesEffect ==
    ASSUME TypeOK, NEW a \in Attempts, NEW call \in Call, Moves(a, call)
    PROVE  /\ calls' \in [Attempts -> Call]
           /\ calls'[a] = call
           /\ \A b \in Attempts : b # a => calls'[b] = calls[b]
BY DEF Moves, TypeOK

LEMMA RendersEffect ==
    ASSUME TypeOK, NEW p \in Pages, Renders(p)
    PROVE  /\ showing' \in SUBSET Pages
           /\ locked' => showing \subseteq showing' /\ p \in showing'
BY DEF Renders, TypeOK

LEMMA EndsEffect ==
    ASSUME TypeOK, NEW a \in Attempts, calls[a].page \in Pages,
           NEW outcome \in Outcomes, Ends(a, outcome)
    PROVE  /\ calls' \in [Attempts -> Call]
           /\ \A b \in Attempts : b # a => calls'[b] = calls[b]
           /\ calls'[a].page = calls[a].page
           /\ calls'[a].owned = calls[a].owned
           /\ calls'[a].outcome = outcome
           /\ calls'[a].mark = NoMark
           /\ calls'[a].stage = IF outcome = "failed" /\ calls[a].owned THEN "failed" ELSE "over"
           /\ outcome = "cancelled" => calls'[a].replied = calls[a].replied
           /\ showing' \in SUBSET Pages
           /\ locked' => showing \subseteq showing'
           /\ locked' /\ outcome # "failed" => calls[a].page \in showing'
<1> DEFINE c == calls[a]
           call == [c EXCEPT !.outcome = outcome, !.mark = NoMark, !.moved = 0, !.target = 0,
                        !.replied = IF outcome = "cancelled" THEN @ ELSE 0,
                        !.stage = IF outcome = "failed" /\ c.owned THEN "failed" ELSE "over"]
<1>1. c \in Call
  BY DEF TypeOK
<1>2. call \in Call
  BY <1>1 DEF Call, Outcomes
<1>3. Moves(a, call)
  BY DEF Ends
<1>4. /\ call.page = c.page /\ call.owned = c.owned /\ call.outcome = outcome
      /\ call.mark = NoMark
      /\ call.stage = IF outcome = "failed" /\ c.owned THEN "failed" ELSE "over"
      /\ outcome = "cancelled" => call.replied = c.replied
  BY <1>1 DEF Call
<1>5. /\ showing' \in SUBSET Pages
      /\ locked' => showing \subseteq showing'
      /\ locked' /\ outcome # "failed" => calls[a].page \in showing'
  BY RendersEffect DEF Ends, TypeOK
<1> HIDE DEF call
<1>6. QED
  BY <1>2, <1>3, <1>4, <1>5, MovesEffect

(* A call that gets its outcome, whichever it is.                          *)
LEMMA EndsKeeps ==
    ASSUME IInv, NEW a \in Attempts, NEW outcome \in Outcomes, Ends(a, outcome),
           UNCHANGED <<marks, mempool, ranAt, others, checked, ends>>,
           wallet' \in {wallet, wallet \ {a}}, inFlight' \in {inFlight, inFlight \ {a}},
           UNCHANGED <<locked, taken>> \/ Release(a),
           calls[a].stage # "none", calls[a].outcome \in {"none", "sent"},
           outcome = "failed" => Active(a) \/ calls[a].stage = "review",
           outcome \in {"failed", "refused"} => ~Reached(a)',
           outcome = "cancelled" =>
               IF ranAt[a] = 0 THEN Latest + MaxLag >= calls[a].replied + SettleBlocks
               ELSE ranAt[a] + MaxLag > calls[a].replied + SettleBlocks,
           locked /\ ~locked' =>
               outcome \in Released /\ (~NotYet \/ (outcome # "confirmed" /\ (Active(a) \/ OnSheet(a))))
    PROVE  IInv'
<1>1. Fits(a, calls[a]) /\ calls[a].page \in Pages
  BY DEF IInv, AllFit, Fits
<1>2. /\ calls' \in [Attempts -> Call]
      /\ \A b \in Attempts : b # a => calls'[b] = calls[b]
      /\ calls'[a].page = calls[a].page
      /\ calls'[a].owned = calls[a].owned
      /\ calls'[a].outcome = outcome
      /\ calls'[a].mark = NoMark
      /\ calls'[a].stage = IF outcome = "failed" /\ calls[a].owned THEN "failed" ELSE "over"
      /\ outcome = "cancelled" => calls'[a].replied = calls[a].replied
      /\ showing' \in SUBSET Pages
      /\ locked' => showing \subseteq showing'
      /\ locked' /\ outcome # "failed" => calls[a].page \in showing'
  BY <1>1, EndsEffect DEF IInv
<1>3. /\ locked' \in BOOLEAN /\ taken' \in SUBSET Attempts /\ taken \subseteq taken'
      /\ locked /\ ~locked' =>
            \A b \in Attempts : UnderWay(b) /\ calls[b].page # calls[a].page => b \in taken'
  BY DEF Release, IInv, TypeOK
<1>4. CallStep(a) /\ (Reached(a)' => Reached(a))
  BY <1>2, <1>3 DEF CallStep, IInv, TypeOK, Reached, Live
<1>5. SafeStep(a)
  <2>1. Fits(a, calls[a])'
    BY <1>1, <1>2, <1>4 DEF Fits, Outcomes, Latest
  <2>2. QED
    BY <2>1 DEF SafeStep, IInv, OnePlace, Live
<1>6. /\ ~Active(a)'
      /\ OnSheet(a)' => outcome = "failed" /\ calls[a].owned
      /\ Live(a)' => Live(a)
  BY <1>2 DEF Active, OnSheet, Live
<1>7. outcome \in {"failed", "refused"} => ~UnderWay(a)'
  BY <1>6 DEF UnderWay, Reached
<1>8. LockStep(a)
  <2>1. OnSheet(a)' => OnSheet(a)
    BY <1>6 DEF OnSheet
  <2>2. locked /\ ~locked' =>
          \/ ~NotYet
          \/ /\ Active(a) \/ OnSheet(a)
             /\ calls'[a].outcome = "cancelled" \/ ~UnderWay(a)'
    BY <1>2, <1>7 DEF Released
  <2>3. QED
    BY <1>2, <1>3, <1>6, <1>7, <2>1, <2>2 DEF LockStep, UnderWay, Released
<1>9. QED
  BY <1>4, <1>5, <1>8, CallKeeps

-------------------------------------------------------------------------------
(* Calls that end.                                                         *)

LEMMA FailKeeps ==
    ASSUME IInv, NEW a \in Attempts, Fail(a) PROVE IInv'
<1>1. /\ calls[a].stage \in {"checking", "marked", "starting"}
      /\ Fits(a, calls[a])
  BY DEF Fail, IInv, AllFit
<1>2. ~Reached(a)' /\ Active(a) /\ calls[a].outcome = "none"
  BY <1>1 DEF Fail, Fits, Reached, Live, Active, IInv, TypeOK, Call, chainVars, walletVars
<1>3. QED
  BY <1>1, <1>2, EndsKeeps DEF Fail, chainVars, walletVars, Outcomes, Released

LEMMA SentKeeps ==
    ASSUME IInv, NEW a \in Attempts, Sent(a) PROVE IInv'
<1>1. calls[a].stage = "asked" /\ Fits(a, calls[a])
  BY DEF Sent, IInv, AllFit
<1>2. calls[a].outcome = "none"
  BY <1>1 DEF Fits, IInv, TypeOK, Call
<1>3. QED
  BY <1>1, <1>2, EndsKeeps DEF Sent, chainVars, walletVars, Outcomes

LEMMA BrokenKeeps ==
    ASSUME IInv, NEW a \in Attempts, Broken(a) PROVE IInv'
<1>1. calls[a].stage = "asked" /\ Fits(a, calls[a])
  BY DEF Broken, IInv, AllFit
<1>2. calls[a].outcome = "none"
  BY <1>1 DEF Fits, IInv, TypeOK, Call
<1>3. QED
  BY <1>1, <1>2, EndsKeeps DEF Broken, chainVars, Outcomes

LEMMA GiveUpKeeps ==
    ASSUME IInv, NEW a \in Attempts, GiveUp(a) PROVE IInv'
<1>1. calls[a].stage \in {"starting", "asked"} /\ Fits(a, calls[a])
  BY DEF GiveUp, IInv, AllFit
<1>2. calls[a].outcome = "none"
  BY <1>1 DEF Fits, IInv, TypeOK, Call
<1>3. QED
  BY <1>1, <1>2, EndsKeeps DEF GiveUp, chainVars, walletVars, Outcomes

(* The request was in flight, so it is nowhere else.                       *)
LEMMA RefusedKeeps ==
    ASSUME IInv, NEW a \in Attempts, Refused(a) PROVE IInv'
<1>1. Fits(a, calls[a]) /\ a \in inFlight /\ inFlight' = inFlight \ {a}
  BY DEF Refused, IInv, AllFit
<1>2. ~Reached(a)'
  BY <1>1 DEF Refused, Reached, Live, IInv, OnePlace, chainVars
<1>3. CASE calls[a].stage = "asked"
  <2>1. calls[a].outcome = "none" /\ Active(a)
    BY <1>1, <1>3 DEF Fits, Active, IInv, TypeOK, Call
  <2>2. QED
    BY <1>1, <1>2, <1>3, <2>1, EndsKeeps
       DEF Refused, chainVars, Outcomes, Released
<1>4. CASE calls[a].stage # "asked"
  <2>1. UNCHANGED <<lockVars, calls, chainVars, wallet, checked, ends>>
    BY <1>4 DEF Refused
  <2>2. CallStep(a)
    BY <1>1, <2>1 DEF CallStep, lockVars, chainVars, IInv, TypeOK
  <2>3. SafeStep(a)
    <3>1. Fits(a, calls[a])'
      BY <1>1, <1>2, <2>1 DEF Fits, Before, Reached, Latest, chainVars
    <3>2. QED
      BY <1>1, <2>1, <3>1 DEF SafeStep, IInv, OnePlace, Live
  <2>4. LockStep(a)
    BY <1>1, <2>1 DEF LockStep, lockVars, chainVars, Live, UnderWay, Active, OnSheet
  <2>5. QED
    BY <2>2, <2>3, <2>4, CallKeeps
<1>5. QED
  BY <1>3, <1>4

(* The account reads at the target block as before the call: the coins did *)
(* not rise, so the transaction was in no block up to that one.            *)
LEMMA NotRanByTarget ==
    ASSUME IInv, NEW a \in Attempts, calls[a].stage = "settling",
           calls[a].target <= Latest, marks[calls[a].target] = calls[a].mark
    PROVE  IF ranAt[a] = 0 THEN Latest + MaxLag >= calls[a].replied + SettleBlocks
           ELSE ranAt[a] + MaxLag > calls[a].replied + SettleBlocks
<1> DEFINE t == calls[a].target
<1>1. /\ calls[a].mark # NoMark /\ Before(a, calls[a].mark)
      /\ t + MaxLag >= calls[a].replied + SettleBlocks
  BY DEF IInv, AllFit, Fits
<1>2. PICK h \in 1..Latest : marks[h] = calls[a].mark /\ (ranAt[a] # 0 => h < ranAt[a])
  BY <1>1 DEF Before
<1>3. /\ t \in Nat /\ calls[a].replied \in Nat /\ ranAt[a] \in Nat
      /\ Latest \in Nat /\ MaxLag \in Nat /\ SettleBlocks \in Nat
  BY SignerAssumption DEF IInv, TypeOK, Call, Latest
<1>4. CASE ranAt[a] = 0
  BY <1>1, <1>3, <1>4
<1>5. CASE ranAt[a] # 0
  <2>1. ranAt[a] > t
    <3>1. SUFFICES ASSUME ranAt[a] <= t PROVE FALSE
      BY <1>3
    <3>2. t \in 1..Latest /\ h < t
      BY <1>2, <1>3, <1>5, <3>1
    <3>3. marks[h].coins < marks[t].coins
      BY <1>2, <1>5, <3>1, <3>2 DEF IInv, CoinsRise
    <3>4. marks[h] \in Mark
      BY <1>2 DEF IInv, TypeOK, Latest
    <3>5. QED
      BY <1>2, <3>3, <3>4 DEF Mark
  <2>2. QED
    BY <1>1, <1>3, <1>5, <2>1
<1>6. QED
  BY <1>4, <1>5

LEMMA SettleKeeps ==
    ASSUME IInv, NEW a \in Attempts, Settle(a) PROVE IInv'
<1>1. calls[a].stage = "settling" /\ Fits(a, calls[a])
  BY DEF Settle, IInv, AllFit
<1>2. calls[a].outcome = "none" /\ Active(a)
  BY <1>1 DEF Fits, Active, IInv, TypeOK, Call
<1>3. CASE /\ calls[a].target <= Latest /\ marks[calls[a].target] = calls[a].mark
           /\ Release(a) /\ Ends(a, "cancelled")
  <2>1. IF ranAt[a] = 0 THEN Latest + MaxLag >= calls[a].replied + SettleBlocks
        ELSE ranAt[a] + MaxLag > calls[a].replied + SettleBlocks
    BY <1>1, <1>3, NotRanByTarget
  <2>2. QED
    BY <1>1, <1>2, <1>3, <2>1, EndsKeeps
       DEF Settle, chainVars, walletVars, Outcomes, Released
<1>4. CASE UNCHANGED <<locked, taken>> /\ Ends(a, "unknown")
  BY <1>1, <1>2, <1>4, EndsKeeps DEF Settle, chainVars, walletVars, Outcomes
<1>5. QED
  BY <1>3, <1>4 DEF Settle

LEMMA ConfirmKeeps ==
    ASSUME IInv, NEW a \in Attempts, Confirm(a) PROVE IInv'
<1>1. calls[a].outcome = "sent" /\ Fits(a, calls[a]) /\ ~NotYet
  BY DEF Confirm, IInv, AllFit, NotYet
<1>2. calls[a].stage # "none"
  BY <1>1 DEF Fits
<1>3. UNCHANGED <<locked, taken>> \/ Release(a)
  BY DEF Confirm
<1>4. QED
  BY <1>1, <1>2, <1>3, EndsKeeps
     DEF Confirm, chainVars, walletVars, Outcomes, Released

-------------------------------------------------------------------------------
(* Calls that go on.                                                       *)

Going == {"checking", "marked", "starting", "asked", "settling"}

LEMMA GoesOn ==
    ASSUME IInv, NEW a \in Attempts, NEW call \in Call, Moves(a, call),
           UNCHANGED <<marks, mempool, ranAt, others, checked, ends, inFlight, locked, showing, taken>>,
           wallet' \in {wallet, wallet \ {a}},
           calls[a].stage \in Going, call.stage \in Going,
           call.page = calls[a].page, call.owned = calls[a].owned,
           call.outcome = calls[a].outcome, Fits(a, call)
    PROVE  IInv'
<1>1. /\ calls' \in [Attempts -> Call]
      /\ calls'[a] = call
      /\ \A b \in Attempts : b # a => calls'[b] = calls[b]
  BY MovesEffect DEF IInv
<1>2. CallStep(a)
  BY <1>1 DEF CallStep, IInv, TypeOK
<1>3. (Reached(a)' => Reached(a)) /\ (Live(a)' => Live(a))
  BY DEF Reached, Live
<1>4. SafeStep(a)
  <2>1. Fits(a, calls[a])'
    BY <1>1, <1>3 DEF Fits, Before, Latest
  <2>2. QED
    BY <2>1 DEF SafeStep, IInv, OnePlace, Live
<1>5. LockStep(a)
  <2>1. Active(a) /\ (OnSheet(a)' => OnSheet(a)) /\ (OnSheet(a) => OnSheet(a)')
    BY <1>1 DEF Active, OnSheet, Going
  <2>2. QED
    BY <1>1, <1>3, <2>1 DEF LockStep, UnderWay, Released
<1>6. QED
  BY <1>2, <1>4, <1>5, CallKeeps

LEMMA MarkAtHead ==
    ASSUME TypeOK, NEW h \in Heads
    PROVE  h \in 1..Latest /\ marks[h] \in Mark
BY DEF TypeOK, Heads, Latest

LEMMA ReadMarkKeeps ==
    ASSUME IInv, NEW a \in Attempts, ReadMark(a) PROVE IInv'
<1>1. PICK mark \in {marks[h] : h \in Heads} \cup {NoMark} :
         Moves(a, [calls[a] EXCEPT !.stage = "marked", !.mark = mark])
  BY DEF ReadMark
<1> DEFINE call == [calls[a] EXCEPT !.stage = "marked", !.mark = mark]
<1>2. calls[a] \in Call /\ calls[a].stage = "checking" /\ Fits(a, calls[a])
  BY DEF ReadMark, IInv, TypeOK, AllFit
<1>3. ~Reached(a)
  BY <1>2 DEF Fits
<1>4. mark # NoMark => mark \in Mark /\ Before(a, mark)
  BY <1>3, MarkAtHead DEF IInv, Before, Reached
<1>5. call \in Call
  BY <1>2, <1>4 DEF Call
<1>6. /\ call.stage = "marked" /\ call.mark = mark /\ call.page = calls[a].page
      /\ call.owned = calls[a].owned /\ call.outcome = calls[a].outcome
  BY <1>2 DEF Call
<1> HIDE DEF call
<1>7. Fits(a, call)
  BY <1>2, <1>3, <1>4, <1>6 DEF Fits
<1>8. QED
  BY <1>1, <1>2, <1>5, <1>6, <1>7, GoesOn
     DEF ReadMark, Going, chainVars, walletVars, lockVars, call

LEMMA OpenWalletKeeps ==
    ASSUME IInv, NEW a \in Attempts, OpenWallet(a) PROVE IInv'
<1> DEFINE call == [calls[a] EXCEPT !.stage = "starting"]
<1>1. calls[a] \in Call /\ calls[a].stage = "marked" /\ Fits(a, calls[a])
  BY DEF OpenWallet, IInv, TypeOK, AllFit
<1>2. call \in Call
  BY <1>1 DEF Call
<1>3. /\ call.stage = "starting" /\ call.mark = calls[a].mark /\ call.page = calls[a].page
      /\ call.owned = calls[a].owned /\ call.outcome = calls[a].outcome
  BY <1>1 DEF Call
<1>4. Moves(a, call)
  BY DEF OpenWallet
<1> HIDE DEF call
<1>5. Fits(a, call)
  BY <1>1, <1>3 DEF Fits
<1>6. QED
  BY <1>1, <1>2, <1>3, <1>4, <1>5, GoesOn
     DEF OpenWallet, Going, chainVars, walletVars, lockVars

(* The request reaches the wallet, which had none of this call.            *)
LEMMA AskWalletKeeps ==
    ASSUME IInv, NEW a \in Attempts, AskWallet(a) PROVE IInv'
<1> DEFINE call == [calls[a] EXCEPT !.stage = "asked"]
<1>1. calls[a] \in Call /\ calls[a].stage = "starting" /\ Fits(a, calls[a])
  BY DEF AskWallet, IInv, TypeOK, AllFit
<1>2. call \in Call
  BY <1>1 DEF Call
<1>3. /\ call.stage = "asked" /\ call.mark = calls[a].mark /\ call.page = calls[a].page
      /\ call.owned = calls[a].owned /\ call.outcome = calls[a].outcome
  BY <1>1 DEF Call
<1>4. Moves(a, call) /\ wallet' = wallet \cup {a}
  BY DEF AskWallet
<1> HIDE DEF call
<1>5. /\ calls' \in [Attempts -> Call]
      /\ calls'[a] = call
      /\ \A b \in Attempts : b # a => calls'[b] = calls[b]
  BY <1>2, <1>4, MovesEffect DEF IInv
<1>6. ~Reached(a) /\ calls[a].outcome = "none"
  BY <1>1 DEF Fits, Call
<1>7. CallStep(a)
  BY <1>4, <1>5 DEF AskWallet, CallStep, IInv, TypeOK, chainVars, lockVars
<1>8. SafeStep(a)
  <2>1. Fits(a, calls[a])'
    BY <1>1, <1>3, <1>5, <1>6 DEF AskWallet, Fits, Before, Latest, chainVars
  <2>2. QED
    BY <1>6, <2>1 DEF AskWallet, SafeStep, Reached, Live, chainVars
<1>9. LockStep(a)
  <2>1. Active(a) /\ (OnSheet(a) <=> OnSheet(a)')
    BY <1>1, <1>3, <1>5 DEF Active, OnSheet
  <2>2. QED
    BY <1>3, <1>5, <2>1 DEF AskWallet, LockStep, UnderWay, lockVars
<1>10. QED
  BY <1>7, <1>8, <1>9, CallKeeps

LEMMA RejectedKeeps ==
    ASSUME IInv, NEW a \in Attempts, Rejected(a) PROVE IInv'
<1>1. calls[a] \in Call /\ calls[a].stage = "asked" /\ Fits(a, calls[a])
  BY DEF Rejected, IInv, TypeOK, AllFit
<1>2. calls[a].outcome = "none"
  BY <1>1 DEF Fits, Call
<1>3. CASE Ends(a, "unknown")
  BY <1>1, <1>2, <1>3, EndsKeeps DEF Rejected, chainVars, Outcomes
<1>4. ASSUME NEW h \in Heads, calls[a].mark # NoMark, UNCHANGED showing,
             Moves(a, [calls[a] EXCEPT !.stage = "settling", !.moved = 0,
                           !.target = h + SettleBlocks, !.replied = Latest])
      PROVE  IInv'
  <2> DEFINE call == [calls[a] EXCEPT !.stage = "settling", !.moved = 0,
                          !.target = h + SettleBlocks, !.replied = Latest]
  <2>1. /\ h \in Nat /\ Latest \in Nat /\ SettleBlocks \in Nat /\ MaxLag \in Nat
        /\ h + SettleBlocks \in Nat /\ h + MaxLag >= Latest
    BY SignerAssumption DEF IInv, TypeOK, Heads, Latest
  <2> DEFINE target == h + SettleBlocks
  <2> HIDE DEF target
  <2>2. call \in Call
    <3>1. target \in Nat /\ Latest \in Nat
      BY <2>1 DEF target
    <3>2. call = [calls[a] EXCEPT !.stage = "settling", !.moved = 0,
                      !.target = target, !.replied = Latest]
      BY DEF target
    <3> HIDE DEF call
    <3>3. QED
      BY <1>1, <3>1, <3>2 DEF Call
  <2>3. /\ call.stage = "settling" /\ call.mark = calls[a].mark /\ call.page = calls[a].page
        /\ call.owned = calls[a].owned /\ call.outcome = calls[a].outcome
        /\ call.target = h + SettleBlocks /\ call.replied = Latest
    BY <1>1 DEF Call
  <2>4. Moves(a, call)
    BY <1>4
  <2> HIDE DEF call
  <2>5. Fits(a, call)
    BY <1>1, <1>2, <1>4, <2>1, <2>3 DEF Fits
  <2>6. QED
    BY <1>1, <1>4, <2>2, <2>3, <2>4, <2>5, GoesOn DEF Rejected, Going, chainVars
<1>5. QED
  BY <1>3, <1>4 DEF Rejected

LEMMA WatchKeeps ==
    ASSUME IInv, NEW a \in Attempts, Watch(a) PROVE IInv'
<1>1. calls[a] \in Call /\ calls[a].stage \in {"starting", "asked"} /\ Fits(a, calls[a])
  BY DEF Watch, IInv, TypeOK, AllFit
<1>2. calls[a].outcome = "none"
  BY <1>1 DEF Fits, Call
<1>3. CASE Ends(a, "seen")
  BY <1>1, <1>2, <1>3, EndsKeeps DEF Watch, chainVars, walletVars, Outcomes
<1>4. ASSUME NEW seen \in Nat, Moves(a, [calls[a] EXCEPT !.moved = seen]), UNCHANGED showing
      PROVE  IInv'
  <2> DEFINE call == [calls[a] EXCEPT !.moved = seen]
  <2>1. call \in Call
    BY <1>1 DEF Call
  <2>2. /\ call.stage = calls[a].stage /\ call.mark = calls[a].mark
        /\ call.page = calls[a].page /\ call.owned = calls[a].owned
        /\ call.outcome = calls[a].outcome /\ call.target = calls[a].target
        /\ call.replied = calls[a].replied
    BY <1>1 DEF Call
  <2>3. Moves(a, call)
    BY <1>4
  <2> HIDE DEF call
  <2>4. Fits(a, call)
    BY <1>1, <2>2 DEF Fits
  <2>5. QED
    BY <1>1, <1>4, <2>1, <2>2, <2>3, <2>4, GoesOn DEF Watch, Going, chainVars, walletVars
<1>5. \A now \in {marks[h].sequence : h \in Heads} \cup {0} : now \in Nat
  BY MarkAtHead DEF IInv, Mark
<1>6. PICK now \in {marks[h].sequence : h \in Heads} \cup {0} :
         IF now > calls[a].mark.sequence /\ now = calls[a].moved THEN Ends(a, "seen")
         ELSE /\ Moves(a, [calls[a] EXCEPT
                     !.moved = IF now > calls[a].mark.sequence THEN now ELSE 0])
              /\ UNCHANGED showing
  BY DEF Watch
<1>7. (IF now > calls[a].mark.sequence THEN now ELSE 0) \in Nat
  BY <1>5
<1>8. QED
  BY <1>3, <1>4, <1>6, <1>7

-------------------------------------------------------------------------------
(* Calls that begin.                                                       *)

LEMMA DismissKeeps ==
    ASSUME IInv, NEW a \in Attempts, Dismiss(a) PROVE IInv'
<1> DEFINE call == [calls[a] EXCEPT !.stage = "over"]
<1>1. calls[a] \in Call /\ calls[a].stage \in {"review", "failed"} /\ Fits(a, calls[a])
  BY DEF Dismiss, IInv, TypeOK, AllFit
<1>2. call \in Call
  BY <1>1 DEF Call
<1>3. /\ call.stage = "over" /\ call.mark = calls[a].mark /\ call.page = calls[a].page
      /\ call.outcome = calls[a].outcome /\ call.replied = calls[a].replied
  BY <1>1 DEF Call
<1>4. Moves(a, call)
  BY DEF Dismiss
<1> HIDE DEF call
<1>5. /\ calls' \in [Attempts -> Call]
      /\ calls'[a] = call
      /\ \A b \in Attempts : b # a => calls'[b] = calls[b]
  BY <1>2, <1>4, MovesEffect DEF IInv
<1>6. ~Reached(a)
  BY <1>1 DEF Fits
<1>7. CallStep(a)
  BY <1>5 DEF Dismiss, CallStep, IInv, TypeOK, chainVars, walletVars, lockVars
<1>8. SafeStep(a)
  <2>1. Fits(a, calls[a])'
    BY <1>1, <1>3, <1>5, <1>6
       DEF Dismiss, Fits, Before, Reached, Live, Latest, chainVars, walletVars
  <2>2. QED
    BY <1>6, <2>1 DEF Dismiss, SafeStep, Reached, Live, chainVars, walletVars
<1>9. LockStep(a)
  <2>1. ~UnderWay(a)' /\ ~OnSheet(a)'
    BY <1>3, <1>5, <1>6 DEF Dismiss, UnderWay, Active, OnSheet, Reached, Live, chainVars, walletVars
  <2>2. QED
    BY <1>3, <1>5, <2>1 DEF Dismiss, LockStep, UnderWay, lockVars
<1>10. QED
  BY <1>7, <1>8, <1>9, CallKeeps

(* The call takes the lock; nothing of its page was under way.             *)
LEMMA LockTaken ==
    ASSUME IInv, NEW a \in Attempts, Start(a), locked' = TRUE, UNCHANGED <<showing, taken>>,
           Moves(a, [calls[a] EXCEPT !.stage = "checking"])
    PROVE  IInv'
<1> DEFINE call == [calls[a] EXCEPT !.stage = "checking"]
<1>1. /\ calls[a] \in Call /\ calls[a].stage = "review" /\ calls[a].owned
      /\ ~Busy(calls[a].page) /\ Fits(a, calls[a])
  BY DEF Start, IInv, TypeOK, AllFit
<1>2. call \in Call
  BY <1>1 DEF Call
<1>3. /\ call.stage = "checking" /\ call.mark = calls[a].mark /\ call.page = calls[a].page
      /\ call.owned /\ call.outcome = calls[a].outcome
  BY <1>1 DEF Call
<1>4. Moves(a, call)
  OBVIOUS
<1> HIDE DEF call
<1>5. /\ calls' \in [Attempts -> Call]
      /\ calls'[a] = call
      /\ \A b \in Attempts : b # a => calls'[b] = calls[b]
  BY <1>2, <1>4, MovesEffect DEF IInv
<1>6. ~Reached(a) /\ OnSheet(a) /\ OnSheet(a)'
  BY <1>1, <1>3, <1>5 DEF Fits, OnSheet, Active
<1>7. CallStep(a)
  BY <1>5 DEF Start, CallStep, IInv, TypeOK, chainVars, walletVars
<1>8. SafeStep(a)
  <2>1. Fits(a, calls[a])'
    BY <1>1, <1>3, <1>5, <1>6
       DEF Start, Fits, Before, Reached, Live, Latest, chainVars, walletVars
  <2>2. QED
    BY <1>6, <2>1 DEF Start, SafeStep, Reached, Live, chainVars, walletVars
<1>9. ASSUME NEW b \in Attempts
      PROVE  /\ (Live(b)' <=> Live(b)) /\ (OnSheet(b)' <=> OnSheet(b))
             /\ calls'[b].page = calls[b].page /\ calls'[b].outcome = calls[b].outcome
             /\ b # a => (Active(b)' <=> Active(b))
  <2>1. CASE b = a
    BY <1>3, <1>5, <1>6, <2>1 DEF Start, Live, chainVars, walletVars
  <2>2. CASE b # a
    BY <1>5, <2>2 DEF Start, Live, OnSheet, Active, chainVars, walletVars
  <2>3. QED
    BY <2>1, <2>2
<1>10. ASSUME NEW b \in Attempts PROVE Excused(b)' <=> Excused(b)
  BY <1>9 DEF Start, Excused
<1>11. NotYet' <=> NotYet
  BY DEF Start, NotYet, chainVars
<1>12. ASSUME NEW b \in Attempts PROVE Kept(b)'
  <2>1. SUFFICES ASSUME UnderWay(b)', NotYet, ~Excused(b)
                 PROVE  /\ OnSheet(b) \/ calls[b].page \in showing
                        /\ \A x \in Attempts : x # b /\ calls[x].page = calls[b].page =>
                              ~Active(x)' /\ ~OnSheet(x) /\ (Live(x) => Excused(x))
    BY <1>9, <1>10, <1>11 DEF Kept
  <2>2. CASE b = a
    <3>1. ASSUME NEW x \in Attempts, x # a, calls[x].page = calls[a].page
          PROVE  ~Active(x)' /\ ~OnSheet(x) /\ (Live(x) => Excused(x))
      <4>1. ~Active(x)
        BY <1>1, <3>1 DEF Busy
      <4>2. ~OnSheet(x)
        BY <1>6, <3>1 DEF IInv, OneSheet
      <4>3. ASSUME Live(x), ~Excused(x) PROVE FALSE
        <5>1. ~OnSheet(a)
          BY <2>1, <3>1, <4>3 DEF IInv, AllKept, Kept, UnderWay
        <5>2. QED
          BY <1>6, <5>1
      <4>4. QED
        BY <1>9, <3>1, <4>1, <4>2, <4>3
    <3>2. QED
      BY <1>6, <2>2, <3>1
  <2>3. CASE b # a
    <3>1. UnderWay(b)
      BY <1>9, <2>1, <2>3 DEF UnderWay
    <3>2. /\ OnSheet(b) \/ calls[b].page \in showing
          /\ \A x \in Attempts : x # b /\ calls[x].page = calls[b].page =>
                ~Active(x) /\ ~OnSheet(x) /\ (Live(x) => Excused(x))
      BY <2>1, <3>1 DEF IInv, AllKept, Kept
    <3>3. QED
      BY <1>6, <1>9, <2>3, <3>2
  <2>4. QED
    BY <2>2, <2>3
<1>13. OneSheet'
  BY <1>9 DEF IInv, OneSheet
<1>14. QED
  BY <1>7, <1>8, <1>12, <1>13, CallKeepsSafe DEF IInv, AllKept

LEMMA StartKeeps ==
    ASSUME IInv, NEW a \in Attempts, Start(a) PROVE IInv'
<1>1. calls[a] \in Call /\ calls[a].stage = "review" /\ Fits(a, calls[a])
  BY DEF Start, IInv, TypeOK, AllFit
<1>2. CASE Release(a) /\ Ends(a, "failed")
  <2>1. ~Reached(a)' /\ OnSheet(a) /\ calls[a].outcome = "none"
    BY <1>1 DEF Start, Fits, Reached, Live, OnSheet, Call, chainVars, walletVars
  <2>2. QED
    BY <1>1, <1>2, <2>1, EndsKeeps
       DEF Start, chainVars, walletVars, Outcomes, Released
<1>3. QED
  BY <1>2, LockTaken DEF Start

(* A review comes on a page that shows no lock and no other review.        *)
LEMMA NewReview ==
    ASSUME IInv, NEW p \in Pages, NEW b \in Attempts, calls[b].stage = "none",
           calls' \in [Attempts -> Call], calls'[b] = Shown(p),
           \A x \in Attempts : x # b =>
               \/ calls'[x] = calls[x]
               \/ /\ calls[x].stage = "failed"
                  /\ calls'[x] = [calls[x] EXCEPT !.stage = "over"],
           \A x \in Attempts : x # b /\ calls[x].page = p => ~OnSheet(x)',
           \A x \in Attempts : UnderWay(x) /\ NotYet /\ ~Excused(x) => calls[x].page # p,
           UNCHANGED <<chainVars, walletVars, lockVars, checked, ends>>
    PROVE  IInv'
<1>1. UNCHANGED <<marks, mempool, ranAt, others, wallet, inFlight, locked, showing, taken, checked, ends>>
  BY DEF chainVars, walletVars, lockVars
<1>2. /\ calls'[b].stage = "review" /\ calls'[b].page = p /\ calls'[b].outcome = "none"
      /\ calls'[b].mark = NoMark
  BY DEF Shown, NoCall
<1>3. ASSUME NEW x \in Attempts, x # b
      PROVE  /\ calls'[x].page = calls[x].page /\ calls'[x].outcome = calls[x].outcome
             /\ calls'[x].mark = calls[x].mark /\ calls'[x].owned = calls[x].owned
             /\ calls'[x].target = calls[x].target /\ calls'[x].replied = calls[x].replied
             /\ \/ calls'[x].stage = calls[x].stage
                \/ calls[x].stage = "failed" /\ calls'[x].stage = "over"
  <2>1. calls[x] \in Call
    BY DEF IInv, TypeOK
  <2>2. QED
    BY <1>3, <2>1 DEF Call
<1>4. ~Reached(b) /\ calls[b].outcome = "none"
  BY DEF IInv, AllFit, Fits, TypeOK, Call
<1>5. TypeOK'
  BY <1>1 DEF IInv, TypeOK, Latest
<1>6. ASSUME NEW x \in Attempts PROVE Fits(x, calls[x])'
  <2>1. (Reached(x)' <=> Reached(x)) /\ Latest' = Latest
        /\ \A mark : Before(x, mark)' <=> Before(x, mark)
    BY <1>1 DEF Reached, Live, Latest, Before
  <2>2. CASE x = b
    BY <1>2, <1>4, <2>1, <2>2 DEF Fits
  <2>3. CASE x # b
    <3>1. Fits(x, calls[x])
      BY DEF IInv, AllFit
    <3>2. QED
      BY <1>1, <1>3, <2>1, <2>3, <3>1 DEF Fits
  <2>4. QED
    BY <2>2, <2>3
<1>7. OnePlace' /\ CoinsRise'
  BY <1>1 DEF IInv, OnePlace, CoinsRise, Live, Latest
<1>8. ASSUME NEW x \in Attempts, x # b
      PROVE  /\ Live(x)' <=> Live(x)
             /\ Active(x)' <=> Active(x)
             /\ OnSheet(x)' => OnSheet(x)
             /\ Excused(x)' <=> Excused(x)
  <2>1. /\ Live(x)' <=> Live(x)
        /\ Active(x)' <=> Active(x)
        /\ OnSheet(x)' => OnSheet(x)
    BY <1>1, <1>3, <1>8 DEF Live, Active, OnSheet
  <2>2. QED
    BY <1>1, <1>3, <1>8, <2>1 DEF Excused
<1>9. ~UnderWay(b)'
  BY <1>1, <1>2, <1>4 DEF UnderWay, Active, Live, Reached
<1>10. ASSUME NEW x \in Attempts PROVE Kept(x)'
  <2>1. SUFFICES ASSUME UnderWay(x)', NotYet, ~Excused(x)', x # b
                 PROVE  /\ locked
                        /\ OnSheet(x)' \/ calls'[x].page \in showing
                        /\ \A y \in Attempts : y # x /\ calls'[y].page = calls'[x].page =>
                              ~Active(y)' /\ ~OnSheet(y)' /\ (Live(y)' => Excused(y)')
    BY <1>1, <1>9 DEF Kept, NotYet
  <2>2. UnderWay(x) /\ ~Excused(x)
    BY <1>8, <2>1 DEF UnderWay
  <2>3. calls[x].page # p /\ calls'[x].page = calls[x].page
    BY <1>3, <2>1, <2>2
  <2>4. /\ locked
        /\ OnSheet(x) \/ calls[x].page \in showing
        /\ \A y \in Attempts : y # x /\ calls[y].page = calls[x].page =>
              ~Active(y) /\ ~OnSheet(y) /\ (Live(y) => Excused(y))
    BY <2>1, <2>2 DEF IInv, AllKept, Kept
  <2>5. calls[x].stage # "failed"
    BY <2>2 DEF IInv, AllFit, Fits, UnderWay, Active, Reached
  <2>6. OnSheet(x) => OnSheet(x)'
    BY <2>1, <2>5 DEF OnSheet, Active
  <2>7. ASSUME NEW y \in Attempts, y # x, calls'[y].page = calls'[x].page
        PROVE  ~Active(y)' /\ ~OnSheet(y)' /\ (Live(y)' => Excused(y)')
    <3>1. y # b
      BY <1>2, <2>3, <2>7
    <3>2. calls[y].page = calls[x].page
      BY <1>3, <2>3, <2>7, <3>1
    <3>3. QED
      BY <1>8, <2>4, <2>7, <3>1, <3>2
  <2>8. QED
    BY <2>3, <2>4, <2>6, <2>7
<1>11. OneSheet'
  <2>1. ASSUME NEW x \in Attempts, NEW y \in Attempts, OnSheet(x)', OnSheet(y)',
               calls'[x].page = calls'[y].page
        PROVE  x = y
    <3>1. CASE x = b \/ y = b
      BY <1>2, <1>3, <2>1, <3>1
    <3>2. CASE x # b /\ y # b
      BY <1>3, <1>8, <2>1, <3>2 DEF IInv, OneSheet
    <3>3. QED
      BY <3>1, <3>2
  <2>2. QED
    BY <2>1 DEF OneSheet
<1>12. QED
  BY <1>5, <1>6, <1>7, <1>10, <1>11 DEF IInv, AllFit, AllKept

LEMMA ShownType == ASSUME NEW p \in Pages PROVE Shown(p) \in Call
BY DEF Shown, NoCall, Call

LEMMA ReviewKeeps ==
    ASSUME IInv, NEW p \in Pages, NEW a \in Attempts, Review(p, a) PROVE IInv'
<1>1. /\ calls[a].stage = "none" /\ ~SheetOpen(p) /\ p \notin showing
      /\ Moves(a, Shown(p))
      /\ UNCHANGED <<chainVars, walletVars, lockVars, checked, ends>>
  BY DEF Review
<1>2. /\ calls' \in [Attempts -> Call]
      /\ calls'[a] = Shown(p)
      /\ \A b \in Attempts : b # a => calls'[b] = calls[b]
  BY <1>1, ShownType, MovesEffect DEF IInv
<1>3. \A x \in Attempts : x # a /\ calls[x].page = p => ~OnSheet(x)'
  BY <1>1, <1>2 DEF SheetOpen, OnSheet, Active
<1>4. \A x \in Attempts : UnderWay(x) /\ NotYet /\ ~Excused(x) => calls[x].page # p
  BY <1>1 DEF SheetOpen, IInv, AllKept, Kept
<1>5. QED
  BY <1>1, <1>2, <1>3, <1>4, NewReview

LEMMA RetryKeeps ==
    ASSUME IInv, NEW a \in Attempts, NEW b \in Attempts, Retry(a, b) PROVE IInv'
<1> DEFINE p == calls[a].page
<1>1. /\ calls[a].stage = "failed" /\ calls[b].stage = "none" /\ a # b
      /\ calls' = [calls EXCEPT ![a].stage = "over", ![b] = Shown(p)]
      /\ UNCHANGED <<chainVars, walletVars, lockVars, checked, ends>>
  BY DEF Retry
<1>2. calls[a] \in Call /\ p \in Pages /\ OnSheet(a) /\ ~UnderWay(a)
  BY <1>1 DEF IInv, TypeOK, AllFit, Fits, OnSheet, UnderWay, Active, Reached
<1>3. [calls[a] EXCEPT !.stage = "over"] \in Call
  BY <1>2 DEF Call
<1>4. /\ calls' \in [Attempts -> Call]
      /\ calls'[b] = Shown(p)
      /\ calls'[a] = [calls[a] EXCEPT !.stage = "over"]
      /\ \A x \in Attempts : x # a /\ x # b => calls'[x] = calls[x]
  BY <1>1, <1>2, <1>3, ShownType DEF IInv, TypeOK
<1>5. ASSUME NEW x \in Attempts, x # b, calls[x].page = p PROVE ~OnSheet(x)'
  <2>1. CASE x = a
    <3>1. calls'[a].stage = "over"
      BY <1>2, <1>4 DEF Call
    <3>2. QED
      BY <2>1, <3>1 DEF OnSheet, Active
  <2>2. CASE x # a
    <3>1. ~OnSheet(x)
      BY <1>2, <1>5, <2>2 DEF IInv, OneSheet
    <3>2. QED
      BY <1>4, <1>5, <2>2, <3>1 DEF OnSheet, Active
  <2>3. QED
    BY <2>1, <2>2
<1>6. \A x \in Attempts : UnderWay(x) /\ NotYet /\ ~Excused(x) => calls[x].page # p
  BY <1>2 DEF IInv, AllKept, Kept
<1>7. \A x \in Attempts : x # b =>
          \/ calls'[x] = calls[x]
          \/ /\ calls[x].stage = "failed"
             /\ calls'[x] = [calls[x] EXCEPT !.stage = "over"]
  BY <1>1, <1>4
<1> HIDE DEF p
<1>8. QED
  BY <1>1, <1>2, <1>4, <1>5, <1>6, <1>7, NewReview

-------------------------------------------------------------------------------
(* Pages that are left.                                                    *)

(* What the end of a session or of a page leaves of a call.                *)
Left(c, d) ==
    /\ d.page = c.page /\ d.outcome = c.outcome /\ ~d.owned
    /\ d.stage \in {c.stage, "over"}
    /\ c.stage \in {"review", "failed"} => d.stage = "over"
    /\ d.mark \in {c.mark, NoMark}
    /\ d.stage # "over" => d.mark = c.mark /\ d.target = c.target
    /\ d.stage # "over" \/ c.outcome = "cancelled" => d.replied = c.replied

LEMMA LeavingKeeps ==
    ASSUME IInv, NEW p \in Pages, Renders(p),
           calls' \in [Attempts -> Call],
           \A a \in Attempts : calls[a].page # p => calls'[a] = calls[a],
           \A a \in Attempts : calls[a].page = p => Left(calls[a], calls'[a]),
           ends' \in Nat,
           UNCHANGED <<chainVars, walletVars, locked, taken, checked>>
    PROVE  IInv'
<1>1. UNCHANGED <<marks, mempool, ranAt, others, wallet, inFlight, locked, taken, checked>>
  BY DEF chainVars, walletVars
<1>2. showing' \in SUBSET Pages /\ (locked' => showing \subseteq showing' /\ p \in showing')
  BY RendersEffect DEF IInv
<1>3. TypeOK'
  BY <1>1, <1>2 DEF IInv, TypeOK, Latest
<1>4. ASSUME NEW a \in Attempts PROVE Fits(a, calls[a])'
  <2>1. /\ Reached(a)' <=> Reached(a)
        /\ Latest' = Latest
        /\ \A mark : Before(a, mark)' <=> Before(a, mark)
    BY <1>1 DEF Reached, Live, Latest, Before
  <2>2. Fits(a, calls[a])
    BY DEF IInv, AllFit
  <2>3. CASE calls[a].page # p
    BY <1>1, <2>1, <2>2, <2>3 DEF Fits
  <2>4. CASE calls[a].page = p
    <3>1. Left(calls[a], calls'[a])
      BY <2>4
    <3>2. QED
      BY <1>1, <2>1, <2>2, <2>4, <3>1 DEF Fits, Left
  <2>5. QED
    BY <2>3, <2>4
<1>5. OnePlace' /\ CoinsRise'
  BY <1>1 DEF IInv, OnePlace, CoinsRise, Live, Latest
<1>6. ASSUME NEW a \in Attempts
      PROVE  /\ calls'[a].page = calls[a].page /\ calls'[a].outcome = calls[a].outcome
             /\ Active(a)' => Active(a)
             /\ OnSheet(a)' => OnSheet(a)
             /\ calls[a].page # p => (OnSheet(a)' <=> OnSheet(a))
             /\ Live(a)' <=> Live(a)
  BY <1>1 DEF Left, Active, OnSheet, Live
<1>7. ASSUME NEW a \in Attempts PROVE Excused(a)' <=> Excused(a)
  BY <1>1, <1>6 DEF Excused
<1>8. ASSUME NEW a \in Attempts PROVE Kept(a)'
  BY <1>1, <1>2, <1>6, <1>7 DEF IInv, AllKept, Kept, UnderWay, NotYet
<1>9. OneSheet'
  BY <1>6 DEF IInv, OneSheet
<1>10. QED
  BY <1>3, <1>4, <1>5, <1>8, <1>9 DEF IInv, AllFit, AllKept

LEMMA EndSessionKeeps ==
    ASSUME IInv, NEW p \in Pages, EndSession(p) PROVE IInv'
<1>1. ASSUME NEW a \in Attempts
      PROVE  /\ calls'[a] \in Call
             /\ calls[a].page # p => calls'[a] = calls[a]
             /\ calls[a].page = p => Left(calls[a], calls'[a])
  <2> DEFINE d == [calls[a] EXCEPT !.owned = FALSE,
                       !.stage = IF @ \in {"review", "failed"} THEN "over" ELSE @]
  <2>1. calls[a] \in Call
    BY DEF IInv, TypeOK
  <2>2. calls'[a] = IF calls[a].page # p THEN calls[a] ELSE d
    BY DEF EndSession
  <2>3. d \in Call /\ Left(calls[a], d)
    BY <2>1 DEF Call, Left
  <2> HIDE DEF d
  <2>4. QED
    BY <2>1, <2>2, <2>3
<1>2. calls' \in [Attempts -> Call]
  BY <1>1 DEF EndSession
<1>3. ends' \in Nat
  <2>1. ends' = ends + 1
    BY DEF EndSession
  <2>2. QED
    BY <2>1 DEF IInv, TypeOK
<1>4. QED
  BY <1>1, <1>2, <1>3, LeavingKeeps DEF EndSession

LEMMA CloseKeeps ==
    ASSUME IInv, NEW p \in Pages, Close(p) PROVE IInv'
<1>1. ASSUME NEW a \in Attempts
      PROVE  /\ calls'[a] \in Call
             /\ calls[a].page # p => calls'[a] = calls[a]
             /\ calls[a].page = p => Left(calls[a], calls'[a])
  <2> DEFINE d == [calls[a] EXCEPT !.owned = FALSE, !.stage = "over",
                       !.mark = NoMark, !.moved = 0, !.target = 0,
                       !.replied = IF calls[a].outcome = "cancelled" THEN @ ELSE 0]
  <2>1. calls[a] \in Call
    BY DEF IInv, TypeOK
  <2>2. calls'[a] = IF calls[a].page # p THEN calls[a] ELSE d
    BY DEF Close
  <2>3. d \in Call /\ Left(calls[a], d)
    BY <2>1 DEF Call, Left
  <2> HIDE DEF d
  <2>4. QED
    BY <2>1, <2>2, <2>3
<1>2. calls' \in [Attempts -> Call]
  BY <1>1 DEF Close
<1>3. ends' \in Nat
  <2>1. ends' = ends + 1
    BY DEF Close
  <2>2. QED
    BY <2>1 DEF IInv, TypeOK
<1>4. QED
  BY <1>1, <1>2, <1>3, LeavingKeeps DEF Close

-------------------------------------------------------------------------------
(* Steps that no call takes.                                               *)

(* Calls and the chain stay; requests move on or go.                       *)
LEMMA CallsStay ==
    ASSUME IInv, UNCHANGED <<marks, ranAt, others, calls, ends>>, TypeOK', OnePlace',
           \A a \in Attempts : Live(a)' => Live(a),
           \/ UNCHANGED <<locked, taken, checked>> /\ (locked' => showing \subseteq showing')
           \/ {a \in Attempts : UnderWay(a)} \subseteq checked'
    PROVE  IInv'
<1>1. ASSUME NEW a \in Attempts PROVE Fits(a, calls[a])'
  <2>1. Fits(a, calls[a])
    BY DEF IInv, AllFit
  <2>2. /\ Reached(a)' => Reached(a)
        /\ Latest' = Latest
        /\ \A mark : Before(a, mark)' <=> Before(a, mark)
    BY DEF Reached, Latest, Before
  <2>3. QED
    BY <2>1, <2>2 DEF Fits
<1>2. CoinsRise' /\ OneSheet'
  BY DEF IInv, CoinsRise, Latest, OneSheet, OnSheet, Active
<1>3. ASSUME NEW a \in Attempts
      PROVE  /\ Active(a)' <=> Active(a)
             /\ OnSheet(a)' <=> OnSheet(a)
  BY DEF Active, OnSheet
<1>4. ASSUME NEW a \in Attempts PROVE Kept(a)'
  <2>1. CASE UNCHANGED <<locked, taken, checked>> /\ (locked' => showing \subseteq showing')
    <3>1. \A x \in Attempts : Excused(x)' <=> Excused(x)
      BY <1>3, <2>1 DEF Excused
    <3>2. QED
      BY <1>3, <2>1, <3>1 DEF IInv, AllKept, Kept, UnderWay, NotYet
  <2>2. CASE {x \in Attempts : UnderWay(x)} \subseteq checked'
    <3>1. UnderWay(a)' => UnderWay(a)
      BY <1>3 DEF UnderWay
    <3>2. QED
      BY <2>2, <3>1 DEF Kept, Excused
  <2>3. QED
    BY <2>1, <2>2
<1>5. QED
  BY <1>1, <1>2, <1>4 DEF IInv, AllFit, AllKept

LEMMA LookKeeps ==
    ASSUME IInv, NEW p \in Pages, Look(p) PROVE IInv'
<1>1. Renders(p) /\ UNCHANGED <<chainVars, walletVars, locked, taken, calls, checked, ends>>
  BY DEF Look
<1>2. showing' \in SUBSET Pages /\ (locked' => showing \subseteq showing')
  BY <1>1, RendersEffect DEF IInv
<1>3. QED
  BY <1>1, <1>2, CallsStay DEF IInv, TypeOK, Latest, OnePlace, Live, chainVars, walletVars

LEMMA CheckKeeps ==
    ASSUME IInv, NEW p \in Pages, Check(p) PROVE IInv'
<1>1. /\ Renders(p) /\ locked' = FALSE
      /\ checked' = checked \cup {a \in Attempts : UnderWay(a)}
      /\ UNCHANGED <<chainVars, walletVars, taken, calls, ends>>
  BY DEF Check
<1>2. showing' \in SUBSET Pages
  BY <1>1, RendersEffect DEF IInv
<1>3. TypeOK' /\ OnePlace'
  BY <1>1, <1>2 DEF IInv, TypeOK, Latest, OnePlace, Live, chainVars, walletVars
<1>4. {a \in Attempts : UnderWay(a)} \subseteq checked'
  BY <1>1
<1>5. QED
  BY <1>1, <1>3, <1>4, CallsStay DEF Live, chainVars, walletVars

LEMMA ApproveKeeps ==
    ASSUME IInv, NEW a \in Attempts, Approve(a) PROVE IInv'
BY CallsStay DEF Approve, IInv, TypeOK, Latest, OnePlace, Live, chainVars, lockVars

LEMMA DeclineKeeps ==
    ASSUME IInv, NEW a \in Attempts, Decline(a) PROVE IInv'
BY CallsStay DEF Decline, IInv, TypeOK, Latest, OnePlace, Live, chainVars, lockVars

LEMMA AcceptKeeps ==
    ASSUME IInv, NEW a \in Attempts, Accept(a) PROVE IInv'
BY CallsStay DEF Accept, IInv, TypeOK, Latest, OnePlace, Live, lockVars

(* A block: its attempts raise the coins, past every earlier block.        *)
LEMMA BlockKeeps ==
    ASSUME IInv, Block PROVE IInv'
<1>1. PICK ran \in SUBSET mempool, session \in BOOLEAN, other \in {"none", "signed", "paid"} :
         /\ others' = others + (IF other = "none" THEN 0 ELSE 1)
         /\ marks' = Append(marks,
                [sequence |-> marks[Latest].sequence + (IF session THEN 0 ELSE Cardinality(ran))
                                  + (IF other = "signed" THEN 1 ELSE 0),
                 coins |-> marks[Latest].coins + Cardinality(ran)
                                  + (IF other = "none" THEN 0 ELSE 1)])
         /\ ranAt' = [a \in Attempts |-> IF a \in ran THEN Latest + 1 ELSE ranAt[a]]
         /\ mempool' = mempool \ ran
  BY DEF Block
<1>2. UNCHANGED <<wallet, inFlight, locked, showing, taken, calls, checked, ends>>
  BY DEF Block, walletVars, lockVars
<1> DEFINE n == Cardinality(ran)
           more == IF other = "none" THEN 0 ELSE 1
           mark == [sequence |-> marks[Latest].sequence + (IF session THEN 0 ELSE n)
                                     + (IF other = "signed" THEN 1 ELSE 0),
                    coins |-> marks[Latest].coins + n + more]
<1>3. marks' = Append(marks, mark)
  BY <1>1
<1>4. ran \subseteq Attempts /\ IsFiniteSet(ran)
  BY <1>1, SignerAssumption, FS_Subset DEF IInv, TypeOK
<1>5. n \in Nat /\ (n = 0 <=> ran = {}) /\ more \in Nat
  BY <1>4, FS_CardinalityType, FS_EmptySet
<1>6. marks \in Seq(Mark) /\ Latest \in Nat /\ Latest >= 1 /\ marks[Latest] \in Mark
  BY DEF IInv, TypeOK, Latest
<1>7. /\ marks[Latest].sequence \in Nat /\ marks[Latest].coins \in Nat
  BY <1>6 DEF Mark
<1> HIDE DEF n
<1>8. mark \in Mark /\ mark.coins = marks[Latest].coins + n + more
  BY <1>5, <1>7 DEF Mark
<1> HIDE DEF mark, more
<1>9. /\ marks' \in Seq(Mark) /\ Latest' = Latest + 1
      /\ marks'[Latest + 1] = mark
      /\ \A i \in 1..Latest : marks'[i] = marks[i]
  BY <1>3, <1>6, <1>8 DEF Latest
<1>10. \A a \in Attempts : ranAt[a] \in 0..Latest
  BY DEF IInv, TypeOK
<1>11. \A a \in Attempts : ranAt'[a] = IF a \in ran THEN Latest + 1 ELSE ranAt[a]
  BY <1>1
<1>12. TypeOK'
  <2>1. ranAt' \in [Attempts -> 0..Latest']
    BY <1>1, <1>6, <1>9, <1>10
  <2>2. others' \in Nat /\ marks' # <<>>
    BY <1>1, <1>6, <1>9 DEF IInv, TypeOK, Latest
  <2>3. mempool' \subseteq Attempts
    BY <1>1 DEF IInv, TypeOK
  <2>4. QED
    BY <1>2, <1>9, <2>1, <2>2, <2>3 DEF IInv, TypeOK, Latest
<1>13. ASSUME NEW a \in Attempts
       PROVE  /\ Live(a)' => Live(a)
              /\ Reached(a)' <=> Reached(a)
              /\ ranAt'[a] = 0 => ranAt[a] = 0
  BY <1>1, <1>2, <1>6, <1>10, <1>11 DEF Live, Reached
<1>14. ASSUME NEW a \in Attempts PROVE Fits(a, calls[a])'
  <2>1. Fits(a, calls[a]) /\ calls'[a] = calls[a]
    BY <1>2 DEF IInv, AllFit
  <2>2. ASSUME calls[a].mark # NoMark PROVE Before(a, calls[a].mark)'
    <3>1. PICK h \in 1..Latest : marks[h] = calls[a].mark /\ (ranAt[a] # 0 => h < ranAt[a])
      BY <2>1, <2>2 DEF Fits, Before
    <3>2. h \in 1..Latest' /\ marks'[h] = calls[a].mark
      BY <1>6, <1>9, <3>1
    <3>3. ranAt'[a] # 0 => h < ranAt'[a]
      BY <1>6, <1>11, <3>1
    <3>4. QED
      BY <2>1, <3>2, <3>3 DEF Before
  <2>3. ASSUME calls[a].outcome = "cancelled"
        PROVE  IF ranAt'[a] = 0 THEN Latest' + MaxLag >= calls[a].replied + SettleBlocks
               ELSE ranAt'[a] + MaxLag > calls[a].replied + SettleBlocks
    <3>1. /\ IF ranAt[a] = 0 THEN Latest + MaxLag >= calls[a].replied + SettleBlocks
             ELSE ranAt[a] + MaxLag > calls[a].replied + SettleBlocks
          /\ a \in ran => ranAt[a] = 0
      BY <1>1, <2>1, <2>3 DEF Fits, IInv, OnePlace, Live
    <3>2. MaxLag \in Nat /\ SettleBlocks \in Nat /\ calls[a].replied \in Nat
      BY SignerAssumption DEF IInv, TypeOK, Call
    <3>3. CASE a \in ran
      BY <1>6, <1>9, <1>11, <3>1, <3>2, <3>3
    <3>4. CASE a \notin ran
      BY <1>6, <1>9, <1>11, <3>1, <3>2, <3>4
    <3>5. QED
      BY <3>3, <3>4
  <2>4. QED
    BY <1>13, <2>1, <2>2, <2>3 DEF Fits
<1>15. OnePlace'
  <2>1. ASSUME NEW a \in Attempts
        PROVE  /\ ~(a \in wallet' /\ a \in inFlight')
               /\ a \in mempool' => a \notin wallet' \cup inFlight'
               /\ ranAt'[a] # 0 => ~Live(a)'
    <3>1. /\ ~(a \in wallet /\ a \in inFlight)
          /\ a \in mempool => a \notin wallet \cup inFlight
          /\ ranAt[a] # 0 => ~Live(a)
      BY DEF IInv, OnePlace
    <3>2. QED
      BY <1>1, <1>2, <1>11, <3>1 DEF Live
  <2>2. QED
    BY <2>1 DEF OnePlace
<1>16. CoinsRise'
  <2>1. ASSUME NEW i \in 1..(Latest + 1), NEW j \in 1..(Latest + 1), i < j
        PROVE  /\ marks'[i].coins <= marks'[j].coins
               /\ \A a \in Attempts :
                     i < ranAt'[a] /\ ranAt'[a] <= j => marks'[i].coins < marks'[j].coins
    <3>1. i \in 1..Latest /\ marks'[i] = marks[i] /\ marks[i].coins \in Nat
      <4>1. i \in 1..Latest
        BY <1>6, <2>1
      <4>2. marks[i] \in Mark
        BY <1>6, <4>1 DEF Latest
      <4>3. QED
        BY <1>9, <4>1, <4>2 DEF Mark
    <3>2. CASE j <= Latest
      <4>1. j \in 1..Latest /\ marks'[j] = marks[j]
        BY <1>6, <1>9, <3>2
      <4>2. \A a \in Attempts : ranAt'[a] <= j => ranAt'[a] = ranAt[a]
        BY <1>6, <1>11, <3>2
      <4>3. QED
        BY <2>1, <3>1, <4>1, <4>2 DEF IInv, CoinsRise
    <3>3. CASE j = Latest + 1
      <4>1. marks'[j].coins = marks[Latest].coins + n + more
        BY <1>8, <1>9, <3>3
      <4>2. marks[i].coins <= marks[Latest].coins
        <5>1. CASE i = Latest
          BY <1>7, <5>1
        <5>2. CASE i < Latest
          BY <1>6, <3>1, <5>2 DEF IInv, CoinsRise
        <5>3. QED
          BY <1>6, <3>1, <5>1, <5>2
      <4>3. ASSUME NEW a \in Attempts, i < ranAt'[a] PROVE marks[i].coins < marks'[j].coins
        <5>1. CASE a \in ran
          <6>1. n > 0
            BY <1>5, <5>1
          <6>2. QED
            BY <1>5, <1>7, <3>1, <4>1, <4>2, <6>1 DEF more
        <5>2. CASE a \notin ran
          <6>1. i < ranAt[a] /\ ranAt[a] <= Latest /\ i < Latest
            BY <1>6, <1>10, <1>11, <3>1, <4>3, <5>2
          <6>2. marks[i].coins < marks[Latest].coins
            BY <1>6, <3>1, <6>1 DEF IInv, CoinsRise
          <6>3. QED
            BY <1>5, <1>7, <3>1, <4>1, <6>2
        <5>3. QED
          BY <5>1, <5>2
      <4>4. marks[i].coins <= marks'[j].coins
        BY <1>5, <1>7, <3>1, <4>1, <4>2
      <4>5. QED
        BY <3>1, <4>3, <4>4
    <3>4. QED
      BY <1>6, <2>1, <3>2, <3>3
  <2>2. QED
    BY <1>9, <2>1 DEF CoinsRise
<1>17. ASSUME NEW a \in Attempts
       PROVE  /\ Active(a)' <=> Active(a)
              /\ OnSheet(a)' <=> OnSheet(a)
              /\ Excused(a)' <=> Excused(a)
  BY <1>2 DEF Active, OnSheet, Excused
<1>18. ASSUME NEW a \in Attempts PROVE Kept(a)'
  <2>1. NotYet' => NotYet
    BY <1>13 DEF NotYet
  <2>2. UnderWay(a)' => UnderWay(a)
    BY <1>13, <1>17 DEF UnderWay
  <2>3. QED
    BY <1>2, <1>13, <1>17, <2>1, <2>2 DEF IInv, AllKept, Kept
<1>19. OneSheet'
  BY <1>2, <1>17 DEF IInv, OneSheet
<1>20. QED
  BY <1>12, <1>14, <1>15, <1>16, <1>18, <1>19 DEF IInv, AllFit, AllKept

-------------------------------------------------------------------------------
LEMMA InitHolds == ASSUME Init PROVE IInv
<1>1. /\ marks = <<[sequence |-> 1, coins |-> 0]>>
      /\ mempool = {} /\ wallet = {} /\ inFlight = {} /\ checked = {} /\ taken = {} /\ showing = {}
      /\ ranAt = [a \in Attempts |-> 0] /\ calls = [a \in Attempts |-> NoCall]
      /\ locked = FALSE /\ others = 0 /\ ends = 0
  BY DEF Init
<1>2. NoCall \in Call
  BY DEF NoCall, Call
<1>3. [sequence |-> 1, coins |-> 0] \in Mark
  BY DEF Mark
<1>4. Latest = 1
  BY <1>1 DEF Latest
<1>5. TypeOK
  <2>1. marks \in Seq(Mark) /\ marks # <<>>
    BY <1>1, <1>3
  <2>2. ranAt \in [Attempts -> 0..Latest]
    BY <1>1, <1>4
  <2>3. calls \in [Attempts -> Call]
    BY <1>1, <1>2
  <2>4. QED
    BY <1>1, <2>1, <2>2, <2>3 DEF TypeOK
<1>6. ASSUME NEW a \in Attempts
      PROVE  Fits(a, calls[a]) /\ Kept(a) /\ ~Live(a) /\ ~OnSheet(a)
  <2>1. /\ calls[a].stage = "none" /\ calls[a].outcome = "none" /\ calls[a].mark = NoMark
        /\ ranAt[a] = 0 /\ ~Live(a)
    BY <1>1 DEF NoCall, Live
  <2>2. QED
    BY <2>1 DEF Fits, Reached, Kept, UnderWay, Active, OnSheet
<1>7. OnePlace /\ CoinsRise /\ OneSheet
  BY <1>1, <1>4, <1>6 DEF OnePlace, CoinsRise, OneSheet
<1>8. QED
  BY <1>5, <1>6, <1>7 DEF IInv, AllFit, AllKept

LEMMA NextKeeps == ASSUME IInv, [Next]_vars PROVE IInv'
<1>1. CASE UNCHANGED vars
  <2>1. UNCHANGED <<marks, mempool, ranAt, others, wallet, inFlight, locked, showing, taken, calls,
                    checked, ends>>
    BY <1>1 DEF vars, chainVars, walletVars, lockVars
  <2>2. TypeOK' /\ OnePlace' /\ \A a \in Attempts : Live(a)' => Live(a)
    BY <2>1 DEF IInv, TypeOK, Latest, OnePlace, Live
  <2>3. QED
    BY <2>1, <2>2, CallsStay
<1>2. ASSUME NEW p \in Pages,
             (\E a \in Attempts : Review(p, a)) \/ Look(p) \/ Check(p) \/ EndSession(p) \/ Close(p)
      PROVE  IInv'
  BY <1>2, ReviewKeeps, LookKeeps, CheckKeeps, EndSessionKeeps, CloseKeeps
<1>3. ASSUME NEW a \in Attempts,
             \/ Dismiss(a) \/ Start(a) \/ ReadMark(a) \/ OpenWallet(a) \/ AskWallet(a)
             \/ Fail(a) \/ Sent(a) \/ Refused(a) \/ Broken(a) \/ Rejected(a) \/ Settle(a)
             \/ Watch(a) \/ GiveUp(a) \/ Confirm(a)
             \/ Approve(a) \/ Decline(a) \/ Accept(a)
      PROVE  IInv'
  BY <1>3, DismissKeeps, StartKeeps, ReadMarkKeeps, OpenWalletKeeps, AskWalletKeeps,
     FailKeeps, SentKeeps, RefusedKeeps, BrokenKeeps, RejectedKeeps, SettleKeeps,
     WatchKeeps, GiveUpKeeps, ConfirmKeeps, ApproveKeeps, DeclineKeeps, AcceptKeeps
<1>4. QED
  BY <1>1, <1>2, <1>3, RetryKeeps, BlockKeeps DEF Next

LEMMA Invariant == Spec => []IInv
BY InitHolds, NextKeeps, PTL DEF Spec

(* The state of the driver stays within its types.                         *)
THEOREM TypeCorrect == Spec => []TypeOK
<1>1. IInv => TypeOK
  BY DEF IInv
<1>2. QED
  BY <1>1, Invariant, PTL

(* Whatever was said to have failed or to be refused never reaches the     *)
(* wallet or the network (signer.ts: nothingSent, and the guard it gives   *)
(* broadcastContract).                                                     *)
THEOREM NothingSent == Spec => []NothingSentHolds
<1>1. IInv => NothingSentHolds
  BY DEF IInv, AllFit, Fits, Reached, NothingSentHolds
<1>2. QED
  BY <1>1, Invariant, PTL

(* A call reported as cancelled was in no block up to the one whose account *)
(* was read, for every lag below SETTLE_BLOCKS (signer.ts, accountMark.ts). *)
THEOREM CancelledObserved == Spec => []CancelledAsObserved
<1>1. IInv => CancelledAsObserved
  <2>1. SUFFICES ASSUME IInv, NEW a \in Attempts,
                        calls[a].outcome = "cancelled", ranAt[a] # 0
                 PROVE  ranAt[a] > calls[a].replied + SettleBlocks - MaxLag
    BY DEF CancelledAsObserved
  <2>2. ranAt[a] + MaxLag > calls[a].replied + SettleBlocks
    BY <2>1 DEF IInv, AllFit, Fits
  <2>3. /\ ranAt[a] \in Nat /\ MaxLag \in Nat /\ SettleBlocks \in Nat
        /\ calls[a].replied \in Nat
    BY <2>1, SignerAssumption DEF IInv, TypeOK, Call, Latest
  <2>4. QED
    BY <2>2, <2>3
<1>2. QED
  BY <1>1, Invariant, PTL

(* The governance lock keeps a page from sending an action again while an  *)
(* attempt of it may still run.  Excused are the attempts that were under  *)
(* way when the member said they checked or when a call of another page    *)
(* took the lock away, and those reported as cancelled                     *)
(* (governanceRecovery.ts, UnknownOutcome.tsx).                            *)
THEOREM OneOut == Spec => []OneIsOut
<1>1. IInv => OneIsOut
  <2>1. SUFFICES ASSUME IInv, NEW a \in Attempts, NEW b \in Attempts,
                        Live(a), Live(b), a # b, calls[a].page = calls[b].page, NotYet
                 PROVE  \/ {a, b} \cap (checked \cup taken) # {}
                        \/ "cancelled" \in {calls[a].outcome, calls[b].outcome}
    BY DEF OneIsOut, NotYet
  <2>2. Excused(a) \/ Excused(b)
    BY <2>1 DEF IInv, AllKept, Kept, UnderWay
  <2>3. QED
    BY <2>1, <2>2 DEF Excused
<1>2. QED
  BY <1>1, Invariant, PTL
===============================================================================
