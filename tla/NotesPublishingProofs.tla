------------------------ MODULE NotesPublishingProofs ------------------------
(***************************************************************************)
(* Proofs about NotesPublishing, for any number of pages and operations,   *)
(* any lag, and however many sessions end and other people edit.           *)
(*                                                                         *)
(* The argument: a request that was not opened is not with the wallet, and *)
(* one that was keeps an open receipt until the chain shows it (Agrees);   *)
(* the open receipts name different revisions (OpenDiffer), because begin  *)
(* is one transaction; the chain's revisions of this account were sent on  *)
(* the revision before them (RevisionsFollow); and a request the wallet    *)
(* still holds was not sent (WalletUnsent), so that one a node refuses is  *)
(* not out any more.                                                       *)
(***************************************************************************)
EXTENDS NotesPublishing, TLAPS

InDoubt == {"asked", "answered", "verifying", "doubtful", "rejected", "settling", "over"}

(* What the request of an operation and its receipt say of each other.     *)
Fits(o, q, phase) ==
    /\ q.stage \in {"new", "review"} => phase = "none"
    /\ phase = "none" => q.stage \in {"new", "review", "over"}
    /\ q.stage \in {"opening", "asked", "answered", "verifying",
                   "rejected", "settling", "refused"} => q.opened
    /\ q.stage \in {"new", "review", "begun", "started", "expired"} => ~q.opened
    /\ q.opened => phase \in OpenPhases \cup {"confirmed"}
    /\ phase = "not-sent" => q.stage \in {"over", "expired"}
    /\ q.told \in {"not-sent", "refused"} => q.stage \in {"over", "expired"} /\ o \notin Out
    /\ o \in Out => q.opened /\ q.stage \in InDoubt
    /\ phase = "confirmed" => base[o] < Len(notes) /\ notes[base[o] + 1] = o

Agrees(o) == Fits(o, requests[o], receipts[o])

AllAgree == \A o \in Operations : Agrees(o)

OpenDiffer ==
    \A o, p \in Operations :
        receipts[o] \in OpenPhases /\ receipts[p] \in OpenPhases /\ base[o] = base[p] =>
            o = p

RevisionsFollow ==
    /\ \A i \in 1..Len(notes) :
          notes[i] \in Operations => notes[i] \in sent /\ base[notes[i]] = i - 1
    /\ \A o \in Operations : base[o] <= Len(notes)

(* A request is with the wallet or with the network, never both.           *)
WalletUnsent == wallet \cap sent = {}

IInv == TypeOK /\ WalletUnsent /\ AllAgree /\ OpenDiffer /\ RevisionsFollow

-------------------------------------------------------------------------------
(* Steps that move one request and its receipt.                            *)

RequestStep(o) ==
    /\ requests' \in [Operations -> Request]
    /\ receipts' \in [Operations -> Phases]
    /\ ends' \in Nat
    /\ \A p \in Operations : p # o => requests'[p] = requests[p] /\ receipts'[p] = receipts[p]
    /\ Fits(o, requests'[o], receipts'[o])
    /\ receipts'[o] \in OpenPhases /\ receipts[o] \notin OpenPhases =>
          \A p \in Operations : receipts[p] \in OpenPhases => base[p] < base[o]
    /\ UNCHANGED <<chainVars, wallet, base>>

LEMMA OneRequestKeeps ==
    ASSUME IInv, NEW o \in Operations, RequestStep(o)
    PROVE  IInv'
<1>1. UNCHANGED <<notes, mempool, sent, wallet, base>>
  BY DEF RequestStep, chainVars
<1>2. TypeOK'
  BY <1>1 DEF RequestStep, IInv, TypeOK
<1>3. ASSUME NEW p \in Operations PROVE Agrees(p)'
  <2>1. Fits(p, requests'[p], receipts'[p])
    BY DEF RequestStep, IInv, AllAgree, Agrees
  <2>2. QED
    BY <1>1, <2>1 DEF Agrees, Fits, Out
<1>4. OpenDiffer'
  BY <1>1 DEF RequestStep, IInv, TypeOK, OpenDiffer
<1>5. RevisionsFollow' /\ WalletUnsent'
  BY <1>1 DEF IInv, RevisionsFollow, WalletUnsent
<1>6. QED
  BY <1>2, <1>3, <1>4, <1>5 DEF IInv, AllAgree

LEMMA WriteEffect ==
    ASSUME TypeOK, NEW o \in Operations, NEW to \in {"unknown", "not-sent"}, Write(o, to)
    PROVE  /\ receipts' \in [Operations -> Phases]
           /\ \A p \in Operations : p # o => receipts'[p] = receipts[p]
           /\ receipts'[o] \in {receipts[o], to}
           /\ receipts[o] \notin OpenPhases => receipts'[o] = receipts[o]
<1>1. Settled(receipts[o], to) \in {receipts[o], to}
  BY DEF Settled
<1>2. receipts[o] \notin OpenPhases => Settled(receipts[o], to) = receipts[o]
  BY DEF Settled
<1>3. Settled(receipts[o], to) \in Phases
  BY <1>1 DEF TypeOK, Phases, OpenPhases
<1>4. QED
  BY <1>1, <1>2, <1>3 DEF Write, TypeOK

LEMMA MovedTo ==
    ASSUME TypeOK, NEW o \in Operations, NEW q \in Request,
           requests' = [requests EXCEPT ![o] = q]
    PROVE  /\ requests' \in [Operations -> Request]
           /\ requests'[o] = q
           /\ \A p \in Operations : p # o => requests'[p] = requests[p]
BY DEF TypeOK

LEMMA BecomesEffect ==
    ASSUME TypeOK, NEW o \in Operations, NEW stage \in Stages, Becomes(o, stage)
    PROVE  /\ requests' \in [Operations -> Request]
           /\ requests'[o] = [requests[o] EXCEPT !.stage = stage]
           /\ \A p \in Operations : p # o => requests'[p] = requests[p]
BY DEF Becomes, TypeOK, Request

-------------------------------------------------------------------------------
(* A request, step by step.                                                *)

LEMMA RefuseKeeps ==
    ASSUME IInv, NEW o \in Operations, Refuse(o) PROVE IInv'
<1>1. /\ requests' \in [Operations -> Request]
      /\ requests'[o] = [requests[o] EXCEPT !.stage = "over", !.waiting = FALSE,
                                                !.told = "not-sent"]
      /\ \A p \in Operations : p # o => requests'[p] = requests[p]
  <2> DEFINE q == [requests[o] EXCEPT !.stage = "over", !.waiting = FALSE,
                                                !.told = "not-sent"]
  <2>1. requests[o] \in Request
    BY DEF IInv, TypeOK
  <2>2. q \in Request
    BY <2>1 DEF Request, Stages
  <2>3. requests' = [requests EXCEPT ![o] = q]
    BY <2>1 DEF Refuse, IInv, TypeOK, Request
  <2>4. QED
    BY <2>2, <2>3, MovedTo DEF IInv
<1>2. Fits(o, requests'[o], receipts'[o])
  <2>1. requests[o] \in Request /\ receipts[o] \in Phases /\ receipts' = receipts
    BY DEF Refuse, IInv, TypeOK
  <2>2. /\ requests'[o].stage = "over" /\ requests'[o].told = "not-sent"
        /\ requests'[o].opened = requests[o].opened
    BY <1>1, <2>1 DEF Request
  <2>3. Fits(o, requests[o], receipts[o])
    BY DEF IInv, AllAgree, Agrees
  <2>4. QED
    BY <2>1, <2>2, <2>3 DEF Refuse, Fits, Phases, OpenPhases, InDoubt
<1>3. RequestStep(o)
  BY <1>1, <1>2 DEF Refuse, RequestStep, IInv, TypeOK
<1>4. QED
  BY <1>3, OneRequestKeeps

LEMMA BeginKeeps ==
    ASSUME IInv, NEW o \in Operations, Begin(o) PROVE IInv'
<1>1. "begun" \in Stages /\ "prepared" \in Phases /\ "prepared" \in OpenPhases
  BY DEF Stages, Phases, OpenPhases
<1>2. /\ requests' \in [Operations -> Request]
      /\ requests'[o] = [requests[o] EXCEPT !.stage = "begun"]
      /\ \A p \in Operations : p # o => requests'[p] = requests[p]
  BY <1>1, BecomesEffect DEF Begin, IInv
<1>3. /\ receipts' \in [Operations -> Phases]
      /\ receipts'[o] = "prepared"
      /\ \A p \in Operations : p # o => receipts'[p] = receipts[p]
  BY <1>1 DEF Begin, IInv, TypeOK
<1>4. Fits(o, requests'[o], receipts'[o])
  BY <1>1, <1>2, <1>3 DEF Begin, IInv, TypeOK, Request, AllAgree, Agrees, Fits
<1>5. RequestStep(o)
  BY <1>2, <1>3, <1>4 DEF Begin, RequestStep, IInv, TypeOK
<1>6. QED
  BY <1>5, OneRequestKeeps

(* The steps that only move a request on.                                  *)
LEMMA OnlyMoves ==
    ASSUME IInv, NEW o \in Operations, NEW stage \in Stages, Becomes(o, stage),
           UNCHANGED <<chainVars, wallet, receipts, base, ends>>,
           Fits(o, [requests[o] EXCEPT !.stage = stage], receipts[o])
    PROVE  IInv'
<1>1. /\ requests' \in [Operations -> Request]
      /\ requests'[o] = [requests[o] EXCEPT !.stage = stage]
      /\ \A p \in Operations : p # o => requests'[p] = requests[p]
  BY BecomesEffect DEF IInv
<1>2. RequestStep(o)
  BY <1>1 DEF RequestStep, IInv, TypeOK
<1>3. QED
  BY <1>2, OneRequestKeeps

LEMMA StartKeeps ==
    ASSUME IInv, NEW o \in Operations, Start(o) PROVE IInv'
<1>1. Fits(o, [requests[o] EXCEPT !.stage = "started"], receipts[o])
  BY DEF Start, IInv, TypeOK, Request, AllAgree, Agrees, Fits, InDoubt
<1>2. QED
  BY <1>1, OnlyMoves DEF Start, Stages

LEMMA FailKeeps ==
    ASSUME IInv, NEW o \in Operations, Fail(o) PROVE IInv'
<1>1. PICK to \in DOMAIN FailsFrom : requests[o].stage \in FailsFrom[to] /\ Becomes(o, to)
  BY DEF Fail
<1>2. \/ to = "stopped" /\ requests[o].stage \in {"begun", "opening"}
      \/ to = "doubtful" /\ requests[o].stage \in {"started", "opening", "asked"}
      \/ to = "rejected" /\ requests[o].stage = "asked"
  BY <1>1 DEF FailsFrom
<1>3. Fits(o, [requests[o] EXCEPT !.stage = to], receipts[o])
  BY <1>2 DEF IInv, TypeOK, Request, AllAgree, Agrees, Fits, InDoubt
<1>4. QED
  BY <1>1, <1>2, <1>3, OnlyMoves DEF Fail, Stages

LEMMA AnswerKeeps ==
    ASSUME IInv, NEW o \in Operations, Answer(o) PROVE IInv'
<1>1. Fits(o, [requests[o] EXCEPT !.stage = "answered"], receipts[o])
  BY DEF Answer, IInv, TypeOK, Request, AllAgree, Agrees, Fits, InDoubt
<1>2. QED
  BY <1>1, OnlyMoves DEF Answer, Stages

LEMMA StopVerifyingKeeps ==
    ASSUME IInv, NEW o \in Operations, StopVerifying(o) PROVE IInv'
<1>1. Fits(o, [requests[o] EXCEPT !.stage = "over"], receipts[o])
  BY DEF StopVerifying, IInv, TypeOK, Request, AllAgree, Agrees, Fits, InDoubt
<1>2. QED
  BY <1>1, OnlyMoves DEF StopVerifying, Stages

LEMMA MayOpenKeeps ==
    ASSUME IInv, NEW o \in Operations, MayOpen(o) PROVE IInv'
<1>1. /\ requests' \in [Operations -> Request]
      /\ requests'[o] = [requests[o] EXCEPT !.stage = "opening", !.opened = TRUE]
      /\ \A p \in Operations : p # o => requests'[p] = requests[p]
  <2> DEFINE q == [requests[o] EXCEPT !.stage = "opening", !.opened = TRUE]
  <2>1. requests[o] \in Request
    BY DEF IInv, TypeOK
  <2>2. q \in Request
    BY <2>1 DEF Request, Stages
  <2>3. requests' = [requests EXCEPT ![o] = q]
    BY <2>1 DEF MayOpen, IInv, TypeOK, Request
  <2>4. QED
    BY <2>2, <2>3, MovedTo DEF IInv
<1>2. receipts[o] \in OpenPhases \cup {"confirmed"}
  BY DEF MayOpen, IInv, TypeOK, Phases, AllAgree, Agrees, Fits
<1>3. Fits(o, requests'[o], receipts'[o])
  <2>1. requests[o] \in Request /\ receipts[o] \in Phases /\ receipts' = receipts
    BY DEF MayOpen, IInv, TypeOK
  <2>2. /\ requests'[o].stage = "opening" /\ requests'[o].opened
        /\ requests'[o].told = requests[o].told
    BY <1>1, <2>1 DEF Request
  <2>3. Fits(o, requests[o], receipts[o])
    BY DEF IInv, AllAgree, Agrees
  <2>4. QED
    BY <1>2, <2>1, <2>2, <2>3 DEF MayOpen, Fits, Phases, OpenPhases, InDoubt
<1>4. RequestStep(o)
  BY <1>1, <1>3 DEF MayOpen, RequestStep, IInv, TypeOK
<1>5. QED
  BY <1>4, OneRequestKeeps

LEMMA DismissedKeeps ==
    ASSUME IInv, NEW o \in Operations, Dismissed(o) PROVE IInv'
<1>1. /\ requests' \in [Operations -> Request]
      /\ requests'[o] = [requests[o] EXCEPT !.stage = "over", !.waiting = FALSE]
      /\ \A p \in Operations : p # o => requests'[p] = requests[p]
  <2> DEFINE q == [requests[o] EXCEPT !.stage = "over", !.waiting = FALSE]
  <2>1. requests[o] \in Request
    BY DEF IInv, TypeOK
  <2>2. q \in Request
    BY <2>1 DEF Request, Stages
  <2>3. requests' = [requests EXCEPT ![o] = q]
    BY <2>1 DEF Dismissed, IInv, TypeOK, Request
  <2>4. QED
    BY <2>2, <2>3, MovedTo DEF IInv
<1>2. Fits(o, requests'[o], receipts'[o])
  <2>1. requests[o] \in Request /\ receipts[o] \in Phases /\ receipts' = receipts
    BY DEF Dismissed, IInv, TypeOK
  <2>2. /\ requests'[o].stage = "over" /\ requests'[o].opened = requests[o].opened
        /\ requests'[o].told = requests[o].told
    BY <1>1, <2>1 DEF Request
  <2>3. Fits(o, requests[o], receipts[o])
    BY DEF IInv, AllAgree, Agrees
  <2>4. QED
    BY <2>1, <2>2, <2>3 DEF Dismissed, Fits, Phases, OpenPhases, InDoubt
<1>3. RequestStep(o)
  BY <1>1, <1>2 DEF Dismissed, RequestStep, IInv, TypeOK
<1>4. QED
  BY <1>3, OneRequestKeeps

LEMMA GiveUpKeeps ==
    ASSUME IInv, NEW o \in Operations, GiveUp(o) PROVE IInv'
<1> DEFINE q == requests[o]
           left == [q EXCEPT !.waiting = FALSE, !.late = TRUE,
                             !.stage = IF @ = "settling" THEN "over" ELSE @]
<1>1. /\ requests' \in [Operations -> Request]
      /\ requests'[o] = left
      /\ \A p \in Operations : p # o => requests'[p] = requests[p]
  <2>1. q \in Request
    BY DEF IInv, TypeOK
  <2>2. left \in Request
    BY <2>1 DEF Request, Stages
  <2>3. requests' = [requests EXCEPT ![o] = left]
    BY <2>1 DEF GiveUp, IInv, TypeOK, Request
  <2>4. QED
    BY <2>2, <2>3, MovedTo DEF IInv
<1>2. Fits(o, requests'[o], receipts'[o])
  <2>1. requests[o] \in Request /\ receipts[o] \in Phases /\ receipts' = receipts
    BY DEF GiveUp, IInv, TypeOK
  <2>2. /\ requests'[o].stage = IF q.stage = "settling" THEN "over" ELSE q.stage
        /\ requests'[o].opened = q.opened /\ requests'[o].told = q.told
    BY <1>1, <2>1 DEF Request
  <2>3. Fits(o, requests[o], receipts[o])
    BY DEF IInv, AllAgree, Agrees
  <2>4. QED
    BY <2>1, <2>2, <2>3 DEF GiveUp, Fits, Phases, OpenPhases, InDoubt
<1>3. RequestStep(o)
  BY <1>1, <1>2 DEF GiveUp, RequestStep, IInv, TypeOK
<1>4. QED
  BY <1>3, OneRequestKeeps

LEMMA CancelledKeeps ==
    ASSUME IInv, NEW o \in Operations, Cancelled(o) PROVE IInv'
<1> DEFINE q == requests[o]
           told == [q EXCEPT !.stage = "over", !.waiting = FALSE, !.told = "cancelled"]
<1>1. /\ requests' \in [Operations -> Request]
      /\ requests'[o] = told
      /\ \A p \in Operations : p # o => requests'[p] = requests[p]
  <2>1. q \in Request
    BY DEF IInv, TypeOK
  <2>2. told \in Request
    BY <2>1 DEF Request, Stages
  <2>3. requests' = [requests EXCEPT ![o] = told]
    BY <2>1 DEF Cancelled, IInv, TypeOK, Request
  <2>4. QED
    BY <2>2, <2>3, MovedTo DEF IInv
<1>2. Fits(o, requests'[o], receipts'[o])
  <2>1. q \in Request /\ receipts[o] \in Phases /\ receipts' = receipts
    BY DEF Cancelled, IInv, TypeOK
  <2>2. /\ requests'[o].stage = "over" /\ requests'[o].told = "cancelled"
        /\ requests'[o].opened = q.opened
    BY <1>1, <2>1 DEF Request
  <2>3. Fits(o, q, receipts[o])
    BY DEF IInv, AllAgree, Agrees
  <2>4. QED
    BY <2>1, <2>2, <2>3 DEF Cancelled, Fits, Phases, OpenPhases, InDoubt
<1>3. RequestStep(o)
  BY <1>1, <1>2 DEF Cancelled, RequestStep, IInv, TypeOK
<1>4. QED
  BY <1>3, OneRequestKeeps

LEMMA SettleLateKeeps ==
    ASSUME IInv, NEW o \in Operations, SettleLate(o) PROVE IInv'
<1>1. /\ requests' \in [Operations -> Request]
      /\ requests'[o] = [requests[o] EXCEPT !.late = FALSE]
      /\ \A p \in Operations : p # o => requests'[p] = requests[p]
  BY DEF SettleLate, IInv, TypeOK, Request
<1>2. /\ receipts' \in [Operations -> Phases]
      /\ \A p \in Operations : p # o => receipts'[p] = receipts[p]
      /\ receipts'[o] \in {receipts[o], "unknown"}
      /\ receipts[o] \notin OpenPhases => receipts'[o] = receipts[o]
  BY WriteEffect DEF SettleLate, IInv
<1>3. Fits(o, requests'[o], receipts'[o])
  <2>1. requests[o] \in Request
    BY DEF IInv, TypeOK
  <2>2. /\ requests'[o].stage = requests[o].stage
        /\ requests'[o].opened = requests[o].opened /\ requests'[o].told = requests[o].told
    BY <1>1, <2>1 DEF Request
  <2>3. Fits(o, requests[o], receipts[o])
    BY DEF IInv, AllAgree, Agrees
  <2>4. QED
    BY <1>2, <2>1, <2>2, <2>3 DEF Fits, OpenPhases
<1>4. RequestStep(o)
  BY <1>1, <1>2, <1>3 DEF SettleLate, RequestStep, IInv, TypeOK
<1>5. QED
  BY <1>4, OneRequestKeeps

(* What the driver makes of a failed request: it is over, or its rejection *)
(* is being settled, and only a request that did not get out is called so. *)
LEMMA OutcomeSays ==
    ASSUME NEW q \in Request, q.stage \in {"stopped", "doubtful", "rejected", "refused"}
    PROVE  /\ Outcome(q) \in Request
           /\ Outcome(q).opened = q.opened
           /\ \/ Outcome(q).stage = "over"
              \/ Outcome(q).stage = "settling" /\ q.stage = "rejected"
           /\ \/ Outcome(q).told = q.told
              \/ q.stage \in {"stopped", "refused"}
           /\ Outcome(q).stage = "settling" => Outcome(q).told = q.told
<1>1. CASE q.stage = "rejected" /\ q.waiting
  BY <1>1 DEF Outcome, Request, Stages
<1>2. CASE ~(q.stage = "rejected" /\ q.waiting)
  <2> DEFINE told == CASE ~q.waiting -> q.told
                       [] q.stage = "stopped" -> "not-sent"
                       [] q.stage = "refused" -> "refused"
                       [] OTHER -> q.told
             late == q.late \/ (q.stage = "doubtful" /\ q.waiting)
  <2>1. /\ told \in {"nothing", "not-sent", "refused", "cancelled"}
        /\ told = q.told \/ q.stage \in {"stopped", "refused"}
    <3>1. CASE ~q.waiting
      BY <3>1 DEF Request
    <3>2. CASE q.waiting
      BY <3>2 DEF Request
    <3>3. QED
      BY <3>1, <3>2
  <2>2. late \in BOOLEAN
    BY DEF Request
  <2>3. Outcome(q) = [q EXCEPT !.stage = "over", !.waiting = FALSE, !.late = late,
                               !.told = told]
    BY <1>2 DEF Outcome, Request
  <2> HIDE DEF told, late
  <2>4. QED
    BY <2>1, <2>2, <2>3 DEF Request, Stages
<1>3. QED
  BY <1>1, <1>2

LEMMA SettleFailureKeeps ==
    ASSUME IInv, NEW o \in Operations, SettleFailure(o) PROVE IInv'
<1> DEFINE q == requests[o]
<1>1. q \in Request /\ q.stage \in {"stopped", "doubtful", "rejected", "refused"}
  BY DEF SettleFailure, IInv, TypeOK
<1>2. /\ requests' \in [Operations -> Request]
      /\ requests'[o] = Outcome(q)
      /\ \A p \in Operations : p # o => requests'[p] = requests[p]
  <2>1. requests' = [requests EXCEPT ![o] = Outcome(q)]
    BY DEF SettleFailure
  <2>2. QED
    BY <1>1, <2>1, OutcomeSays, MovedTo DEF IInv
<1>3. /\ receipts' \in [Operations -> Phases]
      /\ \A p \in Operations : p # o => receipts'[p] = receipts[p]
      /\ receipts'[o] \in {receipts[o], IF q.opened THEN "unknown" ELSE "not-sent"}
      /\ receipts[o] \notin OpenPhases => receipts'[o] = receipts[o]
  BY WriteEffect DEF SettleFailure, IInv
<1>4. Fits(o, requests'[o], receipts'[o])
  <2>1. Fits(o, q, receipts[o])
    BY DEF IInv, AllAgree, Agrees
  <2>2. UNCHANGED <<base, notes>> /\ receipts[o] \in Phases
    BY DEF SettleFailure, chainVars, IInv, TypeOK
  <2>3. /\ requests'[o].opened = q.opened
        /\ \/ requests'[o].stage = "over"
           \/ requests'[o].stage = "settling" /\ q.stage = "rejected"
        /\ \/ requests'[o].told = q.told
           \/ q.stage \in {"stopped", "refused"}
        /\ requests'[o].stage = "settling" => requests'[o].told = q.told
    BY <1>1, <1>2, OutcomeSays
  <2> HIDE DEF q
  <2>4. q.opened \in BOOLEAN
    BY <1>1 DEF Request
  <2>5. QED
    BY <1>1, <1>3, <2>1, <2>2, <2>3, <2>4 DEF Fits, OpenPhases, InDoubt
<1>5. RequestStep(o)
  BY <1>2, <1>3, <1>4 DEF SettleFailure, RequestStep, IInv, TypeOK, OpenPhases
<1>6. QED
  BY <1>5, OneRequestKeeps

LEMMA ExpireKeeps ==
    ASSUME IInv, NEW o \in Operations, Expire(o) PROVE IInv'
<1>1. /\ requests' \in [Operations -> Request]
      /\ requests'[o] = [requests[o] EXCEPT !.stage = "expired", !.told = "not-sent"]
      /\ \A p \in Operations : p # o => requests'[p] = requests[p]
  <2> DEFINE q == [requests[o] EXCEPT !.stage = "expired", !.told = "not-sent"]
  <2>1. requests[o] \in Request
    BY DEF IInv, TypeOK
  <2>2. q \in Request
    BY <2>1 DEF Request, Stages
  <2>3. requests' = [requests EXCEPT ![o] = q]
    BY <2>1 DEF Expire, IInv, TypeOK, Request
  <2>4. QED
    BY <2>2, <2>3, MovedTo DEF IInv
<1>2. /\ receipts' \in [Operations -> Phases]
      /\ \A p \in Operations : p # o => receipts'[p] = receipts[p]
      /\ receipts'[o] \in {receipts[o], "not-sent"}
      /\ receipts[o] \notin OpenPhases => receipts'[o] = receipts[o]
  BY WriteEffect DEF Expire, IInv
<1>3. Fits(o, requests'[o], receipts'[o])
  <2>1. requests[o] \in Request /\ requests[o].stage = "stopped" /\ ~requests[o].opened
    BY DEF Expire, IInv, TypeOK
  <2>2. /\ requests'[o].stage = "expired" /\ requests'[o].told = "not-sent"
        /\ requests'[o].opened = requests[o].opened
    BY <1>1, <2>1 DEF Request
  <2>3. Fits(o, requests[o], receipts[o])
    BY DEF IInv, AllAgree, Agrees
  <2>4. QED
    BY <1>2, <2>1, <2>2, <2>3 DEF Fits, OpenPhases
<1>4. RequestStep(o)
  BY <1>1, <1>2, <1>3 DEF Expire, RequestStep, IInv, TypeOK, OpenPhases
<1>5. QED
  BY <1>4, OneRequestKeeps

LEMMA SettleSubmittedKeeps ==
    ASSUME IInv, NEW o \in Operations, SettleSubmitted(o) PROVE IInv'
<1> DEFINE q == requests[o]
           settled == [q EXCEPT !.stage = IF q.waiting THEN "verifying" ELSE "over",
                                !.waiting = FALSE]
<1>1. CASE UNCHANGED receipts /\ Becomes(o, "doubtful")
  <2>1. Fits(o, [q EXCEPT !.stage = "doubtful"], receipts[o])
    BY DEF SettleSubmitted, IInv, TypeOK, Request, AllAgree, Agrees, Fits, InDoubt
  <2>2. QED
    BY <1>1, <2>1, OnlyMoves DEF SettleSubmitted, Stages
<1>2. CASE /\ receipts[o] \in {"prepared", "submitted"}
           /\ receipts' = [receipts EXCEPT ![o] = "submitted"]
           /\ requests' = [requests EXCEPT
                  ![o].stage = IF q.waiting THEN "verifying" ELSE "over",
                  ![o].waiting = FALSE]
  <2>1. /\ requests' \in [Operations -> Request]
        /\ requests'[o] = settled
        /\ \A p \in Operations : p # o => requests'[p] = requests[p]
    <3>1. q \in Request
      BY DEF IInv, TypeOK
    <3>2. settled \in Request
      BY <3>1 DEF Request, Stages
    <3>3. requests' = [requests EXCEPT ![o] = settled]
      BY <1>2, <3>1 DEF IInv, TypeOK, Request
    <3>4. QED
      BY <3>2, <3>3, MovedTo DEF IInv
  <2>2. /\ receipts' \in [Operations -> Phases]
        /\ \A p \in Operations : p # o => receipts'[p] = receipts[p]
        /\ receipts'[o] = "submitted"
    BY <1>2 DEF IInv, TypeOK, Phases, OpenPhases
  <2>3. Fits(o, requests'[o], receipts'[o])
    BY <2>1, <2>2 DEF SettleSubmitted, IInv, TypeOK, Request, AllAgree, Agrees, Fits,
                      OpenPhases, InDoubt
  <2>4. RequestStep(o)
    BY <1>2, <2>1, <2>2, <2>3
       DEF SettleSubmitted, RequestStep, IInv, TypeOK, OpenPhases
  <2>5. QED
    BY <2>4, OneRequestKeeps
<1>3. QED
  BY <1>1, <1>2 DEF SettleSubmitted

(* The note as a node shows it proves that the operation made a revision.  *)
LEMMA EvidenceIsTrue ==
    ASSUME TypeOK, NEW o \in Operations, NEW r \in Reads, Evidence(o, r)
    PROVE  base[o] < Len(notes) /\ notes[base[o] + 1] = o
BY DEF Evidence, Reads, TypeOK

LEMMA ConfirmKeeps ==
    ASSUME IInv, NEW o \in Operations, receipts[o] \in OpenPhases,
           NEW r \in Reads, Evidence(o, r),
           receipts' = [receipts EXCEPT ![o] = "confirmed"],
           \/ UNCHANGED requests
           \/ requests[o].stage = "verifying" /\ Becomes(o, "over"),
           UNCHANGED <<chainVars, wallet, base, ends>>
    PROVE  IInv'
<1>1. base[o] < Len(notes) /\ notes[base[o] + 1] = o
  BY EvidenceIsTrue DEF IInv
<1>2. /\ requests' \in [Operations -> Request]
      /\ \A p \in Operations : p # o => requests'[p] = requests[p]
      /\ \/ requests'[o] = requests[o]
         \/ /\ requests[o].stage = "verifying"
            /\ requests'[o] = [requests[o] EXCEPT !.stage = "over"]
  BY BecomesEffect DEF IInv, TypeOK, Stages
<1>3. /\ receipts' \in [Operations -> Phases]
      /\ receipts'[o] = "confirmed"
      /\ \A p \in Operations : p # o => receipts'[p] = receipts[p]
  BY DEF IInv, TypeOK, Phases
<1>4. Fits(o, requests'[o], receipts'[o])
  BY <1>1, <1>2, <1>3 DEF IInv, TypeOK, Request, AllAgree, Agrees, Fits, OpenPhases, InDoubt
<1>5. RequestStep(o)
  BY <1>2, <1>3, <1>4 DEF RequestStep, IInv, TypeOK, OpenPhases
<1>6. QED
  BY <1>5, OneRequestKeeps

LEMMA VerifyKeeps ==
    ASSUME IInv, NEW o \in Operations, Verify(o) PROVE IInv'
BY ConfirmKeeps DEF Verify

LEMMA RecoverKeeps ==
    ASSUME IInv, NEW o \in Operations, Recover(o) PROVE IInv'
BY ConfirmKeeps DEF Recover

-------------------------------------------------------------------------------
(* Reviews: a new operation, its base not yet anyone's.                    *)

LEMMA NewOperationKeeps ==
    ASSUME IInv, NEW n \in Operations, requests[n].stage = "new",
           NEW b \in Reads, base' = [base EXCEPT ![n] = b],
           NEW p \in Pages \cup {NoPage},
           requests' \in [Operations -> Request],
           requests'[n] = Reviewed(p, TRUE),
           \A o \in Operations : o # n =>
               \/ requests'[o] = requests[o]
               \/ /\ requests[o].stage = "expired"
                  /\ requests'[o].stage = "over"
                  /\ requests'[o].opened = requests[o].opened
                  /\ requests'[o].told = requests[o].told,
           UNCHANGED <<chainVars, wallet, receipts, ends>>
    PROVE  IInv'
<1>1. UNCHANGED <<notes, mempool, sent, wallet, receipts, ends>>
  BY DEF chainVars
<1>2. b \in Nat /\ b <= Len(notes)
  BY DEF Reads, IInv, TypeOK
<1>3. TypeOK'
  BY <1>1, <1>2 DEF IInv, TypeOK
<1>4. receipts[n] = "none" /\ n \notin Out
  BY DEF IInv, AllAgree, Agrees, Fits, InDoubt
<1>5. /\ base'[n] = b
      /\ \A o \in Operations : o # n => base'[o] = base[o]
  BY DEF IInv, TypeOK
<1>6. ASSUME NEW o \in Operations PROVE Agrees(o)'
  <2>1. CASE o = n
    <3>1. /\ requests'[o].stage = "review" /\ ~requests'[o].opened
          /\ requests'[o].told = "nothing"
      BY <2>1 DEF Reviewed, NoRequest
    <3>2. receipts'[o] = "none" /\ o \notin Out'
      BY <1>1, <1>4, <2>1 DEF Out
    <3>3. QED
      BY <3>1, <3>2 DEF Agrees, Fits, OpenPhases
  <2>2. CASE o # n
    <3>1. Fits(o, requests[o], receipts[o])
      BY DEF IInv, AllAgree, Agrees
    <3>2. base'[o] = base[o] /\ Out' = Out
      BY <1>1, <1>5, <2>2 DEF Out
    <3>3. QED
      BY <1>1, <2>2, <3>1, <3>2 DEF Agrees, Fits, InDoubt
  <2>3. QED
    BY <2>1, <2>2
<1>7. OpenDiffer'
  BY <1>1, <1>4, <1>5 DEF IInv, OpenDiffer, OpenPhases
<1>8. RevisionsFollow'
  <2>1. n \notin sent
    BY <1>4 DEF Out
  <2>2. QED
    BY <1>1, <1>2, <1>5, <2>1 DEF IInv, RevisionsFollow
<1>9. WalletUnsent'
  BY <1>1 DEF IInv, WalletUnsent
<1>10. QED
  BY <1>3, <1>6, <1>7, <1>8, <1>9 DEF IInv, AllAgree

LEMMA ReviewKeeps ==
    ASSUME IInv, NEW p \in Pages, NEW o \in Operations, Review(p, o) PROVE IInv'
<1>1. PICK b \in Reads : base' = [base EXCEPT ![o] = b]
  BY DEF Review
<1>2. Reviewed(p, TRUE) \in Request
  BY DEF Reviewed, NoRequest, Request, Stages
<1>3. /\ requests' \in [Operations -> Request]
      /\ requests'[o] = Reviewed(p, TRUE)
      /\ \A q \in Operations : q # o => requests'[q] = requests[q]
  BY <1>2, MovedTo DEF Review, IInv
<1>4. requests[o].stage = "new"
  BY DEF Review
<1>5. QED
  BY <1>1, <1>3, <1>4, NewOperationKeeps DEF Review

LEMMA RequoteKeeps ==
    ASSUME IInv, NEW o \in Operations, NEW n \in Operations, Requote(o, n)
    PROVE  IInv'
<1> DEFINE q == [requests[o] EXCEPT !.stage = "over", !.waiting = FALSE]
           p == requests[o].page
<1>1. requests[o] \in Request /\ requests[o].stage = "expired" /\ requests[n].stage = "new"
  BY DEF Requote, IInv, TypeOK
<1>2. o # n
  BY <1>1
<1>3. q \in Request /\ Reviewed(p, TRUE) \in Request /\ p \in Pages \cup {NoPage}
  BY <1>1 DEF Reviewed, NoRequest, Request, Stages
<1>4. requests' = [requests EXCEPT ![o] = q, ![n] = Reviewed(p, TRUE)]
  BY <1>1, <1>2 DEF Requote, IInv, TypeOK, Request
<1>5. /\ requests' \in [Operations -> Request]
      /\ requests'[n] = Reviewed(p, TRUE)
      /\ requests'[o] = q
      /\ \A k \in Operations : k # o /\ k # n => requests'[k] = requests[k]
  BY <1>2, <1>3, <1>4 DEF IInv, TypeOK
<1>6. q.stage = "over" /\ q.opened = requests[o].opened /\ q.told = requests[o].told
  BY <1>1 DEF Request
<1>7. base[o] \in Reads /\ base' = [base EXCEPT ![n] = base[o]]
  BY DEF Requote
<1>8. UNCHANGED <<chainVars, wallet, receipts, ends>>
  BY DEF Requote
<1>9. \A k \in Operations : k # n =>
        \/ requests'[k] = requests[k]
        \/ /\ requests[k].stage = "expired"
           /\ requests'[k].stage = "over"
           /\ requests'[k].opened = requests[k].opened
           /\ requests'[k].told = requests[k].told
  BY <1>1, <1>5, <1>6
<1> HIDE DEF q, p
<1>10. QED
  BY <1>1, <1>3, <1>5, <1>7, <1>8, <1>9, NewOperationKeeps

-------------------------------------------------------------------------------
(* The wallet, the chain and the pages.                                    *)

LEMMA AskKeeps ==
    ASSUME IInv, NEW o \in Operations, Ask(o) PROVE IInv'
<1>1. UNCHANGED <<notes, mempool, sent, receipts, base, ends>>
  BY DEF Ask, chainVars
<1>2. requests[o] \in Request /\ requests[o].stage = "opening"
  BY DEF Ask, IInv, TypeOK
<1>3. /\ requests' \in [Operations -> Request]
      /\ requests'[o] = [requests[o] EXCEPT !.stage = "asked"]
      /\ \A p \in Operations : p # o => requests'[p] = requests[p]
  BY BecomesEffect DEF Ask, IInv, Stages
<1>4. /\ requests'[o].stage = "asked" /\ requests'[o].opened = requests[o].opened
      /\ requests'[o].told = requests[o].told
  BY <1>2, <1>3 DEF Request
<1>5. TypeOK'
  BY <1>1, <1>3 DEF Ask, IInv, TypeOK
<1>6. ASSUME NEW p \in Operations PROVE Agrees(p)'
  <2>1. Fits(p, requests[p], receipts[p])
    BY DEF IInv, AllAgree, Agrees
  <2>2. Out' = Out \cup {o}
    BY <1>1 DEF Ask, Out
  <2>3. CASE p = o
    BY <1>1, <1>2, <1>4, <2>1, <2>3 DEF Agrees, Fits, InDoubt, OpenPhases
  <2>4. CASE p # o
    BY <1>1, <1>3, <2>1, <2>2, <2>4 DEF Agrees, Fits
  <2>5. QED
    BY <2>3, <2>4
<1>7. OpenDiffer' /\ RevisionsFollow'
  BY <1>1 DEF IInv, OpenDiffer, RevisionsFollow
<1>8. WalletUnsent'
  <2>1. o \notin sent
    BY <1>2 DEF IInv, AllAgree, Agrees, Fits, InDoubt, Out
  <2>2. QED
    BY <1>1, <2>1 DEF Ask, IInv, WalletUnsent
<1>9. QED
  BY <1>5, <1>6, <1>7, <1>8 DEF IInv, AllAgree

LEMMA RefuseAtNodeKeeps ==
    ASSUME IInv, NEW o \in Operations, RefuseAtNode(o) PROVE IInv'
<1>1. UNCHANGED <<notes, mempool, sent, receipts, base, ends>> /\ wallet' = wallet \ {o}
  BY DEF RefuseAtNode, chainVars
<1>2. requests[o] \in Request /\ requests[o].stage = "asked" /\ o \in wallet
  BY DEF RefuseAtNode, IInv, TypeOK
<1>3. /\ requests' \in [Operations -> Request]
      /\ requests'[o] = [requests[o] EXCEPT !.stage = "refused"]
      /\ \A p \in Operations : p # o => requests'[p] = requests[p]
  BY BecomesEffect DEF RefuseAtNode, IInv, Stages
<1>4. /\ requests'[o].stage = "refused" /\ requests'[o].opened = requests[o].opened
      /\ requests'[o].told = requests[o].told
  BY <1>2, <1>3 DEF Request
<1>5. TypeOK' /\ WalletUnsent'
  BY <1>1, <1>3 DEF IInv, TypeOK, WalletUnsent
<1>6. ASSUME NEW p \in Operations PROVE Agrees(p)'
  <2>1. Fits(p, requests[p], receipts[p])
    BY DEF IInv, AllAgree, Agrees
  <2>2. Out' = Out \ {o}
    BY <1>1, <1>2 DEF IInv, WalletUnsent, Out
  <2>3. CASE p = o
    BY <1>1, <1>2, <1>4, <2>1, <2>2, <2>3 DEF Agrees, Fits, OpenPhases
  <2>4. CASE p # o
    BY <1>1, <1>3, <2>1, <2>2, <2>4 DEF Agrees, Fits
  <2>5. QED
    BY <2>3, <2>4
<1>7. OpenDiffer' /\ RevisionsFollow'
  BY <1>1 DEF IInv, OpenDiffer, RevisionsFollow
<1>8. QED
  BY <1>5, <1>6, <1>7 DEF IInv, AllAgree

(* A page that ends or closes changes what its requests still do, not what *)
(* was done.                                                               *)
LEMMA PageStepKeeps ==
    ASSUME IInv, ends' \in Nat, requests' \in [Operations -> Request],
           \A o \in Operations :
               /\ requests'[o].stage \in {requests[o].stage, "over"}
               /\ requests'[o].opened = requests[o].opened
               /\ requests'[o].told = requests[o].told,
           UNCHANGED <<chainVars, wallet, receipts, base>>
    PROVE  IInv'
<1>1. UNCHANGED <<notes, mempool, sent, wallet, receipts, base>>
  BY DEF chainVars
<1>2. TypeOK'
  BY <1>1 DEF IInv, TypeOK
<1>3. ASSUME NEW o \in Operations PROVE Agrees(o)'
  <2>1. Fits(o, requests[o], receipts[o])
    BY DEF IInv, AllAgree, Agrees
  <2>2. Out' = Out
    BY <1>1 DEF Out
  <2>3. QED
    BY <1>1, <2>1, <2>2 DEF Agrees, Fits, InDoubt, OpenPhases
<1>4. OpenDiffer' /\ RevisionsFollow' /\ WalletUnsent'
  BY <1>1 DEF IInv, OpenDiffer, RevisionsFollow, WalletUnsent
<1>5. QED
  BY <1>2, <1>3, <1>4 DEF IInv, AllAgree

LEMMA EndSessionKeeps ==
    ASSUME IInv, NEW p \in Pages, EndSession(p) PROVE IInv'
<1>1. ends' \in Nat
  BY DEF EndSession, IInv, TypeOK
<1>2. ASSUME NEW o \in Operations
      PROVE  /\ requests'[o] \in Request
             /\ requests'[o].stage \in {requests[o].stage, "over"}
             /\ requests'[o].opened = requests[o].opened
             /\ requests'[o].told = requests[o].told
  <2>1. requests[o] \in Request
    BY DEF IInv, TypeOK
  <2>2. requests'[o] \in {requests[o], [requests[o] EXCEPT !.live = FALSE]}
    BY DEF EndSession
  <2>3. QED
    BY <2>1, <2>2 DEF Request
<1>3. requests' \in [Operations -> Request]
  BY <1>2 DEF EndSession
<1>4. QED
  BY <1>1, <1>2, <1>3, PageStepKeeps DEF EndSession

LEMMA CloseKeeps ==
    ASSUME IInv, NEW p \in Pages, Close(p) PROVE IInv'
<1>1. ends' \in Nat
  <2>1. ends \in Nat /\ ends' = ends + 1
    BY DEF Close, IInv, TypeOK
  <2>2. QED
    BY <2>1
<1>2. ASSUME NEW o \in Operations
      PROVE  /\ requests'[o] \in Request
             /\ requests'[o].stage \in {requests[o].stage, "over"}
             /\ requests'[o].opened = requests[o].opened
             /\ requests'[o].told = requests[o].told
  <2>1. requests[o] \in Request
    BY DEF IInv, TypeOK
  <2>2. requests'[o] \in {requests[o], [requests[o] EXCEPT !.stage = "over", !.live = FALSE,
                                            !.waiting = FALSE, !.late = FALSE]}
    BY DEF Close
  <2>3. QED
    BY <2>1, <2>2 DEF Request, Stages
<1>3. requests' \in [Operations -> Request]
  BY <1>2 DEF Close
<1>4. QED
  BY <1>1, <1>2, <1>3, PageStepKeeps DEF Close

(* A revision the chain may add: one of this account was sent, and follows *)
(* the revision it names.                                                  *)
ChainStep(x) ==
    /\ notes' \in {notes, Append(notes, x)}
    /\ x \in Operations \cup {Foreign}
    /\ notes' # notes /\ x \in Operations => x \in sent /\ base[x] = Len(notes)
    /\ mempool' \subseteq sent' /\ sent \subseteq sent' /\ sent' \subseteq Operations
    /\ wallet' \subseteq wallet /\ Out' \subseteq Out /\ wallet' \cap sent' = {}
    /\ UNCHANGED <<receipts, base, requests, ends>>

LEMMA ChainStepKeeps ==
    ASSUME IInv, NEW x, ChainStep(x) PROVE IInv'
<1>1. notes \in Seq(Operations \cup {Foreign})
  BY DEF IInv, TypeOK
<1>2. /\ notes' \in Seq(Operations \cup {Foreign})
      /\ Len(notes') \in {Len(notes), Len(notes) + 1}
      /\ Len(notes) \in Nat
      /\ \A i \in 1..Len(notes) : notes'[i] = notes[i]
      /\ Len(notes') = Len(notes) + 1 => notes'[Len(notes) + 1] = x /\ notes' # notes
  BY <1>1 DEF ChainStep
<1>3. TypeOK'
  BY <1>2 DEF ChainStep, IInv, TypeOK
<1>4. ASSUME NEW o \in Operations PROVE Agrees(o)'
  <2>1. Fits(o, requests[o], receipts[o])
    BY DEF IInv, AllAgree, Agrees
  <2>2. base[o] \in Nat
    BY DEF IInv, TypeOK
  <2>3. (base[o] < Len(notes) /\ notes[base[o] + 1] = o) =>
           (base[o] < Len(notes') /\ notes'[base[o] + 1] = o)
    BY <1>2, <2>2
  <2>4. requests'[o] = requests[o] /\ receipts'[o] = receipts[o] /\ base'[o] = base[o]
    BY DEF ChainStep
  <2>5. o \in Out' => o \in Out
    BY DEF ChainStep
  <2>6. QED
    BY <2>1, <2>3, <2>4, <2>5 DEF Agrees, Fits
<1>5. OpenDiffer'
  BY DEF ChainStep, IInv, OpenDiffer
<1>6. RevisionsFollow'
  <2>1. ASSUME NEW i \in 1..Len(notes'), notes'[i] \in Operations
        PROVE  notes'[i] \in sent' /\ base'[notes'[i]] = i - 1
    <3>1. CASE i \in 1..Len(notes)
      BY <1>2, <2>1, <3>1 DEF ChainStep, IInv, RevisionsFollow
    <3>2. CASE i = Len(notes) + 1
      <4>1. notes'[i] = x /\ notes' # notes
        BY <1>2, <2>1, <3>2
      <4>2. QED
        BY <1>2, <2>1, <3>2, <4>1 DEF ChainStep
    <3>3. QED
      BY <1>2, <2>1, <3>1, <3>2
  <2>2. \A o \in Operations : base'[o] <= Len(notes')
    BY <1>2 DEF ChainStep, IInv, TypeOK, RevisionsFollow
  <2>3. QED
    BY <2>1, <2>2 DEF RevisionsFollow
<1>7. QED
  BY <1>3, <1>4, <1>5, <1>6 DEF ChainStep, WalletUnsent, IInv, AllAgree

LEMMA ChainKeeps ==
    ASSUME IInv,
           \/ \E o \in Operations : Approve(o) \/ Decline(o) \/ Run(o) \/ Forget(o)
           \/ ForeignEdit
    PROVE  IInv'
<1>1. mempool \subseteq sent /\ sent \subseteq Operations /\ wallet \subseteq Operations
      /\ wallet \cap sent = {}
  BY DEF IInv, TypeOK, WalletUnsent
<1>2. CASE ForeignEdit
  <2>1. ChainStep(Foreign)
    BY <1>1, <1>2, NoteAssumption DEF ForeignEdit, ChainStep, Out
  <2>2. QED
    BY <2>1, ChainStepKeeps
<1>3. ASSUME NEW o \in Operations, Approve(o) \/ Decline(o) \/ Run(o) \/ Forget(o)
      PROVE  IInv'
  <2>1. ChainStep(o)
    <3>1. CASE Approve(o)
      BY <1>1, <3>1 DEF Approve, ChainStep, Out
    <3>2. CASE Decline(o)
      BY <1>1, <3>2 DEF Decline, ChainStep, Out, chainVars
    <3>3. CASE Run(o)
      BY <1>1, <3>3 DEF Run, ChainStep, Out
    <3>4. CASE Forget(o)
      BY <1>1, <3>4 DEF Forget, ChainStep, Out
    <3>5. QED
      BY <1>3, <3>1, <3>2, <3>3, <3>4
  <2>2. QED
    BY <2>1, ChainStepKeeps
<1>4. QED
  BY <1>2, <1>3

-------------------------------------------------------------------------------
(* The invariant, and what it gives.                                       *)

LEMMA InitIInv ==
    ASSUME Init PROVE IInv
<1>1. NoRequest \in Request
  BY DEF NoRequest, Request, Stages
<1>2. TypeOK
  BY <1>1 DEF Init, TypeOK, Phases
<1>3. ASSUME NEW o \in Operations PROVE Agrees(o)
  <2>1. requests[o] = NoRequest /\ receipts[o] = "none" /\ Out = {}
    BY DEF Init, Out
  <2>2. requests[o].stage = "new" /\ ~requests[o].opened /\ requests[o].told = "nothing"
    BY <2>1 DEF NoRequest
  <2>3. QED
    BY <2>1, <2>2 DEF Agrees, Fits, OpenPhases
<1>4. OpenDiffer
  BY DEF Init, OpenDiffer, OpenPhases
<1>5. RevisionsFollow /\ WalletUnsent
  BY DEF Init, RevisionsFollow, WalletUnsent
<1>6. QED
  BY <1>2, <1>3, <1>4, <1>5 DEF IInv, AllAgree

LEMMA NextIInv ==
    ASSUME IInv, [Next]_vars PROVE IInv'
<1>1. CASE UNCHANGED vars
  <2>1. UNCHANGED <<notes, mempool, sent, wallet, receipts, base, requests, ends>>
    BY <1>1 DEF vars, chainVars
  <2>2. QED
    BY <2>1 DEF IInv, TypeOK, AllAgree, Agrees, Fits, Out, OpenDiffer, RevisionsFollow, WalletUnsent
<1>2. CASE \E p \in Pages, o \in Operations : Review(p, o)
  BY <1>2, ReviewKeeps
<1>3. CASE \E o, n \in Operations : Requote(o, n)
  BY <1>3, RequoteKeeps
<1>4. CASE \E p \in Pages : EndSession(p) \/ Close(p)
  BY <1>4, EndSessionKeeps, CloseKeeps
<1>5. CASE \/ \E o \in Operations : Approve(o) \/ Decline(o) \/ Run(o) \/ Forget(o)
           \/ ForeignEdit
  BY <1>5, ChainKeeps
<1>6. CASE \E o \in Operations :
              \/ Refuse(o) \/ Begin(o) \/ Start(o) \/ MayOpen(o) \/ Ask(o) \/ Fail(o)
  BY <1>6, RefuseKeeps, BeginKeeps, StartKeeps, MayOpenKeeps, AskKeeps, FailKeeps
<1>7. CASE \E o \in Operations :
              \/ RefuseAtNode(o) \/ SettleFailure(o) \/ Cancelled(o) \/ Expire(o)
              \/ Dismissed(o) \/ GiveUp(o) \/ SettleLate(o)
  BY <1>7, RefuseAtNodeKeeps, SettleFailureKeeps, CancelledKeeps, ExpireKeeps,
     DismissedKeeps, GiveUpKeeps, SettleLateKeeps
<1>8. CASE \E o \in Operations :
              \/ Answer(o) \/ SettleSubmitted(o) \/ Verify(o) \/ StopVerifying(o)
              \/ Recover(o)
  BY <1>8, AnswerKeeps, SettleSubmittedKeeps, VerifyKeeps, StopVerifyingKeeps, RecoverKeeps
<1>9. QED
  BY <1>1, <1>2, <1>3, <1>4, <1>5, <1>6, <1>7, <1>8 DEF Next

LEMMA Invariant == Spec => []IInv
<1>1. Init => IInv
  BY InitIInv
<1>2. IInv /\ [Next]_vars => IInv'
  BY NextIInv
<1>3. QED
  BY <1>1, <1>2, PTL DEF Spec

(* Every state of the pages, the store and the chain is well typed.        *)
THEOREM TypeCorrect == Spec => []TypeOK
<1>1. IInv => TypeOK
  BY DEF IInv
<1>2. QED
  BY <1>1, Invariant, PTL

(* A publication that is with the wallet or the network has an open or a   *)
(* confirmed receipt, for any number of pages that fail, close or settle   *)
(* late (request.ts, send and onSettled).                                  *)
THEOREM OutOnRecord == Spec => []OutIsOnRecord
<1>1. IInv => OutIsOnRecord
  <2>1. SUFFICES ASSUME IInv, NEW o \in Out
                 PROVE  receipts[o] \in OpenPhases \cup {"confirmed"}
    BY DEF OutIsOnRecord
  <2>2. o \in Operations
    BY <2>1 DEF IInv, TypeOK, Out
  <2>3. Fits(o, requests[o], receipts[o])
    BY <2>1, <2>2 DEF IInv, AllAgree, Agrees
  <2>4. QED
    BY <2>3 DEF Fits
<1>2. QED
  BY <1>1, Invariant, PTL

(* What the member is told was not sent, or was refused by the network, is *)
(* never with the wallet or the network, not even by a step that was still *)
(* to come (signer.ts, the guard before the wallet, and grc20.ts, the      *)
(* node's refusal).  The notice for a cancellation is not one of these.    *)
THEOREM NothingSentHolds == Spec => []NothingSentIsTrue
<1>1. IInv => NothingSentIsTrue
  BY DEF IInv, AllAgree, Agrees, Fits, NothingSentIsTrue
<1>2. QED
  BY <1>1, Invariant, PTL

(* Of all the account's publications of the note, at most one can still    *)
(* become its next revision (intents.ts, begin).                           *)
THEOREM OneRuns == Spec => []OneCanStillRun
<1>1. IInv => OneCanStillRun
  <2>1. SUFFICES ASSUME IInv, NEW o \in wallet \cup mempool, NEW p \in wallet \cup mempool,
                        base[o] = Len(notes), base[p] = Len(notes)
                 PROVE  o = p
    BY DEF OneCanStillRun
  <2>2. o \in Operations /\ p \in Operations /\ o \in Out /\ p \in Out
    BY <2>1 DEF IInv, TypeOK, Out
  <2>3. /\ receipts[o] \in OpenPhases \cup {"confirmed"}
        /\ receipts[p] \in OpenPhases \cup {"confirmed"}
        /\ receipts[o] = "confirmed" => base[o] < Len(notes)
        /\ receipts[p] = "confirmed" => base[p] < Len(notes)
    BY <2>1, <2>2 DEF IInv, AllAgree, Agrees, Fits
  <2>4. Len(notes) \in Nat
    BY <2>1 DEF IInv, TypeOK
  <2>5. receipts[o] \in OpenPhases /\ receipts[p] \in OpenPhases
    BY <2>1, <2>3, <2>4
  <2>6. QED
    BY <2>1, <2>2, <2>5 DEF IInv, OpenDiffer
<1>2. QED
  BY <1>1, Invariant, PTL

-------------------------------------------------------------------------------
(* The receipts are a true ledger: each step is one of the ledger or none. *)

ledgerVars == <<notes, Expected, State>>

LedgerStep == [Ledger!LedgerNext]_ledgerVars

LEMMA FateInjective ==
    ASSUME NEW phase \in Phases
    PROVE  /\ FateOf(phase) = "open" <=> phase \in OpenPhases
           /\ FateOf(phase) = "new" <=> phase = "none"
           /\ phase = "confirmed" => FateOf(phase) = "confirmed"
           /\ phase = "not-sent" => FateOf(phase) = "dropped"
BY DEF FateOf, Phases, OpenPhases

(* A step that keeps every fate, and the base of all that are on record.   *)
LEMMA StutterStep ==
    ASSUME UNCHANGED notes,
           \A o \in Operations :
               /\ FateOf(receipts'[o]) = FateOf(receipts[o])
               /\ receipts'[o] = "none" <=> receipts[o] = "none"
               /\ receipts[o] # "none" => base'[o] = base[o]
    PROVE  LedgerStep
<1>1. Expected' = Expected
  BY DEF Expected
<1>2. State' = State
  BY DEF State
<1>3. QED
  BY <1>1, <1>2 DEF LedgerStep, ledgerVars

(* One receipt changes, the base of none.                                  *)
LEMMA OneFateChanges ==
    ASSUME TypeOK, NEW o \in Operations, UNCHANGED base,
           \A p \in Operations : p # o => receipts'[p] = receipts[p],
           receipts[o] # "none", receipts'[o] # "none"
    PROVE  /\ Expected' = Expected
           /\ Expected[o] = base[o]
           /\ State' = [State EXCEPT ![o] = FateOf(receipts'[o])]
BY DEF Expected, State

LEMMA NotMadeUnlessOut ==
    ASSUME IInv, NEW o \in Operations, ~requests[o].opened
    PROVE  ~(base[o] < Len(notes) /\ notes[base[o] + 1] = o)
<1>1. o \notin sent
  BY DEF IInv, AllAgree, Agrees, Fits, Out
<1>2. base[o] \in Nat /\ Len(notes) \in Nat
  BY DEF IInv, TypeOK
<1>3. QED
  BY <1>1, <1>2 DEF IInv, RevisionsFollow

LEMMA BeginRefines ==
    ASSUME IInv, NEW o \in Operations, Begin(o) PROVE LedgerStep
<1>1. /\ receipts[o] = "none"
      /\ \A q \in Operations : receipts[q] \in OpenPhases => base[q] < base[o]
      /\ receipts' = [receipts EXCEPT ![o] = "prepared"]
      /\ notes' = notes /\ base' = base
  BY DEF Begin, IInv, AllAgree, Agrees, Fits, chainVars
<1>2. receipts \in [Operations -> Phases] /\ base[o] \in 0..Len(notes)
  BY DEF IInv, TypeOK, RevisionsFollow
<1>3. State[o] = "new"
  BY <1>1, <1>2, FateInjective DEF State
<1>4. \A q \in Operations : State[q] = "open" => Expected[q] < base[o]
  <2>1. SUFFICES ASSUME NEW q \in Operations, State[q] = "open"
                 PROVE  Expected[q] < base[o]
    OBVIOUS
  <2>2. receipts[q] \in OpenPhases
    BY <1>2, <2>1, FateInjective DEF State
  <2>3. QED
    BY <1>1, <2>2 DEF Expected, OpenPhases
<1>5. State' = [State EXCEPT ![o] = "open"]
  <2>1. FateOf("prepared") = "open"
    BY FateInjective DEF Phases, OpenPhases
  <2>2. QED
    BY <1>1, <1>2, <2>1 DEF State
<1>6. Expected' = [Expected EXCEPT ![o] = base[o]]
  BY <1>1, <1>2 DEF Expected
<1>7. Ledger!Open(o)
  BY <1>1, <1>2, <1>3, <1>4, <1>5, <1>6 DEF Ledger!Open
<1>8. QED
  BY <1>7 DEF LedgerStep, Ledger!LedgerNext

(* A write of a request that was not opened gives the operation back.      *)
LEMMA WriteRefines ==
    ASSUME IInv, NEW o \in Operations, NEW to \in {"unknown", "not-sent"}, Write(o, to),
           to = "not-sent" => ~requests[o].opened,
           UNCHANGED <<notes, base>>
    PROVE  LedgerStep
<1>1. /\ receipts' \in [Operations -> Phases]
      /\ \A p \in Operations : p # o => receipts'[p] = receipts[p]
      /\ receipts'[o] \in {receipts[o], to}
      /\ receipts[o] \notin OpenPhases => receipts'[o] = receipts[o]
  BY WriteEffect DEF IInv
<1>2. receipts \in [Operations -> Phases] /\ TypeOK
  BY DEF IInv, TypeOK
<1>3. CASE receipts'[o] = receipts[o]
  BY <1>1, <1>3, StutterStep
<1>4. CASE receipts[o] \in OpenPhases /\ receipts'[o] = "unknown"
  <2>1. FateOf(receipts[o]) = "open" /\ FateOf(receipts'[o]) = "open"
    BY <1>1, <1>2, <1>4, FateInjective DEF OpenPhases
  <2>2. receipts[o] # "none" /\ receipts'[o] # "none"
    BY <1>4 DEF OpenPhases
  <2>3. QED
    BY <1>1, <2>1, <2>2, StutterStep
<1>5. CASE receipts[o] \in OpenPhases /\ to = "not-sent" /\ receipts'[o] = "not-sent"
  <2>1. FateOf(receipts[o]) = "open" /\ FateOf(receipts'[o]) = "dropped"
    BY <1>1, <1>2, <1>5, FateInjective
  <2>2. receipts[o] # "none" /\ receipts'[o] # "none"
    BY <1>5 DEF OpenPhases
  <2>3. /\ Expected' = Expected
        /\ Expected[o] = base[o]
        /\ State' = [State EXCEPT ![o] = "dropped"]
    BY <1>1, <1>2, <2>1, <2>2, OneFateChanges
  <2>4. State[o] = "open"
    BY <2>1 DEF State
  <2>5. ~Ledger!Made(o)
    BY <1>5, <2>3, NotMadeUnlessOut DEF Ledger!Made
  <2>6. Ledger!GiveBack(o)
    BY <2>3, <2>4, <2>5 DEF Ledger!GiveBack
  <2>7. QED
    BY <2>6 DEF LedgerStep, Ledger!LedgerNext
<1>6. QED
  BY <1>1, <1>3, <1>4, <1>5

LEMMA ConfirmRefines ==
    ASSUME IInv, NEW o \in Operations, receipts[o] \in OpenPhases,
           NEW r \in Reads, Evidence(o, r),
           receipts' = [receipts EXCEPT ![o] = "confirmed"],
           UNCHANGED <<notes, base>>
    PROVE  LedgerStep
<1>1. receipts \in [Operations -> Phases] /\ TypeOK
  BY DEF IInv, TypeOK
<1>2. /\ receipts'[o] = "confirmed"
      /\ \A p \in Operations : p # o => receipts'[p] = receipts[p]
  BY <1>1
<1>3. /\ FateOf(receipts[o]) = "open" /\ FateOf(receipts'[o]) = "confirmed"
      /\ receipts[o] # "none" /\ receipts'[o] # "none"
  BY <1>1, <1>2, FateInjective DEF Phases, OpenPhases
<1>4. /\ Expected' = Expected
      /\ Expected[o] = base[o]
      /\ State' = [State EXCEPT ![o] = "confirmed"]
  BY <1>1, <1>2, <1>3, OneFateChanges
<1>5. State[o] = "open"
  BY <1>3 DEF State
<1>6. base[o] < Len(notes) /\ notes[base[o] + 1] = o
  BY <1>1, EvidenceIsTrue
<1>7. Ledger!Acknowledge(o)
  BY <1>4, <1>5, <1>6 DEF Ledger!Acknowledge, Ledger!Made
<1>8. QED
  BY <1>7 DEF LedgerStep, Ledger!LedgerNext

LEMMA RunRefines ==
    ASSUME IInv, NEW o \in Operations, Run(o) PROVE LedgerStep
<1>1. receipts' = receipts /\ base' = base /\ Expected' = Expected /\ State' = State
  BY DEF Run, Expected, State
<1>2. CASE notes' = notes
  BY <1>1, <1>2 DEF LedgerStep, ledgerVars
<1>3. CASE base[o] = Len(notes) /\ notes' = Append(notes, o)
  <2>1. o \in Out
    BY DEF Run, IInv, TypeOK, Out
  <2>2. /\ receipts[o] \in OpenPhases \cup {"confirmed"}
        /\ receipts[o] = "confirmed" => base[o] < Len(notes)
    BY <2>1 DEF IInv, AllAgree, Agrees, Fits
  <2>3. Len(notes) \in Nat /\ receipts[o] \in Phases
    BY DEF IInv, TypeOK
  <2>4. receipts[o] \in OpenPhases
    BY <1>3, <2>2, <2>3
  <2>5. State[o] = "open" /\ Expected[o] = base[o]
    BY <2>3, <2>4, FateInjective DEF State, Expected, OpenPhases
  <2>6. Ledger!RunOpen(o)
    BY <1>1, <1>3, <2>5 DEF Ledger!RunOpen
  <2>7. QED
    BY <2>6 DEF LedgerStep, Ledger!LedgerNext
<1>4. QED
  BY <1>2, <1>3 DEF Run

LEMMA ForeignEditRefines ==
    ASSUME ForeignEdit PROVE LedgerStep
<1>1. Expected' = Expected /\ State' = State /\ notes' = Append(notes, Foreign)
  BY DEF ForeignEdit, Expected, State
<1>2. Ledger!Edit
  BY <1>1 DEF Ledger!Edit
<1>3. QED
  BY <1>2 DEF LedgerStep, Ledger!LedgerNext

LEMMA SettleSubmittedRefines ==
    ASSUME IInv, NEW o \in Operations, SettleSubmitted(o) PROVE LedgerStep
<1>1. notes' = notes /\ base' = base
  BY DEF SettleSubmitted, chainVars
<1>2. CASE UNCHANGED receipts
  BY <1>1, <1>2, StutterStep
<1>3. CASE /\ receipts[o] \in {"prepared", "submitted"}
           /\ receipts' = [receipts EXCEPT ![o] = "submitted"]
  <2>1. /\ receipts'[o] = "submitted"
        /\ \A p \in Operations : p # o => receipts'[p] = receipts[p]
    BY <1>3 DEF IInv, TypeOK
  <2>2. FateOf(receipts[o]) = "open" /\ FateOf("submitted") = "open"
    BY <1>3, FateInjective DEF Phases, OpenPhases
  <2>3. QED
    BY <1>1, <1>3, <2>1, <2>2, StutterStep
<1>4. QED
  BY <1>2, <1>3 DEF SettleSubmitted

(* A new review gives a base to an operation that is not on record.        *)
LEMMA NewOperationRefines ==
    ASSUME IInv, NEW n \in Operations, requests[n].stage = "new", NEW b,
           base' = [base EXCEPT ![n] = b], UNCHANGED <<notes, receipts>>
    PROVE  LedgerStep
<1>1. receipts[n] = "none"
  BY DEF IInv, AllAgree, Agrees, Fits
<1>2. \A o \in Operations : receipts[o] # "none" => base'[o] = base[o]
  BY <1>1 DEF IInv, TypeOK
<1>3. QED
  BY <1>2, StutterStep

LEMMA NextRefines ==
    ASSUME IInv, [Next]_vars PROVE LedgerStep
<1>1. CASE UNCHANGED <<notes, receipts, base>>
  BY <1>1, StutterStep
<1>2. ASSUME NEW p \in Pages, NEW o \in Operations, Review(p, o) PROVE LedgerStep
  <2>1. PICK b \in Reads : base' = [base EXCEPT ![o] = b]
    BY <1>2 DEF Review
  <2>2. requests[o].stage = "new" /\ UNCHANGED <<notes, receipts>>
    BY <1>2 DEF Review, chainVars
  <2>3. QED
    BY <2>1, <2>2, NewOperationRefines
<1>3. ASSUME NEW o \in Operations, NEW n \in Operations, Requote(o, n) PROVE LedgerStep
  <2>1. /\ base' = [base EXCEPT ![n] = base[o]]
        /\ requests[n].stage = "new" /\ UNCHANGED <<notes, receipts>>
    BY <1>3 DEF Requote, chainVars
  <2>2. QED
    BY <2>1, NewOperationRefines
<1>4. ASSUME NEW o \in Operations, SettleFailure(o) PROVE LedgerStep
  <2> DEFINE to == IF requests[o].opened THEN "unknown" ELSE "not-sent"
  <2>1. /\ Write(o, to) /\ UNCHANGED <<notes, base>>
        /\ to \in {"unknown", "not-sent"}
        /\ to = "not-sent" => ~requests[o].opened
    BY <1>4 DEF SettleFailure, chainVars
  <2> HIDE DEF to
  <2>2. QED
    BY <2>1, WriteRefines
<1>5. ASSUME NEW o \in Operations, Expire(o) PROVE LedgerStep
  <2>1. Write(o, "not-sent") /\ ~requests[o].opened /\ UNCHANGED <<notes, base>>
    BY <1>5 DEF Expire, chainVars
  <2>2. QED
    BY <2>1, WriteRefines
<1>6. ASSUME NEW o \in Operations, SettleLate(o) PROVE LedgerStep
  <2>1. Write(o, "unknown") /\ UNCHANGED <<notes, base>>
    BY <1>6 DEF SettleLate, chainVars
  <2>2. QED
    BY <2>1, WriteRefines
<1>7. ASSUME NEW o \in Operations, Verify(o) \/ Recover(o) PROVE LedgerStep
  <2>1. /\ receipts[o] \in OpenPhases
        /\ \E r \in Reads : Evidence(o, r)
        /\ receipts' = [receipts EXCEPT ![o] = "confirmed"]
        /\ UNCHANGED <<notes, base>>
    BY <1>7 DEF Verify, Recover, chainVars
  <2>2. QED
    BY <2>1, ConfirmRefines
<1>8. ASSUME NEW o \in Operations,
             \/ Refuse(o) \/ Start(o) \/ MayOpen(o) \/ Ask(o) \/ Fail(o) \/ Dismissed(o)
             \/ RefuseAtNode(o) \/ Cancelled(o) \/ GiveUp(o) \/ Answer(o) \/ StopVerifying(o)
             \/ Approve(o) \/ Decline(o) \/ Forget(o)
      PROVE  UNCHANGED <<notes, receipts, base>>
  BY <1>8 DEF Refuse, Start, MayOpen, Ask, Fail, Dismissed, RefuseAtNode, Cancelled, GiveUp,
              Answer, StopVerifying, Approve, Decline, Forget, chainVars
<1>9. ASSUME NEW p \in Pages, EndSession(p) \/ Close(p)
      PROVE  UNCHANGED <<notes, receipts, base>>
  BY <1>9 DEF EndSession, Close, chainVars
<1>10. UNCHANGED vars => UNCHANGED <<notes, receipts, base>>
  BY DEF vars, chainVars
<1>11. QED
  BY <1>1, <1>2, <1>3, <1>4, <1>5, <1>6, <1>7, <1>8, <1>9, <1>10,
     BeginRefines, SettleSubmittedRefines, RunRefines, ForeignEditRefines DEF Next

(* The receipts implement the ledger of publications: an operation that is *)
(* open runs at most once and on the revision it names, one is confirmed   *)
(* only because it made that revision, and one given back as not sent      *)
(* never runs (intents.ts, recovery.ts).                                   *)
THEOREM PublishingImplementsLedger == Spec => ImplementsLedger
<1>1. Init => Ledger!LedgerInit
  <2>1. SUFFICES ASSUME Init PROVE Ledger!LedgerInit
    OBVIOUS
  <2>2. FateOf("none") = "new"
    BY FateInjective DEF Phases
  <2>3. QED
    BY <2>1, <2>2 DEF Init, Ledger!LedgerInit, Expected, State
<1>2. IInv /\ [Next]_vars => [Ledger!LedgerNext]_<<notes, Expected, State>>
  BY NextRefines DEF LedgerStep, ledgerVars
<1>3. QED
  BY <1>1, <1>2, Invariant, PTL DEF Spec, ImplementsLedger, Ledger!LedgerSpec
===============================================================================
