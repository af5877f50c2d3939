----------------------------- MODULE SigningDriver -----------------------------
(***************************************************************************)
(* Signing one DAO action (frontend/src/os/sign: signer.ts,                *)
(* SignerProvider.tsx, accountMark.ts; lib/dao/governanceRecovery.ts).     *)
(* Every attempt is one call of executeSignature: it locks the action,     *)
(* reads the account, lets the wallet open, and ends by whichever answers  *)
(* first, the wallet or the account.  Adena's "rejected" proves nothing:   *)
(* it counts only when the account is unchanged three blocks later.        *)
(*                                                                         *)
(* The lock is one receipt in the storage that all pages share; who is     *)
(* signing is known to each page alone.                                    *)
(*                                                                         *)
(* Adena and the chain are external: modelled from how the code uses them. *)
(* The coins of an account are counted as changes: a payment that exactly  *)
(* makes up for a fee is not modelled.                                     *)
(***************************************************************************)
EXTENDS Integers, Sequences, FiniteSets

CONSTANTS
    Pages,         \* bound: the pages (tabs) of the member
    Attempts,      \* bound: the calls of executeSignature for the action
    NoPage, NoMark,
    SettleBlocks,  \* SETTLE_BLOCKS
    MaxLag,        \* blocks a head that is still recent may be behind
    MaxHeight,     \* bound: blocks
    MaxOthers,     \* bound: blocks with another change of the account
    MaxEnds        \* bound: sessions that end and pages that close

ASSUME SignerAssumption ==
    /\ NoPage \notin Pages /\ IsFiniteSet(Attempts)
    /\ SettleBlocks \in Nat /\ MaxLag \in 0..SettleBlocks
    /\ MaxHeight \in Nat /\ MaxOthers \in Nat /\ MaxEnds \in Nat

VARIABLES
    marks,     \* the account after each block
    mempool,   \* attempts whose transaction a node accepted
    ranAt,     \* the block an attempt's transaction is in, 0 while it is in none
    wallet,    \* attempts Adena is showing
    inFlight,  \* attempts the member approved, on their way to a node
    locked,    \* the governance receipt of the action is in storage
    showing,   \* pages that show the lock, as they last read it
    calls,     \* the call of each attempt
    checked,   \* attempts under way when the member said they checked
    taken,     \* attempts under way when another page's call took the lock away
    others, ends

chainVars == <<marks, mempool, ranAt, others>>
walletVars == <<wallet, inFlight>>
lockVars == <<locked, showing, taken>>
vars == <<chainVars, walletVars, lockVars, calls, checked, ends>>

Mark == [sequence : Nat, coins : Nat]

Call ==
    [stage : {"none", "review", "checking", "marked", "starting", "asked",
              "settling", "failed", "over"},
     page : Pages \cup {NoPage},
     owned : BOOLEAN,                  \* canOpenWallet: its session has not ended
     mark : Mark \cup {NoMark},        \* markBefore
     moved : Nat,                      \* the moved sequence one read showed, or 0
     target : Nat,                     \* the block read after a "rejected"
     replied : Nat,                    \* the head when "rejected" came
     outcome : {"none", "failed", "cancelled", "refused", "unknown", "seen",
                "sent", "confirmed"}]

NoCall ==
    [stage |-> "none", page |-> NoPage, owned |-> FALSE, mark |-> NoMark,
     moved |-> 0, target |-> 0, replied |-> 0, outcome |-> "none"]

Init ==
    /\ marks = <<[sequence |-> 1, coins |-> 0]>>
    /\ mempool = {} /\ ranAt = [a \in Attempts |-> 0] /\ others = 0
    /\ wallet = {} /\ inFlight = {}
    /\ locked = FALSE /\ showing = {}
    /\ calls = [a \in Attempts |-> NoCall]
    /\ checked = {} /\ taken = {} /\ ends = 0

Latest == Len(marks)

-------------------------------------------------------------------------------
(* What a call may know and do.                                            *)

(* chainHead: a head is accepted only while its block is recent.           *)
Heads == {h \in 1..Latest : h + MaxLag >= Latest}

(* signingActive, and the requests beginGovernanceRequest keeps.           *)
Active(a) == calls[a].stage \in {"checking", "marked", "starting", "asked", "settling"}

Busy(p) == \E a \in Attempts : calls[a].page = p /\ Active(a)

(* One review is on screen; it stays there while its call runs, unless the *)
(* session ended, and when the call failed.                                *)
OnSheet(a) == calls[a].stage \in {"review", "failed"} \/ (Active(a) /\ calls[a].owned)

SheetOpen(p) == \E a \in Attempts : calls[a].page = p /\ OnSheet(a)

Moves(a, call) == calls' = [calls EXCEPT ![a] = call]

(* A page reads the lock when it renders.                                  *)
Renders(p) == showing' = IF locked' THEN showing \cup {p} ELSE showing \ {p}

(* The call ends with an outcome: from then on its request never reaches   *)
(* the wallet.  The page renders, but for a failure, which the sheet says. *)
Ends(a, outcome) ==
    /\ Moves(a, [calls[a] EXCEPT !.outcome = outcome, !.mark = NoMark, !.moved = 0, !.target = 0,
                     !.replied = IF outcome = "cancelled" THEN @ ELSE 0,
                     !.stage = IF outcome = "failed" /\ calls[a].owned THEN "failed" ELSE "over"])
    /\ IF outcome = "failed" THEN UNCHANGED showing ELSE Renders(calls[a].page)

(* With the wallet or the network.                                         *)
Live(a) == a \in wallet \cup inFlight \cup mempool

UnderWay(a) == Active(a) \/ Live(a)

(* clearGovernanceReceipt, when a's call ends; storage that refuses keeps  *)
(* the lock.  The lock is one for all pages, whichever of them took it.    *)
Release(a) ==
    \/ UNCHANGED <<locked, taken>>
    \/ /\ locked' = FALSE
       /\ taken' = taken \cup
              {b \in Attempts : locked /\ UnderWay(b) /\ calls[b].page # calls[a].page}

Shown(p) == [NoCall EXCEPT !.stage = "review", !.page = p, !.owned = TRUE]

-------------------------------------------------------------------------------
(* A call, from the review to the wallet.                                  *)

(* The action's window offers a review unless it shows the lock, which     *)
(* another page may have taken since.                                      *)
Review(p, a) ==
    /\ calls[a].stage = "none" /\ ~SheetOpen(p) /\ p \notin showing
    /\ Moves(a, Shown(p))
    /\ UNCHANGED <<chainVars, walletVars, lockVars, checked, ends>>

(* The sheet of a failed call signs again, without another look at the     *)
(* lock.                                                                   *)
Retry(a, b) ==
    /\ calls[a].stage = "failed" /\ calls[a].owned /\ calls[b].stage = "none"
    /\ calls' = [calls EXCEPT ![a].stage = "over", ![b] = Shown(calls[a].page)]
    /\ UNCHANGED <<chainVars, walletVars, lockVars, checked, ends>>

Dismiss(a) ==
    /\ calls[a].stage \in {"review", "failed"}
    /\ Moves(a, [calls[a] EXCEPT !.stage = "over"])
    /\ UNCHANGED <<chainVars, walletVars, lockVars, checked, ends>>

(* The intent is durable before anything else; storage that refuses it     *)
(* ends the call, which then removes whatever lock there is.               *)
Start(a) ==
    /\ calls[a].stage = "review" /\ calls[a].owned /\ ~Busy(calls[a].page)
    /\ \/ /\ locked' = TRUE /\ UNCHANGED <<showing, taken>>
          /\ Moves(a, [calls[a] EXCEPT !.stage = "checking"])
       \/ Release(a) /\ Ends(a, "failed")
    /\ UNCHANGED <<chainVars, walletVars, checked, ends>>

(* Mutant of ReadMark: the mark keeps the sequence alone.                  *)
ReadSequence(a) ==
    /\ calls[a].stage = "checking"
    /\ \E h \in Heads : Moves(a, [calls[a] EXCEPT !.stage = "marked", !.mark = [sequence |-> marks[h].sequence]])
    /\ UNCHANGED <<chainVars, walletVars, lockVars, checked, ends>>

(* The first read of the account, which may fail or be too slow.           *)
ReadMark(a) ==
    /\ calls[a].stage = "checking"
    /\ \E mark \in {marks[h] : h \in Heads} \cup {NoMark} :
          Moves(a, [calls[a] EXCEPT !.stage = "marked", !.mark = mark])
    /\ UNCHANGED <<chainVars, walletVars, lockVars, checked, ends>>

(* beforeSign passes: the watch on the account starts.                     *)
OpenWallet(a) ==
    /\ calls[a].stage = "marked" /\ calls[a].owned
    /\ Moves(a, [calls[a] EXCEPT !.stage = "starting"])
    /\ UNCHANGED <<chainVars, walletVars, lockVars, checked, ends>>

(* Mutant of AskWallet: the guard forgets that an outcome was given.       *)
AskWalletLate(a) ==
    /\ calls[a].stage \in {"starting", "over"} /\ calls[a].outcome \in {"none", "unknown"}
    /\ calls[a].owned
    /\ wallet' = wallet \cup {a}
    /\ Moves(a, [calls[a] EXCEPT !.stage = "asked"])
    /\ UNCHANGED <<chainVars, inFlight, lockVars, checked, ends>>

(* broadcastContract's last reads of the wallet are over; the guard        *)
(* (session, and no outcome yet) and the request are one step.             *)
AskWallet(a) ==
    /\ calls[a].stage = "starting" /\ calls[a].owned
    /\ wallet' = wallet \cup {a}
    /\ Moves(a, [calls[a] EXCEPT !.stage = "asked"])
    /\ UNCHANGED <<chainVars, inFlight, lockVars, checked, ends>>

-------------------------------------------------------------------------------
(* How a call ends.                                                        *)

(* Mutant of Fail: what breaks after the request is a failure too.         *)
FailWhenAsked(a) ==
    /\ calls[a].stage \in {"checking", "marked", "starting", "asked"}
    /\ Release(a) /\ Ends(a, "failed")
    /\ UNCHANGED <<chainVars, walletVars, checked, ends>>

(* A recheck, the session, the wallet's network or the guard refuses:      *)
(* nothing was sent.                                                       *)
Fail(a) ==
    /\ calls[a].stage \in {"checking", "marked", "starting"}
    /\ Release(a) /\ Ends(a, "failed")
    /\ UNCHANGED <<chainVars, walletVars, checked, ends>>

(* Adena answers that a node took the transaction.                         *)
Sent(a) ==
    /\ calls[a].stage = "asked" /\ (a \in mempool \/ ranAt[a] # 0)
    /\ UNCHANGED <<chainVars, walletVars, locked, taken, checked, ends>>
    /\ Ends(a, "sent")

(* The node's refusal, which Adena forwards while its window is open.      *)
Refused(a) ==
    /\ a \in inFlight /\ inFlight' = inFlight \ {a}
    /\ IF calls[a].stage = "asked" THEN Release(a) /\ Ends(a, "refused")
       ELSE UNCHANGED <<lockVars, calls>>
    /\ UNCHANGED <<chainVars, wallet, checked, ends>>

(* Adena's request breaks, or its answer says nothing.                     *)
Broken(a) ==
    /\ calls[a].stage = "asked"
    /\ wallet' = wallet \ {a}
    /\ UNCHANGED <<chainVars, inFlight, locked, taken, checked, ends>>
    /\ Ends(a, "unknown")

(* Mutant of Rejected: the account is read a block too early.              *)
RejectedEarly(a) ==
    /\ calls[a].stage = "asked" /\ calls[a].mark # NoMark
    /\ wallet' = wallet \ {a}
    /\ \E h \in Heads :
          Moves(a, [calls[a] EXCEPT !.stage = "settling", !.moved = 0,
                        !.target = h + SettleBlocks - 1, !.replied = Latest])
    /\ UNCHANGED <<chainVars, inFlight, lockVars, checked, ends>>

(* Adena's window closes, also after Confirm: "rejected".  The account is  *)
(* checked, when there is a first read to compare with.                    *)
Rejected(a) ==
    /\ calls[a].stage = "asked"
    /\ wallet' = wallet \ {a}
    /\ UNCHANGED <<chainVars, inFlight, locked, taken, checked, ends>>
    /\ \/ Ends(a, "unknown")
       \/ /\ calls[a].mark # NoMark
          /\ \E h \in Heads :
                Moves(a, [calls[a] EXCEPT !.stage = "settling", !.moved = 0,
                              !.target = h + SettleBlocks, !.replied = Latest])
          /\ UNCHANGED showing

(* accountMarkAfterBlocks: the account at the target block, which the node *)
(* must have; or it cannot be read in time.                                *)
Settle(a) ==
    /\ calls[a].stage = "settling"
    /\ \/ /\ calls[a].target <= Latest /\ marks[calls[a].target] = calls[a].mark
          /\ Release(a) /\ Ends(a, "cancelled")
       \/ UNCHANGED <<locked, taken>> /\ Ends(a, "unknown")
    /\ UNCHANGED <<chainVars, walletVars, checked, ends>>

(* The watch on a silent wallet: a sequence that two reads in a row show   *)
(* moved, to the same value, answers for the wallet.  A failed read is 0.  *)
Watch(a) ==
    /\ calls[a].stage \in {"starting", "asked"} /\ calls[a].mark # NoMark
    /\ UNCHANGED <<chainVars, walletVars, locked, taken, checked, ends>>
    /\ \E now \in {marks[h].sequence : h \in Heads} \cup {0} :
          IF now > calls[a].mark.sequence /\ now = calls[a].moved THEN Ends(a, "seen")
          ELSE /\ Moves(a, [calls[a] EXCEPT
                      !.moved = IF now > calls[a].mark.sequence THEN now ELSE 0])
               /\ UNCHANGED showing

(* Silent for three minutes, or nobody waits any more.                     *)
GiveUp(a) ==
    /\ calls[a].stage \in {"starting", "asked"}
    /\ UNCHANGED <<chainVars, walletVars, locked, taken, checked, ends>>
    /\ Ends(a, "unknown")

(* verify shows the action on chain, whichever attempt did it; the lock    *)
(* stays while the page signs the action again.                            *)
Confirm(a) ==
    /\ calls[a].outcome = "sent" /\ calls[a].owned
    /\ \E b \in Attempts : ranAt[b] # 0
    /\ IF Busy(calls[a].page) THEN UNCHANGED <<locked, taken>> ELSE Release(a)
    /\ Ends(a, "confirmed")
    /\ UNCHANGED <<chainVars, walletVars, checked, ends>>

-------------------------------------------------------------------------------
(* The member and the pages.                                               *)

(* Any window of the page renders.                                         *)
Look(p) ==
    /\ UNCHANGED <<chainVars, walletVars, locked, taken, calls, checked, ends>>
    /\ Renders(p)

(* "I checked the transaction": refused while this page is signing it.     *)
Check(p) ==
    /\ p \in showing /\ ~Busy(p)
    /\ locked' = FALSE /\ Renders(p)
    /\ checked' = checked \cup {a \in Attempts : UnderWay(a)}
    /\ UNCHANGED <<chainVars, walletVars, taken, calls, ends>>

(* The session ends: the sheet goes, the call runs on.                     *)
EndSession(p) ==
    /\ ends < MaxEnds /\ ends' = ends + 1
    /\ calls' = [a \in Attempts |->
           IF calls[a].page # p THEN calls[a]
           ELSE [calls[a] EXCEPT !.owned = FALSE,
                     !.stage = IF @ \in {"review", "failed"} THEN "over" ELSE @]]
    /\ UNCHANGED <<chainVars, walletVars, locked, taken, checked>>
    /\ Renders(p)

(* The page is closed or reloaded, whatever its call was doing.            *)
Close(p) ==
    /\ ends < MaxEnds /\ ends' = ends + 1
    /\ calls' = [a \in Attempts |->
           IF calls[a].page # p THEN calls[a]
           ELSE [calls[a] EXCEPT !.owned = FALSE, !.stage = "over",
                     !.mark = NoMark, !.moved = 0, !.target = 0,
                     !.replied = IF calls[a].outcome = "cancelled" THEN @ ELSE 0]]
    /\ UNCHANGED <<chainVars, walletVars, locked, taken, checked>>
    /\ Renders(p)

-------------------------------------------------------------------------------
(* Adena and the chain.                                                    *)

Approve(a) ==
    /\ a \in wallet
    /\ wallet' = wallet \ {a} /\ inFlight' = inFlight \cup {a}
    /\ UNCHANGED <<chainVars, lockVars, calls, checked, ends>>

(* A window whose page is gone, or does not listen any more.               *)
Decline(a) ==
    /\ a \in wallet /\ calls[a].stage # "asked"
    /\ wallet' = wallet \ {a}
    /\ UNCHANGED <<chainVars, inFlight, lockVars, calls, checked, ends>>

Accept(a) ==
    /\ a \in inFlight
    /\ inFlight' = inFlight \ {a} /\ mempool' = mempool \cup {a}
    /\ UNCHANGED <<marks, ranAt, others, wallet, lockVars, calls, checked, ends>>

(* A block with some of the attempts, and what else the account did or     *)
(* received.  A session key moves only the coins that pay its fee.         *)
Block ==
    /\ Latest < MaxHeight
    /\ \E ran \in SUBSET mempool, session \in BOOLEAN, other \in {"none", "signed", "paid"} :
          /\ other # "none" => others < MaxOthers
          /\ others' = others + (IF other = "none" THEN 0 ELSE 1)
          /\ marks' = Append(marks,
                 [sequence |-> marks[Latest].sequence + (IF session THEN 0 ELSE Cardinality(ran))
                                   + (IF other = "signed" THEN 1 ELSE 0),
                  coins |-> marks[Latest].coins + Cardinality(ran)
                                   + (IF other = "none" THEN 0 ELSE 1)])
          /\ ranAt' = [a \in Attempts |-> IF a \in ran THEN Latest + 1 ELSE ranAt[a]]
          /\ mempool' = mempool \ ran
    /\ UNCHANGED <<walletVars, lockVars, calls, checked, ends>>

Next ==
    \/ \E p \in Pages : (\E a \in Attempts : Review(p, a)) \/ Look(p) \/ Check(p) \/ EndSession(p) \/ Close(p)
    \/ \E a, b \in Attempts : Retry(a, b)
    \/ \E a \in Attempts :
          \/ Dismiss(a) \/ Start(a) \/ ReadMark(a) \/ OpenWallet(a) \/ AskWallet(a)
          \/ Fail(a) \/ Sent(a) \/ Refused(a) \/ Broken(a) \/ Rejected(a) \/ Settle(a)
          \/ Watch(a) \/ GiveUp(a) \/ Confirm(a)
          \/ Approve(a) \/ Decline(a) \/ Accept(a)
    \/ Block

Spec == Init /\ [][Next]_vars

-------------------------------------------------------------------------------
TypeOK ==
    /\ marks \in Seq(Mark) /\ marks # <<>>
    /\ mempool \subseteq Attempts
    /\ ranAt \in [Attempts -> 0..Latest]
    /\ others \in Nat /\ ends \in Nat
    /\ wallet \subseteq Attempts /\ inFlight \subseteq Attempts
    /\ locked \in BOOLEAN /\ showing \subseteq Pages
    /\ calls \in [Attempts -> Call]
    /\ checked \subseteq Attempts /\ taken \subseteq Attempts

(* A call that failed, or that the node refused, sent nothing: its request *)
(* is not with the wallet or the network, then or ever.                    *)
NothingSentHolds ==
    \A a \in Attempts :
        calls[a].outcome \in {"failed", "refused"} => ~Live(a) /\ ranAt[a] = 0

(* A call is reported as cancelled only if its transaction was in no block *)
(* up to two after the head at which Adena said so, though it may have     *)
(* been sent and the head was read from a node that is behind.             *)
CancelledAsObserved ==
    \A a \in Attempts :
        calls[a].outcome = "cancelled" /\ ranAt[a] # 0 =>
            ranAt[a] > calls[a].replied + SettleBlocks - MaxLag

(* Until the action takes effect, two requests of it are not out at once   *)
(* from one page, whatever it reloads and however its calls end.  Excused  *)
(* is a request that was under way when the member said that they checked, *)
(* or when a call of another page took the lock away, and one reported as  *)
(* cancelled.                                                              *)
OneIsOut ==
    \A a, b \in Attempts :
        /\ Live(a) /\ Live(b) /\ a # b /\ calls[a].page = calls[b].page
        /\ \A c \in Attempts : ranAt[c] = 0
        => \/ {a, b} \cap (checked \cup taken) # {}
           \/ "cancelled" \in {calls[a].outcome, calls[b].outcome}
===============================================================================
