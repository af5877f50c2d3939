--------------------------- MODULE NotesPublishing ---------------------------
(***************************************************************************)
(* Publishing one public note (frontend/src/lib/notes: chain/request.ts,   *)
(* intents.ts, chain/recovery.ts; os/apps/notes/PublicPublish.tsx and the  *)
(* outcomes of os/sign).  Several pages of one account share the durable   *)
(* store of intentions, the wallet and the chain.  A page reviews a        *)
(* publication, records its intention, opens the wallet, and settles the   *)
(* intention by what it learns; each await is a step boundary, and so is   *)
(* every write to the store.                                               *)
(*                                                                         *)
(* The wallet and the realm, which applies an operation only on the        *)
(* revision it names, are external: modelled from how the code uses them.  *)
(***************************************************************************)
EXTENDS Integers, Sequences, FiniteSets

CONSTANTS
    Pages,        \* bound: the pages (tabs, windows) of the account
    Operations,   \* bound: the operation ids (newNoteId) that are used
    NoPage, Foreign,
    MaxForeign,   \* bound: revisions other people make
    MaxLag,       \* revisions a node may be behind
    MaxEnds       \* bound: sessions that end and pages that close

ASSUME NoteAssumption ==
    /\ Foreign \notin Operations /\ NoPage \notin Pages
    /\ MaxForeign \in Nat /\ MaxLag \in Nat /\ MaxEnds \in Nat

VARIABLES
    notes,     \* the operation that made each revision, on chain
    mempool,   \* operations a node accepted and the chain has not run
    sent,      \* operations a node ever accepted
    wallet,    \* operations Adena shows, or has confirmed and is sending
    receipts,  \* the durable intentions: the phase of each operation
    base,      \* expectedStateRevision of each operation
    requests,  \* the request of each operation, in the page that made it
    ends

chainVars == <<notes, mempool, sent>>
vars == <<chainVars, wallet, receipts, base, requests, ends>>

OpenPhases == {"prepared", "submitted", "unknown"}
Phases == OpenPhases \cup {"none", "confirmed", "not-sent"}

Stages == {"new", "review", "begun", "started", "opening", "asked",
           "answered", "verifying", "stopped", "doubtful", "rejected",
           "settling", "refused", "expired", "over"}

Request ==
    [stage : Stages,
     page : Pages \cup {NoPage},
     live : BOOLEAN,      \* its session has not ended
     waiting : BOOLEAN,   \* the driver still waits for its outcome
     opened : BOOLEAN,    \* walletMayHaveOpened
     late : BOOLEAN,      \* onSettled('unknown') has a write to make
     told : {"nothing", "not-sent", "refused", "cancelled"}] \* the notice shown

NoRequest ==
    [stage |-> "new", page |-> NoPage, live |-> FALSE, waiting |-> FALSE,
     opened |-> FALSE, late |-> FALSE, told |-> "nothing"]

Init ==
    /\ notes = <<>> /\ mempool = {} /\ sent = {} /\ wallet = {}
    /\ receipts = [o \in Operations |-> "none"]
    /\ base = [o \in Operations |-> 0]
    /\ requests = [o \in Operations |-> NoRequest]
    /\ ends = 0

-------------------------------------------------------------------------------
(* What a request may know and what a write may do.                        *)

(* The revision a node answers with may be behind the chain's.             *)
Reads == {r \in 0..Len(notes) : r + MaxLag >= Len(notes)}

(* Mutant of Evidence: any edit of the note from the base is taken for it. *)
EvidenceByRevision(o, r) == r = base[o] + 1 /\ r \in DOMAIN notes

(* publicIntentEvidence: the last operation of the note, at the revision   *)
(* read, is this one and made the revision after its base.                 *)
Evidence(o, r) == r = base[o] + 1 /\ notes[r] = o

(* settle: a closed phase stays, unknown is kept, submitted is not undone. *)
Settled(phase, to) ==
    IF \/ phase \notin OpenPhases
       \/ phase = "unknown" /\ to # "unknown"
       \/ phase = "submitted" /\ to = "not-sent"
    THEN phase ELSE to

(* Mutant of Write: the phase that only other intentions have.             *)
WriteFailed(o, to) ==
    \/ UNCHANGED receipts
    \/ /\ requests[o].live
       /\ receipts' = [receipts EXCEPT ![o] = "failed"]

(* A write of the request's session: refused once that session ended, and  *)
(* lost when the browser's storage fails.                                  *)
Write(o, to) ==
    \/ UNCHANGED receipts
    \/ /\ requests[o].live
       /\ receipts' = [receipts EXCEPT ![o] = Settled(@, to)]

Becomes(o, stage) == requests' = [requests EXCEPT ![o].stage = stage]

(* One review is on screen at a time, until the driver is done with it.    *)
SheetOpen(p) ==
    \E o \in Operations : requests[o].page = p /\ requests[o].waiting

Reviewed(p, live) ==
    [NoRequest EXCEPT !.stage = "review", !.page = p, !.live = live, !.waiting = TRUE]

-------------------------------------------------------------------------------
(* A request, from its review to its outcome.                              *)

(* review, preparePublicNoteRequest: no open intention of the note is      *)
(* listed, and the operation names the revision that was read.             *)
Review(p, o) ==
    /\ requests[o].stage = "new" /\ ~SheetOpen(p)
    /\ \A q \in Operations : receipts[q] \notin OpenPhases
    /\ \E r \in Reads : base' = [base EXCEPT ![o] = r]
    /\ requests' = [requests EXCEPT ![o] = Reviewed(p, TRUE)]
    /\ UNCHANGED <<chainVars, wallet, receipts, ends>>

(* Cancelled on the sheet, or refused before the intention is recorded:    *)
(* writes disabled, another open intention, storage that fails.            *)
Refuse(o) ==
    /\ requests[o].stage = "review"
    /\ requests' = [requests EXCEPT ![o].stage = "over", ![o].waiting = FALSE,
                                    ![o].told = "not-sent"]
    /\ UNCHANGED <<chainVars, wallet, receipts, base, ends>>

(* Mutant of Begin: the open intentions of other pages are not looked at.  *)
BeginUnchecked(o) ==
    /\ requests[o].stage = "review" /\ requests[o].live
    /\ receipts' = [receipts EXCEPT ![o] = "prepared"]
    /\ Becomes(o, "begun")
    /\ UNCHANGED <<chainVars, wallet, base, ends>>

(* NotesIntents.begin: one transaction that adds the intention unless one  *)
(* of the note is open at this revision or a later one.                    *)
Begin(o) ==
    /\ requests[o].stage = "review" /\ requests[o].live
    /\ \A q \in Operations : receipts[q] \in OpenPhases => base[q] < base[o]
    /\ receipts' = [receipts EXCEPT ![o] = "prepared"]
    /\ Becomes(o, "begun")
    /\ UNCHANGED <<chainVars, wallet, base, ends>>

(* beforeSign, up to onWallet: the recheck reads the base again.           *)
Start(o) ==
    /\ requests[o].stage = "begun" /\ requests[o].live
    /\ base[o] \in Reads
    /\ Becomes(o, "started")
    /\ UNCHANGED <<chainVars, wallet, receipts, base, ends>>

(* The rest of beforeSign, back in the request: from here on the wallet    *)
(* may have opened.                                                        *)
MayOpen(o) ==
    /\ requests[o].stage = "started" /\ requests[o].live /\ requests[o].waiting
    /\ requests' = [requests EXCEPT ![o].stage = "opening", ![o].opened = TRUE]
    /\ UNCHANGED <<chainVars, wallet, receipts, base, ends>>

(* broadcastContract after its last read of the wallet: the guard and the  *)
(* request are one step.                                                   *)
Ask(o) ==
    /\ requests[o].stage = "opening" /\ requests[o].live /\ requests[o].waiting
    /\ wallet' = wallet \cup {o}
    /\ Becomes(o, "asked")
    /\ UNCHANGED <<chainVars, receipts, base, ends>>

(* Mutant of Fail: what breaks after the request is a failure too.         *)
FailWhenAsked(o) ==
    /\ requests[o].stage \in {"begun", "opening", "asked"}
    /\ Becomes(o, "stopped")
    /\ UNCHANGED <<chainVars, wallet, receipts, base, ends>>

(* send fails: before the wallet may have opened nothing was sent; a       *)
(* refused network or guard is such a failure too, for the driver.  After  *)
(* that the outcome is in doubt, and once Adena was asked it may also      *)
(* answer "rejected", as it does when its window closes after Confirm.     *)
FailsFrom ==
    [stopped  |-> {"begun", "opening"},
     doubtful |-> {"started", "opening", "asked"},
     rejected |-> {"asked"}]

Fail(o) ==
    /\ \E to \in DOMAIN FailsFrom :
          requests[o].stage \in FailsFrom[to] /\ Becomes(o, to)
    /\ UNCHANGED <<chainVars, wallet, receipts, base, ends>>

(* The node refuses the transaction at its door (ChainRejectedError).      *)
RefuseAtNode(o) ==
    /\ requests[o].stage = "asked" /\ o \in wallet
    /\ wallet' = wallet \ {o}
    /\ Becomes(o, "refused")
    /\ UNCHANGED <<chainVars, receipts, base, ends>>

(* Mutant of SettleFailure: a doubtful request is written as not sent.     *)
SettleAsNotSent(o) ==
    /\ requests[o].stage \in {"stopped", "doubtful", "rejected", "refused"}
    /\ Write(o, "not-sent")
    /\ requests' = [requests EXCEPT ![o].stage = "over", ![o].waiting = FALSE]
    /\ UNCHANGED <<chainVars, wallet, base, ends>>

(* send's catch writes what it knows; then the driver, if it still waits,  *)
(* gives its outcome: nothing sent, refused, or unknown.  A rejection it   *)
(* first holds against the account three blocks later.                     *)
Outcome(r) ==
    IF r.stage = "rejected" /\ r.waiting THEN [r EXCEPT !.stage = "settling"]
    ELSE [r EXCEPT
        !.stage = "over", !.waiting = FALSE,
        !.late = @ \/ (r.stage = "doubtful" /\ r.waiting),
        !.told = CASE ~r.waiting -> @
                   [] r.stage = "stopped" -> "not-sent"
                   [] r.stage = "refused" -> "refused"
                   [] OTHER -> @]

SettleFailure(o) ==
    /\ requests[o].stage \in {"stopped", "doubtful", "rejected", "refused"}
    /\ Write(o, IF requests[o].opened THEN "unknown" ELSE "not-sent")
    /\ requests' = [requests EXCEPT ![o] = Outcome(@)]
    /\ UNCHANGED <<chainVars, wallet, base, ends>>

(* The account shows no change at the height that is read, which may be    *)
(* behind: the driver's outcome is "cancelled".  (A run the realm refused  *)
(* changes the account too: the model lets the driver miss it.)            *)
Cancelled(o) ==
    /\ requests[o].stage = "settling"
    /\ \E r \in Reads : \A i \in 1..r : notes[i] # o
    /\ requests' = [requests EXCEPT ![o].stage = "over", ![o].waiting = FALSE,
                                    ![o].told = "cancelled"]
    /\ UNCHANGED <<chainVars, wallet, receipts, base, ends>>

(* The same after a recheck that found the quote expired: the sheet stays  *)
(* and offers a new one.                                                   *)
Expire(o) ==
    /\ requests[o].stage = "stopped" /\ ~requests[o].opened
    /\ Write(o, "not-sent")
    /\ requests' = [requests EXCEPT ![o].stage = "expired", ![o].told = "not-sent"]
    /\ UNCHANGED <<chainVars, wallet, base, ends>>

(* requote: the same change under a new operation id.                      *)
Requote(o, n) ==
    /\ requests[o].stage = "expired" /\ requests[o].live
    /\ requests[n].stage = "new"
    /\ base[o] \in Reads
    /\ base' = [base EXCEPT ![n] = base[o]]
    /\ requests' = [requests EXCEPT ![o].stage = "over", ![o].waiting = FALSE,
                                    ![n] = Reviewed(requests[o].page, TRUE)]
    /\ UNCHANGED <<chainVars, wallet, receipts, ends>>

Dismissed(o) ==
    /\ requests[o].stage = "expired"
    /\ requests' = [requests EXCEPT ![o].stage = "over", ![o].waiting = FALSE]
    /\ UNCHANGED <<chainVars, wallet, receipts, base, ends>>

(* The driver stops waiting: the wallet is silent, the account moved or    *)
(* cannot be read, or the page's signer went away.  The request goes on    *)
(* without it, unless it is over.                                          *)
GiveUp(o) ==
    /\ requests[o].waiting
    /\ \/ requests[o].stage \in {"started", "opening", "asked", "answered",
                                 "doubtful", "rejected", "refused", "settling"}
       \/ requests[o].stage = "stopped" /\ requests[o].opened
    /\ requests' = [requests EXCEPT ![o].waiting = FALSE, ![o].late = TRUE,
           ![o].stage = IF @ = "settling" THEN "over" ELSE @]
    /\ UNCHANGED <<chainVars, wallet, receipts, base, ends>>

(* onSettled('unknown'), a write nobody awaits.                            *)
SettleLate(o) ==
    /\ requests[o].late
    /\ Write(o, "unknown")
    /\ requests' = [requests EXCEPT ![o].late = FALSE]
    /\ UNCHANGED <<chainVars, wallet, base, ends>>

(* The wallet answers that the node accepted the transaction.              *)
Answer(o) ==
    /\ requests[o].stage = "asked" /\ o \in sent
    /\ Becomes(o, "answered")
    /\ UNCHANGED <<chainVars, wallet, receipts, base, ends>>

(* The intention is submitted and, if the driver waits, verified; a write  *)
(* that fails ends in send's catch.                                        *)
SettleSubmitted(o) ==
    /\ requests[o].stage = "answered"
    /\ \/ /\ requests[o].live /\ receipts[o] \in {"prepared", "submitted"}
          /\ receipts' = [receipts EXCEPT ![o] = "submitted"]
          /\ requests' = [requests EXCEPT
                 ![o].stage = IF requests[o].waiting THEN "verifying" ELSE "over",
                 ![o].waiting = FALSE]
       \/ /\ UNCHANGED receipts
          /\ Becomes(o, "doubtful")
    /\ UNCHANGED <<chainVars, wallet, base, ends>>

(* verify, tried a few times: the note as a node shows it.                 *)
Verify(o) ==
    /\ requests[o].stage = "verifying" /\ requests[o].live
    /\ \E r \in Reads : Evidence(o, r)
    /\ receipts[o] \in OpenPhases
    /\ receipts' = [receipts EXCEPT ![o] = "confirmed"]
    /\ Becomes(o, "over")
    /\ UNCHANGED <<chainVars, wallet, base, ends>>

StopVerifying(o) ==
    /\ requests[o].stage = "verifying"
    /\ Becomes(o, "over")
    /\ UNCHANGED <<chainVars, wallet, receipts, base, ends>>

(* recoverPublicIntent, "Check outcome" in any page.                       *)
Recover(o) ==
    /\ receipts[o] \in OpenPhases
    /\ \E r \in Reads : Evidence(o, r)
    /\ receipts' = [receipts EXCEPT ![o] = "confirmed"]
    /\ UNCHANGED <<chainVars, wallet, base, requests, ends>>

-------------------------------------------------------------------------------
(* The pages, the wallet and the chain.                                    *)

(* The session ends (another account, the workspace goes away): the code   *)
(* of its requests runs on, its writes and guards refuse.                  *)
EndSession(p) ==
    /\ ends < MaxEnds /\ ends' = ends + 1
    /\ requests' = [o \in Operations |->
           IF requests[o].page = p THEN [requests[o] EXCEPT !.live = FALSE]
           ELSE requests[o]]
    /\ UNCHANGED <<chainVars, wallet, receipts, base>>

(* The page is reloaded or closed, whatever its requests were doing.       *)
Close(p) ==
    /\ ends < MaxEnds /\ ends' = ends + 1
    /\ requests' = [o \in Operations |->
           IF requests[o].page = p
           THEN [requests[o] EXCEPT !.stage = "over", !.live = FALSE,
                                    !.waiting = FALSE, !.late = FALSE]
           ELSE requests[o]]
    /\ UNCHANGED <<chainVars, wallet, receipts, base>>

Approve(o) ==
    /\ o \in wallet
    /\ wallet' = wallet \ {o}
    /\ mempool' = mempool \cup {o} /\ sent' = sent \cup {o}
    /\ UNCHANGED <<notes, receipts, base, requests, ends>>

Decline(o) ==
    /\ o \in wallet
    /\ wallet' = wallet \ {o}
    /\ UNCHANGED <<chainVars, receipts, base, requests, ends>>

(* The realm applies an operation on the revision it names only.           *)
Run(o) ==
    /\ o \in mempool
    /\ mempool' = mempool \ {o}
    /\ notes' = IF base[o] = Len(notes) THEN Append(notes, o) ELSE notes
    /\ UNCHANGED <<sent, wallet, receipts, base, requests, ends>>

Forget(o) ==
    /\ o \in mempool
    /\ mempool' = mempool \ {o}
    /\ UNCHANGED <<notes, sent, wallet, receipts, base, requests, ends>>

ForeignEdit ==
    /\ Cardinality({r \in DOMAIN notes : notes[r] = Foreign}) < MaxForeign
    /\ notes' = Append(notes, Foreign)
    /\ UNCHANGED <<mempool, sent, wallet, receipts, base, requests, ends>>

Next ==
    \/ \E p \in Pages, o \in Operations : Review(p, o)
    \/ \E o \in Operations :
          \/ Refuse(o) \/ Begin(o) \/ Start(o) \/ MayOpen(o) \/ Ask(o)
          \/ Fail(o) \/ RefuseAtNode(o) \/ SettleFailure(o) \/ Cancelled(o)
          \/ Expire(o) \/ Dismissed(o)
          \/ GiveUp(o) \/ SettleLate(o) \/ Answer(o) \/ SettleSubmitted(o)
          \/ Verify(o) \/ StopVerifying(o) \/ Recover(o)
          \/ Approve(o) \/ Decline(o) \/ Run(o) \/ Forget(o)
    \/ \E o, n \in Operations : Requote(o, n)
    \/ \E p \in Pages : EndSession(p) \/ Close(p)
    \/ ForeignEdit

Spec == Init /\ [][Next]_vars

-------------------------------------------------------------------------------
TypeOK ==
    /\ notes \in Seq(Operations \cup {Foreign})
    /\ mempool \subseteq sent /\ sent \subseteq Operations
    /\ wallet \subseteq Operations
    /\ receipts \in [Operations -> Phases]
    /\ base \in [Operations -> Nat]
    /\ requests \in [Operations -> Request]
    /\ ends \in Nat

(* What can still change the note, or did.                                 *)
Out == wallet \cup sent

(* A publication that is with the wallet or the network is on record, and  *)
(* not as one that was never sent: whatever page fails or closes at any    *)
(* moment, and whoever settles it late, another page will find it open or  *)
(* confirmed.                                                              *)
OutIsOnRecord == \A o \in Out : receipts[o] \in OpenPhases \cup {"confirmed"}

(* What the member was told was not sent, or was refused by the network,   *)
(* is not with the wallet and not with the network: neither then nor by a  *)
(* step that was still to come.                                            *)
NothingSentIsTrue ==
    \A o \in Operations : requests[o].told \in {"not-sent", "refused"} => o \notin Out

(* PublicPublish's notice for the outcome "cancelled": "Cancelled in       *)
(* Adena. Nothing was sent."                                               *)
CancelledSentNothing ==
    \A o \in Operations : requests[o].told = "cancelled" => o \notin sent

(* Of all the publications of the note, from any page, at most one can     *)
(* still become its next revision: no second wallet request repeats a      *)
(* publication whose outcome is in doubt.                                  *)
OneCanStillRun ==
    \A o, p \in wallet \cup mempool :
        base[o] = Len(notes) /\ base[p] = Len(notes) => o = p

(* The receipts as a ledger of the account's publications.                 *)
Expected == [o \in Operations |-> IF receipts[o] = "none" THEN 0 ELSE base[o]]

FateOf(phase) ==
    IF phase \in OpenPhases THEN "open"
    ELSE CASE phase = "none" -> "new"
           [] phase = "confirmed" -> "confirmed"
           [] phase = "not-sent" -> "dropped"

State == [o \in Operations |-> FateOf(receipts[o])]

Ledger == INSTANCE PublicationLedger WITH
    PublishedOps <- Operations, SomeoneElse <- Foreign,
    revisions <- notes, expected <- Expected, state <- State

(* The receipts are a true ledger of what the account did to the note.     *)
ImplementsLedger == Ledger!LedgerSpec
===============================================================================
