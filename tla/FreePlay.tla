------------------------------- MODULE FreePlay -------------------------------
(***************************************************************************)
(* Free-play publication (backend/internal/arcade: freeplay_store.go,      *)
(* freeplay_publisher.go, freeplay_spending.go, freeplay_http.go): a       *)
(* verified run is queued under a quote its player agreed to, and workers  *)
(* that share one database and one signer account anchor it on chain.      *)
(*                                                                         *)
(* Each SQLite transaction, each lookup of the chain and each broadcast is *)
(* a step. A worker may stop or be paused between any two of its steps,    *)
(* for longer than its lease: what protects the account is the tokens in   *)
(* the tables and not the clock.                                           *)
(*                                                                         *)
(* A timestamp is kept as the time left until it: "x <= now" is "0 left".  *)
(***************************************************************************)
EXTENDS Naturals, Sequences

CONSTANTS
    NumRuns,        \* bound: runs verified
    NumQuotes,      \* bound: quotes issued
    Workers,        \* publishers that share the database
    Tokens,         \* the random tokens a worker may draw
    NoOwner,        \* the empty lease_owner
    LeaseLength,
    QuoteLifetime,
    CheckDelays,    \* the delays before the next check, the last one for all later checks
    MaxFailures,    \* failures before a broadcast that stop a run (8 in the code)
    MaxAttempts     \* the operator's broadcasts per UTC day

ASSUME FreePlayAssumption ==
    /\ NumRuns \in Nat /\ NumQuotes \in Nat
    /\ NoOwner \notin Tokens
    /\ LeaseLength \in Nat \ {0} /\ QuoteLifetime \in Nat \ {0}
    /\ CheckDelays \in Seq(Nat) /\ CheckDelays # <<>>
    /\ MaxFailures \in Nat \ {0} /\ MaxAttempts \in Nat \ {0}

VARIABLES
    runs,       \* arcade_freeplay_runs_v2: the status of each run
    quotes,     \* arcade_freeplay_quotes_v2
    outbox,     \* arcade_freeplay_outbox_v2
    signer,     \* arcade_freeplay_signers_v2: the row of the account
    attempts,   \* arcade_freeplay_budget_v2: what was reserved today
    charged,    \* arcade_freeplay_spending_v2: the quotes with a reservation
    worker,     \* what each invocation of PublishOne holds in memory
    sent,       \* of each run, the quotes its transaction was handed over under
    anchored    \* the runs the realm has recorded

store == <<runs, quotes, outbox, signer, attempts, charged>>
vars == <<runs, quotes, outbox, signer, attempts, charged, worker, sent, anchored>>

Runs == 1..NumRuns
Quotes == 1..NumQuotes
NoRun == 0
NoQuote == 0

Statuses == {"none", "verified", "queued", "submitted", "confirmed"}
Hashes == {"", "unknown", "hash"}
Polls == 0..Len(CheckDelays)

Quote == [run : Runs \cup {NoRun}, left : Nat, consumed : BOOLEAN]
Outbox == [quote : Quotes \cup {NoQuote}, owner : Tokens \cup {NoOwner}, left : Nat,
           attempts : Nat, failures : Nat, polls : Polls, wait : Nat, hash : Hashes]
Signer == [owner : Tokens \cup {NoOwner}, left : Nat, pending : Runs \cup {NoRun}]

Places == {"idle", "lookup", "spend", "intend", "armed", "save", "readback",
           "confirm", "fail", "unsure"}
Invocation == [at : Places, owner : Tokens \cup {NoOwner}, run : Runs \cup {NoRun},
               quote : Quotes \cup {NoQuote}, hash : Hashes]

TypeOK ==
    /\ runs \in [Runs -> Statuses]
    /\ quotes \in [Quotes -> Quote]
    /\ outbox \in [Runs -> Outbox]
    /\ signer \in Signer
    /\ attempts \in 0..MaxAttempts
    /\ charged \subseteq Quotes
    /\ worker \in [Workers -> Invocation]
    /\ sent \in [Runs -> Seq(Quotes)]
    /\ anchored \subseteq Runs

NoRow == [quote |-> NoQuote, owner |-> NoOwner, left |-> 0, attempts |-> 0,
          failures |-> 0, polls |-> 0, wait |-> 0, hash |-> ""]
Idle == [at |-> "idle", owner |-> NoOwner, run |-> NoRun, quote |-> NoQuote, hash |-> ""]

Init ==
    /\ runs = [r \in Runs |-> "none"]
    /\ quotes = [q \in Quotes |-> [run |-> NoRun, left |-> 0, consumed |-> FALSE]]
    /\ outbox = [r \in Runs |-> NoRow]
    /\ signer = [owner |-> NoOwner, left |-> 0, pending |-> NoRun]
    /\ attempts = 0
    /\ charged = {}
    /\ worker = [w \in Workers |-> Idle]
    /\ sent = [r \in Runs |-> <<>>]
    /\ anchored = {}

-------------------------------------------------------------------------------
(* Requests of the players.                                                *)

(* Runs are numbered in the order they are stored.                         *)
PutVerified(r) ==
    /\ runs[r] = "none"
    /\ \A s \in Runs : s < r => runs[s] # "none"
    /\ runs' = [runs EXCEPT ![r] = "verified"]
    /\ UNCHANGED <<quotes, outbox, signer, attempts, charged, worker, sent, anchored>>

(* The handler reads whether the run may be quoted, then the prices of the *)
(* chain, and stores the quote last: by then the run may be in any later   *)
(* status. Quotes are numbered in the order they are stored.               *)
PutQuote(r, q) ==
    /\ runs[r] # "none"
    /\ quotes[q].run = NoRun
    /\ \A p \in Quotes : p < q => quotes[p].run # NoRun
    /\ quotes' = [quotes EXCEPT ![q] = [run |-> r, left |-> QuoteLifetime, consumed |-> FALSE]]
    /\ UNCHANGED <<runs, outbox, signer, attempts, charged, worker, sent, anchored>>

(* Mutant of Replaceable: an expired authorization is replaced whatever    *)
(* was sent under it.                                                      *)
ReplaceableExpired(r) ==
    /\ runs[r] \in {"queued", "submitted"}
    /\ outbox[r].left = 0
    /\ quotes[outbox[r].quote].left = 0

(* Nothing was ever sent under the run's authorization, and it has expired. *)
Replaceable(r) ==
    /\ runs[r] = "queued"
    /\ outbox[r].hash = "" /\ outbox[r].attempts = 0
    /\ outbox[r].left = 0
    /\ quotes[outbox[r].quote].left = 0

(* A first authorization inserts the row; a replacement clears the same    *)
(* fields, the token included, of a row that has no broadcast.             *)
Queue(r, q) ==
    /\ \/ runs[r] = "verified"
       \/ outbox[r].quote # q /\ Replaceable(r)
    /\ quotes[q].run = r /\ quotes[q].left > 0 /\ ~quotes[q].consumed
    /\ quotes' = [quotes EXCEPT ![q].consumed = TRUE]
    /\ outbox' = [outbox EXCEPT ![r] = [NoRow EXCEPT !.quote = q]]
    /\ runs' = [runs EXCEPT ![r] = "queued"]
    /\ UNCHANGED <<signer, attempts, charged, worker, sent, anchored>>

-------------------------------------------------------------------------------
(* One invocation of PublishOne.                                           *)

Owns(w) == outbox[worker[w].run].owner = worker[w].owner
OwnsSigner(w) == signer.owner = worker[w].owner
QuoteExpired(w) == quotes[worker[w].quote].left = 0
(* Mutants of PendingAllows: the account is shared without looking, or a   *)
(* run in doubt is never looked up again.                                  *)
PendingIgnored(r) == r \in Runs
PendingIsBusy(r) == r \in Runs /\ signer.pending = NoRun

PendingAllows(r) == signer.pending \in {NoRun, r}

(* A drawn token is one nobody holds: in the code, 32 random bytes.        *)
Held ==
    {signer.owner} \cup {outbox[r].owner : r \in Runs} \cup {worker[w].owner : w \in Workers}
FreshToken == CHOOSE t \in Tokens : t \notin Held

(* Mutant of Due: a run that failed too often is tried again.              *)
DueForever(r) ==
    /\ runs[r] \in {"queued", "submitted"}
    /\ outbox[r].left = 0 /\ outbox[r].wait = 0
    /\ PendingAllows(r)

Due(r) ==
    /\ runs[r] \in {"queued", "submitted"}
    /\ outbox[r].left = 0 /\ outbox[r].wait = 0
    /\ outbox[r].hash # "" \/ outbox[r].failures < MaxFailures
    /\ PendingAllows(r)

Before(r, s) ==
    \/ runs[r] = "submitted" /\ runs[s] = "queued"
    \/ runs[r] = runs[s] /\ r < s

Claim(w) ==
    /\ worker[w].at = "idle"
    /\ signer.left = 0
    /\ Tokens \ Held # {}
    /\ \E r \in Runs :
          /\ Due(r)
          /\ \A s \in Runs : Due(s) => ~Before(s, r)
          /\ signer' = [signer EXCEPT !.owner = FreshToken, !.left = LeaseLength]
          /\ outbox' = [outbox EXCEPT ![r].owner = FreshToken, ![r].left = LeaseLength]
          /\ worker' = [worker EXCEPT ![w] =
                [at |-> "lookup", owner |-> FreshToken, run |-> r,
                 quote |-> outbox[r].quote, hash |-> outbox[r].hash]]
    /\ UNCHANGED <<runs, quotes, attempts, charged, sent, anchored>>

Goes(w, place) == worker' = [worker EXCEPT ![w].at = place]
Returns(w) == worker' = [worker EXCEPT ![w] = Idle]

(* The process stops, or a call fails without effect whose error ends the  *)
(* invocation.                                                             *)
Stop(w) ==
    /\ worker[w].at # "idle"
    /\ Returns(w)
    /\ UNCHANGED <<store, sent, anchored>>

(* The node may fail, or answer from a block before the run's.             *)
LookupFinds(w) ==
    /\ worker[w].at \in {"lookup", "readback"}
    /\ worker[w].run \in anchored
    /\ Goes(w, "confirm")
    /\ UNCHANGED <<store, sent, anchored>>

MayTry(w) == worker[w].hash = "" /\ ~QuoteExpired(w)

LookupFindsNothing(w) ==
    /\ worker[w].at = "lookup"
    /\ \/ MayTry(w) /\ Goes(w, "spend")
       \/ Goes(w, "fail")
    /\ UNCHANGED <<store, sent, anchored>>

(* Mutant of ReadbackFindsNothing: a hash is taken for the realm's record. *)
ReadbackTrusted(w) ==
    /\ worker[w].at = "readback"
    /\ Goes(w, "confirm")
    /\ UNCHANGED <<store, sent, anchored>>

ReadbackFindsNothing(w) ==
    /\ worker[w].at = "readback"
    /\ Goes(w, "fail")
    /\ UNCHANGED <<store, sent, anchored>>

(* Mutant of Chargeable: the budget of the day is passed by one.           *)
ChargeablePastLimit(r, q) ==
    /\ runs[r] = "queued"
    /\ outbox[r].quote = q
    /\ quotes[q].run = r /\ quotes[q].consumed /\ quotes[q].left > 0
    /\ outbox[r].hash = "" /\ outbox[r].attempts = 0
    /\ outbox[r].owner # NoOwner /\ outbox[r].left > 0
    /\ signer.owner = outbox[r].owner /\ signer.left > 0
    /\ PendingAllows(r)
    /\ attempts <= MaxAttempts

(* The reservation has no token of its caller: it asks for live leases of  *)
(* the run and of the account that agree with each other.                  *)
Chargeable(r, q) ==
    /\ runs[r] = "queued"
    /\ outbox[r].quote = q
    /\ quotes[q].run = r /\ quotes[q].consumed /\ quotes[q].left > 0
    /\ outbox[r].hash = "" /\ outbox[r].attempts = 0
    /\ outbox[r].owner # NoOwner /\ outbox[r].left > 0
    /\ signer.owner = outbox[r].owner /\ signer.left > 0
    /\ PendingAllows(r)
    /\ attempts < MaxAttempts

(* An error may be reported for a transaction that was committed.          *)
Reserve(w) ==
    /\ worker[w].at = "spend"
    /\ Chargeable(worker[w].run, worker[w].quote)
    /\ attempts' = attempts + 1
    /\ charged' = charged \cup {worker[w].quote}
    /\ \E place \in {"intend", "fail"} : Goes(w, place)
    /\ UNCHANGED <<runs, quotes, outbox, signer, sent, anchored>>

(* The prices have moved, the budget refuses, a lease is lost, the quote   *)
(* or the context has expired, the transaction fails.                      *)
Refused(w) ==
    /\ worker[w].at \in {"spend", "intend"}
    /\ Goes(w, "fail")
    /\ UNCHANGED <<store, sent, anchored>>

MayIntend(w) ==
    /\ OwnsSigner(w) /\ PendingAllows(worker[w].run)
    /\ ~QuoteExpired(w)
    /\ Owns(w) /\ outbox[worker[w].run].hash = ""

(* The marker is committed before the network is touched.                  *)
ReserveBroadcast(w) ==
    LET r == worker[w].run
    IN  /\ worker[w].at = "intend"
        /\ MayIntend(w)
        /\ signer' = [signer EXCEPT !.pending = r]
        /\ outbox' = [outbox EXCEPT ![r].hash = "unknown", ![r].attempts = @ + 1]
        /\ runs' = [runs EXCEPT ![r] = IF @ = "queued" THEN "submitted" ELSE @]
        /\ \E place \in {"armed", "fail"} : Goes(w, place)
        /\ UNCHANGED <<quotes, attempts, charged, sent, anchored>>

MayCancel(w) ==
    LET r == worker[w].run
    IN  /\ OwnsSigner(w) /\ signer.pending = r
        /\ Owns(w) /\ outbox[r].quote = worker[w].quote
        /\ outbox[r].hash = "unknown" /\ outbox[r].attempts = 1

(* Mutant of CancelUnsentBroadcast: the marker is also taken back when the *)
(* answer of the broadcast was lost.                                       *)
CancelAfterAnchor(w) ==
    LET r == worker[w].run
    IN  /\ worker[w].at \in {"armed", "unsure"}
        /\ MayCancel(w)
        /\ signer' = [signer EXCEPT !.pending = NoRun]
        /\ outbox' = [outbox EXCEPT ![r].hash = "", ![r].attempts = 0]
        /\ runs' = [runs EXCEPT ![r] = IF @ = "submitted" THEN "queued" ELSE @]
        /\ Goes(w, "fail")
        /\ UNCHANGED <<quotes, attempts, charged, sent, anchored>>

(* The quote or the context has expired before the call of Anchor.         *)
CancelUnsentBroadcast(w) ==
    LET r == worker[w].run
    IN  /\ worker[w].at = "armed"
        /\ MayCancel(w)
        /\ signer' = [signer EXCEPT !.pending = NoRun]
        /\ outbox' = [outbox EXCEPT ![r].hash = "", ![r].attempts = 0]
        /\ runs' = [runs EXCEPT ![r] = IF @ = "submitted" THEN "queued" ELSE @]
        /\ Goes(w, "fail")
        /\ UNCHANGED <<quotes, attempts, charged, sent, anchored>>

(* The transport refuses before it sends, the quote included if it has     *)
(* expired by then, loses the answer, or has a hash.                       *)
Anchor(w) ==
    /\ worker[w].at = "armed"
    /\ \/ Goes(w, "unsure") /\ UNCHANGED sent
       \/ /\ ~QuoteExpired(w)
          /\ sent' = [sent EXCEPT ![worker[w].run] = Append(@, worker[w].quote)]
          /\ \E place \in {"unsure", "save"} : Goes(w, place)
    /\ UNCHANGED <<store, anchored>>

SaveBroadcastHash(w) ==
    LET r == worker[w].run
    IN  /\ worker[w].at = "save"
        /\ Owns(w) /\ outbox[r].hash = "unknown"
        /\ outbox' = [outbox EXCEPT ![r].hash = "hash"]
        /\ worker' = [worker EXCEPT ![w].at = "readback", ![w].hash = "hash"]
        /\ UNCHANGED <<runs, quotes, signer, attempts, charged, sent, anchored>>

CheckDelay(previous) ==
    IF previous < Len(CheckDelays) THEN CheckDelays[previous + 1]
                                   ELSE CheckDelays[Len(CheckDelays)]

(* Which counter sets the delay is decided by what the worker knows, which *)
(* counter advances by what the table says. Polls past the last delay are  *)
(* not told apart.                                                         *)
AfterAttempt(row, hash, unsure) ==
    LET pending == hash # "" \/ unsure
        inDoubt == row.hash # "" \/ unsure
    IN  [row EXCEPT !.hash = IF unsure THEN "unknown" ELSE @,
                    !.polls = IF inDoubt /\ @ < Len(CheckDelays) THEN @ + 1 ELSE @,
                    !.failures = IF inDoubt THEN @ ELSE @ + 1,
                    !.wait = CheckDelay(IF pending THEN row.polls ELSE row.failures),
                    !.left = 0]

SignerReleased(w) == IF OwnsSigner(w) THEN [signer EXCEPT !.left = 0] ELSE signer

SaveAttempt(w) ==
    LET r == worker[w].run
    IN  /\ worker[w].at \in {"fail", "unsure"}
        /\ Owns(w)
        /\ outbox' = [outbox EXCEPT ![r] =
                        AfterAttempt(@, worker[w].hash, worker[w].at = "unsure")]
        /\ signer' = SignerReleased(w)
        /\ Returns(w)
        /\ UNCHANGED <<runs, quotes, attempts, charged, sent, anchored>>

(* Mutant of SignerSettled: the account keeps the name of the run.         *)
SignerKept(w) == IF OwnsSigner(w) THEN [signer EXCEPT !.left = 0] ELSE signer

SignerSettled(w) ==
    IF OwnsSigner(w) /\ PendingAllows(worker[w].run)
    THEN [signer EXCEPT !.left = 0, !.pending = NoRun]
    ELSE signer

Confirm(w) ==
    LET r == worker[w].run
    IN  /\ worker[w].at = "confirm"
        /\ Owns(w)
        /\ runs' = [runs EXCEPT ![r] = "confirmed"]
        /\ outbox' = [outbox EXCEPT ![r].left = 0, ![r].wait = 0]
        /\ signer' = SignerSettled(w)
        /\ Returns(w)
        /\ UNCHANGED <<quotes, attempts, charged, sent, anchored>>

Publish(w) ==
    \/ LookupFinds(w) \/ LookupFindsNothing(w) \/ ReadbackFindsNothing(w)
    \/ Reserve(w) \/ Refused(w)
    \/ ReserveBroadcast(w) \/ CancelUnsentBroadcast(w)
    \/ Anchor(w) \/ SaveBroadcastHash(w)
    \/ SaveAttempt(w) \/ Confirm(w)

-------------------------------------------------------------------------------
(* The world around them.                                                  *)

Include(r) ==
    /\ sent[r] # <<>>
    /\ r \notin anchored
    /\ anchored' = anchored \cup {r}
    /\ UNCHANGED <<store, worker, sent>>

Less(n) == IF n = 0 THEN 0 ELSE n - 1

Tick ==
    /\ \/ signer.left > 0
       \/ \E r \in Runs : outbox[r].left > 0 \/ outbox[r].wait > 0
       \/ \E q \in Quotes : quotes[q].left > 0
    /\ signer' = [signer EXCEPT !.left = Less(@)]
    /\ outbox' = [r \in Runs |-> [outbox[r] EXCEPT !.left = Less(@), !.wait = Less(@)]]
    /\ quotes' = [q \in Quotes |-> [quotes[q] EXCEPT !.left = Less(@)]]
    /\ UNCHANGED <<runs, attempts, charged, worker, sent, anchored>>

Midnight ==
    /\ attempts > 0
    /\ attempts' = 0
    /\ UNCHANGED <<runs, quotes, outbox, signer, charged, worker, sent, anchored>>

Next ==
    \/ \E r \in Runs : PutVerified(r)
    \/ \E r \in Runs, q \in Quotes : PutQuote(r, q) \/ Queue(r, q)
    \/ \E w \in Workers : Claim(w) \/ Publish(w) \/ Stop(w)
    \/ \E r \in Runs : Include(r)
    \/ Tick \/ Midnight

Spec == Init /\ [][Next]_vars

(* The runtime's ticker calls PublishOne for ever; the node finds what it  *)
(* has recorded, and the database takes a write, at least now and then.    *)
Fairness ==
    /\ WF_vars(Tick)
    /\ \A w \in Workers :
          /\ WF_vars(Claim(w)) /\ WF_vars(Publish(w) \/ Stop(w))
          /\ SF_vars(LookupFinds(w)) /\ SF_vars(Confirm(w))

FairSpec == Spec /\ Fairness
-------------------------------------------------------------------------------
(* The transaction of a run is handed to the network at most once: a       *)
(* worker that dies after the marker, an answer that is lost, a paused     *)
(* worker that wakes up after its run was claimed by another, and a new    *)
(* authorization never lead to a second one.                               *)
OneBroadcast == \A r \in Runs : Len(sent[r]) <= 1

(* One run of the account is in doubt at a time, the row of the account    *)
(* names it, and confirming it releases the account in the same step.      *)
OneInDoubt == \A r \in Runs : runs[r] = "submitted" <=> signer.pending = r

(* A run that was sent keeps the authorization it was sent under, which    *)
(* its player consumed for that run and whose cost was reserved before.    *)
SentAsAgreed ==
    \A r \in Runs : sent[r] # <<>> =>
        LET q == sent[r][Len(sent[r])]
        IN  outbox[r].quote = q /\ quotes[q].run = r /\ quotes[q].consumed /\ q \in charged

(* A run the players are shown as confirmed is recorded by the realm.      *)
ConfirmedIsAnchored == \A r \in Runs : runs[r] = "confirmed" => r \in anchored

(* Failures before a broadcast stop a run after so many, however workers   *)
(* overlap, and a run whose authorization is in doubt never counts one.    *)
FailuresAreBounded == \A r \in Runs : outbox[r].failures <= MaxFailures

(* Once the realm has recorded a run, the publisher finds it there and     *)
(* confirms it, however many polls, lost answers and restarts it takes.    *)
EventuallyConfirmed == \A r \in Runs : r \in anchored ~> runs[r] = "confirmed"

PhaseOf == [none |-> "unknown", verified |-> "verified", queued |-> "authorized",
            submitted |-> "doubtful", confirmed |-> "confirmed"]

Once == INSTANCE AnchorOnce WITH
            AnchoredRuns <- Runs,
            phase <- [r \in Runs |-> PhaseOf[runs[r]]],
            broadcasts <- [r \in Runs |-> Len(sent[r])]

(* The tables, leases and workers implement the promise of AnchorOnce.     *)
ImplementsAnchorOnce == Once!AnchorSpec
===============================================================================
