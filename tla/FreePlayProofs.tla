---------------------------- MODULE FreePlayProofs ----------------------------
(***************************************************************************)
(* Proofs about FreePlay, for any number of runs, quotes, workers and      *)
(* tokens, any delays and any limits.                                      *)
(*                                                                         *)
(* The argument: a worker that may still hand a transaction over is the    *)
(* only one of its run (OneBroadcaster), and while there is one the marker *)
(* stands and nothing has been sent (WorkersKnow); the marker stands in    *)
(* exactly the rows of submitted and confirmed runs (RowsMatch); and the   *)
(* token that fences a late worker belongs to one row (OneRowPerToken).    *)
(***************************************************************************)
EXTENDS FreePlay, TLAPS

Busy(w) == worker[w].at # "idle"

(* A worker whose marker is committed and whose invocation goes on.        *)
Broadcaster(w) == worker[w].at \in {"armed", "unsure", "save", "readback"}

WorkersAreBusyOrIdle ==
    \A w \in Workers :
        IF Busy(w)
        THEN worker[w].owner \in Tokens /\ worker[w].run \in Runs /\ worker[w].quote \in Quotes
        ELSE worker[w] = Idle

TokensDiffer ==
    \A v, w \in Workers :
        Busy(v) /\ Busy(w) /\ worker[v].owner = worker[w].owner => v = w

OneRowPerToken ==
    \A w \in Workers, r \in Runs :
        Busy(w) /\ outbox[r].owner = worker[w].owner =>
            worker[w].run = r /\ worker[w].quote = outbox[r].quote

PinnedByOwner ==
    \A r \in Runs : signer.pending = r => outbox[r].owner = signer.owner

RowMatches(r) ==
    /\ runs[r] \in {"none", "verified"} => outbox[r] = NoRow
    /\ runs[r] = "queued" => outbox[r].hash = "" /\ outbox[r].attempts = 0
    /\ runs[r] \in {"submitted", "confirmed"} =>
          outbox[r].hash # "" /\ outbox[r].attempts = 1
    /\ runs[r] \in {"queued", "submitted", "confirmed"} =>
          /\ outbox[r].quote \in Quotes
          /\ quotes[outbox[r].quote].run = r /\ quotes[outbox[r].quote].consumed

RowsMatch == \A r \in Runs : RowMatches(r)

SentMatches ==
    \A r \in Runs :
        /\ sent[r] # <<>> =>
              /\ runs[r] \in {"submitted", "confirmed"}
              /\ sent[r] = <<outbox[r].quote>> /\ outbox[r].quote \in charged
        /\ r \in anchored => sent[r] # <<>>
        /\ runs[r] = "confirmed" => r \in anchored

OneBroadcaster ==
    \A v, w \in Workers :
        Broadcaster(v) /\ Broadcaster(w) /\ worker[v].run = worker[w].run => v = w

WorkerKnows(w) ==
    LET r == worker[w].run
    IN  /\ Broadcaster(w) => runs[r] \in {"submitted", "confirmed"}
        /\ worker[w].at \in {"intend", "armed"} => worker[w].quote \in charged
        /\ worker[w].at = "armed" =>
              /\ sent[r] = <<>> /\ outbox[r].quote = worker[w].quote
        /\ worker[w].at = "confirm" => r \in anchored
        /\ worker[w].at \in {"spend", "intend", "armed", "unsure", "save"} =>
              worker[w].hash = ""

WorkersKnow == \A w \in Workers : WorkerKnows(w)

OwnerCounts(w) ==
    Busy(w) /\ Owns(w) =>
        IF worker[w].hash = "" THEN outbox[worker[w].run].failures < MaxFailures
                               ELSE outbox[worker[w].run].hash # ""

FailuresCount == FailuresAreBounded /\ \A w \in Workers : OwnerCounts(w)

IInv ==
    /\ TypeOK
    /\ WorkersAreBusyOrIdle
    /\ TokensDiffer
    /\ OneRowPerToken
    /\ PinnedByOwner
    /\ RowsMatch
    /\ OneInDoubt
    /\ SentMatches
    /\ OneBroadcaster
    /\ WorkersKnow
    /\ FailuresCount

-------------------------------------------------------------------------------
(* What the steps of a worker change.                                      *)

LEMMA Zeros == NoRun \notin Runs /\ NoQuote \notin Quotes
BY FreePlayAssumption DEF NoRun, Runs, NoQuote, Quotes

LEMMA IdleIsIdle == Idle.at = "idle"
BY DEF Idle

LEMMA GoesEffect ==
    ASSUME worker \in [Workers -> Invocation], NEW w \in Workers, NEW place \in Places,
           Goes(w, place)
    PROVE  /\ worker' \in [Workers -> Invocation]
           /\ worker'[w].at = place
           /\ worker'[w].owner = worker[w].owner
           /\ worker'[w].run = worker[w].run
           /\ worker'[w].quote = worker[w].quote
           /\ worker'[w].hash = worker[w].hash
           /\ \A v \in Workers : v # w => worker'[v] = worker[v]
BY DEF Goes, Invocation

LEMMA ReturnsEffect ==
    ASSUME worker \in [Workers -> Invocation], NEW w \in Workers, Returns(w)
    PROVE  /\ worker' \in [Workers -> Invocation]
           /\ worker'[w] = Idle
           /\ \A v \in Workers : v # w => worker'[v] = worker[v]
<1>1. Idle \in Invocation
  BY DEF Idle, Invocation, Places, Hashes
<1> QED BY <1>1 DEF Returns

(* A step of a worker that only moves on, without the right to send.       *)
MayGo(w, place) ==
    /\ Busy(w)
    /\ place \in {"confirm", "spend", "fail"}
    /\ place = "confirm" => worker[w].run \in anchored
    /\ place = "spend" => worker[w].hash = ""

LEMMA MovesKeep ==
    ASSUME IInv, NEW w \in Workers, NEW place, MayGo(w, place),
           Goes(w, place), UNCHANGED <<store, sent, anchored>>
    PROVE  IInv'
<1>1. worker \in [Workers -> Invocation] /\ place \in Places
  BY DEF IInv, TypeOK, Places, MayGo
<1>2. /\ worker' \in [Workers -> Invocation]
      /\ worker'[w].at = place
      /\ worker'[w].owner = worker[w].owner
      /\ worker'[w].run = worker[w].run
      /\ worker'[w].quote = worker[w].quote
      /\ worker'[w].hash = worker[w].hash
      /\ \A v \in Workers : v # w => worker'[v] = worker[v]
  BY <1>1, GoesEffect
<1>3. UNCHANGED <<runs, quotes, outbox, signer, attempts, charged, sent, anchored>>
  BY DEF store
<1>4. TypeOK'
  BY <1>2, <1>3 DEF IInv, TypeOK
<1>5. WorkersAreBusyOrIdle'
  BY <1>2 DEF IInv, WorkersAreBusyOrIdle, Busy, MayGo
<1>6. TokensDiffer' /\ OneRowPerToken'
  <2>1. \A v \in Workers : /\ Busy(v)' => Busy(v)
                          /\ worker'[v].owner = worker[v].owner
                          /\ worker'[v].run = worker[v].run
                          /\ worker'[v].quote = worker[v].quote
    BY <1>2 DEF Busy, MayGo
  <2>2. TokensDiffer'
    BY <2>1 DEF IInv, TokensDiffer
  <2>3. OneRowPerToken'
    BY <2>1, <1>3 DEF IInv, OneRowPerToken
  <2> QED
    BY <2>2, <2>3
<1>7. PinnedByOwner' /\ RowsMatch' /\ OneInDoubt' /\ SentMatches'
  BY <1>3, Zenon DEF IInv, PinnedByOwner, RowsMatch, RowMatches, OneInDoubt, SentMatches
<1>8. OneBroadcaster'
  BY <1>2 DEF IInv, OneBroadcaster, Broadcaster, MayGo
<1>9. WorkersKnow'
  BY <1>2, <1>3 DEF IInv, WorkersKnow, WorkerKnows, Broadcaster, MayGo
<1>10. FailuresCount'
  BY <1>2, <1>3 DEF IInv, FailuresCount, OwnerCounts, FailuresAreBounded, Busy, Owns, MayGo
<1> QED
  BY <1>4, <1>5, <1>6, <1>7, <1>8, <1>9, <1>10 DEF IInv

LEMMA ReturnKeeps ==
    ASSUME IInv, NEW w \in Workers, Stop(w)
    PROVE  IInv'
<1>1. worker \in [Workers -> Invocation]
  BY DEF IInv, TypeOK
<1>2. /\ worker' \in [Workers -> Invocation]
      /\ worker'[w] = Idle
      /\ \A v \in Workers : v # w => worker'[v] = worker[v]
  BY <1>1, ReturnsEffect DEF Stop
<1>3. UNCHANGED <<runs, quotes, outbox, signer, attempts, charged, sent, anchored>>
  BY DEF store, Stop
<1>4. worker'[w].at = "idle"
  BY <1>2, IdleIsIdle
<1>5. TypeOK'
  BY <1>2, <1>3 DEF IInv, TypeOK
<1>6. WorkersAreBusyOrIdle'
  BY <1>2, <1>4 DEF IInv, WorkersAreBusyOrIdle, Busy
<1>7. TokensDiffer' /\ OneRowPerToken'
  BY <1>2, <1>3, <1>4 DEF IInv, TokensDiffer, OneRowPerToken, Busy
<1>8. PinnedByOwner' /\ RowsMatch' /\ OneInDoubt' /\ SentMatches'
  BY <1>3, Zenon DEF IInv, PinnedByOwner, RowsMatch, RowMatches, OneInDoubt, SentMatches
<1>9. OneBroadcaster'
  BY <1>2, <1>4 DEF IInv, OneBroadcaster, Broadcaster
<1>10. WorkersKnow'
  <2> SUFFICES ASSUME NEW v \in Workers PROVE WorkerKnows(v)'
    BY DEF WorkersKnow
  <2>1. CASE v = w
    BY <1>4, <2>1 DEF WorkerKnows, Broadcaster
  <2>2. CASE v # w
    <3>1. WorkerKnows(v) /\ worker'[v] = worker[v]
      BY <1>2, <2>2 DEF IInv, WorkersKnow
    <3> QED
      BY <1>3, <3>1 DEF WorkerKnows, Broadcaster
  <2> QED
    BY <2>1, <2>2
<1>11. FailuresCount'
  BY <1>2, <1>3, <1>4 DEF IInv, FailuresCount, OwnerCounts, FailuresAreBounded, Busy, Owns
<1> QED
  BY <1>5, <1>6, <1>7, <1>8, <1>9, <1>10, <1>11 DEF IInv


-------------------------------------------------------------------------------
(* Requests of the players.                                                *)

LEMMA WorkersStay ==
    ASSUME IInv, UNCHANGED worker
    PROVE  WorkersAreBusyOrIdle' /\ TokensDiffer' /\ OneBroadcaster'
BY Zenon DEF IInv, WorkersAreBusyOrIdle, TokensDiffer, OneBroadcaster, Busy, Broadcaster

LEMMA PutVerifiedKeeps ==
    ASSUME IInv, NEW r \in Runs, PutVerified(r)
    PROVE  IInv'
<1>1. /\ runs \in [Runs -> Statuses] /\ runs' \in [Runs -> Statuses]
      /\ runs[r] = "none" /\ runs'[r] = "verified"
      /\ \A s \in Runs : s # r => runs'[s] = runs[s]
  BY DEF IInv, TypeOK, PutVerified, Statuses
<1>2. UNCHANGED <<quotes, outbox, signer, attempts, charged, worker, sent, anchored>>
  BY DEF PutVerified
<1>3. TypeOK'
  BY <1>1, <1>2 DEF IInv, TypeOK
<1>4. WorkersAreBusyOrIdle' /\ TokensDiffer' /\ OneBroadcaster'
  BY <1>2, WorkersStay
<1>5. OneRowPerToken' /\ PinnedByOwner' /\ FailuresCount'
  BY <1>2, Zenon DEF IInv, OneRowPerToken, PinnedByOwner, FailuresCount, OwnerCounts,
                     FailuresAreBounded, Busy, Owns
<1>6. RowsMatch'
  BY <1>1, <1>2 DEF IInv, RowsMatch, RowMatches
<1>7. OneInDoubt'
  BY <1>1, <1>2 DEF IInv, OneInDoubt
<1>8. SentMatches'
  BY <1>1, <1>2 DEF IInv, SentMatches
<1>9. WorkersKnow'
  <2>1. \A w \in Workers : Broadcaster(w) => worker[w].run \in Runs
    BY DEF IInv, WorkersAreBusyOrIdle, Busy, Broadcaster
  <2> QED
    BY <1>1, <1>2, <2>1 DEF IInv, WorkersKnow, WorkerKnows, Broadcaster
<1> QED
  BY <1>3, <1>4, <1>5, <1>6, <1>7, <1>8, <1>9 DEF IInv

LEMMA PutQuoteKeeps ==
    ASSUME IInv, NEW r \in Runs, NEW q \in Quotes, PutQuote(r, q)
    PROVE  IInv'
<1>1. [run |-> r, left |-> QuoteLifetime, consumed |-> FALSE] \in Quote
  BY FreePlayAssumption DEF Quote
<1>2. /\ quotes' \in [Quotes -> Quote]
      /\ quotes[q].run = NoRun
      /\ \A p \in Quotes : p # q => quotes'[p] = quotes[p]
  BY <1>1 DEF IInv, TypeOK, PutQuote
<1>3. UNCHANGED <<runs, outbox, signer, attempts, charged, worker, sent, anchored>>
  BY DEF PutQuote
<1>4. TypeOK'
  BY <1>2, <1>3 DEF IInv, TypeOK
<1>5. WorkersAreBusyOrIdle' /\ TokensDiffer' /\ OneBroadcaster'
  BY <1>3, WorkersStay
<1>6. OneRowPerToken' /\ PinnedByOwner' /\ FailuresCount'
  BY <1>3, Zenon DEF IInv, OneRowPerToken, PinnedByOwner, FailuresCount, OwnerCounts,
                     FailuresAreBounded, Busy, Owns
<1>7. RowsMatch'
  <2> SUFFICES ASSUME NEW s \in Runs PROVE RowMatches(s)'
    BY DEF RowsMatch
  <2>1. RowMatches(s) /\ s # NoRun
    BY Zeros DEF IInv, RowsMatch
  <2> QED
    BY <1>2, <1>3, <2>1 DEF RowMatches
<1>8. OneInDoubt' /\ SentMatches' /\ WorkersKnow'
  BY <1>3, Zenon DEF IInv, OneInDoubt, SentMatches, WorkersKnow, WorkerKnows, Broadcaster
<1> QED
  BY <1>4, <1>5, <1>6, <1>7, <1>8 DEF IInv

LEMMA QueueKeeps ==
    ASSUME IInv, NEW r \in Runs, NEW q \in Quotes, Queue(r, q)
    PROVE  IInv'
<1> DEFINE row == [NoRow EXCEPT !.quote = q]
<1>1. /\ row \in Outbox
      /\ row.quote = q /\ row.owner = NoOwner /\ row.failures = 0
      /\ row.hash = "" /\ row.attempts = 0
  <2>1. 0 \in Polls
    BY FreePlayAssumption DEF Polls
  <2> QED
    BY <2>1 DEF NoRow, Outbox, Hashes
<1>2. /\ outbox \in [Runs -> Outbox] /\ outbox' \in [Runs -> Outbox]
      /\ outbox'[r] = row
      /\ \A s \in Runs : s # r => outbox'[s] = outbox[s]
  BY <1>1 DEF IInv, TypeOK, Queue
<1>3. /\ runs' \in [Runs -> Statuses]
      /\ runs[r] \in {"verified", "queued"} /\ runs'[r] = "queued"
      /\ \A s \in Runs : s # r => runs'[s] = runs[s]
  BY DEF IInv, TypeOK, Queue, Replaceable, Statuses
<1>4. /\ quotes' \in [Quotes -> Quote]
      /\ quotes'[q].run = r /\ quotes'[q].consumed
      /\ \A p \in Quotes : p # q => quotes'[p] = quotes[p]
  BY DEF IInv, TypeOK, Queue, Quote
<1>5. UNCHANGED <<signer, attempts, charged, worker, sent, anchored>>
  BY DEF Queue
<1>6. sent[r] = <<>>
  BY <1>3 DEF IInv, SentMatches
<1> HIDE DEF row
<1>7. TypeOK'
  BY <1>2, <1>3, <1>4, <1>5 DEF IInv, TypeOK
<1>8. WorkersAreBusyOrIdle' /\ TokensDiffer' /\ OneBroadcaster'
  BY <1>5, WorkersStay
<1>9. OneRowPerToken'
  <2>1. \A w \in Workers : Busy(w) => worker[w].owner # NoOwner
    BY FreePlayAssumption DEF IInv, WorkersAreBusyOrIdle
  <2> SUFFICES ASSUME NEW w \in Workers, Busy(w), NEW s \in Runs,
                      outbox'[s].owner = worker[w].owner
               PROVE  worker[w].run = s /\ worker[w].quote = outbox'[s].quote
    BY <1>5 DEF OneRowPerToken, Busy
  <2>2. s # r
    BY <1>1, <1>2, <2>1
  <2> QED
    BY <1>2, <2>2 DEF IInv, OneRowPerToken
<1>10. PinnedByOwner'
  BY <1>2, <1>3, <1>5 DEF IInv, PinnedByOwner, OneInDoubt
<1>11. RowsMatch'
  <2> SUFFICES ASSUME NEW s \in Runs PROVE RowMatches(s)'
    BY DEF RowsMatch
  <2>1. CASE s = r
    BY <1>1, <1>2, <1>3, <1>4, <2>1 DEF RowMatches
  <2>2. CASE s # r
    <3>1. RowMatches(s)
      BY DEF IInv, RowsMatch
    <3>2. runs[s] \in {"queued", "submitted", "confirmed"} => outbox[s].quote # q
      BY <2>2, <3>1 DEF Queue, RowMatches
    <3> QED
      BY <1>2, <1>3, <1>4, <2>2, <3>1, <3>2 DEF RowMatches
  <2> QED
    BY <2>1, <2>2
<1>12. OneInDoubt'
  BY <1>3, <1>5 DEF IInv, OneInDoubt
<1>13. SentMatches'
  BY <1>2, <1>3, <1>5, <1>6 DEF IInv, SentMatches
<1>14. WorkersKnow'
  <2>1. \A w \in Workers : Broadcaster(w) => worker[w].run \in Runs /\ worker[w].run # r
    BY <1>3 DEF IInv, WorkersAreBusyOrIdle, Busy, Broadcaster, WorkersKnow, WorkerKnows
  <2> QED
    BY <1>2, <1>3, <1>5, <2>1 DEF IInv, WorkersKnow, WorkerKnows, Broadcaster
<1>15. FailuresCount'
  <2>1. FailuresAreBounded'
    <3>1. 0 <= MaxFailures
      BY FreePlayAssumption
    <3> QED
      BY <1>1, <1>2, <3>1 DEF IInv, FailuresCount, OwnerCounts, FailuresAreBounded
  <2>2. \A w \in Workers : Busy(w) => worker[w].owner # NoOwner /\ worker[w].run \in Runs
    BY FreePlayAssumption DEF IInv, WorkersAreBusyOrIdle
  <2> QED
    BY <1>1, <1>2, <1>5, <2>1, <2>2 DEF IInv, FailuresCount, OwnerCounts, Busy, Owns
<1> QED
  BY <1>7, <1>8, <1>9, <1>10, <1>11, <1>12, <1>13, <1>14, <1>15 DEF IInv


-------------------------------------------------------------------------------
(* Claiming a run.                                                         *)

LEMMA ClaimKeeps ==
    ASSUME IInv, NEW w \in Workers, Claim(w)
    PROVE  IInv'
<1> DEFINE t == FreshToken
<1>1. t \in Tokens /\ t \notin Held
  <2>1. \E u \in Tokens : u \notin Held
    BY DEF Claim
  <2> QED
    BY <2>1, Zenon DEF FreshToken
<1>2. PICK r \in Runs :
        /\ Due(r)
        /\ signer' = [signer EXCEPT !.owner = t, !.left = LeaseLength]
        /\ outbox' = [outbox EXCEPT ![r].owner = t, ![r].left = LeaseLength]
        /\ worker' = [worker EXCEPT ![w] =
              [at |-> "lookup", owner |-> t, run |-> r,
               quote |-> outbox[r].quote, hash |-> outbox[r].hash]]
  BY DEF Claim
<1> HIDE DEF t
<1>3. /\ signer.owner # t
      /\ \A s \in Runs : outbox[s].owner # t
      /\ \A v \in Workers : worker[v].owner # t
  BY <1>1 DEF Held
<1>4. UNCHANGED <<runs, quotes, attempts, charged, sent, anchored>> /\ ~Busy(w)
  BY DEF Claim, Busy
<1>5. /\ runs[r] \in {"queued", "submitted"}
      /\ outbox[r].hash # "" \/ outbox[r].failures < MaxFailures
      /\ signer.pending \in {NoRun, r}
      /\ outbox[r].quote \in Quotes
  BY <1>2 DEF Due, PendingAllows, IInv, RowsMatch, RowMatches
<1>6. /\ signer' \in Signer
      /\ signer'.owner = t /\ signer'.pending = signer.pending
  BY <1>1, <1>2, FreePlayAssumption DEF IInv, TypeOK, Signer
<1>7. /\ outbox \in [Runs -> Outbox] /\ outbox' \in [Runs -> Outbox]
      /\ outbox'[r].owner = t
      /\ outbox'[r].quote = outbox[r].quote
      /\ outbox'[r].attempts = outbox[r].attempts
      /\ outbox'[r].failures = outbox[r].failures
      /\ outbox'[r].hash = outbox[r].hash
      /\ \A s \in Runs : s # r => outbox'[s] = outbox[s]
  BY <1>1, <1>2, FreePlayAssumption DEF IInv, TypeOK, Outbox
<1>8. /\ worker' \in [Workers -> Invocation]
      /\ worker'[w].at = "lookup" /\ worker'[w].owner = t /\ worker'[w].run = r
      /\ worker'[w].quote = outbox[r].quote /\ worker'[w].hash = outbox[r].hash
      /\ \A v \in Workers : v # w => worker'[v] = worker[v]
  <2>1. [at |-> "lookup", owner |-> t, run |-> r,
         quote |-> outbox[r].quote, hash |-> outbox[r].hash] \in Invocation
    BY <1>1, <1>5, <1>7 DEF Invocation, Places, Outbox
  <2> QED
    BY <1>2, <2>1 DEF IInv, TypeOK
<1>9. TypeOK'
  BY <1>4, <1>6, <1>7, <1>8 DEF IInv, TypeOK
<1>10. WorkersAreBusyOrIdle'
  BY <1>1, <1>5, <1>8 DEF IInv, WorkersAreBusyOrIdle, Busy
<1>11. TokensDiffer'
  BY <1>3, <1>8 DEF IInv, TokensDiffer, Busy
<1>12. OneRowPerToken'
  <2> SUFFICES ASSUME NEW v \in Workers, NEW s \in Runs, Busy(v)',
                      outbox'[s].owner = worker'[v].owner
               PROVE  worker'[v].run = s /\ worker'[v].quote = outbox'[s].quote
    BY DEF OneRowPerToken
  <2>1. CASE v = w
    BY <1>3, <1>7, <1>8, <2>1
  <2>2. CASE v # w
    <3>1. worker'[v] = worker[v] /\ s # r
      BY <1>3, <1>7, <1>8, <2>2
    <3> QED
      BY <1>7, <3>1 DEF IInv, OneRowPerToken, Busy
  <2> QED
    BY <2>1, <2>2
<1>13. PinnedByOwner'
  BY <1>5, <1>6, <1>7, Zeros DEF PinnedByOwner
<1>14. RowsMatch'
  <2> SUFFICES ASSUME NEW s \in Runs PROVE RowMatches(s)'
    BY DEF RowsMatch
  <2>1. RowMatches(s)
    BY DEF IInv, RowsMatch
  <2> QED
    BY <1>4, <1>5, <1>7, <2>1 DEF RowMatches
<1>15. OneInDoubt'
  BY <1>4, <1>6 DEF IInv, OneInDoubt
<1>16. SentMatches'
  BY <1>4, <1>7 DEF IInv, SentMatches
<1>17. OneBroadcaster'
  BY <1>8 DEF IInv, OneBroadcaster, Broadcaster
<1>18. WorkersKnow'
  <2> SUFFICES ASSUME NEW v \in Workers PROVE WorkerKnows(v)'
    BY DEF WorkersKnow
  <2>1. CASE v = w
    BY <1>8, <2>1 DEF WorkerKnows, Broadcaster
  <2>2. CASE v # w
    <3>1. WorkerKnows(v) /\ worker'[v] = worker[v] /\ (Busy(v) => worker[v].run \in Runs)
      BY <1>8, <2>2 DEF IInv, WorkersKnow, WorkersAreBusyOrIdle
    <3> QED
      BY <1>4, <1>7, <3>1 DEF WorkerKnows, Broadcaster, Busy
  <2> QED
    BY <2>1, <2>2
<1>19. FailuresCount'
  <2>1. FailuresAreBounded'
    BY <1>7 DEF IInv, FailuresCount, FailuresAreBounded
  <2> SUFFICES ASSUME NEW v \in Workers PROVE OwnerCounts(v)'
    BY <2>1 DEF FailuresCount
  <2>2. CASE v = w
    BY <1>5, <1>7, <1>8, <2>2 DEF OwnerCounts
  <2>3. CASE v # w
    <3>1. OwnerCounts(v) /\ worker'[v] = worker[v] /\ (Busy(v) => worker[v].run \in Runs)
      BY <1>8, <2>3 DEF IInv, FailuresCount, WorkersAreBusyOrIdle
    <3>2. Busy(v)' /\ Owns(v)' => worker[v].run # r
      BY <1>3, <1>7, <3>1 DEF Owns
    <3> SUFFICES ASSUME Busy(v)', Owns(v)'
                 PROVE  IF worker'[v].hash = ""
                        THEN outbox'[worker'[v].run].failures < MaxFailures
                        ELSE outbox'[worker'[v].run].hash # ""
      BY DEF OwnerCounts
    <3>3. Busy(v) /\ worker[v].run \in Runs /\ worker[v].run # r
      BY <3>1, <3>2 DEF Busy
    <3>4. outbox'[worker[v].run] = outbox[worker[v].run]
      BY <1>7, <3>3
    <3>5. Owns(v)
      BY <3>1, <3>4 DEF Owns
    <3> QED
      BY <3>1, <3>3, <3>4, <3>5 DEF OwnerCounts
  <2> QED
    BY <2>2, <2>3
<1> QED
  BY <1>9, <1>10, <1>11, <1>12, <1>13, <1>14, <1>15, <1>16, <1>17, <1>18, <1>19 DEF IInv

-------------------------------------------------------------------------------
(* Steps of a worker that leave the tables alone, or only charge.          *)

LEMMA LookupFindsKeeps ==
    ASSUME IInv, NEW w \in Workers, LookupFinds(w)
    PROVE  IInv'
<1>1. MayGo(w, "confirm")
  BY DEF LookupFinds, MayGo, Busy
<1> QED
  BY <1>1, MovesKeep DEF LookupFinds

LEMMA LookupFindsNothingKeeps ==
    ASSUME IInv, NEW w \in Workers, LookupFindsNothing(w)
    PROVE  IInv'
<1>1. CASE Goes(w, "spend") /\ MayTry(w)
  <2>1. MayGo(w, "spend")
    BY <1>1 DEF LookupFindsNothing, MayGo, Busy, MayTry
  <2> QED
    BY <1>1, <2>1, MovesKeep DEF LookupFindsNothing
<1>2. CASE Goes(w, "fail")
  <2>1. MayGo(w, "fail")
    BY DEF LookupFindsNothing, MayGo, Busy
  <2> QED
    BY <1>2, <2>1, MovesKeep DEF LookupFindsNothing
<1> QED
  BY <1>1, <1>2 DEF LookupFindsNothing

LEMMA FailsKeeps ==
    ASSUME IInv, NEW w \in Workers, ReadbackFindsNothing(w) \/ Refused(w)
    PROVE  IInv'
<1>1. MayGo(w, "fail")
  BY DEF ReadbackFindsNothing, Refused, MayGo, Busy
<1>2. Goes(w, "fail") /\ UNCHANGED <<store, sent, anchored>>
  BY DEF ReadbackFindsNothing, Refused
<1> QED
  BY <1>1, <1>2, MovesKeep


LEMMA ReserveKeeps ==
    ASSUME IInv, NEW w \in Workers, Reserve(w)
    PROVE  IInv'
<1>1. PICK place \in {"intend", "fail"} : Goes(w, place)
  BY DEF Reserve
<1>2. worker \in [Workers -> Invocation] /\ place \in Places
  BY DEF IInv, TypeOK, Places
<1>3. /\ worker' \in [Workers -> Invocation]
      /\ worker'[w].at = place
      /\ worker'[w].owner = worker[w].owner
      /\ worker'[w].run = worker[w].run
      /\ worker'[w].quote = worker[w].quote
      /\ worker'[w].hash = worker[w].hash
      /\ \A v \in Workers : v # w => worker'[v] = worker[v]
  BY <1>1, <1>2, GoesEffect
<1>4. UNCHANGED <<runs, quotes, outbox, signer, sent, anchored>> /\ worker[w].at = "spend"
  BY DEF Reserve
<1>5. worker[w].hash = "" /\ worker[w].quote \in Quotes
  BY <1>4 DEF IInv, WorkersKnow, WorkerKnows, WorkersAreBusyOrIdle, Busy
<1>6. charged' = charged \cup {worker[w].quote} /\ attempts' \in 0..MaxAttempts
  <2>1. attempts' = attempts + 1 /\ attempts < MaxAttempts
    BY Zenon DEF Reserve, Chargeable
  <2>2. attempts \in 0..MaxAttempts
    BY DEF IInv, TypeOK
  <2>3. attempts' \in 0..MaxAttempts
    BY <2>1, <2>2, FreePlayAssumption
  <2> QED
    BY <2>3, Zenon DEF Reserve
<1>7. TypeOK'
  BY <1>3, <1>4, <1>5, <1>6 DEF IInv, TypeOK
<1>8. WorkersAreBusyOrIdle'
  BY <1>3, <1>4 DEF IInv, WorkersAreBusyOrIdle, Busy
<1>9. TokensDiffer' /\ OneRowPerToken'
  <2>1. \A v \in Workers : /\ Busy(v)' => Busy(v)
                          /\ worker'[v].owner = worker[v].owner
                          /\ worker'[v].run = worker[v].run
                          /\ worker'[v].quote = worker[v].quote
    BY <1>3, <1>4 DEF Busy
  <2>2. TokensDiffer'
    BY <2>1 DEF IInv, TokensDiffer
  <2>3. OneRowPerToken'
    BY <2>1, <1>4 DEF IInv, OneRowPerToken
  <2> QED
    BY <2>2, <2>3
<1>10. PinnedByOwner' /\ RowsMatch' /\ OneInDoubt'
  BY <1>4, Zenon DEF IInv, PinnedByOwner, RowsMatch, RowMatches, OneInDoubt
<1>11. SentMatches'
  BY <1>4, <1>6 DEF IInv, SentMatches
<1>12. OneBroadcaster'
  BY <1>1, <1>3 DEF IInv, OneBroadcaster, Broadcaster
<1>13. WorkersKnow'
  <2> SUFFICES ASSUME NEW v \in Workers PROVE WorkerKnows(v)'
    BY DEF WorkersKnow
  <2>1. CASE v = w
    BY <1>1, <1>3, <1>5, <1>6, <2>1 DEF WorkerKnows, Broadcaster
  <2>2. CASE v # w
    <3>1. WorkerKnows(v) /\ worker'[v] = worker[v]
      BY <1>3, <2>2 DEF IInv, WorkersKnow
    <3> QED
      BY <1>4, <1>6, <3>1 DEF WorkerKnows, Broadcaster
  <2> QED
    BY <2>1, <2>2
<1>14. FailuresCount'
  BY <1>3, <1>4 DEF IInv, FailuresCount, OwnerCounts, FailuresAreBounded, Busy, Owns
<1> QED
  BY <1>7, <1>8, <1>9, <1>10, <1>11, <1>12, <1>13, <1>14 DEF IInv

-------------------------------------------------------------------------------
(* The steps of a broadcast.                                               *)

(* A worker that owns a row without a broadcast is the only one that can   *)
(* put the marker there, and nobody has one for that run.                  *)
LEMMA UnmarkedIsQueued ==
    ASSUME IInv, NEW w \in Workers, Busy(w), Owns(w), outbox[worker[w].run].hash = ""
    PROVE  /\ worker[w].run \in Runs
           /\ worker[w].quote = outbox[worker[w].run].quote
           /\ runs[worker[w].run] = "queued"
           /\ sent[worker[w].run] = <<>>
           /\ outbox[worker[w].run].attempts = 0
<1>1. worker[w].run \in Runs /\ worker[w].owner # NoOwner
  BY FreePlayAssumption DEF IInv, WorkersAreBusyOrIdle
<1> DEFINE r == worker[w].run
<1>2. r \in Runs /\ outbox[r].owner = worker[w].owner /\ outbox[r].hash = ""
  BY <1>1 DEF Owns
<1> HIDE DEF r
<1>3. runs[r] \in Statuses /\ RowMatches(r)
  BY <1>2 DEF IInv, TypeOK, RowsMatch
<1>4. outbox[r] # NoRow
  <2>1. NoRow.owner = NoOwner
    BY DEF NoRow
  <2>2. worker[w].owner # NoOwner
    BY <1>1
  <2> QED
    BY <1>2, <2>1, <2>2, Zenon
<1>5. runs[r] = "queued" /\ outbox[r].attempts = 0
  BY <1>2, <1>3, <1>4 DEF Statuses, RowMatches
<1>6. sent[r] = <<>>
  BY <1>2, <1>5 DEF IInv, SentMatches
<1>7. worker[w].quote = outbox[r].quote
  BY <1>2 DEF IInv, OneRowPerToken
<1> QED
  BY <1>2, <1>5, <1>6, <1>7 DEF r

LEMMA ReserveBroadcastKeeps ==
    ASSUME IInv, NEW w \in Workers, ReserveBroadcast(w)
    PROVE  IInv'
<1>1. PICK r \in Runs : /\ r = worker[w].run
                        /\ worker[w].quote = outbox[r].quote
                        /\ runs[r] = "queued"
                        /\ sent[r] = <<>>
                        /\ outbox[r].attempts = 0
  BY UnmarkedIsQueued DEF ReserveBroadcast, MayIntend, Busy
<1>2. PICK place \in {"armed", "fail"} : Goes(w, place)
  BY DEF ReserveBroadcast
<1>3. /\ worker[w].at = "intend"
      /\ UNCHANGED <<quotes, attempts, charged, sent, anchored>>
      /\ signer.owner = worker[w].owner
      /\ signer.pending \in {NoRun, r}
      /\ outbox[r].owner = worker[w].owner
      /\ outbox[r].hash = ""
  BY <1>1 DEF ReserveBroadcast, MayIntend, OwnsSigner, Owns, PendingAllows
<1>4. /\ worker' \in [Workers -> Invocation]
      /\ worker'[w].at = place
      /\ worker'[w].owner = worker[w].owner
      /\ worker'[w].run = worker[w].run
      /\ worker'[w].quote = worker[w].quote
      /\ worker'[w].hash = worker[w].hash
      /\ \A v \in Workers : v # w => worker'[v] = worker[v]
  <2>1. worker \in [Workers -> Invocation] /\ place \in Places
    BY DEF IInv, TypeOK, Places
  <2> QED
    BY <1>2, <2>1, GoesEffect
<1>5. /\ signer' \in Signer
      /\ signer'.owner = signer.owner /\ signer'.pending = r
  BY <1>1 DEF ReserveBroadcast, IInv, TypeOK, Signer
<1>6. /\ outbox' \in [Runs -> Outbox]
      /\ outbox'[r].owner = outbox[r].owner
      /\ outbox'[r].quote = outbox[r].quote
      /\ outbox'[r].failures = outbox[r].failures
      /\ outbox'[r].hash = "unknown"
      /\ outbox'[r].attempts = 1
      /\ \A s \in Runs : s # r => outbox'[s] = outbox[s]
  <2> DEFINE row == [outbox[r] EXCEPT !.hash = "unknown", !.attempts = @ + 1]
  <2>1. outbox' = [outbox EXCEPT ![r] = row]
    BY <1>1 DEF ReserveBroadcast, IInv, TypeOK
  <2>2. outbox \in [Runs -> Outbox] /\ outbox[r] \in Outbox
    BY DEF IInv, TypeOK
  <2>3. /\ row \in Outbox
        /\ row.owner = outbox[r].owner /\ row.quote = outbox[r].quote
        /\ row.failures = outbox[r].failures
        /\ row.hash = "unknown" /\ row.attempts = 1
    <3>1. outbox[r].attempts + 1 = 1 /\ 1 \in Nat
      BY <1>1
    <3>2. row = [outbox[r] EXCEPT !.hash = "unknown", !.attempts = 1]
      BY <3>1
    <3> HIDE DEF row
    <3> QED
      BY <2>2, <3>2 DEF Outbox, Hashes
  <2> HIDE DEF row
  <2> QED
    BY <2>1, <2>2, <2>3
<1>7. /\ runs' \in [Runs -> Statuses]
      /\ runs'[r] = "submitted"
      /\ \A s \in Runs : s # r => runs'[s] = runs[s]
  BY <1>1 DEF ReserveBroadcast, IInv, TypeOK, Statuses
<1>8. TypeOK'
  BY <1>3, <1>4, <1>5, <1>6, <1>7 DEF IInv, TypeOK
<1>9. \A v \in Workers : /\ Busy(v)' <=> Busy(v)
                        /\ worker'[v].owner = worker[v].owner
                        /\ worker'[v].run = worker[v].run
                        /\ worker'[v].quote = worker[v].quote
                        /\ worker'[v].hash = worker[v].hash
  BY <1>3, <1>4 DEF Busy
<1>10. WorkersAreBusyOrIdle'
  BY <1>3, <1>4 DEF IInv, WorkersAreBusyOrIdle, Busy
<1>11. TokensDiffer'
  BY <1>9 DEF IInv, TokensDiffer
<1>12. OneRowPerToken'
  <2> SUFFICES ASSUME NEW v \in Workers, NEW s \in Runs, Busy(v)',
                      outbox'[s].owner = worker'[v].owner
               PROVE  worker'[v].run = s /\ worker'[v].quote = outbox'[s].quote
    BY DEF OneRowPerToken
  <2>1. outbox'[s].owner = outbox[s].owner /\ outbox'[s].quote = outbox[s].quote
    BY <1>6
  <2>2. Busy(v) /\ outbox[s].owner = worker[v].owner
    BY <1>9, <2>1
  <2> QED
    BY <1>9, <2>1, <2>2 DEF IInv, OneRowPerToken
<1>13. PinnedByOwner'
  BY <1>3, <1>5, <1>6 DEF PinnedByOwner
<1>14. RowsMatch'
  <2> SUFFICES ASSUME NEW s \in Runs PROVE RowMatches(s)'
    BY DEF RowsMatch
  <2>1. RowMatches(s)
    BY DEF IInv, RowsMatch
  <2>2. CASE s = r
    BY <1>1, <1>3, <1>6, <1>7, <2>1, <2>2 DEF RowMatches
  <2>3. CASE s # r
    BY <1>3, <1>6, <1>7, <2>1, <2>3 DEF RowMatches
  <2> QED
    BY <2>2, <2>3
<1>15. OneInDoubt'
  BY <1>1, <1>3, <1>5, <1>7, Zeros DEF IInv, OneInDoubt
<1>16. SentMatches'
  <2> SUFFICES ASSUME NEW s \in Runs
               PROVE  /\ sent'[s] # <<>> =>
                            /\ runs'[s] \in {"submitted", "confirmed"}
                            /\ sent'[s] = <<outbox'[s].quote>> /\ outbox'[s].quote \in charged'
                      /\ s \in anchored' => sent'[s] # <<>>
                      /\ runs'[s] = "confirmed" => s \in anchored'
    BY DEF SentMatches
  <2>1. CASE s = r
    BY <1>1, <1>3, <1>7, <2>1 DEF IInv, SentMatches
  <2>2. CASE s # r
    BY <1>3, <1>6, <1>7, <2>2 DEF IInv, SentMatches
  <2> QED
    BY <2>1, <2>2
<1>17. \A v \in Workers : Broadcaster(v) => worker[v].run # r
  BY <1>1 DEF IInv, WorkersKnow, WorkerKnows
<1>18. OneBroadcaster'
  <2> SUFFICES ASSUME NEW u \in Workers, NEW v \in Workers, Broadcaster(u)', Broadcaster(v)',
                      worker'[u].run = worker'[v].run
               PROVE  u = v
    BY DEF OneBroadcaster
  <2>1. \A x \in Workers : x # w => (Broadcaster(x)' <=> Broadcaster(x))
    BY <1>4 DEF Broadcaster
  <2> QED
    BY <1>1, <1>9, <1>17, <2>1 DEF IInv, OneBroadcaster
<1>19. WorkersKnow'
  <2> SUFFICES ASSUME NEW v \in Workers PROVE WorkerKnows(v)'
    BY DEF WorkersKnow
  <2>1. WorkerKnows(v) /\ (Busy(v) => worker[v].run \in Runs)
    BY DEF IInv, WorkersKnow, WorkersAreBusyOrIdle
  <2>2. CASE v = w
    BY <1>1, <1>2, <1>3, <1>4, <1>6, <1>7, <2>1, <2>2 DEF WorkerKnows, Broadcaster
  <2>3. CASE v # w
    <3>1. worker'[v] = worker[v]
      BY <1>4, <2>3
    <3> QED
      BY <1>3, <1>6, <1>7, <1>17, <2>1, <3>1 DEF WorkerKnows, Broadcaster, Busy
  <2> QED
    BY <2>2, <2>3
<1>20. FailuresCount'
  <2>1. FailuresAreBounded'
    BY <1>6 DEF IInv, FailuresCount, FailuresAreBounded
  <2> SUFFICES ASSUME NEW v \in Workers, Busy(v)', Owns(v)'
               PROVE  IF worker'[v].hash = ""
                      THEN outbox'[worker'[v].run].failures < MaxFailures
                      ELSE outbox'[worker'[v].run].hash # ""
    BY <2>1 DEF FailuresCount, OwnerCounts
  <2>2. PICK s \in Runs : s = worker[v].run
    BY <1>9 DEF IInv, WorkersAreBusyOrIdle
  <2>3. /\ outbox'[s].owner = outbox[s].owner
        /\ outbox'[s].failures = outbox[s].failures
        /\ outbox[s].hash # "" => outbox'[s].hash # ""
    BY <1>6
  <2>4. Busy(v) /\ Owns(v) /\ OwnerCounts(v)
    BY <1>9, <2>2, <2>3 DEF Owns, IInv, FailuresCount
  <2> QED
    BY <1>9, <2>2, <2>3, <2>4 DEF OwnerCounts
<1> QED
  BY <1>8, <1>10, <1>11, <1>12, <1>13, <1>14, <1>15, <1>16, <1>18, <1>19, <1>20 DEF IInv


LEMMA CancelKeeps ==
    ASSUME IInv, NEW w \in Workers, CancelUnsentBroadcast(w)
    PROVE  IInv'
<1>1. PICK r \in Runs : r = worker[w].run
  BY DEF IInv, WorkersAreBusyOrIdle, Busy, CancelUnsentBroadcast
<1>2. /\ worker[w].at = "armed"
      /\ UNCHANGED <<quotes, attempts, charged, sent, anchored>>
      /\ outbox[r].owner = worker[w].owner
      /\ Goes(w, "fail")
  BY <1>1 DEF CancelUnsentBroadcast, MayCancel, Owns
<1>3. sent[r] = <<>> /\ worker[w].hash = "" /\ runs[r] = "submitted"
  <2>1. sent[r] = <<>> /\ worker[w].hash = "" /\ runs[r] \in {"submitted", "confirmed"}
    BY <1>1, <1>2 DEF IInv, WorkersKnow, WorkerKnows, Broadcaster
  <2> QED
    BY <2>1 DEF IInv, SentMatches
<1>4. /\ worker' \in [Workers -> Invocation]
      /\ worker'[w].at = "fail"
      /\ worker'[w].owner = worker[w].owner
      /\ worker'[w].run = worker[w].run
      /\ worker'[w].quote = worker[w].quote
      /\ worker'[w].hash = worker[w].hash
      /\ \A v \in Workers : v # w => worker'[v] = worker[v]
  <2>1. worker \in [Workers -> Invocation] /\ "fail" \in Places
    BY DEF IInv, TypeOK, Places
  <2> QED
    BY <1>2, <2>1, GoesEffect
<1>5. signer' \in Signer /\ signer'.pending = NoRun
  BY DEF CancelUnsentBroadcast, IInv, TypeOK, Signer
<1>6. /\ outbox' \in [Runs -> Outbox]
      /\ outbox'[r].owner = outbox[r].owner
      /\ outbox'[r].quote = outbox[r].quote
      /\ outbox'[r].failures = outbox[r].failures
      /\ outbox'[r].hash = ""
      /\ outbox'[r].attempts = 0
      /\ \A s \in Runs : s # r => outbox'[s] = outbox[s]
  <2> DEFINE row == [outbox[r] EXCEPT !.hash = "", !.attempts = 0]
  <2>1. outbox \in [Runs -> Outbox] /\ outbox[r] \in Outbox
    BY DEF IInv, TypeOK
  <2>2. outbox' = [outbox EXCEPT ![r] = row]
    BY <1>1, <2>1 DEF CancelUnsentBroadcast
  <2>3. /\ row \in Outbox
        /\ row.owner = outbox[r].owner /\ row.quote = outbox[r].quote
        /\ row.failures = outbox[r].failures
        /\ row.hash = "" /\ row.attempts = 0
    BY <2>1 DEF Outbox, Hashes
  <2> HIDE DEF row
  <2> QED
    BY <2>1, <2>2, <2>3
<1>7. /\ runs' \in [Runs -> Statuses]
      /\ runs'[r] = "queued"
      /\ \A s \in Runs : s # r => runs'[s] = runs[s]
  BY <1>1, <1>3 DEF CancelUnsentBroadcast, IInv, TypeOK, Statuses
<1>8. TypeOK'
  BY <1>2, <1>4, <1>5, <1>6, <1>7 DEF IInv, TypeOK
<1>9. \A v \in Workers : /\ Busy(v)' <=> Busy(v)
                        /\ worker'[v].owner = worker[v].owner
                        /\ worker'[v].run = worker[v].run
                        /\ worker'[v].quote = worker[v].quote
                        /\ worker'[v].hash = worker[v].hash
  BY <1>2, <1>4 DEF Busy
<1>10. WorkersAreBusyOrIdle'
  BY <1>2, <1>4 DEF IInv, WorkersAreBusyOrIdle, Busy
<1>11. TokensDiffer'
  BY <1>9 DEF IInv, TokensDiffer
<1>12. OneRowPerToken'
  <2> SUFFICES ASSUME NEW v \in Workers, NEW s \in Runs, Busy(v)',
                      outbox'[s].owner = worker'[v].owner
               PROVE  worker'[v].run = s /\ worker'[v].quote = outbox'[s].quote
    BY DEF OneRowPerToken
  <2>1. outbox'[s].owner = outbox[s].owner /\ outbox'[s].quote = outbox[s].quote
    BY <1>6
  <2>2. Busy(v) /\ outbox[s].owner = worker[v].owner
    BY <1>9, <2>1
  <2> QED
    BY <1>9, <2>1, <2>2 DEF IInv, OneRowPerToken
<1>13. PinnedByOwner'
  BY <1>5, Zeros DEF PinnedByOwner
<1>14. RowsMatch'
  <2> SUFFICES ASSUME NEW s \in Runs PROVE RowMatches(s)'
    BY DEF RowsMatch
  <2>1. RowMatches(s)
    BY DEF IInv, RowsMatch
  <2>2. CASE s = r
    BY <1>2, <1>3, <1>6, <1>7, <2>1, <2>2 DEF RowMatches
  <2>3. CASE s # r
    BY <1>2, <1>6, <1>7, <2>1, <2>3 DEF RowMatches
  <2> QED
    BY <2>2, <2>3
<1>15. OneInDoubt'
  BY <1>3, <1>5, <1>7, Zeros DEF IInv, OneInDoubt
<1>16. SentMatches'
  <2> SUFFICES ASSUME NEW s \in Runs
               PROVE  /\ sent'[s] # <<>> =>
                            /\ runs'[s] \in {"submitted", "confirmed"}
                            /\ sent'[s] = <<outbox'[s].quote>> /\ outbox'[s].quote \in charged'
                      /\ s \in anchored' => sent'[s] # <<>>
                      /\ runs'[s] = "confirmed" => s \in anchored'
    BY DEF SentMatches
  <2>1. CASE s = r
    BY <1>2, <1>3, <1>7, <2>1 DEF IInv, SentMatches
  <2>2. CASE s # r
    BY <1>2, <1>6, <1>7, <2>2 DEF IInv, SentMatches
  <2> QED
    BY <2>1, <2>2
<1>17. OneBroadcaster'
  BY <1>4 DEF IInv, OneBroadcaster, Broadcaster
<1>18. WorkersKnow'
  <2> SUFFICES ASSUME NEW v \in Workers PROVE WorkerKnows(v)'
    BY DEF WorkersKnow
  <2>1. WorkerKnows(v) /\ (Busy(v) => worker[v].run \in Runs)
    BY DEF IInv, WorkersKnow, WorkersAreBusyOrIdle
  <2>2. CASE v = w
    BY <1>4, <2>2 DEF WorkerKnows, Broadcaster
  <2>3. CASE v # w
    <3>1. worker'[v] = worker[v]
      BY <1>4, <2>3
    <3>2. Broadcaster(v) => worker[v].run # r
      BY <1>1, <1>2, <2>3 DEF IInv, OneBroadcaster, Broadcaster
    <3> QED
      BY <1>2, <1>6, <1>7, <2>1, <3>1, <3>2 DEF WorkerKnows, Broadcaster, Busy
  <2> QED
    BY <2>2, <2>3
<1>19. FailuresCount'
  <2>1. FailuresAreBounded'
    BY <1>6 DEF IInv, FailuresCount, FailuresAreBounded
  <2> SUFFICES ASSUME NEW v \in Workers, Busy(v)', Owns(v)'
               PROVE  IF worker'[v].hash = ""
                      THEN outbox'[worker'[v].run].failures < MaxFailures
                      ELSE outbox'[worker'[v].run].hash # ""
    BY <2>1 DEF FailuresCount, OwnerCounts
  <2>2. PICK s \in Runs : s = worker[v].run
    BY <1>9 DEF IInv, WorkersAreBusyOrIdle
  <2>3. /\ outbox'[s].owner = outbox[s].owner
        /\ outbox'[s].failures = outbox[s].failures
        /\ s # r => outbox'[s].hash = outbox[s].hash
    BY <1>6
  <2>4. Busy(v) /\ Owns(v) /\ OwnerCounts(v)
    BY <1>9, <2>2, <2>3 DEF Owns, IInv, FailuresCount
  <2>5. s = r => v = w
    BY <1>2, <2>2, <2>4 DEF Owns, Busy, IInv, TokensDiffer
  <2> QED
    BY <1>3, <1>9, <2>2, <2>3, <2>4, <2>5 DEF OwnerCounts
<1> QED
  BY <1>8, <1>10, <1>11, <1>12, <1>13, <1>14, <1>15, <1>16, <1>17, <1>18, <1>19 DEF IInv

LEMMA AnchorKeeps ==
    ASSUME IInv, NEW w \in Workers, Anchor(w)
    PROVE  IInv'
<1>1. PICK r \in Runs : r = worker[w].run
  BY DEF IInv, WorkersAreBusyOrIdle, Busy, Anchor
<1>2. PICK place \in {"unsure", "save"} : Goes(w, place)
  BY DEF Anchor
<1>3. /\ worker[w].at = "armed"
      /\ UNCHANGED <<runs, quotes, outbox, signer, attempts, charged, anchored>>
  BY DEF Anchor, store
<1>4. /\ worker[w].quote = outbox[r].quote /\ worker[w].quote \in charged
      /\ worker[w].quote \in Quotes
      /\ sent[r] = <<>> /\ worker[w].hash = ""
      /\ runs[r] \in {"submitted", "confirmed"}
  BY <1>1, <1>3 DEF IInv, WorkersKnow, WorkerKnows, WorkersAreBusyOrIdle, Busy, Broadcaster
<1>5. /\ worker' \in [Workers -> Invocation]
      /\ worker'[w].at = place
      /\ worker'[w].owner = worker[w].owner
      /\ worker'[w].run = worker[w].run
      /\ worker'[w].quote = worker[w].quote
      /\ worker'[w].hash = worker[w].hash
      /\ \A v \in Workers : v # w => worker'[v] = worker[v]
  <2>1. worker \in [Workers -> Invocation] /\ place \in Places
    BY DEF IInv, TypeOK, Places
  <2> QED
    BY <1>2, <2>1, GoesEffect
<1>6. /\ sent' \in [Runs -> Seq(Quotes)]
      /\ sent'[r] \in {<<>>, <<worker[w].quote>>}
      /\ \A s \in Runs : s # r => sent'[s] = sent[s]
  <2>1. CASE UNCHANGED sent
    BY <1>4, <2>1 DEF IInv, TypeOK
  <2>2. CASE sent' = [sent EXCEPT ![r] = Append(@, worker[w].quote)]
    <3> DEFINE q == worker[w].quote
    <3>1. q \in Quotes
      BY <1>4
    <3> HIDE DEF q
    <3>2. Append(<<>>, q) = <<q>> /\ <<q>> \in Seq(Quotes)
      BY <3>1
    <3>3. sent \in [Runs -> Seq(Quotes)]
      BY DEF IInv, TypeOK
    <3>4. sent' = [sent EXCEPT ![r] = <<q>>]
      BY <1>4, <2>2, <3>2, <3>3 DEF q
    <3> QED
      BY <3>2, <3>3, <3>4 DEF q
  <2> QED
    BY <1>1, <2>1, <2>2 DEF Anchor
<1>7. TypeOK'
  BY <1>3, <1>5, <1>6 DEF IInv, TypeOK
<1>8. \A v \in Workers : /\ Busy(v)' <=> Busy(v)
                        /\ worker'[v].owner = worker[v].owner
                        /\ worker'[v].run = worker[v].run
                        /\ worker'[v].quote = worker[v].quote
                        /\ worker'[v].hash = worker[v].hash
  BY <1>2, <1>3, <1>5 DEF Busy
<1>9. WorkersAreBusyOrIdle'
  BY <1>3, <1>5 DEF IInv, WorkersAreBusyOrIdle, Busy
<1>10. TokensDiffer'
  BY <1>8 DEF IInv, TokensDiffer
<1>11. OneRowPerToken'
  BY <1>3, <1>8 DEF IInv, OneRowPerToken
<1>12. PinnedByOwner' /\ RowsMatch' /\ OneInDoubt'
  BY <1>3, Zenon DEF IInv, PinnedByOwner, RowsMatch, RowMatches, OneInDoubt
<1>13. SentMatches'
  <2> SUFFICES ASSUME NEW s \in Runs
               PROVE  /\ sent'[s] # <<>> =>
                            /\ runs'[s] \in {"submitted", "confirmed"}
                            /\ sent'[s] = <<outbox'[s].quote>> /\ outbox'[s].quote \in charged'
                      /\ s \in anchored' => sent'[s] # <<>>
                      /\ runs'[s] = "confirmed" => s \in anchored'
    BY DEF SentMatches
  <2>1. CASE s = r
    <3>1. r \notin anchored
      BY <1>4 DEF IInv, SentMatches
    <3>2. runs[r] = "confirmed" => r \in anchored
      BY DEF IInv, SentMatches
    <3> QED
      BY <1>3, <1>4, <1>6, <2>1, <3>1, <3>2
  <2>2. CASE s # r
    BY <1>3, <1>6, <2>2 DEF IInv, SentMatches
  <2> QED
    BY <2>1, <2>2
<1>14. OneBroadcaster'
  BY <1>2, <1>3, <1>5 DEF IInv, OneBroadcaster, Broadcaster
<1>15. WorkersKnow'
  <2> SUFFICES ASSUME NEW v \in Workers PROVE WorkerKnows(v)'
    BY DEF WorkersKnow
  <2>1. WorkerKnows(v) /\ (Busy(v) => worker[v].run \in Runs)
    BY DEF IInv, WorkersKnow, WorkersAreBusyOrIdle
  <2>2. CASE v = w
    BY <1>1, <1>2, <1>3, <1>4, <1>5, <2>2 DEF WorkerKnows, Broadcaster
  <2>3. CASE v # w
    <3>1. worker'[v] = worker[v]
      BY <1>5, <2>3
    <3>2. Broadcaster(v) => worker[v].run # r
      BY <1>1, <1>3, <2>3 DEF IInv, OneBroadcaster, Broadcaster
    <3> QED
      BY <1>3, <1>6, <2>1, <3>1, <3>2 DEF WorkerKnows, Broadcaster, Busy
  <2> QED
    BY <2>2, <2>3
<1>16. FailuresCount'
  BY <1>2, <1>3, <1>5 DEF IInv, FailuresCount, OwnerCounts, FailuresAreBounded, Busy, Owns
<1> QED
  BY <1>7, <1>9, <1>10, <1>11, <1>12, <1>13, <1>14, <1>15, <1>16 DEF IInv


LEMMA SaveBroadcastHashKeeps ==
    ASSUME IInv, NEW w \in Workers, SaveBroadcastHash(w)
    PROVE  IInv'
<1>1. PICK r \in Runs : r = worker[w].run
  BY DEF IInv, WorkersAreBusyOrIdle, Busy, SaveBroadcastHash
<1>2. /\ worker[w].at = "save"
      /\ outbox[r].owner = worker[w].owner /\ outbox[r].hash = "unknown"
      /\ outbox' = [outbox EXCEPT ![r].hash = "hash"]
      /\ worker' = [worker EXCEPT ![w].at = "readback", ![w].hash = "hash"]
      /\ UNCHANGED <<runs, quotes, signer, attempts, charged, sent, anchored>>
  BY <1>1 DEF SaveBroadcastHash, Owns
<1>3. runs[r] \in {"submitted", "confirmed"}
  BY <1>1, <1>2 DEF IInv, WorkersKnow, WorkerKnows, Broadcaster
<1>4. /\ worker' \in [Workers -> Invocation]
      /\ worker'[w].at = "readback" /\ worker'[w].hash = "hash"
      /\ worker'[w].owner = worker[w].owner
      /\ worker'[w].run = worker[w].run
      /\ worker'[w].quote = worker[w].quote
      /\ \A v \in Workers : v # w => worker'[v] = worker[v]
  <2> DEFINE call == [worker[w] EXCEPT !.at = "readback", !.hash = "hash"]
  <2>1. worker \in [Workers -> Invocation] /\ worker[w] \in Invocation
    BY DEF IInv, TypeOK
  <2>2. worker' = [worker EXCEPT ![w] = call]
    BY <1>2, <2>1
  <2>3. /\ call \in Invocation
        /\ call.at = "readback" /\ call.hash = "hash"
        /\ call.owner = worker[w].owner /\ call.run = worker[w].run
        /\ call.quote = worker[w].quote
    BY <2>1 DEF Invocation, Places, Hashes
  <2> HIDE DEF call
  <2> QED
    BY <2>1, <2>2, <2>3
<1>5. /\ outbox' \in [Runs -> Outbox]
      /\ outbox'[r].owner = outbox[r].owner
      /\ outbox'[r].quote = outbox[r].quote
      /\ outbox'[r].failures = outbox[r].failures
      /\ outbox'[r].attempts = outbox[r].attempts
      /\ outbox'[r].hash = "hash"
      /\ \A s \in Runs : s # r => outbox'[s] = outbox[s]
  BY <1>2 DEF IInv, TypeOK, Outbox, Hashes
<1>6. TypeOK'
  BY <1>2, <1>4, <1>5 DEF IInv, TypeOK
<1>7. WorkersAreBusyOrIdle'
  BY <1>2, <1>4 DEF IInv, WorkersAreBusyOrIdle, Busy
<1>8. \A v \in Workers : /\ Busy(v)' <=> Busy(v)
                        /\ worker'[v].owner = worker[v].owner
                        /\ worker'[v].run = worker[v].run
                        /\ worker'[v].quote = worker[v].quote
  BY <1>2, <1>4 DEF Busy
<1>9. TokensDiffer'
  BY <1>8 DEF IInv, TokensDiffer
<1>10. OneRowPerToken'
  <2> SUFFICES ASSUME NEW v \in Workers, NEW s \in Runs, Busy(v)',
                      outbox'[s].owner = worker'[v].owner
               PROVE  worker'[v].run = s /\ worker'[v].quote = outbox'[s].quote
    BY DEF OneRowPerToken
  <2>1. outbox'[s].owner = outbox[s].owner /\ outbox'[s].quote = outbox[s].quote
    BY <1>5
  <2>2. Busy(v) /\ outbox[s].owner = worker[v].owner
    BY <1>8, <2>1
  <2> QED
    BY <1>8, <2>1, <2>2 DEF IInv, OneRowPerToken
<1>11. PinnedByOwner'
  BY <1>2, <1>5 DEF IInv, PinnedByOwner
<1>12. RowsMatch'
  <2> SUFFICES ASSUME NEW s \in Runs PROVE RowMatches(s)'
    BY DEF RowsMatch
  <2>1. RowMatches(s)
    BY DEF IInv, RowsMatch
  <2>2. CASE s = r
    BY <1>2, <1>3, <1>5, <2>1, <2>2 DEF RowMatches
  <2>3. CASE s # r
    BY <1>2, <1>5, <2>1, <2>3 DEF RowMatches
  <2> QED
    BY <2>2, <2>3
<1>13. OneInDoubt'
  BY <1>2, Zenon DEF IInv, OneInDoubt
<1>14. SentMatches'
  <2>1. \A s \in Runs : outbox'[s].quote = outbox[s].quote
    BY <1>5
  <2> QED
    BY <1>2, <2>1 DEF IInv, SentMatches
<1>15. OneBroadcaster'
  BY <1>2, <1>4 DEF IInv, OneBroadcaster, Broadcaster
<1>16. WorkersKnow'
  <2> SUFFICES ASSUME NEW v \in Workers PROVE WorkerKnows(v)'
    BY DEF WorkersKnow
  <2>1. WorkerKnows(v) /\ (Busy(v) => worker[v].run \in Runs)
    BY DEF IInv, WorkersKnow, WorkersAreBusyOrIdle
  <2>2. CASE v = w
    BY <1>1, <1>2, <1>3, <1>4, <2>2 DEF WorkerKnows, Broadcaster
  <2>3. CASE v # w
    <3>1. worker'[v] = worker[v]
      BY <1>4, <2>3
    <3>2. \A s \in Runs : outbox'[s].quote = outbox[s].quote
      BY <1>5
    <3>3. UNCHANGED <<runs, charged, sent, anchored>>
      BY <1>2
    <3> QED
      BY <2>1, <3>1, <3>2, <3>3 DEF WorkerKnows, Broadcaster, Busy
  <2> QED
    BY <2>2, <2>3
<1>17. FailuresCount'
  <2>1. FailuresAreBounded'
    BY <1>5 DEF IInv, FailuresCount, FailuresAreBounded
  <2> SUFFICES ASSUME NEW v \in Workers, Busy(v)', Owns(v)'
               PROVE  IF worker'[v].hash = ""
                      THEN outbox'[worker'[v].run].failures < MaxFailures
                      ELSE outbox'[worker'[v].run].hash # ""
    BY <2>1 DEF FailuresCount, OwnerCounts
  <2>2. PICK s \in Runs : s = worker[v].run
    BY <1>8 DEF IInv, WorkersAreBusyOrIdle
  <2>3. /\ outbox'[s].owner = outbox[s].owner
        /\ outbox'[s].failures = outbox[s].failures
        /\ outbox[s].hash # "" => outbox'[s].hash # ""
    BY <1>5
  <2>4. Busy(v) /\ Owns(v) /\ OwnerCounts(v)
    BY <1>8, <2>2, <2>3 DEF Owns, IInv, FailuresCount
  <2>5. CASE v = w
    BY <1>1, <1>4, <1>5, <2>5
  <2>6. CASE v # w
    BY <1>4, <2>2, <2>3, <2>4, <2>6 DEF OwnerCounts
  <2> QED
    BY <2>5, <2>6
<1> QED
  BY <1>6, <1>7, <1>9, <1>10, <1>11, <1>12, <1>13, <1>14, <1>15, <1>16, <1>17 DEF IInv

-------------------------------------------------------------------------------
(* The steps that end an invocation with a write.                          *)

LEMMA ReturnedWorkers ==
    ASSUME IInv, NEW w \in Workers, Returns(w)
    PROVE  /\ worker' \in [Workers -> Invocation]
           /\ worker'[w].at = "idle"
           /\ \A v \in Workers : v # w => worker'[v] = worker[v]
           /\ WorkersAreBusyOrIdle' /\ TokensDiffer' /\ OneBroadcaster'
<1>1. worker \in [Workers -> Invocation]
  BY DEF IInv, TypeOK
<1>2. /\ worker' \in [Workers -> Invocation]
      /\ worker'[w] = Idle
      /\ \A v \in Workers : v # w => worker'[v] = worker[v]
  BY <1>1, ReturnsEffect
<1>3. worker'[w].at = "idle"
  BY <1>2, IdleIsIdle
<1>4. WorkersAreBusyOrIdle'
  BY <1>2, <1>3 DEF IInv, WorkersAreBusyOrIdle, Busy
<1>5. TokensDiffer' /\ OneBroadcaster'
  BY <1>2, <1>3 DEF IInv, TokensDiffer, OneBroadcaster, Busy, Broadcaster
<1> QED
  BY <1>2, <1>3, <1>4, <1>5

LEMMA DelayIsNat ==
    ASSUME NEW n \in Nat
    PROVE  CheckDelay(n) \in Nat
<1>1. CheckDelays \in Seq(Nat) /\ CheckDelays # <<>>
  BY FreePlayAssumption
<1>2. Len(CheckDelays) \in Nat /\ Len(CheckDelays) # 0
  BY <1>1
<1> QED
  BY <1>1, <1>2 DEF CheckDelay

LEMMA PollsAdvance ==
    ASSUME NEW n \in Polls
    PROVE  /\ n \in Nat
           /\ n < Len(CheckDelays) => n + 1 \in Polls
<1>1. PICK length \in Nat : length = Len(CheckDelays)
  BY FreePlayAssumption
<1>2. Polls = 0..length
  BY <1>1 DEF Polls
<1> QED
  BY <1>1, <1>2


LEMMA SaveAttemptKeeps ==
    ASSUME IInv, NEW w \in Workers, SaveAttempt(w)
    PROVE  IInv'
<1> DEFINE unsure == worker[w].at = "unsure"
<1>1. PICK r \in Runs : r = worker[w].run
  BY DEF IInv, WorkersAreBusyOrIdle, Busy, SaveAttempt
<1>2. PICK row : row = AfterAttempt(outbox[r], worker[w].hash, unsure)
  OBVIOUS
<1>3. /\ worker[w].at \in {"fail", "unsure"}
      /\ outbox[r].owner = worker[w].owner
      /\ outbox' = [outbox EXCEPT ![r] = row]
      /\ signer' = SignerReleased(w)
      /\ Returns(w)
      /\ UNCHANGED <<runs, quotes, attempts, charged, sent, anchored>>
  BY <1>1, <1>2 DEF SaveAttempt, Owns, IInv, TypeOK
<1>4. outbox \in [Runs -> Outbox] /\ outbox[r] \in Outbox
  BY DEF IInv, TypeOK
<1>5. unsure => outbox[r].hash # ""
  <2>1. unsure => runs[r] \in {"submitted", "confirmed"}
    BY <1>1 DEF IInv, WorkersKnow, WorkerKnows, Broadcaster
  <2> QED
    BY <2>1 DEF IInv, RowsMatch, RowMatches
<1>6. outbox[r].hash = "" => outbox[r].failures < MaxFailures
  BY <1>1, <1>3 DEF IInv, FailuresCount, OwnerCounts, Busy, Owns
<1>7. /\ row.owner = outbox[r].owner
      /\ row.quote = outbox[r].quote
      /\ row.attempts = outbox[r].attempts
      /\ row.hash = IF unsure THEN "unknown" ELSE outbox[r].hash
      /\ row.failures = IF outbox[r].hash = "" THEN outbox[r].failures + 1
                                              ELSE outbox[r].failures
  BY <1>2, <1>4, <1>5 DEF AfterAttempt, Outbox
<1>8. row \in Outbox
  <2> DEFINE inDoubt == outbox[r].hash # "" \/ unsure
             pending == worker[w].hash # "" \/ unsure
             hash == IF unsure THEN "unknown" ELSE outbox[r].hash
             polls == IF inDoubt /\ outbox[r].polls < Len(CheckDelays)
                      THEN outbox[r].polls + 1 ELSE outbox[r].polls
             failures == IF inDoubt THEN outbox[r].failures ELSE outbox[r].failures + 1
             wait == CheckDelay(IF pending THEN outbox[r].polls ELSE outbox[r].failures)
  <2>1. row = [outbox[r] EXCEPT !.hash = hash, !.polls = polls, !.failures = failures,
                                !.wait = wait, !.left = 0]
    BY <1>2, <1>4 DEF AfterAttempt, Outbox
  <2>2. hash \in Hashes
    BY <1>4 DEF Outbox, Hashes
  <2>3. outbox[r].polls \in Polls /\ outbox[r].failures \in Nat
    BY <1>4 DEF Outbox
  <2>4. polls \in Polls /\ failures \in Nat
    <3>1. polls \in Polls
      <4>1. CASE inDoubt /\ outbox[r].polls < Len(CheckDelays)
        BY <2>3, <4>1, PollsAdvance
      <4>2. CASE ~(inDoubt /\ outbox[r].polls < Len(CheckDelays))
        BY <2>3, <4>2
      <4> QED
        BY <4>1, <4>2
    <3>2. failures \in {outbox[r].failures, outbox[r].failures + 1}
      OBVIOUS
    <3> HIDE DEF polls, failures
    <3> QED
      BY <2>3, <3>1, <3>2
  <2>5. wait \in Nat
    <3>1. outbox[r].polls \in Nat
      BY <2>3, PollsAdvance
    <3> QED
      BY <2>3, <3>1, DelayIsNat
  <2> HIDE DEF hash, polls, failures, wait
  <2> QED
    BY <1>4, <2>1, <2>2, <2>4, <2>5 DEF Outbox
<1>9. /\ outbox' \in [Runs -> Outbox]
      /\ outbox'[r] = row
      /\ \A s \in Runs : s # r => outbox'[s] = outbox[s]
  BY <1>3, <1>4, <1>8
<1>10. /\ signer' \in Signer
       /\ signer'.owner = signer.owner /\ signer'.pending = signer.pending
  BY <1>3 DEF SignerReleased, IInv, TypeOK, Signer
<1> HIDE DEF unsure
<1>11. /\ worker' \in [Workers -> Invocation]
       /\ worker'[w].at = "idle"
       /\ \A v \in Workers : v # w => worker'[v] = worker[v]
       /\ WorkersAreBusyOrIdle' /\ TokensDiffer' /\ OneBroadcaster'
  BY <1>3, ReturnedWorkers
<1>12. UNCHANGED <<runs, quotes, attempts, charged, sent, anchored>>
  BY <1>3
<1>13. TypeOK'
  BY <1>9, <1>10, <1>11, <1>12 DEF IInv, TypeOK
<1>14. \A s \in Runs : /\ outbox'[s].owner = outbox[s].owner
                      /\ outbox'[s].quote = outbox[s].quote
                      /\ outbox'[s].attempts = outbox[s].attempts
  BY <1>7, <1>9
<1>15. OneRowPerToken'
  BY <1>11, <1>14 DEF IInv, OneRowPerToken, Busy
<1>16. PinnedByOwner'
  BY <1>10, <1>14 DEF IInv, PinnedByOwner
<1>17. RowsMatch'
  <2> SUFFICES ASSUME NEW s \in Runs PROVE RowMatches(s)'
    BY DEF RowsMatch
  <2>1. RowMatches(s)
    BY DEF IInv, RowsMatch
  <2>2. CASE s = r
    <3>1. runs[r] \notin {"none", "verified"}
      <4>1. NoRow.owner = NoOwner /\ worker[w].owner \in Tokens
        BY <1>3 DEF NoRow, IInv, WorkersAreBusyOrIdle, Busy
      <4> QED
        BY <1>3, <2>1, <2>2, <4>1, FreePlayAssumption DEF RowMatches
    <3> QED
      BY <1>5, <1>7, <1>9, <1>12, <2>1, <2>2, <3>1 DEF RowMatches
  <2>3. CASE s # r
    BY <1>9, <1>12, <2>1, <2>3 DEF RowMatches
  <2> QED
    BY <2>2, <2>3
<1>18. OneInDoubt'
  BY <1>10, <1>12 DEF IInv, OneInDoubt
<1>19. SentMatches'
  BY <1>12, <1>14 DEF IInv, SentMatches
<1>20. WorkersKnow'
  <2> SUFFICES ASSUME NEW v \in Workers PROVE WorkerKnows(v)'
    BY DEF WorkersKnow
  <2>1. CASE v = w
    BY <1>11, <2>1 DEF WorkerKnows, Broadcaster
  <2>2. CASE v # w
    <3>1. WorkerKnows(v) /\ (Busy(v) => worker[v].run \in Runs) /\ worker'[v] = worker[v]
      BY <1>11, <2>2 DEF IInv, WorkersKnow, WorkersAreBusyOrIdle
    <3> QED
      BY <1>12, <1>14, <3>1 DEF WorkerKnows, Broadcaster, Busy
  <2> QED
    BY <2>1, <2>2
<1>21. FailuresCount'
  <2>1. FailuresAreBounded'
    <3>1. outbox[r].failures \in Nat /\ outbox[r].failures <= MaxFailures
      BY <1>4 DEF Outbox, IInv, FailuresCount, FailuresAreBounded
    <3>2. row.failures \in {outbox[r].failures, outbox[r].failures + 1}
      BY <1>7
    <3>3. row.failures = outbox[r].failures + 1 => outbox[r].failures < MaxFailures
      <4>1. CASE outbox[r].hash = ""
        BY <1>6, <4>1
      <4>2. CASE outbox[r].hash # ""
        <5>1. row.failures = outbox[r].failures
          BY <1>7, <4>2
        <5> QED
          BY <3>1, <5>1
      <4> QED
        BY <4>1, <4>2
    <3>4. row.failures <= MaxFailures
      BY <3>1, <3>2, <3>3, FreePlayAssumption
    <3> QED
      BY <1>9, <3>4 DEF IInv, FailuresCount, FailuresAreBounded
  <2> SUFFICES ASSUME NEW v \in Workers, Busy(v)', Owns(v)'
               PROVE  IF worker'[v].hash = ""
                      THEN outbox'[worker'[v].run].failures < MaxFailures
                      ELSE outbox'[worker'[v].run].hash # ""
    BY <2>1 DEF FailuresCount, OwnerCounts
  <2>2. v # w
    BY <1>11 DEF Busy
  <2>3. worker'[v] = worker[v] /\ Busy(v)
    BY <1>11, <2>2 DEF Busy
  <2>4. PICK s \in Runs : s = worker[v].run
    BY <2>3 DEF IInv, WorkersAreBusyOrIdle
  <2>5. outbox[s].owner = worker[v].owner
    BY <1>14, <2>3, <2>4 DEF Owns
  <2>6. s # r
    BY <1>3, <2>2, <2>3, <2>5 DEF IInv, TokensDiffer, Busy
  <2>7. OwnerCounts(v) /\ Owns(v) /\ outbox'[s] = outbox[s]
    BY <1>9, <2>4, <2>5, <2>6 DEF IInv, FailuresCount, Owns
  <2> QED
    BY <2>3, <2>4, <2>7 DEF OwnerCounts
<1> QED
  BY <1>11, <1>13, <1>15, <1>16, <1>17, <1>18, <1>19, <1>20, <1>21 DEF IInv


LEMMA ConfirmKeeps ==
    ASSUME IInv, NEW w \in Workers, Confirm(w)
    PROVE  IInv'
<1>1. PICK r \in Runs : r = worker[w].run
  BY DEF IInv, WorkersAreBusyOrIdle, Busy, Confirm
<1>2. /\ worker[w].at = "confirm"
      /\ outbox[r].owner = worker[w].owner
      /\ runs' = [runs EXCEPT ![r] = "confirmed"]
      /\ signer' = SignerSettled(w)
      /\ Returns(w)
      /\ UNCHANGED <<quotes, attempts, charged, sent, anchored>>
  BY <1>1 DEF Confirm, Owns
<1>3. r \in anchored /\ sent[r] # <<>> /\ runs[r] \in {"submitted", "confirmed"}
  <2>1. r \in anchored
    BY <1>1, <1>2 DEF IInv, WorkersKnow, WorkerKnows
  <2> QED
    BY <2>1 DEF IInv, SentMatches
<1>4. /\ worker' \in [Workers -> Invocation]
      /\ worker'[w].at = "idle"
      /\ \A v \in Workers : v # w => worker'[v] = worker[v]
      /\ WorkersAreBusyOrIdle' /\ TokensDiffer' /\ OneBroadcaster'
  BY <1>2, ReturnedWorkers
<1>5. /\ outbox' \in [Runs -> Outbox]
      /\ \A s \in Runs : /\ outbox'[s].owner = outbox[s].owner
                        /\ outbox'[s].quote = outbox[s].quote
                        /\ outbox'[s].attempts = outbox[s].attempts
                        /\ outbox'[s].failures = outbox[s].failures
                        /\ outbox'[s].hash = outbox[s].hash
      /\ \A s \in Runs : s # r => outbox'[s] = outbox[s]
  <2> DEFINE row == [outbox[r] EXCEPT !.left = 0, !.wait = 0]
  <2>1. outbox \in [Runs -> Outbox] /\ outbox[r] \in Outbox
    BY DEF IInv, TypeOK
  <2>2. outbox' = [outbox EXCEPT ![r] = row]
    BY <1>1, <2>1 DEF Confirm
  <2>3. /\ row \in Outbox
        /\ row.owner = outbox[r].owner /\ row.quote = outbox[r].quote
        /\ row.attempts = outbox[r].attempts /\ row.failures = outbox[r].failures
        /\ row.hash = outbox[r].hash
    BY <2>1 DEF Outbox
  <2> HIDE DEF row
  <2> QED
    BY <2>1, <2>2, <2>3
<1>6. /\ runs' \in [Runs -> Statuses]
      /\ runs'[r] = "confirmed"
      /\ \A s \in Runs : s # r => runs'[s] = runs[s]
  BY <1>2 DEF IInv, TypeOK, Statuses
<1>7. signer' \in Signer /\ signer'.owner = signer.owner
  BY <1>2 DEF SignerSettled, IInv, TypeOK, Signer
<1>8. \A s \in Runs : s # r => (signer'.pending = s <=> signer.pending = s)
  BY <1>1, <1>2, Zeros DEF SignerSettled, PendingAllows, IInv, TypeOK, Signer
<1>9. signer'.pending # r
  <2>1. CASE signer.pending = r
    <3>1. signer.owner = worker[w].owner
      BY <1>2, <2>1 DEF IInv, PinnedByOwner
    <3>2. signer' = [signer EXCEPT !.left = 0, !.pending = NoRun]
      BY <1>1, <1>2, <2>1, <3>1 DEF SignerSettled, OwnsSigner, PendingAllows
    <3> QED
      BY <3>2, Zeros DEF IInv, TypeOK, Signer
  <2>2. CASE signer.pending # r
    BY <1>2, <2>2, Zeros DEF SignerSettled, IInv, TypeOK, Signer
  <2> QED
    BY <2>1, <2>2
<1>10. TypeOK'
  BY <1>2, <1>4, <1>5, <1>6, <1>7 DEF IInv, TypeOK
<1>11. OneRowPerToken'
  BY <1>4, <1>5 DEF IInv, OneRowPerToken, Busy
<1>12. PinnedByOwner'
  BY <1>5, <1>7, <1>8, <1>9 DEF IInv, PinnedByOwner
<1>13. RowsMatch'
  <2> SUFFICES ASSUME NEW s \in Runs PROVE RowMatches(s)'
    BY DEF RowsMatch
  <2>1. RowMatches(s)
    BY DEF IInv, RowsMatch
  <2>2. CASE s = r
    BY <1>2, <1>3, <1>5, <1>6, <2>1, <2>2 DEF RowMatches
  <2>3. CASE s # r
    BY <1>2, <1>5, <1>6, <2>1, <2>3 DEF RowMatches
  <2> QED
    BY <2>2, <2>3
<1>14. OneInDoubt'
  BY <1>6, <1>8, <1>9 DEF IInv, OneInDoubt
<1>15. SentMatches'
  <2> SUFFICES ASSUME NEW s \in Runs
               PROVE  /\ sent'[s] # <<>> =>
                            /\ runs'[s] \in {"submitted", "confirmed"}
                            /\ sent'[s] = <<outbox'[s].quote>> /\ outbox'[s].quote \in charged'
                      /\ s \in anchored' => sent'[s] # <<>>
                      /\ runs'[s] = "confirmed" => s \in anchored'
    BY DEF SentMatches
  <2>1. CASE s = r
    BY <1>2, <1>3, <1>5, <1>6, <2>1 DEF IInv, SentMatches
  <2>2. CASE s # r
    BY <1>2, <1>5, <1>6, <2>2 DEF IInv, SentMatches
  <2> QED
    BY <2>1, <2>2
<1>16. WorkersKnow'
  <2> SUFFICES ASSUME NEW v \in Workers PROVE WorkerKnows(v)'
    BY DEF WorkersKnow
  <2>1. CASE v = w
    BY <1>4, <2>1 DEF WorkerKnows, Broadcaster
  <2>2. CASE v # w
    <3>1. WorkerKnows(v) /\ (Busy(v) => worker[v].run \in Runs) /\ worker'[v] = worker[v]
      BY <1>4, <2>2 DEF IInv, WorkersKnow, WorkersAreBusyOrIdle
    <3>2. UNCHANGED <<charged, sent, anchored>>
      BY <1>2
    <3> QED
      BY <1>5, <1>6, <3>1, <3>2 DEF WorkerKnows, Broadcaster, Busy
  <2> QED
    BY <2>1, <2>2
<1>17. FailuresCount'
  <2>1. FailuresAreBounded'
    BY <1>5 DEF IInv, FailuresCount, FailuresAreBounded
  <2> SUFFICES ASSUME NEW v \in Workers, Busy(v)', Owns(v)'
               PROVE  IF worker'[v].hash = ""
                      THEN outbox'[worker'[v].run].failures < MaxFailures
                      ELSE outbox'[worker'[v].run].hash # ""
    BY <2>1 DEF FailuresCount, OwnerCounts
  <2>2. worker'[v] = worker[v] /\ Busy(v)
    BY <1>4 DEF Busy
  <2>3. PICK s \in Runs : s = worker[v].run
    BY <2>2 DEF IInv, WorkersAreBusyOrIdle
  <2>4. OwnerCounts(v) /\ Owns(v)
    BY <1>5, <2>2, <2>3 DEF Owns, IInv, FailuresCount
  <2> QED
    BY <1>5, <2>2, <2>3, <2>4 DEF OwnerCounts
<1> QED
  BY <1>4, <1>10, <1>11, <1>12, <1>13, <1>14, <1>15, <1>16, <1>17 DEF IInv

-------------------------------------------------------------------------------
(* The chain and the clock.                                                *)

LEMMA IncludeKeeps ==
    ASSUME IInv, NEW r \in Runs, Include(r)
    PROVE  IInv'
<1>1. /\ sent[r] # <<>> /\ anchored' = anchored \cup {r}
      /\ UNCHANGED <<runs, quotes, outbox, signer, attempts, charged, worker, sent>>
  BY DEF Include, store
<1>2. TypeOK'
  BY <1>1 DEF IInv, TypeOK
<1>3. WorkersAreBusyOrIdle' /\ TokensDiffer' /\ OneBroadcaster'
  BY <1>1, WorkersStay
<1>4. OneRowPerToken' /\ PinnedByOwner' /\ RowsMatch' /\ OneInDoubt' /\ FailuresCount'
  <2>1. OneRowPerToken' /\ PinnedByOwner' /\ FailuresCount'
    BY <1>1, Zenon DEF IInv, OneRowPerToken, PinnedByOwner, FailuresCount, OwnerCounts,
                       FailuresAreBounded, Busy, Owns
  <2>2. RowsMatch' /\ OneInDoubt'
    BY <1>1, Zenon DEF IInv, RowsMatch, RowMatches, OneInDoubt
  <2> QED
    BY <2>1, <2>2
<1>5. SentMatches'
  BY <1>1 DEF IInv, SentMatches
<1>6. WorkersKnow'
  BY <1>1 DEF IInv, WorkersKnow, WorkerKnows, Broadcaster
<1> QED
  BY <1>2, <1>3, <1>4, <1>5, <1>6 DEF IInv

LEMMA TickKeeps ==
    ASSUME IInv, Tick
    PROVE  IInv'
<1>1. UNCHANGED <<runs, attempts, charged, worker, sent, anchored>>
  BY DEF Tick
<1>2. \A n \in Nat : Less(n) \in Nat
  BY DEF Less
<1>3. /\ signer' \in Signer
      /\ signer'.owner = signer.owner /\ signer'.pending = signer.pending
  <2>1. signer \in Signer /\ Less(signer.left) \in Nat
    BY <1>2 DEF IInv, TypeOK, Signer
  <2>2. signer' = [signer EXCEPT !.left = Less(signer.left)]
    BY DEF Tick
  <2> QED
    BY <2>1, <2>2 DEF Signer
<1>4. /\ outbox' \in [Runs -> Outbox]
      /\ \A s \in Runs : /\ outbox'[s].owner = outbox[s].owner
                        /\ outbox'[s].quote = outbox[s].quote
                        /\ outbox'[s].attempts = outbox[s].attempts
                        /\ outbox'[s].failures = outbox[s].failures
                        /\ outbox'[s].hash = outbox[s].hash
  <2> DEFINE Row(s) == [outbox[s] EXCEPT !.left = Less(@), !.wait = Less(@)]
  <2>1. outbox' = [s \in Runs |-> Row(s)]
    BY DEF Tick
  <2>2. ASSUME NEW s \in Runs
        PROVE  /\ Row(s) \in Outbox
               /\ Row(s).owner = outbox[s].owner /\ Row(s).quote = outbox[s].quote
               /\ Row(s).attempts = outbox[s].attempts /\ Row(s).failures = outbox[s].failures
               /\ Row(s).hash = outbox[s].hash
    <3>1. /\ outbox[s] \in Outbox
          /\ Less(outbox[s].left) \in Nat /\ Less(outbox[s].wait) \in Nat
      BY <1>2 DEF IInv, TypeOK, Outbox
    <3>2. Row(s) = [outbox[s] EXCEPT !.left = Less(outbox[s].left), !.wait = Less(outbox[s].wait)]
      BY <3>1 DEF Outbox
    <3> HIDE DEF Row
    <3> QED
      BY <3>1, <3>2 DEF Outbox
  <2> HIDE DEF Row
  <2> QED
    BY <2>1, <2>2
<1>5. /\ quotes' \in [Quotes -> Quote]
      /\ \A q \in Quotes : quotes'[q].run = quotes[q].run
                          /\ quotes'[q].consumed = quotes[q].consumed
  <2> DEFINE Left(q) == [quotes[q] EXCEPT !.left = Less(@)]
  <2>1. quotes' = [q \in Quotes |-> Left(q)]
    BY DEF Tick
  <2>2. ASSUME NEW q \in Quotes
        PROVE  /\ Left(q) \in Quote
               /\ Left(q).run = quotes[q].run /\ Left(q).consumed = quotes[q].consumed
    <3>1. quotes[q] \in Quote /\ Less(quotes[q].left) \in Nat
      BY <1>2 DEF IInv, TypeOK, Quote
    <3> QED
      BY <3>1 DEF Quote
  <2> HIDE DEF Left
  <2> QED
    BY <2>1, <2>2
<1>6. TypeOK'
  BY <1>1, <1>3, <1>4, <1>5 DEF IInv, TypeOK
<1>7. WorkersAreBusyOrIdle' /\ TokensDiffer' /\ OneBroadcaster'
  BY <1>1, WorkersStay
<1>8. OneRowPerToken'
  BY <1>1, <1>4 DEF IInv, OneRowPerToken, Busy
<1>9. PinnedByOwner'
  BY <1>3, <1>4 DEF IInv, PinnedByOwner
<1>10. RowsMatch'
  <2> SUFFICES ASSUME NEW s \in Runs PROVE RowMatches(s)'
    BY DEF RowsMatch
  <2>1. RowMatches(s)
    BY DEF IInv, RowsMatch
  <2>2. CASE runs[s] \in {"none", "verified"}
    <3>1. outbox[s] = NoRow
      BY <2>1, <2>2 DEF RowMatches
    <3>2. outbox'[s] = [NoRow EXCEPT !.left = Less(@), !.wait = Less(@)]
      BY <3>1 DEF Tick
    <3>3. outbox'[s] = NoRow
      BY <3>2 DEF NoRow, Less
    <3> QED
      BY <1>1, <2>2, <3>3 DEF RowMatches
  <2>3. CASE runs[s] \notin {"none", "verified"}
    BY <1>1, <1>4, <1>5, <2>1, <2>3 DEF RowMatches
  <2> QED
    BY <2>2, <2>3
<1>11. OneInDoubt'
  BY <1>1, <1>3 DEF IInv, OneInDoubt
<1>12. SentMatches'
  BY <1>1, <1>4 DEF IInv, SentMatches
<1>13. WorkersKnow'
  <2> SUFFICES ASSUME NEW v \in Workers PROVE WorkerKnows(v)'
    BY DEF WorkersKnow
  <2>1. WorkerKnows(v) /\ (Busy(v) => worker[v].run \in Runs)
    BY DEF IInv, WorkersKnow, WorkersAreBusyOrIdle
  <2> QED
    BY <1>1, <1>4, <2>1 DEF WorkerKnows, Broadcaster, Busy
<1>14. FailuresCount'
  <2>1. FailuresAreBounded'
    BY <1>4 DEF IInv, FailuresCount, FailuresAreBounded
  <2> SUFFICES ASSUME NEW v \in Workers, Busy(v)', Owns(v)'
               PROVE  IF worker'[v].hash = ""
                      THEN outbox'[worker'[v].run].failures < MaxFailures
                      ELSE outbox'[worker'[v].run].hash # ""
    BY <2>1 DEF FailuresCount, OwnerCounts
  <2>2. worker'[v] = worker[v] /\ Busy(v)
    BY <1>1 DEF Busy
  <2>3. PICK s \in Runs : s = worker[v].run
    BY <2>2 DEF IInv, WorkersAreBusyOrIdle
  <2>4. OwnerCounts(v) /\ Owns(v)
    BY <1>4, <2>2, <2>3 DEF Owns, IInv, FailuresCount
  <2> QED
    BY <1>4, <2>2, <2>3, <2>4 DEF OwnerCounts
<1> QED
  BY <1>6, <1>7, <1>8, <1>9, <1>10, <1>11, <1>12, <1>13, <1>14 DEF IInv

LEMMA UnchangedKeeps ==
    ASSUME IInv, UNCHANGED <<runs, quotes, outbox, signer, charged, worker, sent, anchored>>,
           attempts' \in 0..MaxAttempts
    PROVE  IInv'
<1>1. TypeOK'
  BY DEF IInv, TypeOK
<1>2. WorkersAreBusyOrIdle' /\ TokensDiffer' /\ OneBroadcaster'
  BY WorkersStay
<1>3. OneRowPerToken' /\ PinnedByOwner' /\ RowsMatch' /\ OneInDoubt' /\ FailuresCount'
  <2>1. OneRowPerToken'
    BY Zenon DEF IInv, OneRowPerToken, Busy
  <2>2. PinnedByOwner'
    BY Zenon DEF IInv, PinnedByOwner
  <2>3. RowsMatch'
    BY Zenon DEF IInv, RowsMatch, RowMatches, Busy, Owns
  <2>4. OneInDoubt'
    BY Zenon DEF IInv, OneInDoubt
  <2>5. FailuresAreBounded'
    BY Zenon DEF IInv, FailuresCount, FailuresAreBounded
  <2>6. \A w \in Workers : OwnerCounts(w)'
    BY Zenon DEF IInv, FailuresCount, OwnerCounts, Busy, Owns
  <2> QED
    BY <2>1, <2>2, <2>3, <2>4, <2>5, <2>6 DEF FailuresCount
<1>4. SentMatches' /\ WorkersKnow'
  BY Zenon DEF IInv, SentMatches, WorkersKnow, WorkerKnows, Broadcaster
<1> QED
  BY <1>1, <1>2, <1>3, <1>4 DEF IInv


-------------------------------------------------------------------------------
(* The invariant holds initially and is kept by every step.                *)

LEMMA InitIInv == Init => IInv
<1> SUFFICES ASSUME Init PROVE IInv
  OBVIOUS
<1>1. Idle \in Invocation /\ Idle.at = "idle"
  BY DEF Idle, Invocation, Places, Hashes
<1>2. NoRow \in Outbox /\ NoRow.failures = 0
  <2>1. 0 \in Polls
    BY FreePlayAssumption DEF Polls
  <2> QED
    BY <2>1 DEF NoRow, Outbox, Hashes
<1>3. /\ \A r \in Runs : runs[r] = "none" /\ outbox[r] = NoRow /\ sent[r] = <<>>
      /\ \A w \in Workers : worker[w] = Idle
      /\ signer.pending = NoRun /\ anchored = {}
  BY DEF Init
<1>4. TypeOK
  <2>1. runs \in [Runs -> Statuses] /\ sent \in [Runs -> Seq(Quotes)]
    BY DEF Init, Statuses
  <2>2. quotes \in [Quotes -> Quote] /\ signer \in Signer
    BY DEF Init, Quote, Signer
  <2>3. outbox \in [Runs -> Outbox] /\ worker \in [Workers -> Invocation]
    BY <1>1, <1>2 DEF Init
  <2>4. attempts \in 0..MaxAttempts
    BY FreePlayAssumption DEF Init
  <2> QED
    BY <2>1, <2>2, <2>3, <2>4 DEF Init, TypeOK
<1>5. \A w \in Workers : worker[w].at = "idle"
  BY <1>1, <1>3
<1>6. WorkersAreBusyOrIdle /\ TokensDiffer /\ OneRowPerToken /\ OneBroadcaster
  BY <1>3, <1>5 DEF WorkersAreBusyOrIdle, TokensDiffer, OneRowPerToken, OneBroadcaster,
                    Busy, Broadcaster
<1>7. PinnedByOwner /\ OneInDoubt
  BY <1>3, Zeros DEF PinnedByOwner, OneInDoubt
<1>8. RowsMatch /\ SentMatches
  BY <1>3 DEF RowsMatch, RowMatches, SentMatches
<1>9. WorkersKnow
  BY <1>5 DEF WorkersKnow, WorkerKnows, Broadcaster
<1>10. FailuresCount
  <2>1. 0 <= MaxFailures
    BY FreePlayAssumption
  <2>2. FailuresAreBounded
    BY <1>2, <1>3, <2>1 DEF FailuresAreBounded
  <2> QED
    BY <1>5, <2>2 DEF FailuresCount, OwnerCounts, Busy
<1> QED
  BY <1>4, <1>6, <1>7, <1>8, <1>9, <1>10 DEF IInv

LEMMA NextIInv == IInv /\ [Next]_vars => IInv'
<1> SUFFICES ASSUME IInv, [Next]_vars PROVE IInv'
  OBVIOUS
<1>1. ASSUME NEW r \in Runs, PutVerified(r) PROVE IInv'
  BY <1>1, PutVerifiedKeeps
<1>2. ASSUME NEW r \in Runs, NEW q \in Quotes, PutQuote(r, q) PROVE IInv'
  BY <1>2, PutQuoteKeeps
<1>3. ASSUME NEW r \in Runs, NEW q \in Quotes, Queue(r, q) PROVE IInv'
  BY <1>3, QueueKeeps
<1>4. ASSUME NEW w \in Workers, Claim(w) PROVE IInv'
  BY <1>4, ClaimKeeps
<1>5. ASSUME NEW w \in Workers, Publish(w) PROVE IInv'
  <2>1. CASE LookupFinds(w)
    BY <2>1, LookupFindsKeeps
  <2>2. CASE LookupFindsNothing(w)
    BY <2>2, LookupFindsNothingKeeps
  <2>3. CASE ReadbackFindsNothing(w) \/ Refused(w)
    BY <2>3, FailsKeeps
  <2>4. CASE Reserve(w)
    BY <2>4, ReserveKeeps
  <2>5. CASE ReserveBroadcast(w)
    BY <2>5, ReserveBroadcastKeeps
  <2>6. CASE CancelUnsentBroadcast(w)
    BY <2>6, CancelKeeps
  <2>7. CASE Anchor(w)
    BY <2>7, AnchorKeeps
  <2>8. CASE SaveBroadcastHash(w)
    BY <2>8, SaveBroadcastHashKeeps
  <2>9. CASE SaveAttempt(w)
    BY <2>9, SaveAttemptKeeps
  <2>10. CASE Confirm(w)
    BY <2>10, ConfirmKeeps
  <2> QED
    BY <1>5, <2>1, <2>2, <2>3, <2>4, <2>5, <2>6, <2>7, <2>8, <2>9, <2>10 DEF Publish
<1>6. ASSUME NEW w \in Workers, Stop(w) PROVE IInv'
  BY <1>6, ReturnKeeps
<1>7. ASSUME NEW r \in Runs, Include(r) PROVE IInv'
  BY <1>7, IncludeKeeps
<1>8. CASE Tick
  BY <1>8, TickKeeps
<1>9. CASE Midnight
  <2>1. attempts' \in 0..MaxAttempts
    BY <1>9, FreePlayAssumption DEF Midnight
  <2> QED
    BY <1>9, <2>1, UnchangedKeeps DEF Midnight
<1>10. CASE UNCHANGED vars
  <2>1. attempts' \in 0..MaxAttempts
    BY <1>10 DEF vars, IInv, TypeOK
  <2> QED
    BY <1>10, <2>1, UnchangedKeeps DEF vars
<1> QED
  BY <1>1, <1>2, <1>3, <1>4, <1>5, <1>6, <1>7, <1>8, <1>9, <1>10 DEF Next

LEMMA Invariance == Spec => []IInv
<1>1. Init => IInv
  BY InitIInv
<1>2. IInv /\ [Next]_vars => IInv'
  BY NextIInv
<1> QED
  BY <1>1, <1>2, PTL DEF Spec

-------------------------------------------------------------------------------
(* The tables, the leases and the memory of the workers keep their types:  *)
(* no counter of freeplay_store.go leaves its range.                       *)
THEOREM TypeCorrect == Spec => []TypeOK
<1>1. IInv => TypeOK
  BY DEF IInv
<1> QED
  BY <1>1, Invariance, PTL

(* PublishOne hands the transaction of a run to the network at most once,  *)
(* whatever number of workers stops or is overtaken at whatever point.     *)
THEOREM BroadcastOnce == Spec => []OneBroadcast
<1>1. IInv => OneBroadcast
  <2> SUFFICES ASSUME IInv, NEW r \in Runs PROVE Len(sent[r]) <= 1
    BY DEF OneBroadcast
  <2>1. CASE sent[r] = <<>>
    BY <2>1
  <2>2. CASE sent[r] # <<>>
    <3>1. sent[r] = <<outbox[r].quote>>
      BY <2>2 DEF IInv, SentMatches
    <3> QED
      BY <3>1
  <2> QED
    BY <2>1, <2>2
<1> QED
  BY <1>1, Invariance, PTL

(* The row of the account names exactly the run that is in doubt: Confirm, *)
(* CancelUnsentBroadcast and ReserveBroadcast move the two together.       *)
THEOREM SignerNamesTheDoubt == Spec => []OneInDoubt
<1>1. IInv => OneInDoubt
  BY DEF IInv
<1> QED
  BY <1>1, Invariance, PTL

(* What Anchor sent is what the player agreed to and what was charged, and *)
(* no later Queue replaces it.                                             *)
THEOREM SentIsAgreed == Spec => []SentAsAgreed
<1>1. IInv => SentAsAgreed
  <2> SUFFICES ASSUME IInv, NEW r \in Runs, sent[r] # <<>>
               PROVE  /\ outbox[r].quote = sent[r][Len(sent[r])]
                      /\ quotes[sent[r][Len(sent[r])]].run = r
                      /\ quotes[sent[r][Len(sent[r])]].consumed
                      /\ sent[r][Len(sent[r])] \in charged
    BY DEF SentAsAgreed
  <2>1. PICK q \in Quotes : /\ q = outbox[r].quote /\ sent[r] = <<q>> /\ q \in charged
                            /\ quotes[q].run = r /\ quotes[q].consumed
    BY DEF IInv, SentMatches, RowsMatch, RowMatches
  <2>2. sent[r][Len(sent[r])] = q
    BY <2>1
  <2> QED
    BY <2>1, <2>2
<1> QED
  BY <1>1, Invariance, PTL

(* Confirm shows as confirmed only what the realm has recorded.            *)
THEOREM ConfirmedRunsAreAnchored == Spec => []ConfirmedIsAnchored
<1>1. IInv => ConfirmedIsAnchored
  BY DEF IInv, SentMatches, ConfirmedIsAnchored
<1> QED
  BY <1>1, Invariance, PTL

(* SaveAttempt never counts a run past the limit that Claim looks at.      *)
THEOREM FailuresStayBounded == Spec => []FailuresAreBounded
<1>1. IInv => FailuresAreBounded
  BY DEF IInv, FailuresCount
<1> QED
  BY <1>1, Invariance, PTL


-------------------------------------------------------------------------------
(* The implementation of AnchorOnce.                                       *)

LEMMA PhaseEffect ==
    ASSUME TypeOK, TypeOK', NEW r \in Runs, NEW status \in Statuses,
           runs' = [runs EXCEPT ![r] = status]
    PROVE  [s \in Runs |-> PhaseOf[runs[s]]]'
             = [[s \in Runs |-> PhaseOf[runs[s]]] EXCEPT ![r] = PhaseOf[status]]
BY DEF TypeOK

LEMMA Stutters ==
    ASSUME UNCHANGED <<runs, sent>>
    PROVE  UNCHANGED Once!anchorVars
BY DEF Once!anchorVars

LEMMA PhasesOfStatuses ==
    /\ PhaseOf["none"] = "unknown" /\ PhaseOf["verified"] = "verified"
    /\ PhaseOf["queued"] = "authorized" /\ PhaseOf["submitted"] = "doubtful"
    /\ PhaseOf["confirmed"] = "confirmed"
BY DEF PhaseOf

(* A step that changes the status of one run and sends nothing.            *)
LEMMA StatusMoves ==
    ASSUME IInv, IInv', NEW r \in Runs, NEW from \in Statuses, NEW to \in Statuses,
           runs[r] = from, runs' = [runs EXCEPT ![r] = to], UNCHANGED sent
    PROVE  Once!Moves(r, PhaseOf[from], PhaseOf[to])
           /\ UNCHANGED [s \in Runs |-> Len(sent[s])]
<1>1. TypeOK /\ TypeOK'
  BY DEF IInv
<1>2. [s \in Runs |-> PhaseOf[runs[s]]]'
        = [[s \in Runs |-> PhaseOf[runs[s]]] EXCEPT ![r] = PhaseOf[to]]
  BY <1>1, PhaseEffect
<1> QED
  BY <1>2 DEF Once!Moves

LEMMA StepImplements ==
    IInv /\ IInv' /\ [Next]_vars => [Once!AnchorNext]_(Once!anchorVars)
<1> SUFFICES ASSUME IInv, IInv', [Next]_vars
             PROVE  Once!AnchorNext \/ UNCHANGED Once!anchorVars
  OBVIOUS
<1>1. {"none", "verified", "queued", "submitted", "confirmed"} \subseteq Statuses
  BY DEF Statuses
<1>2. ASSUME NEW r \in Runs, PutVerified(r)
      PROVE  Once!Certify(r)
  BY <1>1, <1>2, StatusMoves, PhasesOfStatuses DEF PutVerified, Once!Certify
<1>3. ASSUME NEW r \in Runs, NEW q \in Quotes, Queue(r, q)
      PROVE  Once!Authorize(r) \/ UNCHANGED Once!anchorVars
  <2>1. CASE runs[r] = "verified"
    <3>1. runs' = [runs EXCEPT ![r] = "queued"] /\ UNCHANGED sent
      BY <1>3 DEF Queue
    <3> QED
      BY <1>1, <2>1, <3>1, StatusMoves, PhasesOfStatuses DEF Once!Authorize
  <2>2. CASE runs[r] = "queued"
    <3>1. UNCHANGED <<runs, sent>>
      BY <1>3, <2>2 DEF Queue, IInv, TypeOK
    <3> QED
      BY <3>1, Stutters
  <2> QED
    BY <1>3, <2>1, <2>2 DEF Queue, Replaceable
<1>4. ASSUME NEW w \in Workers, ReserveBroadcast(w)
      PROVE  Once!AnchorNext
  <2>1. PICK r \in Runs : r = worker[w].run /\ runs[r] = "queued"
    BY <1>4, UnmarkedIsQueued DEF ReserveBroadcast, MayIntend, Busy
  <2>2. runs' = [runs EXCEPT ![r] = "submitted"] /\ UNCHANGED sent
    BY <1>4, <2>1 DEF ReserveBroadcast, IInv, TypeOK
  <2>3. \A s \in Runs : runs[s] # "submitted"
    BY <1>4, <2>1, Zeros DEF ReserveBroadcast, MayIntend, PendingAllows, IInv, OneInDoubt
  <2>4. \A s \in Runs : PhaseOf[runs[s]] # "doubtful"
    BY <2>3 DEF PhaseOf, IInv, TypeOK, Statuses
  <2>5. Once!Commit(r)
    BY <1>1, <2>1, <2>2, <2>4, StatusMoves, PhasesOfStatuses DEF Once!Commit
  <2> QED
    BY <2>5 DEF Once!AnchorNext
<1>5. ASSUME NEW w \in Workers, CancelUnsentBroadcast(w)
      PROVE  Once!AnchorNext
  <2>1. PICK r \in Runs : r = worker[w].run /\ sent[r] = <<>>
                          /\ runs[r] \in {"submitted", "confirmed"}
    BY <1>5 DEF CancelUnsentBroadcast, IInv, WorkersAreBusyOrIdle, Busy,
                WorkersKnow, WorkerKnows, Broadcaster
  <2>2. runs[r] = "submitted"
    BY <2>1 DEF IInv, SentMatches
  <2>3. runs' = [runs EXCEPT ![r] = "queued"] /\ UNCHANGED sent
    BY <1>5, <2>1, <2>2 DEF CancelUnsentBroadcast, IInv, TypeOK
  <2>4. [s \in Runs |-> Len(sent[s])][r] = 0
    BY <2>1
  <2>5. Once!Retract(r)
    BY <1>1, <2>2, <2>3, <2>4, StatusMoves, PhasesOfStatuses DEF Once!Retract
  <2> QED
    BY <2>5 DEF Once!AnchorNext
<1>6. ASSUME NEW w \in Workers, Anchor(w)
      PROVE  Once!AnchorNext \/ UNCHANGED Once!anchorVars
  <2>1. PICK r \in Runs : r = worker[w].run /\ sent[r] = <<>>
                          /\ runs[r] \in {"submitted", "confirmed"}
    BY <1>6 DEF Anchor, IInv, WorkersAreBusyOrIdle, Busy, WorkersKnow, WorkerKnows, Broadcaster
  <2>2. runs[r] = "submitted"
    BY <2>1 DEF IInv, SentMatches
  <2>3. UNCHANGED runs
    BY <1>6 DEF Anchor, store
  <2>4. CASE UNCHANGED sent
    BY <2>3, <2>4, Stutters
  <2>5. CASE sent' = [sent EXCEPT ![r] = Append(@, worker[w].quote)]
    <3> DEFINE q == worker[w].quote
    <3>1. sent \in [Runs -> Seq(Quotes)] /\ q \in Quotes
      BY <1>6 DEF IInv, TypeOK, WorkersAreBusyOrIdle, Anchor, Busy
    <3> HIDE DEF q
    <3>2. sent' = [sent EXCEPT ![r] = Append(<<>>, q)]
      BY <2>1, <2>5, <3>1 DEF q
    <3>3. Len(Append(<<>>, q)) = 1
      BY <3>1
    <3>4. [s \in Runs |-> Len(sent[s])]' = [[s \in Runs |-> Len(sent[s])] EXCEPT ![r] = 1]
      BY <3>1, <3>2, <3>3
    <3>5. Once!Send(r)
      BY <2>1, <2>2, <2>3, <3>4, PhasesOfStatuses DEF Once!Send
    <3> QED
      BY <3>5 DEF Once!AnchorNext
  <2> QED
    BY <1>6, <2>1, <2>4, <2>5 DEF Anchor
<1>7. ASSUME NEW w \in Workers, Confirm(w)
      PROVE  Once!AnchorNext \/ UNCHANGED Once!anchorVars
  <2>1. PICK r \in Runs : r = worker[w].run /\ r \in anchored
    BY <1>7 DEF Confirm, IInv, WorkersAreBusyOrIdle, Busy, WorkersKnow, WorkerKnows
  <2>2. sent[r] = <<outbox[r].quote>> /\ runs[r] \in {"submitted", "confirmed"}
    BY <2>1 DEF IInv, SentMatches
  <2>3. runs' = [runs EXCEPT ![r] = "confirmed"] /\ UNCHANGED sent
    BY <1>7, <2>1 DEF Confirm
  <2>4. CASE runs[r] = "submitted"
    <3>1. [s \in Runs |-> Len(sent[s])][r] = 1
      BY <2>2
    <3>2. Once!Settle(r)
      BY <1>1, <2>3, <2>4, <3>1, StatusMoves, PhasesOfStatuses DEF Once!Settle
    <3> QED
      BY <3>2 DEF Once!AnchorNext
  <2>5. CASE runs[r] = "confirmed"
    <3>1. UNCHANGED <<runs, sent>>
      BY <2>3, <2>5 DEF IInv, TypeOK
    <3> QED
      BY <3>1, Stutters
  <2> QED
    BY <2>2, <2>4, <2>5
<1>8. ASSUME NEW w \in Workers,
             \/ LookupFinds(w) \/ LookupFindsNothing(w) \/ ReadbackFindsNothing(w)
             \/ Reserve(w) \/ Refused(w) \/ SaveBroadcastHash(w) \/ SaveAttempt(w)
             \/ Claim(w) \/ Stop(w)
      PROVE  UNCHANGED Once!anchorVars
  <2>1. UNCHANGED <<runs, sent>>
    BY <1>8 DEF LookupFinds, LookupFindsNothing, ReadbackFindsNothing, Reserve, Refused,
                SaveBroadcastHash, SaveAttempt, Claim, Stop, store
  <2> QED
    BY <2>1, Stutters
<1>9. ASSUME \/ \E r \in Runs, q \in Quotes : PutQuote(r, q)
             \/ \E r \in Runs : Include(r)
             \/ Tick \/ Midnight \/ UNCHANGED vars
      PROVE  UNCHANGED Once!anchorVars
  <2>1. UNCHANGED <<runs, sent>>
    BY <1>9 DEF PutQuote, Include, Tick, Midnight, vars, store
  <2> QED
    BY <2>1, Stutters
<1>10. ASSUME NEW w \in Workers, Publish(w)
       PROVE  Once!AnchorNext \/ UNCHANGED Once!anchorVars
  BY <1>4, <1>5, <1>6, <1>7, <1>8, <1>10, Zenon DEF Publish
<1>11. (\E r \in Runs : PutVerified(r)) => Once!AnchorNext
  BY <1>2 DEF Once!AnchorNext
<1>12. (\E r \in Runs, q \in Quotes : Queue(r, q))
         => Once!AnchorNext \/ UNCHANGED Once!anchorVars
  BY <1>3 DEF Once!AnchorNext
<1> QED
  BY <1>8, <1>9, <1>10, <1>11, <1>12, Zenon DEF Next

(* The publisher implements AnchorOnce: its status column and the calls of *)
(* Anchor move as that module allows, whatever the workers do.             *)
THEOREM Refinement == Spec => ImplementsAnchorOnce
<1>1. Init => Once!AnchorInit
  <2> SUFFICES ASSUME Init PROVE Once!AnchorInit
    OBVIOUS
  <2>1. [r \in Runs |-> PhaseOf[runs[r]]] = [r \in Runs |-> "unknown"]
    BY PhasesOfStatuses DEF Init
  <2>2. [r \in Runs |-> Len(sent[r])] = [r \in Runs |-> 0]
    BY DEF Init
  <2> QED
    BY <2>1, <2>2 DEF Once!AnchorInit
<1>2. IInv /\ IInv' /\ [Next]_vars => [Once!AnchorNext]_(Once!anchorVars)
  BY StepImplements
<1> QED
  BY <1>1, <1>2, Invariance, PTL DEF Spec, ImplementsAnchorOnce, Once!AnchorSpec
===============================================================================
