------------------------------- MODULE DayClose -------------------------------
(***************************************************************************)
(* The arcade's competitive boards (backend/internal/arcade: submit.go,    *)
(* store.go, batcher.go, attest.go): runs are submitted while their day is *)
(* live, re-simulated and stored; once the day is closed a single batcher  *)
(* writes the best run of each address to the leaderboard realm.           *)
(*                                                                         *)
(* Each database statement and each broadcast or query of the chain is a   *)
(* step; the process may stop between any two.                             *)
(***************************************************************************)
EXTENDS ArcadeRealm, Sequences, FiniteSets

CONSTANTS
    MaxAttestRetries, \* failed broadcasts before a run is parked (8 in the code)
    MaxPerCycle,      \* broadcasts in one cycle
    MaxRuns,          \* bound: rows stored
    LastDay,          \* bound: days
    MaxCrashes,       \* bound: process stops
    MaxFaults,        \* bound: database writes that fail
    MaxRequeues,      \* bound: parked runs an operator puts back
    MaxForeign,       \* bound: entries another attester writes
    Straddle          \* a re-simulation may still run at midnight

ASSUME DayCloseAssumption ==
    /\ MaxAttestRetries \in Nat \ {0} /\ MaxPerCycle \in Nat \ {0}
    /\ MaxRuns \in Nat /\ LastDay \in Nat
    /\ Straddle \in BOOLEAN
    /\ MaxCrashes \in Nat /\ MaxFaults \in Nat /\ MaxRequeues \in Nat /\ MaxForeign \in Nat
    /\ Boards \subseteq [game : {b.game : b \in Boards}, day : 0..LastDay]

VARIABLES
    arcade_runs,  \* the table, in order of creation
    submits,      \* submissions past the window check, being re-simulated
    today,        \* the UTC day
    batch,        \* the batcher's goroutine
    mempool,      \* broadcasts that may still land
    attempts,     \* of each log, the broadcasts made so far
    count,        \* what has used up a bound
    leftOver      \* history: rows left to be broadcast behind a better run

storeVars == <<arcade_runs, submits, today>>
vars == <<storeVars, batch, mempool, attempts, count, leftOver, realmVars>>

Run == [log : Logs, addr : Addrs, board : Boards, score : Scores]
Statuses == {"verified", "attested", "skipped", "errored"}
Rows == 1..MaxRuns

Places == {"idle", "board", "run", "mark", "lookup", "resolve", "drain", "skip",
           "fail", "park", "stopped"}

TypeOK ==
    /\ RealmTypeOK
    /\ arcade_runs \in Seq([run : Run, status : Statuses, failures : Nat])
    /\ Len(arcade_runs) <= MaxRuns
    /\ \A i, j \in DOMAIN arcade_runs :
          arcade_runs[i].run.log = arcade_runs[j].run.log => i = j
    /\ submits \subseteq [run : Run, started : 0..LastDay]
    /\ today \in 0..LastDay
    /\ batch \in [at : Places, boards : SUBSET Boards, runs : SUBSET Rows,
                  attempted : 0..MaxPerCycle, row : Rows \cup {0}]
    /\ mempool \subseteq Run
    /\ attempts \in [Logs -> Nat]
    /\ count \in [crashes : 0..MaxCrashes, faults : 0..MaxFaults,
                  requeues : 0..MaxRequeues, foreign : 0..MaxForeign]
    /\ leftOver \subseteq Rows

Idle == [at |-> "idle", boards |-> {}, runs |-> {}, attempted |-> 0, row |-> 0]

Init ==
    /\ RealmInit
    /\ arcade_runs = <<>>
    /\ submits = {}
    /\ today = 0
    /\ batch = Idle
    /\ mempool = {}
    /\ attempts = [l \in Logs |-> 0]
    /\ count = [crashes |-> 0, faults |-> 0, requeues |-> 0, foreign |-> 0]
    /\ leftOver = {}

-------------------------------------------------------------------------------
(* HandleSubmit                                                            *)

(* liveWindowDay: today's board or yesterday's.                            *)
LiveWindow(day) == day <= today /\ today <= day + 1

Submit(run) ==
    /\ LiveWindow(run.board.day)
    /\ Len(arcade_runs) + Cardinality(submits) < MaxRuns
    /\ submits' = submits \cup {[run |-> run, started |-> today]}
    /\ UNCHANGED <<arcade_runs, today, batch, mempool, attempts, count, leftOver, realmVars>>

(* The re-simulation accepted the run; a log that is stored already keeps  *)
(* its first row.                                                          *)
KnownByItsAddr(run) ==
    \E i \in DOMAIN arcade_runs :
        arcade_runs[i].run.log = run.log /\ arcade_runs[i].run.addr = run.addr
DuplicateLog(run) ==
    \E i \in DOMAIN arcade_runs : arcade_runs[i].run.log = run.log

InsertRun(s) ==
    /\ submits' = submits \ {s}
    /\ arcade_runs' =
          IF DuplicateLog(s.run) THEN arcade_runs
          ELSE Append(arcade_runs, [run |-> s.run, status |-> "verified", failures |-> 0])
    /\ UNCHANGED <<today, batch, mempool, attempts, count, leftOver, realmVars>>

(* Midnight.  A re-simulation lasts seconds: it may see one, not two.      *)
NextDay ==
    /\ today < LastDay
    /\ \A s \in submits : Straddle /\ s.started = today
    /\ today' = today + 1
    /\ UNCHANGED <<arcade_runs, submits, batch, mempool, attempts, count, leftOver, realmVars>>

-------------------------------------------------------------------------------
(* The batcher's queries.                                                  *)

Stored == DOMAIN arcade_runs
Status(i) == arcade_runs[i].status
RunOf(i) == arcade_runs[i].run
SameBoardAndAddr(i, j) ==
    RunOf(i).board = RunOf(j).board /\ RunOf(i).addr = RunOf(j).addr

(* Days before yesterday: no submission for them is admitted any more.     *)
Closed(day) == day + 1 < today

PendingOfTheDay ==
    {RunOf(i).board : i \in {j \in Stored :
        Status(j) = "verified" /\ RunOf(j).board.day + 2 = today}}
PendingDailyGameDays ==
    {RunOf(i).board : i \in {j \in Stored :
        Status(j) = "verified" /\ Closed(RunOf(j).board.day)}}

RanksBefore(i, j) ==
    RunOf(i).score > RunOf(j).score \/ (RunOf(i).score = RunOf(j).score /\ i < j)

(* A parked run holds back the runs of its address that do not beat it.    *)
Parked(i) ==
    \E j \in Stored : /\ SameBoardAndAddr(i, j) /\ Status(j) = "errored"
                      /\ RunOf(j).score >= RunOf(i).score

(* The best verified run of each address, the first limit of them.         *)
BestAnyStatus(b) == {i \in Stored : RunOf(i).board = b /\ Status(i) = "verified"}
Best(b) ==
    {i \in Stored :
        /\ RunOf(i).board = b /\ Status(i) = "verified" /\ ~Parked(i)
        /\ \A j \in Stored :
              SameBoardAndAddr(i, j) /\ Status(j) = "verified" => ~RanksBefore(j, i)}

BestVerifiedDaily(b, limit) ==
    {i \in Best(b) : Cardinality({j \in Best(b) : RanksBefore(j, i)}) < limit}

-------------------------------------------------------------------------------
(* runBatchOnce                                                            *)

At(place) == batch.at = place
Goto(place) == batch' = [batch EXCEPT !.at = place]
SetStatus(rows, status) ==
    arcade_runs' = [i \in Stored |->
        IF i \in rows THEN [arcade_runs[i] EXCEPT !.status = status] ELSE arcade_runs[i]]

Tick ==
    /\ At("idle")
    /\ batch' = [Idle EXCEPT !.at = "board", !.boards = PendingDailyGameDays]
    /\ UNCHANGED <<storeVars, mempool, attempts, count, leftOver, realmVars>>

EndCycle ==
    /\ At("board")
    /\ batch.boards = {} \/ batch.attempted >= MaxPerCycle
    /\ batch' = Idle
    /\ UNCHANGED <<storeVars, mempool, attempts, count, leftOver, realmVars>>

NextBoard(b) ==
    /\ At("board")
    /\ batch.attempted < MaxPerCycle
    /\ b \in batch.boards /\ \A c \in batch.boards : b.day <= c.day
    /\ batch' = [batch EXCEPT !.at = "run", !.boards = @ \ {b},
                    !.runs = BestVerifiedDaily(b, MaxPerCycle - batch.attempted)]
    /\ UNCHANGED <<storeVars, mempool, attempts, count, leftOver, realmVars>>

EndBoard ==
    /\ At("run") /\ batch.runs = {}
    /\ Goto("board")
    /\ UNCHANGED <<storeVars, mempool, attempts, count, leftOver, realmVars>>

(* Where the answer of gnokey leads.                                       *)
Answered(answer) ==
    CASE answer = "ok" -> "mark"
      [] answer = "not_improved" -> "lookup"
      [] answer \in {"bound_elsewhere", "unfit"} -> "skip"
      [] answer = "lost" -> "fail"

(* One broadcast: the run lands or is refused, and the answer comes back or *)
(* is lost; or nothing is known of it, and it may land later.              *)
AttestScore(i, answer) ==
    LET run == RunOf(i) IN
    /\ At("run")
    /\ i \in batch.runs /\ \A j \in batch.runs : ~RanksBefore(j, i)
    /\ batch' = [batch EXCEPT !.at = Answered(answer), !.row = i,
                    !.runs = @ \ {i}, !.attempted = @ + 1]
    /\ attempts' = [attempts EXCEPT ![run.log] = @ + 1]
    /\ \/ answer \in {"ok", "lost"} /\ Enter(run) /\ UNCHANGED mempool
       \/ answer \in Verdicts(run) \cup {"lost"} /\ UNCHANGED <<mempool, realmVars>>
       \/ answer = "lost" /\ mempool' = mempool \cup {run} /\ UNCHANGED realmVars
    /\ UNCHANGED <<storeVars, count, leftOver>>

(* LookupEntry after "not improved": only the entry of this very run is a  *)
(* receipt for it; another one, at least as good, supersedes it.           *)
NotImprovedIsReceipt(i, entry) == "mark"
Resolution(i, entry) ==
    IF entry.log = RunOf(i).log /\ entry.score = RunOf(i).score THEN "mark"
    ELSE IF entry.log # None /\ entry.score >= RunOf(i).score THEN "drain"
    ELSE "fail"

LookupEntry ==
    LET run == RunOf(batch.row) IN
    /\ At("lookup")
    /\ \/ Goto(Resolution(batch.row, entries[<<run.board, run.addr>>]))
       \/ Goto("fail")   \* the node did not answer, or not yet with the entry
    /\ UNCHANGED <<storeVars, mempool, attempts, count, leftOver, realmVars>>

MarkAttested ==
    /\ At("mark")
    /\ SetStatus({batch.row}, "attested")
    /\ Goto("resolve")
    /\ UNCHANGED <<submits, today, mempool, attempts, count, leftOver, realmVars>>

(* The rows that the entry of this row's address and board supersedes.     *)
SupersededAnyBoard(i) ==
    {j \in Stored : RunOf(j).addr = RunOf(i).addr /\ Status(j) = "verified"}
Superseded(i) == {j \in Stored : SameBoardAndAddr(i, j) /\ Status(j) = "verified"}

ResolveSupersededDaily ==
    /\ At("resolve") \/ At("drain")
    /\ SetStatus(Superseded(batch.row) \
                    (IF At("resolve") THEN {batch.row} ELSE {}), "skipped")
    /\ Goto("run")
    /\ UNCHANGED <<submits, today, mempool, attempts, count, leftOver, realmVars>>

MarkSkipped ==
    /\ At("skip")
    /\ SetStatus({batch.row} \cap {i \in Stored : Status(i) = "verified"}, "skipped")
    /\ Goto("run")
    /\ UNCHANGED <<submits, today, mempool, attempts, count, leftOver, realmVars>>

(* recordAttestFailure: the count is in the table, then the run is parked. *)
NeverParks(failures) == FALSE
MustPark(failures) == failures >= MaxAttestRetries

IncrementAttestFailures ==
    LET failures == arcade_runs[batch.row].failures + 1 IN
    /\ At("fail")
    /\ Status(batch.row) = "verified"
    /\ arcade_runs' = [arcade_runs EXCEPT ![batch.row].failures = failures]
    /\ Goto(IF MustPark(failures) THEN "park" ELSE "run")
    /\ UNCHANGED <<submits, today, mempool, attempts, count, leftOver, realmVars>>

MarkErrored ==
    /\ At("park")
    /\ SetStatus({batch.row} \cap {i \in Stored : Status(i) = "verified"}, "errored")
    /\ Goto("run")
    /\ UNCHANGED <<submits, today, mempool, attempts, count, leftOver, realmVars>>

(* A settlement that stops between MarkAttested and ResolveSupersededDaily *)
(* leaves behind the rows which that write would have retired.             *)
CutShort ==
    leftOver' = leftOver \cup (IF At("resolve") THEN Superseded(batch.row) ELSE {})

(* A write fails: a receipt that cannot be stored counts as a failure of   *)
(* the run; anything else stops the loop until the process restarts.       *)
WriteFails ==
    /\ count.faults < MaxFaults
    /\ batch.at \in {"mark", "resolve", "drain", "skip", "fail", "park"}
    /\ count' = [count EXCEPT !.faults = @ + 1]
    /\ Goto(IF At("mark") THEN "fail" ELSE "stopped")
    /\ CutShort
    /\ UNCHANGED <<storeVars, mempool, attempts, realmVars>>

Batcher ==
    \/ Tick \/ EndCycle \/ EndBoard
    \/ \E b \in Boards : NextBoard(b)
    \/ \E i \in Stored, answer \in {"ok", "lost", "not_improved", "bound_elsewhere", "unfit"} :
          AttestScore(i, answer)
    \/ LookupEntry \/ MarkAttested \/ ResolveSupersededDaily
    \/ MarkSkipped \/ IncrementAttestFailures \/ MarkErrored

-------------------------------------------------------------------------------
(* The environment.                                                        *)

Resume ==
    /\ batch' = Idle
    /\ submits' = {}
    /\ UNCHANGED <<arcade_runs, today, mempool, attempts, realmVars>>

Crash ==
    /\ count.crashes < MaxCrashes
    /\ count' = [count EXCEPT !.crashes = @ + 1]
    /\ CutShort
    /\ Resume

OperatorRestart == At("stopped") /\ Resume /\ UNCHANGED <<count, leftOver>>

(* An operator puts a parked run back: its failures stay counted.  One     *)
(* that an attested run supersedes is left over, too.                      *)
Beaten(i) ==
    \E j \in Stored : /\ SameBoardAndAddr(i, j) /\ Status(j) = "attested"
                      /\ RunOf(j).score >= RunOf(i).score

Requeue(i) ==
    /\ count.requeues < MaxRequeues
    /\ Status(i) = "errored"
    /\ SetStatus({i}, "verified")
    /\ count' = [count EXCEPT !.requeues = @ + 1]
    /\ leftOver' = leftOver \cup (IF Beaten(i) THEN {i} ELSE {})
    /\ UNCHANGED <<submits, today, batch, mempool, attempts, realmVars>>

(* A broadcast nobody waits for any more lands.                            *)
Land(run) ==
    /\ mempool' = mempool \ {run}
    /\ Enter(run)
    /\ UNCHANGED <<storeVars, batch, attempts, count, leftOver>>

(* Another attester of the realm enters a run.                             *)
Foreign(run) ==
    /\ count.foreign < MaxForeign
    /\ count' = [count EXCEPT !.foreign = @ + 1]
    /\ Enter(run)
    /\ UNCHANGED <<storeVars, batch, mempool, attempts, leftOver>>

Next ==
    \/ \E run \in Run : Submit(run)
    \/ \E s \in submits : InsertRun(s)
    \/ NextDay
    \/ Batcher
    \/ WriteFails
    \/ Crash \/ OperatorRestart
    \/ \E i \in Stored : Requeue(i)
    \/ \E run \in mempool : Land(run)
    \/ \E run \in Run : Foreign(run)

Spec == Init /\ [][Next]_vars

(* The goroutine's ticker keeps firing and an operator restarts a process  *)
(* that reported a failed cycle.                                           *)
FairSpec == Spec /\ WF_vars(Batcher) /\ WF_vars(OperatorRestart)

-------------------------------------------------------------------------------
(* Properties.                                                             *)

(* A row marked attested was written to the realm: the log is bound to its *)
(* address and the board holds that run or a better one.                   *)
AttestedIsOnChain ==
    \A i \in Stored : Status(i) = "attested" =>
        /\ owners[RunOf(i).log] = RunOf(i).addr
        /\ entries[<<RunOf(i).board, RunOf(i).addr>>].score >= RunOf(i).score

(* A row is given up only for a reason: the board holds as good a run of   *)
(* the same address, or the realm can never accept this one.  The rows     *)
(* retired after an attestation are "the address's lesser runs".           *)
SkippedLosesNothing ==
    \A i \in Stored : Status(i) = "skipped" =>
        \/ entries[<<RunOf(i).board, RunOf(i).addr>>].score >= RunOf(i).score
        \/ owners[RunOf(i).log] \notin {None, RunOf(i).addr}
        \/ RunOf(i).log \in Unfit

(* Gas: a run is broadcast at most MaxAttestRetries times, and once more   *)
(* for each restart, failed write or requeue.                              *)
BroadcastsAreBounded ==
    \A l \in Logs :
        attempts[l] <= MaxAttestRetries + count.crashes + count.faults + count.requeues

(* The realm refuses a run that does not improve its entry and the gas is  *)
(* spent: the batcher never broadcasts a run of an address after one at    *)
(* least as good of that board was attested, whatever stops, failed writes *)
(* and requeues came before.  Excused are the very rows that a stop        *)
(* between MarkAttested and ResolveSupersededDaily left verified, or that  *)
(* an operator put back behind such a run.                                 *)
NeverWorseAfterBetter ==
    [][\A i \in Stored \ leftOver :
          attempts'[RunOf(i).log] > attempts[RunOf(i).log] =>
              \A j \in Stored : SameBoardAndAddr(i, j) /\ Status(j) = "attested" =>
                  RunOf(j).score < RunOf(i).score]_vars

(* Every verified run of a closed board is settled, or waits for an        *)
(* operator behind a parked run of its address.                            *)
Settles ==
    \A i \in Rows :
        (i \in Stored /\ Status(i) = "verified" /\ Closed(RunOf(i).board.day))
            ~> (i \in Stored /\ (Status(i) # "verified" \/ Parked(i)))
===============================================================================
