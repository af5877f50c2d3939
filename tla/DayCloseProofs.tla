---------------------------- MODULE DayCloseProofs ----------------------------
(***************************************************************************)
(* Proofs about DayClose, for any boards, logs, addresses, retries and     *)
(* faults.                                                                 *)
(*                                                                         *)
(* The argument: what the batcher holds of a board is still so in the      *)
(* table (BatchFits), since only it settles rows, each of another address; *)
(* what the realm answered stays true, since its entries only improve and  *)
(* its logs stay bound (AnswersHold); on a closed board no better run can  *)
(* appear (BestIsHeld); each broadcast is paid for once (AllPaid); and a   *)
(* run is left verified behind a better attested one only between the two  *)
(* writes of the batcher, or when it is left over (AttestedIsLast).        *)
(***************************************************************************)
EXTENDS DayClose, FiniteSetTheorems, SequenceTheorems, TLAPS

(* Between a broadcast and what the batcher writes of it.                  *)
Flights == {"mark", "lookup", "resolve", "drain", "skip", "fail", "park"}
InFlight(i) == batch.at \in Flights /\ batch.row = i

SubmitsCounted ==
    /\ IsFiniteSet(submits)
    /\ Len(arcade_runs) + Cardinality(submits) <= MaxRuns
    /\ Straddle = FALSE => \A s \in submits : ~Closed(s.run.board.day)

(* What the batcher holds is still so in the table.                        *)
Held(i) == i \in Stored /\ Closed(RunOf(i).board.day)

BatchFits ==
    /\ batch.attempted + Cardinality(batch.runs) <= MaxPerCycle
    /\ \A b \in batch.boards : Closed(b.day)
    /\ \A i \in batch.runs : Held(i) /\ Status(i) = "verified"
    /\ \A i, j \in batch.runs : SameBoardAndAddr(i, j) => i = j
    /\ batch.at \in Flights =>
          /\ Held(batch.row)
          /\ Status(batch.row) = IF At("resolve") THEN "attested" ELSE "verified"
          /\ \A j \in batch.runs : ~SameBoardAndAddr(batch.row, j)

(* A run is taken up only if no other of its address may still beat it.    *)
NoneBetter(i) ==
    \A j \in Stored : SameBoardAndAddr(i, j) /\ Status(j) \in {"verified", "errored"} =>
        RunOf(j).score <= RunOf(i).score

BestIsHeld ==
    Straddle = FALSE => \A i \in Stored : i \in batch.runs \/ InFlight(i) => NoneBetter(i)

(* What the answer of the realm told the batcher stays true.               *)
OnChain(i) == owners[RunOf(i).log] = RunOf(i).addr
Topped(i) == entries[<<RunOf(i).board, RunOf(i).addr>>].score >= RunOf(i).score
Refused(i) == owners[RunOf(i).log] \notin {None, RunOf(i).addr} \/ RunOf(i).log \in Unfit

EntriesAreBound ==
    \A b \in Boards, a \in Addrs :
        entries[<<b, a>>].score # 0 => owners[entries[<<b, a>>].log] = a

AnswersHold ==
    /\ batch.at \in {"mark", "resolve"} => OnChain(batch.row) /\ Topped(batch.row)
    /\ At("drain") => Topped(batch.row)
    /\ At("skip") => Refused(batch.row)

(* A broadcast is paid for by a counted failure, by a crash, a failed      *)
(* write or a requeue, or by the end of its run.                           *)
Used == count.crashes + count.faults + count.requeues
Uncounted(i) == InFlight(i) /\ ~At("park")

Paid(i) ==
    LET made == attempts[RunOf(i).log] IN
    /\ made <= MaxAttestRetries + Used
    /\ Status(i) = "verified" /\ ~InFlight(i) => made + 1 <= MaxAttestRetries + Used
    /\ Status(i) \in {"verified", "errored"} =>
          made <= arcade_runs[i].failures + Used + (IF Uncounted(i) THEN 1 ELSE 0)

AllPaid ==
    /\ \A i \in Stored : Paid(i)
    /\ \A l \in Logs : (\A i \in Stored : RunOf(i).log # l) => attempts[l] = 0

AttestedIsClosed == \A i \in Stored : Status(i) = "attested" => Closed(RunOf(i).board.day)

Lossless == Straddle = FALSE => SkippedLosesNothing

IInv ==
    /\ TypeOK /\ SubmitsCounted /\ BatchFits /\ BestIsHeld
    /\ EntriesAreBound /\ AnswersHold /\ AttestedIsOnChain /\ Lossless
    /\ AllPaid /\ AttestedIsClosed

Row == [run : Run, status : Statuses, failures : Nat]

-------------------------------------------------------------------------------
(* Facts about rows and ranks.                                             *)

(* What TypeOK says of a stored row.                                       *)
LEMMA RowFacts ==
    ASSUME TypeOK
    PROVE  /\ Len(arcade_runs) \in Nat /\ Stored = 1..Len(arcade_runs)
           /\ Stored \subseteq Rows /\ IsFiniteSet(Stored)
           /\ arcade_runs \in Seq(Row)
           /\ \A i \in Stored :
                 /\ arcade_runs[i] \in Row /\ RunOf(i) \in Run
                 /\ RunOf(i).log \in Logs /\ RunOf(i).addr \in Addrs
                 /\ RunOf(i).board \in Boards /\ RunOf(i).score \in Nat
                 /\ RunOf(i).score # 0 /\ RunOf(i).score \in Scores
                 /\ RunOf(i).board.day \in Nat
                 /\ Status(i) \in Statuses /\ arcade_runs[i].failures \in Nat
<1>1. arcade_runs \in Seq(Row) /\ Len(arcade_runs) <= MaxRuns
  BY DEF TypeOK, Row
<1>2. Len(arcade_runs) \in Nat /\ Stored = 1..Len(arcade_runs)
  BY <1>1, LenProperties, Zenon DEF Stored
<1>3. Stored \subseteq Rows
  BY <1>1, <1>2, DayCloseAssumption DEF Rows, DayCloseAssumption
<1>4. IsFiniteSet(Stored)
  BY <1>2, FS_Interval
<1>5. ASSUME NEW i \in Stored PROVE arcade_runs[i] \in Row
  BY <1>1, <1>2, <1>5, ElementOfSeq
<1>6. ASSUME NEW i \in Stored
      PROVE  /\ RunOf(i) \in Run
             /\ RunOf(i).log \in Logs /\ RunOf(i).addr \in Addrs
             /\ RunOf(i).board \in Boards /\ RunOf(i).score \in Scores
             /\ Status(i) \in Statuses /\ arcade_runs[i].failures \in Nat
  BY <1>5 DEF Row, Run, RunOf, Status
<1>7. \A s \in Scores : s \in Nat /\ s # 0
  BY RealmAssumption DEF Scores, RealmAssumption
<1>8. \A b \in Boards : b.day \in Nat
  BY DayCloseAssumption DEF DayCloseAssumption
<1> QED
  BY <1>1, <1>2, <1>3, <1>4, <1>5, <1>6, <1>7, <1>8

(* The rank order is strict and total.                                     *)
LEMMA Ranks ==
    ASSUME TypeOK
    PROVE  \A i, j, k \in Stored :
              /\ ~RanksBefore(i, i)
              /\ RanksBefore(i, j) \/ RanksBefore(j, i) \/ i = j
              /\ RanksBefore(i, j) /\ RanksBefore(j, k) => RanksBefore(i, k)
              /\ ~RanksBefore(j, i) => RunOf(j).score <= RunOf(i).score
<1>1. \A i \in Stored : i \in Nat /\ RunOf(i).score \in Nat
  BY RowFacts
<1> QED
  BY <1>1 DEF RanksBefore

(* The limit of the query holds.                                           *)
LEMMA BestAreFew ==
    ASSUME TypeOK, NEW b, NEW limit \in Nat
    PROVE  LET best == BestVerifiedDaily(b, limit) IN
           /\ best \subseteq Best(b) /\ best \subseteq Stored
           /\ IsFiniteSet(best) /\ Cardinality(best) <= limit
<1> DEFINE best == BestVerifiedDaily(b, limit)
           ahead(i) == {j \in Best(b) : RanksBefore(j, i)}
           rank == [i \in best |-> Cardinality(ahead(i))]
<1>1. best \subseteq Best(b) /\ Best(b) \subseteq Stored
  BY DEF BestVerifiedDaily, Best
<1>2. IsFiniteSet(Best(b))
  BY <1>1, RowFacts, FS_Subset
<1>3. \A i \in Stored : IsFiniteSet(ahead(i)) /\ Cardinality(ahead(i)) \in Nat
  BY <1>2, FS_Subset, FS_CardinalityType
<1>4. ASSUME NEW i \in best, NEW j \in best, RanksBefore(i, j)
      PROVE  Cardinality(ahead(i)) < Cardinality(ahead(j))
  <2>1. i \in Best(b) /\ i \in Stored /\ j \in Stored
    BY <1>1
  <2>2. ahead(i) \cup {i} \subseteq ahead(j)
    BY <1>1, <1>4, <2>1, Ranks
  <2>3. i \notin ahead(i)
    BY <2>1, Ranks
  <2>4. /\ IsFiniteSet(ahead(i) \cup {i})
        /\ Cardinality(ahead(i) \cup {i}) = Cardinality(ahead(i)) + 1
    BY <1>3, <2>1, <2>3, FS_AddElement
  <2>5. Cardinality(ahead(i) \cup {i}) <= Cardinality(ahead(j))
    BY <1>3, <2>1, <2>2, FS_Subset
  <2> QED
    BY <1>3, <2>1, <2>4, <2>5
<1>5. \A i \in best : Cardinality(ahead(i)) \in 0..limit - 1
  BY <1>1, <1>3 DEF BestVerifiedDaily
<1>6. rank \in Injection(best, 0..limit - 1)
  <2>1. rank \in [best -> 0..limit - 1]
    BY <1>5
  <2>2. ASSUME NEW i \in best, NEW j \in best, rank[i] = rank[j] PROVE i = j
    <3>1. i \in Stored /\ j \in Stored
      BY <1>1
    <3>2. CASE RanksBefore(i, j) BY <1>3, <1>4, <2>2, <3>1, <3>2
    <3>3. CASE RanksBefore(j, i) BY <1>3, <1>4, <2>2, <3>1, <3>3
    <3> QED
      BY <3>1, <3>2, <3>3, Ranks
  <2> QED
    BY <2>1, <2>2 DEF Injection, IsInjective
<1>7. IsFiniteSet(0..limit - 1) /\ Cardinality(0..limit - 1) = limit
  BY FS_Interval
<1>8. IsFiniteSet(best) /\ Cardinality(best) <= limit
  <2> HIDE DEF best, rank
  <2>1. PICK f \in Injection(best, 0..limit - 1) : TRUE
    BY <1>6
  <2>2. IsFiniteSet(best) /\ Cardinality(best) <= Cardinality(0..limit - 1)
    BY <1>7, <2>1, FS_Injection
  <2> QED
    BY <1>7, <2>2
<1> QED
  BY <1>1, <1>8

-------------------------------------------------------------------------------
(* What writes do to the table.                                            *)

(* A status written leaves the rest of the table.                          *)
LEMMA StatusWrite ==
    ASSUME TypeOK, NEW rows, NEW status \in Statuses, SetStatus(rows, status)
    PROVE  /\ arcade_runs' \in Seq(Row) /\ Len(arcade_runs') = Len(arcade_runs)
           /\ Stored' = Stored
           /\ \A i \in Stored :
                 /\ RunOf(i)' = RunOf(i)
                 /\ arcade_runs'[i].failures = arcade_runs[i].failures
                 /\ Status(i)' = IF i \in rows THEN status ELSE Status(i)
<1> DEFINE written(i) == IF i \in rows THEN [arcade_runs[i] EXCEPT !.status = status]
                         ELSE arcade_runs[i]
<1>1. arcade_runs' = [i \in Stored |-> written(i)]
  BY DEF SetStatus
<1>2. \A i \in Stored : written(i) \in Row
  BY RowFacts DEF Row
<1>3. Stored = 1..Len(arcade_runs) /\ Len(arcade_runs) \in Nat
  BY RowFacts
<1>4. arcade_runs' \in [1..Len(arcade_runs) -> Row]
  BY <1>1, <1>2, <1>3
<1>5. arcade_runs' \in Seq(Row)
  BY <1>3, <1>4, SeqDef
<1>6. DOMAIN arcade_runs' = 1..Len(arcade_runs)
  BY <1>4
<1>7. Len(arcade_runs') = Len(arcade_runs)
  BY <1>3, <1>5, <1>6, LenProperties
<1>8. \A i \in Stored : arcade_runs'[i] = written(i)
  BY <1>1
<1> QED
  BY <1>3, <1>5, <1>6, <1>7, <1>8, RowFacts DEF Stored, RunOf, Status, Row

(* Accepted, a run is what its entry holds; no entry gets worse and no log *)
(* is taken from its address.                                              *)
LEMMA EnterImproves ==
    ASSUME TypeOK, EntriesAreBound, NEW run \in Run, Enter(run)
    PROVE  /\ RealmTypeOK' /\ EntriesAreBound'
           /\ owners'[run.log] = run.addr /\ entries'[<<run.board, run.addr>>].score = run.score
           /\ \A b \in Boards, a \in Addrs : entries'[<<b, a>>].score >= entries[<<b, a>>].score
           /\ \A l \in Logs : owners[l] # None => owners'[l] = owners[l]
<1> DEFINE place == <<run.board, run.addr>>
           entry == [log |-> run.log, score |-> run.score]
<1>1. /\ run.log \in Logs /\ run.addr \in Addrs /\ run.board \in Boards
      /\ run.score \in Scores /\ run.score \in Nat /\ run.score # 0
      /\ run.addr # None
  BY RealmAssumption DEF Run, Scores, RealmAssumption
<1>2. /\ entries \in [Boards \X Addrs -> Entry \cup {Absent}]
      /\ owners \in [Logs -> Addrs \cup {None}]
  BY DEF TypeOK, RealmTypeOK
<1>3. /\ entries' = [entries EXCEPT ![place] = entry]
      /\ owners' = [owners EXCEPT ![run.log] = run.addr]
  BY DEF Enter
<1>4. owners[run.log] \in {None, run.addr}
  BY DEF Enter, Verdicts
<1>5. ~(entries[<<run.board, run.addr>>].score >= run.score)
  BY DEF Enter, Verdicts
<1>6. place \in Boards \X Addrs /\ entry \in Entry
  BY <1>1 DEF Entry
<1>7. RealmTypeOK'
  BY <1>1, <1>2, <1>3, <1>6 DEF RealmTypeOK
<1>8. \A b \in Boards, a \in Addrs :
          /\ entries[<<b, a>>].score \in Nat
          /\ entries'[<<b, a>>] = IF b = run.board /\ a = run.addr THEN entry ELSE entries[<<b, a>>]
  BY <1>2, <1>3, <1>6, RealmAssumption DEF Entry, Absent, Scores, RealmAssumption
<1>9. \A l \in Logs : /\ owners[l] # None => owners'[l] = owners[l]
                      /\ owners'[l] = IF l = run.log THEN run.addr ELSE owners[l]
  BY <1>2, <1>3, <1>4
<1>10. ASSUME NEW b \in Boards, NEW a \in Addrs, entries'[<<b, a>>].score # 0
       PROVE  owners'[entries'[<<b, a>>].log] = a
  <2>1. CASE b = run.board /\ a = run.addr
    BY <1>1, <1>8, <1>9, <2>1
  <2>2. CASE ~(b = run.board /\ a = run.addr)
    <3>1. owners[entries[<<b, a>>].log] = a /\ entries[<<b, a>>].score # 0
      BY <1>8, <1>10, <2>2 DEF EntriesAreBound
    <3>2. entries[<<b, a>>].log \in Logs /\ a # None
      BY <1>2, <3>1, RealmAssumption DEF Entry, Absent, RealmAssumption
    <3> QED
      BY <1>8, <1>9, <2>2, <3>1, <3>2
  <2> QED
    BY <2>1, <2>2
<1>11. EntriesAreBound'
  BY <1>10 DEF EntriesAreBound
<1> QED
  BY <1>1, <1>5, <1>7, <1>8, <1>9, <1>11

(* A step that leaves the table, the day and the chain leaves what is said *)
(* of these alone.                                                         *)
LEMMA TableStays ==
    ASSUME IInv, UNCHANGED <<arcade_runs, today, realmVars>>
    PROVE  (EntriesAreBound /\ AttestedIsOnChain /\ Lossless /\ AttestedIsClosed)'
BY DEF IInv, realmVars, EntriesAreBound, AttestedIsOnChain, Lossless, SkippedLosesNothing,
       AttestedIsClosed, Closed, Stored, RunOf, Status

(* Submissions are lost together or stay.                                  *)
LEMMA SubmitsStay ==
    ASSUME TypeOK, SubmitsCounted, Len(arcade_runs') = Len(arcade_runs), today' = today,
           submits' \in {submits, {}}
    PROVE  SubmitsCounted'
<1>1. CASE submits' = submits
  BY <1>1 DEF SubmitsCounted, Closed
<1>2. CASE submits' = {}
  <2>1. Len(arcade_runs) <= MaxRuns /\ Len(arcade_runs) \in Nat
    BY RowFacts DEF TypeOK
  <2> QED
    BY <1>2, <2>1, FS_EmptySet DEF SubmitsCounted
<1> QED
  BY <1>1, <1>2

(* Nothing is owed anew while the same row, or none, is in flight.         *)
LEMMA PaidStays ==
    ASSUME AllPaid, UNCHANGED <<arcade_runs, attempts, count>>,
           \A i \in Stored : InFlight(i)' = InFlight(i) /\ Uncounted(i)' = Uncounted(i)
    PROVE  AllPaid'
<1>1. Stored' = Stored /\ Used' = Used
  BY DEF Stored, Used
<1>2. ASSUME NEW i \in Stored PROVE Paid(i)'
  <2>1. Paid(i) /\ InFlight(i)' = InFlight(i) /\ Uncounted(i)' = Uncounted(i)
    BY DEF AllPaid
  <2> QED
    BY <1>1, <2>1, SMT DEF Paid, RunOf, Status
<1> QED
  BY <1>1, <1>2 DEF AllPaid, RunOf

-------------------------------------------------------------------------------
(* The batcher's own steps.                                                *)

LEMMA TickKeeps ==
    ASSUME IInv, Tick
    PROVE  IInv'
<1> USE DEF At
<1>1. (EntriesAreBound /\ AttestedIsOnChain /\ Lossless /\ AttestedIsClosed)'
  BY TableStays DEF Tick, storeVars
<1>2. SubmitsCounted'
  BY SubmitsStay DEF IInv, Tick, storeVars
<1>3. /\ batch'.at = "board" /\ batch'.runs = {} /\ batch'.attempted = 0
      /\ batch'.row = 0 /\ batch'.boards = PendingDailyGameDays
  BY DEF Tick, Idle
<1>4. batch.at = "idle" /\ UNCHANGED <<storeVars, mempool, attempts, count, leftOver, realmVars>>
  BY DEF Tick
<1>5. PendingDailyGameDays \subseteq Boards /\ \A b \in PendingDailyGameDays : Closed(b.day)
  BY RowFacts DEF IInv, PendingDailyGameDays
<1>6. TypeOK'
  <2>1. batch' = [at |-> "board", boards |-> PendingDailyGameDays, runs |-> {},
                  attempted |-> 0, row |-> 0]
    BY DEF Tick, Idle
  <2> QED
    BY <1>4, <1>5, <2>1, DayCloseAssumption
    DEF IInv, TypeOK, RealmTypeOK, realmVars, storeVars, Places, DayCloseAssumption
<1>7. BatchFits'
  BY <1>3, <1>4, <1>5, FS_EmptySet, DayCloseAssumption
  DEF BatchFits, Flights, Closed, storeVars, DayCloseAssumption
<1>8. BestIsHeld'
  BY <1>3 DEF BestIsHeld, InFlight, Flights
<1>9. AnswersHold'
  BY <1>3 DEF AnswersHold
<1>10. AllPaid'
  <2>1. \A i \in Stored : InFlight(i)' = InFlight(i) /\ Uncounted(i)' = Uncounted(i)
    BY <1>3, <1>4 DEF InFlight, Uncounted, Flights
  <2> QED
    BY <1>4, <2>1, PaidStays DEF IInv, storeVars
<1> QED
  BY <1>1, <1>2, <1>6, <1>7, <1>8, <1>9, <1>10 DEF IInv

(* A settled board, or a finished cycle, leaves nothing in hand.           *)
LEMMA EndKeeps ==
    ASSUME IInv, EndCycle \/ EndBoard
    PROVE  IInv'
<1> USE DEF At
<1>1. /\ batch.at \in {"board", "run"} /\ batch'.at \in {"idle", "board"}
      /\ batch'.runs = {} /\ batch'.boards \subseteq batch.boards
      /\ batch'.attempted \in {0, batch.attempted} /\ batch'.row \in {0, batch.row}
      /\ batch' \in [at : Places, boards : SUBSET Boards, runs : SUBSET Rows,
                     attempted : 0..MaxPerCycle, row : Rows \cup {0}]
  <2>1. batch \in [at : Places, boards : SUBSET Boards, runs : SUBSET Rows,
                   attempted : 0..MaxPerCycle, row : Rows \cup {0}]
    BY DEF IInv, TypeOK
  <2>2. CASE EndCycle
    BY <2>1, <2>2, DayCloseAssumption DEF EndCycle, Idle, Places, DayCloseAssumption
  <2>3. CASE EndBoard
    BY <2>1, <2>3 DEF EndBoard, Goto, Places
  <2> QED
    BY <2>2, <2>3
<1>2. UNCHANGED <<storeVars, mempool, attempts, count, leftOver, realmVars>>
  BY DEF EndCycle, EndBoard
<1>3. (EntriesAreBound /\ AttestedIsOnChain /\ Lossless /\ AttestedIsClosed)'
  BY <1>2, TableStays DEF storeVars
<1>4. SubmitsCounted'
  BY <1>2, SubmitsStay DEF IInv, storeVars
<1>5. TypeOK'
  BY <1>1, <1>2 DEF IInv, TypeOK, RealmTypeOK, realmVars, storeVars
<1>6. BatchFits'
  <2>1. batch.attempted \in 0..MaxPerCycle /\ \A b \in batch.boards : Closed(b.day)
    BY DEF IInv, TypeOK, BatchFits
  <2> QED
    BY <1>1, <1>2, <2>1, FS_EmptySet, DayCloseAssumption
    DEF BatchFits, Flights, Closed, storeVars, DayCloseAssumption
<1>7. BestIsHeld'
  BY <1>1 DEF BestIsHeld, InFlight, Flights
<1>8. AnswersHold'
  BY <1>1 DEF AnswersHold
<1>9. AllPaid'
  <2>1. \A i \in Stored : InFlight(i)' = InFlight(i) /\ Uncounted(i)' = Uncounted(i)
    BY <1>1 DEF InFlight, Uncounted, Flights
  <2> QED
    BY <1>2, <2>1, PaidStays DEF IInv, storeVars
<1> QED
  BY <1>3, <1>4, <1>5, <1>6, <1>7, <1>8, <1>9 DEF IInv

LEMMA NextBoardKeeps ==
    ASSUME IInv, NEW b \in Boards, NextBoard(b)
    PROVE  IInv'
<1> DEFINE limit == MaxPerCycle - batch.attempted
           best == BestVerifiedDaily(b, limit)
<1> USE DEF At
<1> HIDE DEF best
<1>1. /\ batch.at = "board" /\ b \in batch.boards /\ Closed(b.day)
      /\ batch.attempted \in Nat /\ MaxPerCycle \in Nat /\ batch.attempted < MaxPerCycle
  BY DayCloseAssumption DEF IInv, NextBoard, BatchFits, TypeOK, DayCloseAssumption
<1>2. /\ best \subseteq Best(b) /\ best \subseteq Stored
      /\ IsFiniteSet(best) /\ Cardinality(best) <= limit
  <2>1. limit \in Nat
    BY <1>1
  <2>2. TypeOK
    BY DEF IInv
  <2> HIDE DEF limit
  <2> QED
    BY <2>1, <2>2, BestAreFew DEF best
<1>3. UNCHANGED <<storeVars, mempool, attempts, count, leftOver, realmVars>>
  BY DEF NextBoard
<1>4. /\ batch' = [batch EXCEPT !.at = "run", !.boards = @ \ {b}, !.runs = best]
      /\ batch \in [at : Places, boards : SUBSET Boards, runs : SUBSET Rows,
                    attempted : 0..MaxPerCycle, row : Rows \cup {0}]
  BY DEF IInv, TypeOK, NextBoard, best
<1>5. /\ batch'.at = "run" /\ batch'.boards = batch.boards \ {b} /\ batch'.runs = best
      /\ batch'.attempted = batch.attempted /\ batch'.row = batch.row
  BY <1>4
<1>6. (EntriesAreBound /\ AttestedIsOnChain /\ Lossless /\ AttestedIsClosed)'
  BY <1>3, TableStays DEF storeVars
<1>7. SubmitsCounted'
  BY <1>3, SubmitsStay DEF IInv, storeVars
<1>8. TypeOK'
  <2>1. best \subseteq Rows
    BY <1>2, RowFacts DEF IInv
  <2>2. batch' \in [at : Places, boards : SUBSET Boards, runs : SUBSET Rows,
                    attempted : 0..MaxPerCycle, row : Rows \cup {0}]
    BY <1>4, <2>1 DEF Places
  <2> QED
    BY <1>3, <2>2 DEF IInv, TypeOK, RealmTypeOK, realmVars, storeVars
<1>9. ASSUME NEW i \in best
      PROVE  /\ i \in Stored /\ Status(i) = "verified" /\ RunOf(i).board = b
             /\ NoneBetter(i)
             /\ \A j \in best : SameBoardAndAddr(i, j) => i = j
  <2>1. i \in Best(b)
    BY <1>2
  <2>2. i \in Stored /\ Status(i) = "verified" /\ RunOf(i).board = b
    BY <2>1 DEF Best
  <2>3. ASSUME NEW j \in Stored, SameBoardAndAddr(i, j), Status(j) = "verified"
        PROVE  ~RanksBefore(j, i)
    BY <2>1, <2>3 DEF Best
  <2>4. ASSUME NEW j \in Stored, SameBoardAndAddr(i, j), Status(j) = "errored"
        PROVE  ~(RunOf(j).score >= RunOf(i).score)
    BY <2>1, <2>4 DEF Best, Parked
  <2>5. NoneBetter(i)
    BY <2>2, <2>3, <2>4, Ranks, RowFacts DEF NoneBetter, IInv
  <2>6. ASSUME NEW j \in best, SameBoardAndAddr(i, j) PROVE i = j
    <3>1. j \in Best(b) /\ j \in Stored /\ Status(j) = "verified"
      BY <1>2 DEF Best
    <3>2. ~RanksBefore(j, i) /\ ~RanksBefore(i, j)
      BY <2>1, <2>2, <2>3, <2>6, <3>1 DEF Best, SameBoardAndAddr
    <3> QED
      BY <2>2, <3>1, <3>2, Ranks DEF IInv
  <2> QED
    BY <2>2, <2>5, <2>6
<1>10. BatchFits'
  <2>1. batch'.attempted + Cardinality(batch'.runs) <= MaxPerCycle
    BY <1>1, <1>2, <1>5, FS_CardinalityType
  <2>2. \A c \in batch'.boards : Closed(c.day)'
    BY <1>3, <1>5 DEF IInv, BatchFits, Closed, storeVars
  <2>3. \A i \in batch'.runs : (Held(i) /\ Status(i) = "verified")'
    BY <1>1, <1>3, <1>5, <1>9 DEF Held, Closed, Stored, RunOf, Status, storeVars
  <2>4. \A i, j \in batch'.runs : SameBoardAndAddr(i, j)' => i = j
    BY <1>3, <1>5, <1>9 DEF SameBoardAndAddr, RunOf, storeVars
  <2> QED
    BY <1>5, <2>1, <2>2, <2>3, <2>4 DEF BatchFits, Flights
<1>11. BestIsHeld'
  BY <1>3, <1>5, <1>9
  DEF BestIsHeld, InFlight, Flights, NoneBetter, Stored, RunOf, Status, SameBoardAndAddr, storeVars
<1>12. AnswersHold'
  BY <1>5 DEF AnswersHold
<1>13. AllPaid'
  <2>1. \A i \in Stored : InFlight(i)' = InFlight(i) /\ Uncounted(i)' = Uncounted(i)
    BY <1>1, <1>5 DEF InFlight, Uncounted, Flights
  <2> QED
    BY <1>3, <2>1, PaidStays DEF IInv, storeVars
<1> QED
  BY <1>6, <1>7, <1>8, <1>10, <1>11, <1>12, <1>13 DEF IInv

LEMMA GotoFacts ==
    ASSUME TypeOK, NEW place \in Places, Goto(place)
    PROVE  /\ batch'.at = place /\ batch'.runs = batch.runs /\ batch'.boards = batch.boards
           /\ batch'.attempted = batch.attempted /\ batch'.row = batch.row
           /\ batch' \in [at : Places, boards : SUBSET Boards, runs : SUBSET Rows,
                          attempted : 0..MaxPerCycle, row : Rows \cup {0}]
<1>1. batch \in [at : Places, boards : SUBSET Boards, runs : SUBSET Rows,
                 attempted : 0..MaxPerCycle, row : Rows \cup {0}]
  BY DEF TypeOK
<1> QED
  BY <1>1 DEF Goto

(* Another answer about the same row.                                      *)
LEMMA GotoKeepsFit ==
    ASSUME TypeOK, BatchFits, BestIsHeld, batch.at \in Flights,
           NEW place \in Flights \cup {"run", "stopped"}, Goto(place),
           At("resolve") => place \in {"run", "stopped"},
           place # "resolve", UNCHANGED <<arcade_runs, today>>
    PROVE  BatchFits' /\ BestIsHeld'
<1>1. /\ batch'.at = place /\ batch'.runs = batch.runs /\ batch'.boards = batch.boards
      /\ batch'.attempted = batch.attempted /\ batch'.row = batch.row
  BY GotoFacts DEF Flights, Places
<1>2. BatchFits'
  BY <1>1 DEF BatchFits, Flights, Held, At, Closed, Stored, RunOf, Status, SameBoardAndAddr
<1>3. BestIsHeld'
  BY <1>1 DEF BestIsHeld, InFlight, NoneBetter, Flights, Stored, RunOf, Status, SameBoardAndAddr
<1> QED
  BY <1>2, <1>3

LEMMA LookupKeeps ==
    ASSUME IInv, LookupEntry
    PROVE  IInv'
<1> DEFINE i == batch.row
           entry == entries[<<RunOf(i).board, RunOf(i).addr>>]
<1>1. At("lookup") /\ UNCHANGED <<storeVars, mempool, attempts, count, leftOver, realmVars>>
  BY DEF LookupEntry
<1>2. i \in Stored /\ Status(i) = "verified"
  BY <1>1 DEF IInv, BatchFits, Flights, At, Held
<1>3. PICK place \in {"mark", "drain", "fail"} :
          Goto(place) /\ (place = "fail" \/ place = Resolution(i, entry))
  BY DEF LookupEntry, Resolution
<1>4. /\ place = "mark" => entry.log = RunOf(i).log /\ entry.score = RunOf(i).score
      /\ place = "drain" => entry.score >= RunOf(i).score
  BY <1>3 DEF Resolution
<1>5. place = "mark" => OnChain(i) /\ Topped(i)
  BY <1>2, <1>4, RowFacts DEF IInv, EntriesAreBound, OnChain, Topped
<1>6. place = "drain" => Topped(i)
  BY <1>4 DEF Topped
<1>7. /\ batch'.at = place /\ batch'.row = i
      /\ batch' \in [at : Places, boards : SUBSET Boards, runs : SUBSET Rows,
                     attempted : 0..MaxPerCycle, row : Rows \cup {0}]
  BY <1>3, GotoFacts DEF IInv, Places
<1>8. (EntriesAreBound /\ AttestedIsOnChain /\ Lossless /\ AttestedIsClosed)'
  BY <1>1, TableStays DEF storeVars
<1>9. SubmitsCounted'
  BY <1>1, SubmitsStay DEF IInv, storeVars
<1>10. TypeOK'
  BY <1>1, <1>7 DEF IInv, TypeOK, RealmTypeOK, realmVars, storeVars
<1>11. BatchFits' /\ BestIsHeld'
  BY <1>1, <1>3, GotoKeepsFit DEF IInv, Flights, At, storeVars
<1>12. AnswersHold'
  BY <1>1, <1>5, <1>6, <1>7, SMT
  DEF AnswersHold, At, OnChain, Topped, RunOf, storeVars, realmVars
<1>13. AllPaid'
  <2>1. \A j \in Stored : InFlight(j)' = InFlight(j) /\ Uncounted(j)' = Uncounted(j)
    BY <1>1, <1>7 DEF InFlight, Uncounted, Flights, At
  <2> QED
    BY <1>1, <2>1, PaidStays DEF IInv, storeVars
<1> QED
  BY <1>8, <1>9, <1>10, <1>11, <1>12, <1>13 DEF IInv

(* A written table still has one row for each log.                         *)
LEMMA TableTyped ==
    ASSUME TypeOK, arcade_runs' \in Seq(Row), Len(arcade_runs') = Len(arcade_runs),
           Stored' = Stored, \A i \in Stored : RunOf(i)' = RunOf(i),
           batch' \in [at : Places, boards : SUBSET Boards, runs : SUBSET Rows,
                       attempted : 0..MaxPerCycle, row : Rows \cup {0}],
           UNCHANGED <<submits, today, mempool, attempts, realmVars>>,
           count' \in [crashes : 0..MaxCrashes, faults : 0..MaxFaults,
                       requeues : 0..MaxRequeues, foreign : 0..MaxForeign],
           leftOver' \in SUBSET Rows
    PROVE  TypeOK'
<1>1. \A i, j \in DOMAIN arcade_runs' :
          arcade_runs'[i].run.log = arcade_runs'[j].run.log => i = j
  BY DEF TypeOK, Stored, RunOf
<1>2. RealmTypeOK'
  BY DEF TypeOK, RealmTypeOK, realmVars
<1> QED
  BY <1>1, <1>2 DEF TypeOK, Row

(* The batcher gives rows up or parks them, and goes on with its board.    *)
LEMMA SettlingKeeps ==
    ASSUME IInv, batch.at \in Flights,
           NEW rows \in SUBSET Stored, NEW status \in {"skipped", "errored"},
           SetStatus(rows, status), Goto("run"),
           UNCHANGED <<submits, today, mempool, attempts, count, leftOver, realmVars>>,
           \A i \in rows : Status(i) = "verified" /\ SameBoardAndAddr(batch.row, i),
           \A i \in rows : status = "skipped" /\ Straddle = FALSE => Topped(i) \/ Refused(i),
           status = "errored" => At("park"),
           Status(batch.row) = "verified" => batch.row \in rows
    PROVE  IInv'
<1>1. /\ arcade_runs' \in Seq(Row) /\ Len(arcade_runs') = Len(arcade_runs)
      /\ Stored' = Stored
      /\ \A i \in Stored :
            /\ RunOf(i)' = RunOf(i)
            /\ arcade_runs'[i].failures = arcade_runs[i].failures
            /\ Status(i)' = IF i \in rows THEN status ELSE Status(i)
  <2>1. TypeOK /\ status \in Statuses
    BY DEF IInv, Statuses
  <2> QED
    BY <2>1, StatusWrite
<1>2. /\ batch'.at = "run" /\ batch'.runs = batch.runs /\ batch'.boards = batch.boards
      /\ batch'.attempted = batch.attempted /\ batch'.row = batch.row
      /\ batch' \in [at : Places, boards : SUBSET Boards, runs : SUBSET Rows,
                     attempted : 0..MaxPerCycle, row : Rows \cup {0}]
  BY GotoFacts DEF IInv, Places
<1>3. \A i \in rows : i \notin batch.runs
  BY DEF IInv, BatchFits, Flights
<1>4. TypeOK'
  BY <1>1, <1>2, TableTyped DEF IInv, TypeOK
<1>5. SubmitsCounted'
  BY <1>1, SubmitsStay DEF IInv
<1>6. BatchFits'
  <2>1. batch.runs \subseteq Stored
    BY DEF IInv, BatchFits, Held
  <2>2. batch'.attempted + Cardinality(batch'.runs) <= MaxPerCycle
    BY <1>2 DEF IInv, BatchFits
  <2>3. \A b \in batch'.boards : Closed(b.day)'
    BY <1>2 DEF IInv, BatchFits, Closed
  <2>4. \A i \in batch'.runs : (Held(i) /\ Status(i) = "verified")'
    BY <1>1, <1>2, <1>3, <2>1 DEF IInv, BatchFits, Held, Closed
  <2>5. \A i, j \in batch'.runs : SameBoardAndAddr(i, j)' => i = j
    BY <1>1, <1>2, <2>1 DEF IInv, BatchFits, SameBoardAndAddr
  <2> QED
    BY <1>2, <2>2, <2>3, <2>4, <2>5 DEF BatchFits, Flights
<1>7. BestIsHeld'
  <2>1. ASSUME NEW i \in Stored, i \in batch.runs, Straddle = FALSE,
               NEW j \in Stored, SameBoardAndAddr(i, j)',
               Status(j)' \in {"verified", "errored"}
        PROVE  RunOf(j).score <= RunOf(i).score
    <3>1. SameBoardAndAddr(i, j) /\ Status(j) \in {"verified", "errored"}
      BY <1>1, <2>1 DEF SameBoardAndAddr
    <3> QED
      BY <2>1, <3>1 DEF IInv, BestIsHeld, NoneBetter
  <2> QED
    BY <1>1, <1>2, <2>1 DEF BestIsHeld, NoneBetter, InFlight, Flights
<1>8. AnswersHold'
  BY <1>2 DEF AnswersHold, At
<1>9. EntriesAreBound'
  BY DEF IInv, EntriesAreBound, realmVars
<1>10. AttestedIsOnChain'
  BY <1>1 DEF IInv, AttestedIsOnChain, realmVars
<1>11. AttestedIsClosed'
  BY <1>1 DEF IInv, AttestedIsClosed, Closed
<1>12. Lossless'
  BY <1>1 DEF IInv, Lossless, SkippedLosesNothing, Topped, Refused, realmVars
<1>13. AllPaid'
  <2>1. ASSUME NEW i \in Stored PROVE Paid(i)'
    <3>1. Paid(i)
      BY DEF IInv, AllPaid
    <3>2. Status(i)' \in {"verified", "errored"} => ~Uncounted(i)
      BY <1>1 DEF IInv, BatchFits, InFlight, Uncounted, At
    <3>3. Status(i)' = "verified" => Status(i) = "verified" /\ ~InFlight(i)
      BY <1>1 DEF InFlight
    <3>4. Status(i)' \in {"verified", "errored"} => Status(i) \in {"verified", "errored"}
      BY <1>1
    <3>5. ~InFlight(i)' /\ ~Uncounted(i)' /\ Used' = Used
      BY <1>2 DEF InFlight, Uncounted, Flights, Used
    <3> QED
      BY <1>1, <3>1, <3>2, <3>3, <3>4, <3>5 DEF Paid
  <2> QED
    BY <1>1, <2>1 DEF IInv, AllPaid
<1> QED
  BY <1>4, <1>5, <1>6, <1>7, <1>8, <1>9, <1>10, <1>11, <1>12, <1>13 DEF IInv

(* What is known of the row in flight.                                     *)
LEMMA FlightFacts ==
    ASSUME IInv, batch.at \in Flights
    PROVE  /\ batch.row \in Stored /\ Closed(RunOf(batch.row).board.day)
           /\ Status(batch.row) = IF At("resolve") THEN "attested" ELSE "verified"
           /\ \A j \in batch.runs : j \in Stored /\ ~SameBoardAndAddr(batch.row, j)
           /\ Straddle = FALSE => NoneBetter(batch.row)
           /\ SameBoardAndAddr(batch.row, batch.row)
BY DEF IInv, BatchFits, BestIsHeld, InFlight, Held, SameBoardAndAddr

(* The rest of the address ranks below the row that is on chain.           *)
LEMMA ResolveKeeps ==
    ASSUME IInv, ResolveSupersededDaily
    PROVE  IInv'
<1> DEFINE row == batch.row
           rows == Superseded(row) \ (IF At("resolve") THEN {row} ELSE {})
<1>1. /\ At("resolve") \/ At("drain")
      /\ SetStatus(rows, "skipped") /\ Goto("run")
      /\ UNCHANGED <<submits, today, mempool, attempts, count, leftOver, realmVars>>
  BY DEF ResolveSupersededDaily
<1>2. batch.at \in Flights
  BY <1>1 DEF At, Flights
<1>3. Topped(row)
  BY <1>1 DEF IInv, AnswersHold, At
<1>4. rows \in SUBSET Stored
  BY DEF Superseded
<1>5. \A i \in rows : Status(i) = "verified" /\ SameBoardAndAddr(row, i)
  BY DEF Superseded
<1>6. ASSUME NEW i \in rows, Straddle = FALSE PROVE Topped(i)
  <2>1. RunOf(i).score <= RunOf(row).score
    BY <1>2, <1>4, <1>5, <1>6, FlightFacts DEF NoneBetter
  <2>2. /\ RunOf(i).score \in Nat /\ RunOf(row).score \in Nat
        /\ RunOf(row).board \in Boards /\ RunOf(row).addr \in Addrs
    BY <1>2, <1>4, RowFacts, FlightFacts DEF IInv
  <2>3. entries[<<RunOf(row).board, RunOf(row).addr>>].score \in Nat
    BY <2>2, RealmAssumption DEF IInv, TypeOK, RealmTypeOK, Entry, Absent, Scores, RealmAssumption
  <2> QED
    BY <1>3, <1>5, <2>1, <2>2, <2>3 DEF Topped, SameBoardAndAddr
<1>7. Status(row) = "verified" => row \in rows
  BY <1>2, FlightFacts DEF Superseded
<1>8. /\ \A i \in rows : "skipped" = "skipped" /\ Straddle = FALSE => Topped(i) \/ Refused(i)
      /\ "skipped" = "errored" => At("park")
      /\ "skipped" \in {"skipped", "errored"}
  BY <1>6
<1> HIDE DEF rows
<1> QED
  BY <1>1, <1>2, <1>4, <1>5, <1>7, <1>8, SettlingKeeps, Zenon

LEMMA SkipKeeps ==
    ASSUME IInv, MarkSkipped
    PROVE  IInv'
<1> DEFINE rows == {batch.row} \cap {i \in Stored : Status(i) = "verified"}
<1>1. At("skip") /\ SetStatus(rows, "skipped") /\ Goto("run")
      /\ UNCHANGED <<submits, today, mempool, attempts, count, leftOver, realmVars>>
  BY DEF MarkSkipped
<1>2. batch.at \in Flights /\ ~At("resolve") /\ Refused(batch.row)
  BY <1>1 DEF At, Flights, IInv, AnswersHold
<1>3. rows \in SUBSET Stored /\ \A i \in rows : i = batch.row /\ Status(i) = "verified"
  OBVIOUS
<1>4. batch.row \in Stored /\ Status(batch.row) = "verified" => batch.row \in rows
  OBVIOUS
<1>5. /\ \A i \in rows : Status(i) = "verified" /\ SameBoardAndAddr(batch.row, i)
      /\ Status(batch.row) = "verified" => batch.row \in rows
      /\ \A i \in rows : "skipped" = "skipped" /\ Straddle = FALSE => Topped(i) \/ Refused(i)
      /\ "skipped" = "errored" => At("park")
      /\ "skipped" \in {"skipped", "errored"}
  BY <1>2, <1>3, <1>4, FlightFacts
<1> HIDE DEF rows
<1> QED
  BY <1>1, <1>2, <1>3, <1>5, SettlingKeeps, Zenon

LEMMA ParkKeeps ==
    ASSUME IInv, MarkErrored
    PROVE  IInv'
<1> DEFINE rows == {batch.row} \cap {i \in Stored : Status(i) = "verified"}
<1>1. At("park") /\ SetStatus(rows, "errored") /\ Goto("run")
      /\ UNCHANGED <<submits, today, mempool, attempts, count, leftOver, realmVars>>
  BY DEF MarkErrored
<1>2. batch.at \in Flights /\ ~At("resolve")
  BY <1>1 DEF At, Flights
<1>3. rows \in SUBSET Stored /\ \A i \in rows : i = batch.row /\ Status(i) = "verified"
  OBVIOUS
<1>4. batch.row \in Stored /\ Status(batch.row) = "verified" => batch.row \in rows
  OBVIOUS
<1>5. /\ \A i \in rows : Status(i) = "verified" /\ SameBoardAndAddr(batch.row, i)
      /\ Status(batch.row) = "verified" => batch.row \in rows
      /\ \A i \in rows : "errored" = "skipped" /\ Straddle = FALSE => Topped(i) \/ Refused(i)
      /\ "errored" = "errored" => At("park")
      /\ "errored" \in {"skipped", "errored"}
  BY <1>1, <1>2, <1>3, <1>4, FlightFacts
<1> HIDE DEF rows
<1> QED
  BY <1>1, <1>2, <1>3, <1>5, SettlingKeeps, Zenon

LEMMA MarkKeeps ==
    ASSUME IInv, MarkAttested
    PROVE  IInv'
<1> DEFINE row == batch.row
<1>1. /\ At("mark") /\ SetStatus({row}, "attested") /\ Goto("resolve")
      /\ UNCHANGED <<submits, today, mempool, attempts, count, leftOver, realmVars>>
  BY DEF MarkAttested
<1>2. /\ row \in Stored /\ Closed(RunOf(row).board.day) /\ Status(row) = "verified"
      /\ \A j \in batch.runs : j \in Stored /\ ~SameBoardAndAddr(row, j)
      /\ Straddle = FALSE => NoneBetter(row)
      /\ row \notin batch.runs
  BY <1>1, FlightFacts DEF At, Flights
<1>3. OnChain(row) /\ Topped(row)
  BY <1>1 DEF IInv, AnswersHold, At
<1>4. /\ arcade_runs' \in Seq(Row) /\ Len(arcade_runs') = Len(arcade_runs)
      /\ Stored' = Stored
      /\ \A i \in Stored :
            /\ RunOf(i)' = RunOf(i)
            /\ arcade_runs'[i].failures = arcade_runs[i].failures
            /\ Status(i)' = IF i = row THEN "attested" ELSE Status(i)
  <2>1. TypeOK /\ "attested" \in Statuses
    BY DEF IInv, Statuses
  <2> QED
    BY <1>1, <2>1, StatusWrite
<1>5. /\ batch'.at = "resolve" /\ batch'.runs = batch.runs /\ batch'.boards = batch.boards
      /\ batch'.attempted = batch.attempted /\ batch'.row = row
      /\ batch' \in [at : Places, boards : SUBSET Boards, runs : SUBSET Rows,
                     attempted : 0..MaxPerCycle, row : Rows \cup {0}]
  BY <1>1, GotoFacts DEF IInv, Places
<1>6. TypeOK'
  BY <1>1, <1>4, <1>5, TableTyped DEF IInv, TypeOK
<1>7. SubmitsCounted'
  BY <1>1, <1>4, SubmitsStay DEF IInv
<1>8. BatchFits'
  <2>1. batch'.attempted + Cardinality(batch'.runs) <= MaxPerCycle
    BY <1>5 DEF IInv, BatchFits
  <2>2. \A b \in batch'.boards : Closed(b.day)'
    BY <1>1, <1>5 DEF IInv, BatchFits, Closed
  <2>3. \A i \in batch'.runs : (Held(i) /\ Status(i) = "verified")'
    BY <1>1, <1>2, <1>4, <1>5 DEF IInv, BatchFits, Held, Closed
  <2>4. \A i, j \in batch'.runs : SameBoardAndAddr(i, j)' => i = j
    BY <1>2, <1>4, <1>5 DEF IInv, BatchFits, SameBoardAndAddr
  <2>5. Held(batch.row)' /\ Status(batch.row)' = "attested"
    BY <1>1, <1>2, <1>4, <1>5 DEF Held, Closed
  <2>6. \A j \in batch'.runs : ~SameBoardAndAddr(batch.row, j)'
    BY <1>2, <1>4, <1>5 DEF SameBoardAndAddr
  <2> QED
    BY <1>5, <2>1, <2>2, <2>3, <2>4, <2>5, <2>6 DEF BatchFits, At
<1>9. BestIsHeld'
  <2>1. ASSUME NEW i \in Stored, i \in batch.runs \/ i = row, Straddle = FALSE,
               NEW j \in Stored, SameBoardAndAddr(i, j)',
               Status(j)' \in {"verified", "errored"}
        PROVE  RunOf(j).score <= RunOf(i).score
    <3>1. SameBoardAndAddr(i, j) /\ Status(j) \in {"verified", "errored"}
      BY <1>4, <2>1 DEF SameBoardAndAddr
    <3> QED
      BY <1>2, <2>1, <3>1 DEF IInv, BestIsHeld, NoneBetter
  <2> QED
    BY <1>4, <1>5, <2>1 DEF BestIsHeld, NoneBetter, InFlight
<1>10. AnswersHold'
  BY <1>1, <1>2, <1>3, <1>4, <1>5 DEF AnswersHold, At, OnChain, Topped, realmVars
<1>11. EntriesAreBound'
  BY <1>1 DEF IInv, EntriesAreBound, realmVars
<1>12. AttestedIsOnChain'
  BY <1>1, <1>3, <1>4 DEF IInv, AttestedIsOnChain, OnChain, Topped, realmVars
<1>13. AttestedIsClosed'
  BY <1>1, <1>2, <1>4 DEF IInv, AttestedIsClosed, Closed
<1>14. Lossless'
  BY <1>1, <1>4 DEF IInv, Lossless, SkippedLosesNothing, realmVars
<1>15. AllPaid'
  <2>1. ASSUME NEW i \in Stored PROVE Paid(i)'
    <3>1. Paid(i) /\ Used' = Used
      BY <1>1 DEF IInv, AllPaid, Used
    <3>2. i # row => (Uncounted(i)' = Uncounted(i) /\ InFlight(i)' = InFlight(i))
      BY <1>1, <1>5 DEF InFlight, Uncounted
    <3> QED
      BY <1>1, <1>4, <3>1, <3>2 DEF Paid
  <2> QED
    BY <1>1, <1>4, <2>1 DEF IInv, AllPaid
<1> QED
  BY <1>6, <1>7, <1>8, <1>9, <1>10, <1>11, <1>12, <1>13, <1>14, <1>15 DEF IInv

LEMMA CountFailureKeeps ==
    ASSUME IInv, IncrementAttestFailures
    PROVE  IInv'
<1>0. PICK row \in Stored :
          row = batch.row /\ batch.at \in Flights /\ At("fail")
  BY FlightFacts DEF IncrementAttestFailures, At, Flights
<1> DEFINE failures == arcade_runs[row].failures + 1
           written == [arcade_runs[row] EXCEPT !.failures = failures]
<1>1. /\ At("fail") /\ Status(row) = "verified"
      /\ arcade_runs' = [arcade_runs EXCEPT ![row] = written]
      /\ UNCHANGED <<submits, today, mempool, attempts, count, leftOver, realmVars>>
  BY <1>0 DEF IncrementAttestFailures
<1>2. PICK place \in {"park", "run"} :
          /\ Goto(place)
          /\ place = "run" => ~(failures >= MaxAttestRetries)
  BY <1>0 DEF IncrementAttestFailures, MustPark
<1>3. /\ row \in Stored /\ batch.at \in Flights
      /\ \A j \in batch.runs : j \in Stored /\ ~SameBoardAndAddr(row, j)
  BY <1>0, FlightFacts
<1>4. /\ arcade_runs' \in Seq(Row) /\ Len(arcade_runs') = Len(arcade_runs)
      /\ Stored' = Stored
      /\ \A i \in Stored :
            /\ RunOf(i)' = RunOf(i) /\ Status(i)' = Status(i)
            /\ arcade_runs'[i].failures = IF i = row THEN failures ELSE arcade_runs[i].failures
  <2>1. arcade_runs[row] \in Row /\ Stored = 1..Len(arcade_runs) /\ arcade_runs \in Seq(Row)
    BY <1>3, RowFacts DEF IInv
  <2>2. /\ written \in Row /\ written.run = arcade_runs[row].run
        /\ written.status = arcade_runs[row].status /\ written.failures = failures
    BY <2>1 DEF Row
  <2> HIDE DEF written
  <2>3. /\ arcade_runs' \in Seq(Row) /\ Len(arcade_runs') = Len(arcade_runs)
        /\ \A i \in Stored : arcade_runs'[i] = IF i = row THEN written ELSE arcade_runs[i]
    BY <1>1, <1>3, <2>1, <2>2, ExceptSeq
  <2>4. DOMAIN arcade_runs' = 1..Len(arcade_runs')
    BY <2>3, LenProperties
  <2> QED
    BY <2>1, <2>2, <2>3, <2>4 DEF Stored, RunOf, Status
<1>5. /\ batch'.at = place /\ batch'.runs = batch.runs /\ batch'.boards = batch.boards
      /\ batch'.attempted = batch.attempted /\ batch'.row = row
      /\ batch' \in [at : Places, boards : SUBSET Boards, runs : SUBSET Rows,
                     attempted : 0..MaxPerCycle, row : Rows \cup {0}]
  BY <1>0, <1>2, GotoFacts DEF IInv, Places
<1>6. TypeOK'
  BY <1>1, <1>4, <1>5, TableTyped DEF IInv, TypeOK
<1>7. SubmitsCounted'
  BY <1>1, <1>4, SubmitsStay DEF IInv
<1>8. BatchFits'
  <2>1. batch'.attempted + Cardinality(batch'.runs) <= MaxPerCycle
    BY <1>5 DEF IInv, BatchFits
  <2>2. \A b \in batch'.boards : Closed(b.day)'
    BY <1>1, <1>5 DEF IInv, BatchFits, Closed
  <2>3. \A i \in batch'.runs : (Held(i) /\ Status(i) = "verified")'
    BY <1>1, <1>3, <1>4, <1>5 DEF IInv, BatchFits, Held, Closed
  <2>4. \A i, j \in batch'.runs : SameBoardAndAddr(i, j)' => i = j
    BY <1>3, <1>4, <1>5 DEF IInv, BatchFits, SameBoardAndAddr
  <2>5. Held(row)' /\ Status(row)' = "verified"
    BY <1>0, <1>1, <1>3, <1>4, <1>5, FlightFacts DEF Held, Closed
  <2>6. \A j \in batch'.runs : ~SameBoardAndAddr(row, j)'
    BY <1>3, <1>4, <1>5 DEF SameBoardAndAddr
  <2> QED
    BY <1>5, <2>1, <2>2, <2>3, <2>4, <2>5, <2>6 DEF BatchFits, At
<1>9. BestIsHeld'
  <2>1. ASSUME NEW i \in Stored, i \in batch.runs \/ i = row, Straddle = FALSE,
               NEW j \in Stored, SameBoardAndAddr(i, j)',
               Status(j)' \in {"verified", "errored"}
        PROVE  RunOf(j).score <= RunOf(i).score
    <3>1. SameBoardAndAddr(i, j) /\ Status(j) \in {"verified", "errored"}
      BY <1>4, <2>1 DEF SameBoardAndAddr
    <3>2. NoneBetter(i)
      BY <1>0, <2>1 DEF IInv, BestIsHeld, InFlight
    <3> QED
      BY <3>1, <3>2 DEF NoneBetter
  <2> QED
    BY <1>4, <1>5, <2>1 DEF BestIsHeld, NoneBetter, InFlight
<1>10. AnswersHold'
  BY <1>5 DEF AnswersHold, At
<1>11. EntriesAreBound'
  BY <1>1 DEF IInv, EntriesAreBound, realmVars
<1>12. AttestedIsOnChain'
  BY <1>1, <1>4 DEF IInv, AttestedIsOnChain, realmVars
<1>13. AttestedIsClosed'
  BY <1>1, <1>4 DEF IInv, AttestedIsClosed, Closed
<1>14. Lossless'
  BY <1>1, <1>4 DEF IInv, Lossless, SkippedLosesNothing, realmVars
<1>15. AllPaid'
  <2>1. ASSUME NEW i \in Stored, i # row PROVE Paid(i)'
    <3>1. Paid(i) /\ Used' = Used
      BY <1>1 DEF IInv, AllPaid, Used
    <3>2. Uncounted(i)' = Uncounted(i) /\ InFlight(i)' = InFlight(i)
      BY <1>0, <1>5, <2>1 DEF InFlight, Uncounted
    <3> QED
      BY <1>1, <1>4, <2>1, <3>1, <3>2 DEF Paid
  <2>2. Paid(row)'
    <3> DEFINE made == attempts[RunOf(row).log]
    <3>1. Used' = Used /\ Used \in Nat
      BY <1>1 DEF Used, IInv, TypeOK
    <3>2. /\ made \in Nat /\ arcade_runs[row].failures \in Nat /\ MaxAttestRetries \in Nat
      BY <1>3, RowFacts, DayCloseAssumption DEF IInv, TypeOK, DayCloseAssumption
    <3>3. made <= MaxAttestRetries + Used /\ made <= failures + Used
      <4>1. Paid(row)
        BY <1>3 DEF IInv, AllPaid
      <4> QED
        BY <1>1, <3>1, <3>2, <4>1 DEF Paid, Uncounted
    <3>4. place = "run" => failures < MaxAttestRetries
      BY <1>2, <3>2
    <3>5. /\ attempts'[RunOf(row)'.log] = made /\ arcade_runs'[row].failures = failures
          /\ ~Uncounted(row)' /\ (place = "park" => InFlight(row)')
      BY <1>1, <1>3, <1>4, <1>5 DEF Uncounted, InFlight, Flights, At
    <3>6. place = "park" \/ made + 1 <= MaxAttestRetries + Used
      BY <1>2, <3>1, <3>2, <3>3, <3>4
    <3>7. failures \in Nat
      BY <3>2
    <3> HIDE DEF made, failures
    <3> QED
      BY <1>2, <3>1, <3>2, <3>3, <3>5, <3>6, <3>7 DEF Paid
  <2> QED
    BY <1>1, <1>4, <2>1, <2>2 DEF IInv, AllPaid
<1> QED
  BY <1>6, <1>7, <1>8, <1>9, <1>10, <1>11, <1>12, <1>13, <1>14, <1>15 DEF IInv

(* One more crash, failed write or requeue pays for what is in flight.     *)
LEMMA MoreUsed ==
    ASSUME IInv, UNCHANGED attempts, Stored' = Stored, Used' = Used + 1,
           \A i \in Stored :
              /\ RunOf(i)' = RunOf(i) /\ arcade_runs'[i].failures = arcade_runs[i].failures
              /\ Status(i)' \in {"verified", "errored"} => Status(i) \in {"verified", "errored"}
              /\ Uncounted(i)' => Uncounted(i)
    PROVE  AllPaid'
<1>1. Used \in Nat
  <2>1. count \in [crashes : 0..MaxCrashes, faults : 0..MaxFaults,
                   requeues : 0..MaxRequeues, foreign : 0..MaxForeign]
    BY DEF IInv, TypeOK
  <2> QED
    BY <2>1 DEF Used
<1>2. ASSUME NEW i \in Stored PROVE Paid(i)'
  <2> DEFINE made == attempts[RunOf(i).log]
             failures == arcade_runs[i].failures
  <2>1. made \in Nat /\ failures \in Nat /\ MaxAttestRetries \in Nat
    <3>1. attempts \in [Logs -> Nat] /\ TypeOK
      BY DEF IInv, TypeOK
    <3> QED
      BY <3>1, RowFacts, DayCloseAssumption DEF DayCloseAssumption
  <2>2. /\ made <= MaxAttestRetries + Used
        /\ Status(i) \in {"verified", "errored"} =>
              made <= failures + Used + (IF Uncounted(i) THEN 1 ELSE 0)
    BY DEF IInv, AllPaid, Paid
  <2>3. /\ attempts'[RunOf(i)'.log] = made /\ arcade_runs'[i].failures = failures
        /\ Status(i)' \in {"verified", "errored"} => Status(i) \in {"verified", "errored"}
    OBVIOUS
  <2> HIDE DEF made, failures
  <2> QED
    BY <1>1, <2>1, <2>2, <2>3 DEF Paid
<1> QED
  BY <1>2 DEF IInv, AllPaid

(* What a stop leaves behind are rows of the table.                        *)
LEMMA LeftOverTyped ==
    ASSUME TypeOK, NEW rows \in SUBSET Stored, leftOver' = leftOver \cup rows
    PROVE  leftOver' \in SUBSET Rows
<1>1. /\ Stored = 1..Len(arcade_runs) /\ Len(arcade_runs) \in Nat
      /\ Len(arcade_runs) <= MaxRuns /\ MaxRuns \in Nat
  BY DayCloseAssumption DEF TypeOK, Stored, DayCloseAssumption
<1>2. Stored \subseteq Rows
  BY <1>1 DEF Rows
<1> QED
  BY <1>2 DEF TypeOK

LEMMA CutShortTyped ==
    ASSUME TypeOK, CutShort
    PROVE  leftOver' \in SUBSET Rows
<1>1. (IF At("resolve") THEN Superseded(batch.row) ELSE {}) \in SUBSET Stored
  BY DEF Superseded
<1> QED
  BY <1>1, LeftOverTyped DEF CutShort

LEMMA WriteFailsKeeps ==
    ASSUME IInv, WriteFails
    PROVE  IInv'
<1>1. /\ batch.at \in {"mark", "resolve", "drain", "skip", "fail", "park"}
      /\ count.faults < MaxFaults /\ count' = [count EXCEPT !.faults = @ + 1]
      /\ UNCHANGED <<storeVars, mempool, attempts, realmVars>>
  BY DEF WriteFails
<1>2. PICK place \in {"fail", "stopped"} : Goto(place) /\ (place = "fail" => At("mark"))
  BY DEF WriteFails
<1>3. /\ batch'.at = place /\ batch'.row = batch.row
      /\ batch' \in [at : Places, boards : SUBSET Boards, runs : SUBSET Rows,
                     attempted : 0..MaxPerCycle, row : Rows \cup {0}]
  BY <1>2, GotoFacts DEF IInv, Places
<1>4. /\ count' \in [crashes : 0..MaxCrashes, faults : 0..MaxFaults,
                     requeues : 0..MaxRequeues, foreign : 0..MaxForeign]
      /\ Used' = Used + 1
  <2>1. /\ count \in [crashes : 0..MaxCrashes, faults : 0..MaxFaults,
                       requeues : 0..MaxRequeues, foreign : 0..MaxForeign]
        /\ MaxCrashes \in Nat /\ MaxFaults \in Nat /\ MaxRequeues \in Nat
    BY DayCloseAssumption DEF IInv, TypeOK, DayCloseAssumption
  <2> QED
    BY <1>1, <2>1 DEF Used
<1>5. (EntriesAreBound /\ AttestedIsOnChain /\ Lossless /\ AttestedIsClosed)'
  BY <1>1, TableStays DEF storeVars
<1>6. SubmitsCounted'
  BY <1>1, SubmitsStay DEF IInv, storeVars
<1>7. TypeOK'
  <2>1. leftOver' \in SUBSET Rows
    BY CutShortTyped DEF IInv, WriteFails
  <2> QED
    BY <1>1, <1>3, <1>4, <2>1 DEF IInv, TypeOK, RealmTypeOK, realmVars, storeVars
<1>8. BatchFits' /\ BestIsHeld'
  BY <1>1, <1>2, GotoKeepsFit DEF IInv, Flights, At, storeVars
<1>9. AnswersHold'
  BY <1>3 DEF AnswersHold, At
<1>10. AllPaid'
  <2>1. \A i \in Stored : Uncounted(i)' => Uncounted(i)
    BY <1>1, <1>2, <1>3 DEF Uncounted, InFlight, Flights, At
  <2> QED
    BY <1>1, <1>4, <2>1, MoreUsed DEF storeVars, Stored, RunOf, Status
<1> QED
  BY <1>5, <1>6, <1>7, <1>8, <1>9, <1>10 DEF IInv

(* What the realm said of a stored run stays true when it accepts a run.   *)
LEMMA ChainGrows ==
    ASSUME IInv, UNCHANGED arcade_runs,
           UNCHANGED realmVars \/ \E run \in Run : Enter(run)
    PROVE  /\ (EntriesAreBound /\ RealmTypeOK /\ AttestedIsOnChain /\ Lossless)'
           /\ \A i \in Stored : /\ OnChain(i) => OnChain(i)'
                                /\ Topped(i) => Topped(i)'
                                /\ Refused(i) => Refused(i)'
<1>1. /\ (EntriesAreBound /\ RealmTypeOK)'
      /\ \A b \in Boards, a \in Addrs : entries'[<<b, a>>].score >= entries[<<b, a>>].score
      /\ \A l \in Logs : owners[l] # None => owners'[l] = owners[l]
  <2>0. \A b \in Boards, a \in Addrs : entries[<<b, a>>].score \in Nat
    BY RealmAssumption DEF IInv, TypeOK, RealmTypeOK, Entry, Absent, Scores, RealmAssumption
  <2>1. CASE UNCHANGED realmVars
    BY <2>0, <2>1 DEF IInv, TypeOK, EntriesAreBound, RealmTypeOK, realmVars
  <2>2. CASE \E run \in Run : Enter(run)
    BY <2>2, EnterImproves DEF IInv
  <2> QED
    BY <2>1, <2>2
<1>2. ASSUME NEW i \in Stored
      PROVE  /\ RunOf(i)' = RunOf(i) /\ Status(i)' = Status(i)
             /\ OnChain(i) => OnChain(i)'
             /\ Topped(i) => Topped(i)'
             /\ Refused(i) => Refused(i)'
  <2>1. /\ RunOf(i).log \in Logs /\ RunOf(i).addr \in Addrs
        /\ RunOf(i).board \in Boards /\ RunOf(i).score \in Nat /\ RunOf(i).addr # None
    BY RowFacts, RealmAssumption DEF IInv, RealmAssumption
  <2>2. RunOf(i)' = RunOf(i) /\ Status(i)' = Status(i)
    BY DEF RunOf, Status
  <2>3. \A b \in Boards, a \in Addrs :
            entries[<<b, a>>].score \in Nat /\ entries'[<<b, a>>].score \in Nat
    <3>1. \A e \in Entry \cup {Absent} : e.score \in Nat
      BY RealmAssumption DEF Entry, Absent, Scores, RealmAssumption
    <3>2. /\ entries \in [Boards \X Addrs -> Entry \cup {Absent}]
          /\ entries' \in [Boards \X Addrs -> Entry \cup {Absent}]
      BY <1>1 DEF IInv, TypeOK, RealmTypeOK, Entry, Absent
    <3> QED
      BY <3>1, <3>2
  <2>4. entries'[<<RunOf(i).board, RunOf(i).addr>>].score
            >= entries[<<RunOf(i).board, RunOf(i).addr>>].score
    BY <1>1, <2>1
  <2> QED
    BY <1>1, <2>1, <2>2, <2>3, <2>4 DEF OnChain, Topped, Refused
<1>3. AttestedIsOnChain'
  BY <1>2 DEF IInv, AttestedIsOnChain, OnChain, Topped, Stored
<1>4. Lossless'
  BY <1>2 DEF IInv, Lossless, SkippedLosesNothing, Refused, Topped, Stored
<1> QED
  BY <1>1, <1>2, <1>3, <1>4

LEMMA AttestKeeps ==
    ASSUME IInv, NEW i \in Stored,
           NEW answer \in {"ok", "lost", "not_improved", "bound_elsewhere", "unfit"},
           AttestScore(i, answer)
    PROVE  IInv'
<1> DEFINE run == RunOf(i)
<1>1. /\ At("run") /\ i \in batch.runs
      /\ batch' = [batch EXCEPT !.at = Answered(answer), !.row = i,
                      !.runs = @ \ {i}, !.attempted = @ + 1]
      /\ attempts' = [attempts EXCEPT ![run.log] = @ + 1]
      /\ \/ answer \in {"ok", "lost"} /\ Enter(run) /\ UNCHANGED mempool
         \/ answer \in Verdicts(run) \cup {"lost"} /\ UNCHANGED <<mempool, realmVars>>
         \/ answer = "lost" /\ mempool' = mempool \cup {run} /\ UNCHANGED realmVars
      /\ UNCHANGED <<storeVars, count, leftOver>>
  BY DEF AttestScore
<1>2. /\ run \in Run /\ run.log \in Logs /\ run.addr \in Addrs /\ run.board \in Boards
      /\ TypeOK
  BY RowFacts DEF IInv
<1>3. batch \in [at : Places, boards : SUBSET Boards, runs : SUBSET Rows,
                 attempted : 0..MaxPerCycle, row : Rows \cup {0}]
  BY DEF IInv, TypeOK
<1>4. Answered(answer) \in {"mark", "lookup", "skip", "fail"}
  BY DEF Answered
<1>5. /\ batch'.at = Answered(answer) /\ batch'.runs = batch.runs \ {i} /\ batch'.row = i
      /\ batch'.boards = batch.boards /\ batch'.attempted = batch.attempted + 1
  BY <1>1, <1>3
<1>6. /\ UNCHANGED <<arcade_runs, today, submits>> /\ Stored' = Stored /\ Used' = Used
      /\ \A j \in Stored : RunOf(j)' = RunOf(j) /\ Status(j)' = Status(j)
  BY <1>1 DEF storeVars, Stored, RunOf, Status, Used
<1>7. /\ (EntriesAreBound /\ RealmTypeOK /\ AttestedIsOnChain /\ Lossless)'
      /\ Refused(i) => Refused(i)'
  BY <1>1, <1>2, <1>6, ChainGrows
<1>8. batch'.attempted + Cardinality(batch'.runs) <= MaxPerCycle /\ batch'.attempted \in 0..MaxPerCycle
  <2>1. IsFiniteSet(batch.runs) /\ Cardinality(batch.runs) \in Nat
    BY <1>2, RowFacts, FS_Subset, FS_CardinalityType DEF IInv, BatchFits, Held
  <2>2. Cardinality(batch.runs \ {i}) = Cardinality(batch.runs) - 1
    BY <1>1, <2>1, FS_RemoveElement
  <2>3. Cardinality(batch.runs \ {i}) \in Nat
    BY <2>1, FS_RemoveElement, FS_CardinalityType
  <2>4. batch.attempted + Cardinality(batch.runs) <= MaxPerCycle /\ MaxPerCycle \in Nat
    BY DayCloseAssumption DEF IInv, BatchFits, DayCloseAssumption
  <2>5. batch.attempted \in Nat
    BY <1>3
  <2> QED
    BY <1>5, <2>1, <2>2, <2>3, <2>4, <2>5
<1>9. TypeOK'
  <2>1. batch' \in [at : Places, boards : SUBSET Boards, runs : SUBSET Rows,
                    attempted : 0..MaxPerCycle, row : Rows \cup {0}]
    <3>1. i \in Rows /\ Answered(answer) \in Places /\ batch.attempted + 1 \in 0..MaxPerCycle
      BY <1>2, <1>4, <1>5, <1>8, RowFacts DEF Places
    <3> QED
      BY <1>1, <1>3, <3>1
  <2>2. attempts' \in [Logs -> Nat]
    BY <1>1, <1>2 DEF TypeOK
  <2>3. mempool' \subseteq Run
    BY <1>1, <1>2 DEF TypeOK
  <2> QED
    BY <1>1, <1>6, <1>7, <2>1, <2>2, <2>3 DEF IInv, TypeOK
<1>10. SubmitsCounted'
  BY <1>2, <1>6, SubmitsStay DEF IInv
<1>11. BatchFits'
  <2>1. \A b \in batch'.boards : Closed(b.day)'
    BY <1>5, <1>6 DEF IInv, BatchFits, Closed
  <2>2. \A j \in batch'.runs : (Held(j) /\ Status(j) = "verified")'
    BY <1>5, <1>6 DEF IInv, BatchFits, Held, Closed
  <2>3. \A j, k \in batch'.runs : SameBoardAndAddr(j, k)' => j = k
    BY <1>5, <1>6 DEF IInv, BatchFits, SameBoardAndAddr, RunOf
  <2>4. Held(i)' /\ Status(i)' = "verified"
    BY <1>1, <1>6 DEF IInv, BatchFits, Held, Closed
  <2>5. \A j \in batch'.runs : ~SameBoardAndAddr(i, j)'
    BY <1>1, <1>5, <1>6 DEF IInv, BatchFits, SameBoardAndAddr, RunOf
  <2> QED
    BY <1>4, <1>5, <1>8, <2>1, <2>2, <2>3, <2>4, <2>5 DEF BatchFits, At, Held, Status, SameBoardAndAddr, RunOf
<1>12. BestIsHeld'
  <2>1. ASSUME NEW k \in Stored, k \in batch'.runs \/ k = i, Straddle = FALSE PROVE NoneBetter(k)
    BY <1>1, <1>5, <2>1 DEF IInv, BestIsHeld
  <2> QED
    BY <1>5, <1>6, <2>1
    DEF BestIsHeld, InFlight, NoneBetter, SameBoardAndAddr, Stored, RunOf, Status
<1>13. AnswersHold'
  <2>1. CASE answer = "ok"
    <3>1. Enter(run)
      BY <1>1, <2>1 DEF Verdicts
    <3>2. owners'[run.log] = run.addr /\ entries'[<<run.board, run.addr>>].score = run.score
      BY <1>2, <3>1, EnterImproves DEF IInv
    <3>3. run.score \in Nat
      BY RowFacts DEF IInv
    <3>4. OnChain(i)' /\ Topped(i)'
      BY <1>6, <3>2, <3>3 DEF OnChain, Topped
    <3> QED
      BY <1>5, <2>1, <3>4 DEF AnswersHold, At, Answered, OnChain, Topped, RunOf
  <2>2. CASE answer \in {"bound_elsewhere", "unfit"}
    <3>1. answer \in Verdicts(run) /\ UNCHANGED realmVars
      BY <1>1, <2>2
    <3>2. Refused(i)
      BY <2>2, <3>1 DEF Verdicts, Refused
    <3>3. Refused(i)'
      BY <1>7, <3>2
    <3>4. batch'.at = "skip"
      BY <1>5, <2>2 DEF Answered
    <3> QED
      BY <1>5, <3>3, <3>4 DEF AnswersHold, At, OnChain, Topped, Refused, RunOf
  <2>3. CASE answer \in {"lost", "not_improved"}
    BY <1>5, <2>3 DEF AnswersHold, At, Answered
  <2> QED
    BY <2>1, <2>2, <2>3
<1>14. AttestedIsClosed'
  BY <1>6 DEF IInv, AttestedIsClosed, Closed
<1>15. AllPaid'
  <2>0. Used \in Nat /\ MaxAttestRetries \in Nat /\ attempts \in [Logs -> Nat]
    <3>0. count \in [crashes : 0..MaxCrashes, faults : 0..MaxFaults,
                     requeues : 0..MaxRequeues, foreign : 0..MaxForeign]
      BY <1>2 DEF TypeOK
    <3>1. count.crashes \in Nat /\ count.faults \in Nat /\ count.requeues \in Nat
      BY <3>0
    <3>2. attempts \in [Logs -> Nat]
      BY <1>2 DEF TypeOK
    <3> QED
      BY <3>1, <3>2, DayCloseAssumption DEF Used, DayCloseAssumption
  <2>1. ASSUME NEW j \in Stored PROVE Paid(j)'
    <3>1. Paid(j) /\ ~InFlight(j) /\ ~Uncounted(j)
      BY <1>1 DEF IInv, AllPaid, InFlight, Uncounted, Flights, At
    <3>2. RunOf(j).log \in Logs /\ arcade_runs[j].failures \in Nat
      BY <1>2, RowFacts
    <3>3. CASE j = i
      <4>1. Status(i) = "verified"
        BY <1>1 DEF IInv, BatchFits
      <4>2. InFlight(i)' /\ Uncounted(i)'
        BY <1>4, <1>5 DEF InFlight, Uncounted, Flights, At
      <4>3. attempts'[RunOf(i)'.log] = attempts[RunOf(i).log] + 1
        BY <1>1, <1>2, <1>6, <2>0
      <4>4. arcade_runs'[i].failures = arcade_runs[i].failures
        BY <1>6
      <4> QED
        BY <1>6, <2>0, <3>1, <3>2, <3>3, <4>1, <4>2, <4>3, <4>4 DEF Paid
    <3>4. CASE j # i
      <4>1. RunOf(j).log # RunOf(i).log
        BY <1>2, <3>4 DEF TypeOK, RunOf, Stored
      <4>2. attempts'[RunOf(j)'.log] = attempts[RunOf(j).log]
        BY <1>1, <1>6, <2>0, <3>2, <4>1
      <4>3. ~InFlight(j)' /\ ~Uncounted(j)'
        BY <1>5, <3>4 DEF InFlight, Uncounted
      <4> QED
        BY <1>6, <3>1, <4>2, <4>3 DEF Paid
    <3> QED
      BY <3>3, <3>4
  <2>2. ASSUME NEW l \in Logs, \A j \in Stored : RunOf(j).log # l PROVE attempts'[l] = 0
    BY <1>1, <2>0, <2>2 DEF IInv, AllPaid
  <2> QED
    BY <1>6, <2>1, <2>2 DEF AllPaid
<1> QED
  BY <1>7, <1>9, <1>10, <1>11, <1>12, <1>13, <1>14, <1>15 DEF IInv

-------------------------------------------------------------------------------
(* The environment's steps.                                                *)

(* Runs that land by themselves, and other attesters' runs.                *)
LEMMA LandKeeps ==
    ASSUME IInv, NEW run \in Run, Land(run) \/ Foreign(run)
    PROVE  IInv'
<1>1. /\ Enter(run) /\ UNCHANGED <<storeVars, batch, attempts, leftOver>>
      /\ mempool' \subseteq mempool
  BY DEF Land, Foreign
<1>2. /\ count' \in [crashes : 0..MaxCrashes, faults : 0..MaxFaults,
                     requeues : 0..MaxRequeues, foreign : 0..MaxForeign]
      /\ Used' = Used
  <2>1. /\ count \in [crashes : 0..MaxCrashes, faults : 0..MaxFaults,
                       requeues : 0..MaxRequeues, foreign : 0..MaxForeign]
        /\ MaxForeign \in Nat
    BY DayCloseAssumption DEF IInv, TypeOK, DayCloseAssumption
  <2>2. CASE UNCHANGED count
    BY <2>1, <2>2 DEF Used
  <2>3. CASE count.foreign < MaxForeign /\ count' = [count EXCEPT !.foreign = @ + 1]
    BY <2>1, <2>3 DEF Used
  <2> QED
    BY <2>2, <2>3 DEF Land, Foreign
<1>3. /\ (EntriesAreBound /\ RealmTypeOK /\ AttestedIsOnChain /\ Lossless)'
      /\ \A i \in Stored : /\ OnChain(i) => OnChain(i)'
                           /\ Topped(i) => Topped(i)'
                           /\ Refused(i) => Refused(i)'
  BY <1>1, ChainGrows DEF storeVars
<1>4. TypeOK'
  BY <1>1, <1>2, <1>3 DEF IInv, TypeOK, storeVars
<1>5. SubmitsCounted'
  BY <1>1, SubmitsStay DEF IInv, storeVars
<1>6. BatchFits' /\ BestIsHeld' /\ AttestedIsClosed'
  BY <1>1 DEF IInv, BatchFits, BestIsHeld, AttestedIsClosed, InFlight, NoneBetter, Held, At,
              Closed, Stored, RunOf, Status, SameBoardAndAddr, storeVars
<1>7. AnswersHold'
  <2>1. batch.at \in Flights => batch.row \in Stored
    BY FlightFacts
  <2> QED
    BY <1>1, <1>3, <2>1 DEF IInv, AnswersHold, At, Flights, OnChain, Topped, Refused, storeVars, RunOf
<1>8. AllPaid'
  BY <1>1, <1>2, SMT DEF IInv, AllPaid, Paid, InFlight, Uncounted, At,
                    Stored, RunOf, Status, SameBoardAndAddr, storeVars
<1> QED
  BY <1>3, <1>4, <1>5, <1>6, <1>7, <1>8 DEF IInv

(* The goroutine starts again with nothing in hand.                        *)
LEMMA RestartKeeps ==
    ASSUME IInv, Crash \/ OperatorRestart
    PROVE  IInv'
<1>1. /\ batch' = Idle /\ submits' = {}
      /\ UNCHANGED <<arcade_runs, today, mempool, attempts, realmVars>>
  BY DEF Crash, OperatorRestart, Resume
<1>2. /\ batch'.at = "idle" /\ batch'.boards = {} /\ batch'.runs = {}
      /\ batch'.attempted = 0 /\ batch'.row = 0
      /\ batch' \in [at : Places, boards : SUBSET Boards, runs : SUBSET Rows,
                     attempted : 0..MaxPerCycle, row : Rows \cup {0}]
  BY <1>1, DayCloseAssumption DEF Idle, Places, DayCloseAssumption
<1>3. /\ count' \in [crashes : 0..MaxCrashes, faults : 0..MaxFaults,
                     requeues : 0..MaxRequeues, foreign : 0..MaxForeign]
      /\ Used' = Used + 1 \/ (At("stopped") /\ UNCHANGED count)
  <2>1. /\ count \in [crashes : 0..MaxCrashes, faults : 0..MaxFaults,
                      requeues : 0..MaxRequeues, foreign : 0..MaxForeign]
        /\ MaxCrashes \in Nat
    BY DayCloseAssumption DEF IInv, TypeOK, DayCloseAssumption
  <2>2. CASE Crash
    BY <2>1, <2>2 DEF Crash, Used
  <2>3. CASE OperatorRestart
    BY <2>1, <2>3 DEF OperatorRestart
  <2> QED
    BY <2>2, <2>3
<1>4. (EntriesAreBound /\ AttestedIsOnChain /\ Lossless /\ AttestedIsClosed)'
  BY <1>1, TableStays
<1>5. SubmitsCounted'
  BY <1>1, SubmitsStay DEF IInv
<1>6. TypeOK'
  <2>1. leftOver' \in SUBSET Rows
    <3>1. CASE Crash
      BY <3>1, CutShortTyped DEF IInv, Crash
    <3>2. CASE OperatorRestart
      BY <3>2 DEF IInv, TypeOK, OperatorRestart
    <3> QED
      BY <3>1, <3>2
  <2> QED
    BY <1>1, <1>2, <1>3, <2>1 DEF IInv, TypeOK, RealmTypeOK, realmVars
<1>7. BatchFits'
  BY <1>2, FS_EmptySet, DayCloseAssumption DEF BatchFits, Flights, DayCloseAssumption
<1>8. BestIsHeld' /\ AnswersHold'
  BY <1>2 DEF BestIsHeld, AnswersHold, InFlight, Flights, At
<1>9. AllPaid'
  <2>1. CASE Used' = Used + 1
    <3>1. \A i \in Stored : ~Uncounted(i)'
      BY <1>2 DEF Uncounted, InFlight, Flights
    <3> QED
      BY <1>1, <2>1, <3>1, MoreUsed DEF Stored, RunOf, Status
  <2>2. CASE At("stopped") /\ UNCHANGED count
    <3>1. \A i \in Stored : InFlight(i)' = InFlight(i) /\ Uncounted(i)' = Uncounted(i)
      BY <1>2, <2>2 DEF Uncounted, InFlight, Flights, At
    <3> QED
      BY <1>1, <2>2, <3>1, PaidStays DEF IInv
  <2> QED
    BY <1>3, <2>1, <2>2
<1> QED
  BY <1>4, <1>5, <1>6, <1>7, <1>8, <1>9 DEF IInv

LEMMA RequeueKeeps ==
    ASSUME IInv, NEW i \in Stored, Requeue(i)
    PROVE  IInv'
<1>1. /\ Status(i) = "errored" /\ SetStatus({i}, "verified")
      /\ count.requeues < MaxRequeues /\ count' = [count EXCEPT !.requeues = @ + 1]
      /\ UNCHANGED <<submits, today, batch, mempool, attempts, realmVars>>
  BY DEF Requeue
<1>2. /\ arcade_runs' \in Seq(Row) /\ Len(arcade_runs') = Len(arcade_runs)
      /\ Stored' = Stored
      /\ \A j \in Stored :
            /\ RunOf(j)' = RunOf(j)
            /\ arcade_runs'[j].failures = arcade_runs[j].failures
            /\ Status(j)' = IF j = i THEN "verified" ELSE Status(j)
  <2>1. TypeOK /\ "verified" \in Statuses
    BY DEF IInv, Statuses
  <2> QED
    BY <1>1, <2>1, StatusWrite
<1>3. /\ count' \in [crashes : 0..MaxCrashes, faults : 0..MaxFaults,
                     requeues : 0..MaxRequeues, foreign : 0..MaxForeign]
      /\ Used' = Used + 1
  <2>1. /\ count \in [crashes : 0..MaxCrashes, faults : 0..MaxFaults,
                      requeues : 0..MaxRequeues, foreign : 0..MaxForeign]
        /\ MaxRequeues \in Nat
    BY DayCloseAssumption DEF IInv, TypeOK, DayCloseAssumption
  <2> QED
    BY <1>1, <2>1 DEF Used
<1>4. TypeOK'
  <2>1. leftOver' \in SUBSET Rows
    <3>1. (IF Beaten(i) THEN {i} ELSE {}) \in SUBSET Stored
      OBVIOUS
    <3> QED
      BY <3>1, LeftOverTyped DEF IInv, Requeue
  <2> QED
    BY <1>1, <1>2, <1>3, <2>1, TableTyped DEF IInv, TypeOK
<1>5. SubmitsCounted'
  BY <1>1, <1>2, SubmitsStay DEF IInv
<1>6. BatchFits'
  <2>1. \A j \in batch.runs : (Held(j) /\ Status(j) = "verified")'
    BY <1>1, <1>2 DEF IInv, BatchFits, Held, Closed
  <2>2. \A j, k \in batch.runs : SameBoardAndAddr(j, k)' => j = k
    BY <1>2 DEF IInv, BatchFits, SameBoardAndAddr, Held
  <2>3. ASSUME NEW row, row = batch.row, batch.at \in Flights
        PROVE  /\ Held(row)' /\ \A j \in batch.runs : ~SameBoardAndAddr(row, j)'
               /\ Status(row)' = IF At("resolve") THEN "attested" ELSE "verified"
    BY <1>1, <1>2, <2>3, FlightFacts DEF Held, Closed, SameBoardAndAddr
  <2>4. batch.attempted + Cardinality(batch.runs) <= MaxPerCycle
    BY DEF IInv, BatchFits
  <2>5. \A b \in batch.boards : Closed(b.day)'
    BY <1>1 DEF IInv, BatchFits, Closed
  <2> QED
    BY <1>1, <2>1, <2>2, <2>3, <2>4, <2>5 DEF BatchFits, At, Held, Status, RunOf, SameBoardAndAddr
<1>7. BestIsHeld'
  <2>1. ASSUME NEW k \in Stored, k \in batch.runs \/ InFlight(k), Straddle = FALSE,
               NEW j \in Stored, SameBoardAndAddr(k, j)',
               Status(j)' \in {"verified", "errored"}
        PROVE  RunOf(j).score <= RunOf(k).score
    <3>1. SameBoardAndAddr(k, j) /\ Status(j) \in {"verified", "errored"}
      BY <1>1, <1>2, <2>1 DEF SameBoardAndAddr
    <3> QED
      BY <2>1, <3>1 DEF IInv, BestIsHeld, NoneBetter
  <2> QED
    BY <1>1, <1>2, <2>1 DEF BestIsHeld, NoneBetter, InFlight
<1>8. AnswersHold'
  <2>1. ASSUME NEW row, row = batch.row, batch.at \in Flights PROVE RunOf(row)' = RunOf(row)
    BY <1>2, <2>1, FlightFacts
  <2> QED
    BY <1>1, <2>1 DEF IInv, AnswersHold, At, Flights, OnChain, Topped, Refused, RunOf, realmVars
<1>9. EntriesAreBound'
  BY <1>1 DEF IInv, EntriesAreBound, realmVars
<1>10. AttestedIsOnChain'
  BY <1>1, <1>2 DEF IInv, AttestedIsOnChain, realmVars
<1>11. AttestedIsClosed'
  BY <1>1, <1>2 DEF IInv, AttestedIsClosed, Closed
<1>12. Lossless'
  BY <1>1, <1>2 DEF IInv, Lossless, SkippedLosesNothing, realmVars
<1>13. AllPaid'
  <2>1. \A j \in Stored : Uncounted(j)' => Uncounted(j)
    BY <1>1 DEF Uncounted, InFlight, At
  <2> QED
    BY <1>1, <1>2, <1>3, <2>1, MoreUsed
<1> QED
  BY <1>4, <1>5, <1>6, <1>7, <1>8, <1>9, <1>10, <1>11, <1>12, <1>13 DEF IInv

(* A closed board stays closed.                                            *)
LEMMA NextDayKeeps ==
    ASSUME IInv, NextDay
    PROVE  IInv'
<1>1. /\ today < LastDay /\ today' = today + 1
      /\ \A s \in submits : Straddle /\ s.started = today
      /\ UNCHANGED <<arcade_runs, submits, batch, mempool, attempts, count, leftOver, realmVars>>
  BY DEF NextDay
<1>2. today \in 0..LastDay /\ LastDay \in Nat
  BY DayCloseAssumption DEF IInv, TypeOK, DayCloseAssumption
<1>3. \A day \in Nat : Closed(day) => Closed(day)'
  BY <1>1, <1>2 DEF Closed
<1>4. TypeOK'
  BY <1>1, <1>2 DEF IInv, TypeOK, RealmTypeOK, realmVars
<1>5. SubmitsCounted'
  BY <1>1 DEF IInv, SubmitsCounted
<1>6. /\ \A i \in Stored : RunOf(i).board.day \in Nat
      /\ \A b \in batch.boards : b.day \in Nat
  <2>1. batch.boards \subseteq Boards
    BY DEF IInv, TypeOK
  <2> QED
    BY <2>1, RowFacts, DayCloseAssumption DEF IInv, DayCloseAssumption
<1>7. \A i : Held(i) => Held(i)'
  BY <1>1, <1>3, <1>6 DEF Held, Stored, RunOf
<1>8. BatchFits'
  <2>1. ASSUME NEW row, row = batch.row, batch.at \in Flights PROVE Held(row)'
    BY <1>7, <2>1 DEF IInv, BatchFits
  <2>2. \A i \in batch.runs : Held(i)'
    BY <1>7 DEF IInv, BatchFits
  <2>3. \A b \in batch.boards : Closed(b.day)'
    BY <1>3, <1>6 DEF IInv, BatchFits
  <2> QED
    BY <1>1, <2>1, <2>2, <2>3
    DEF IInv, BatchFits, At, Held, Stored, RunOf, Status, SameBoardAndAddr
<1>9. BestIsHeld' /\ AnswersHold' /\ EntriesAreBound' /\ AttestedIsOnChain' /\ Lossless'
  BY <1>1
  DEF IInv, BestIsHeld, AnswersHold, EntriesAreBound, AttestedIsOnChain, Lossless,
      SkippedLosesNothing, InFlight, NoneBetter, At, Stored, RunOf, Status, SameBoardAndAddr,
      OnChain, Topped, Refused, realmVars
<1>10. AttestedIsClosed'
  BY <1>1, <1>3, <1>6 DEF IInv, AttestedIsClosed, Stored, RunOf, Status
<1>11. AllPaid'
  <2>1. \A i \in Stored : InFlight(i)' = InFlight(i) /\ Uncounted(i)' = Uncounted(i)
    BY <1>1 DEF InFlight, Uncounted, At
  <2> QED
    BY <1>1, <2>1, PaidStays DEF IInv
<1> QED
  BY <1>4, <1>5, <1>8, <1>9, <1>10, <1>11 DEF IInv

-------------------------------------------------------------------------------
(* Submissions.                                                            *)

LEMMA SubmitKeeps ==
    ASSUME IInv, NEW run \in Run, Submit(run)
    PROVE  IInv'
<1> DEFINE s == [run |-> run, started |-> today]
<1>1. /\ LiveWindow(run.board.day)
      /\ Len(arcade_runs) + Cardinality(submits) < MaxRuns
      /\ submits' = submits \cup {s}
      /\ UNCHANGED <<arcade_runs, today, batch, mempool, attempts, count, leftOver, realmVars>>
  BY DEF Submit
<1>2. /\ today \in 0..LastDay /\ LastDay \in Nat /\ run.board.day \in Nat
      /\ Len(arcade_runs) \in Nat /\ MaxRuns \in Nat
  <2>1. TypeOK /\ today \in 0..LastDay
    BY DEF IInv, TypeOK
  <2>2. run.board \in Boards
    BY DEF Run
  <2> QED
    BY <2>1, <2>2, RowFacts, DayCloseAssumption DEF DayCloseAssumption
<1>3. (EntriesAreBound /\ AttestedIsOnChain /\ Lossless /\ AttestedIsClosed)'
  BY <1>1, TableStays
<1>4. TypeOK'
  BY <1>1, <1>2 DEF IInv, TypeOK, RealmTypeOK, realmVars
<1>5. SubmitsCounted'
  <2>1. IsFiniteSet(submits) /\ Cardinality(submits) \in Nat
    BY FS_CardinalityType DEF IInv, SubmitsCounted
  <2>2. /\ IsFiniteSet(submits') /\ Cardinality(submits') \in Nat
        /\ Cardinality(submits') <= Cardinality(submits) + 1
    <3> HIDE DEF s
    <3>1. IsFiniteSet(submits') /\ Cardinality(submits') \in Nat
      BY <1>1, <2>1, FS_AddElement, FS_CardinalityType
    <3> QED
      BY <1>1, <2>1, <3>1, FS_AddElement
  <2>3. Len(arcade_runs') + Cardinality(submits') <= MaxRuns
    BY <1>1, <1>2, <2>1, <2>2
  <2>4. ~Closed(run.board.day)
    BY <1>1, <1>2 DEF LiveWindow, Closed
  <2>5. Straddle = FALSE => \A t \in submits' : ~Closed(t.run.board.day)'
    BY <1>1, <2>4 DEF IInv, SubmitsCounted, Closed
  <2> QED
    BY <2>2, <2>3, <2>5 DEF SubmitsCounted
<1>6. BatchFits' /\ BestIsHeld' /\ AnswersHold'
  BY <1>1
  DEF IInv, BatchFits, BestIsHeld, AnswersHold, InFlight, NoneBetter, Held,
      Closed, At, Stored, RunOf, Status, SameBoardAndAddr, OnChain, Topped, Refused, Used, realmVars
<1>7. AllPaid'
  <2>1. \A i \in Stored : InFlight(i)' = InFlight(i) /\ Uncounted(i)' = Uncounted(i)
    BY <1>1 DEF InFlight, Uncounted, At
  <2> QED
    BY <1>1, <2>1, PaidStays DEF IInv
<1> QED
  BY <1>3, <1>4, <1>5, <1>6, <1>7 DEF IInv

(* The log was stored before: nothing but the submission goes.             *)
LEMMA DuplicateKeeps ==
    ASSUME IInv, NEW s \in submits, InsertRun(s), DuplicateLog(s.run)
    PROVE  IInv'
<1>1. /\ submits' = submits \ {s}
      /\ UNCHANGED <<arcade_runs, today, batch, mempool, attempts, count, leftOver, realmVars>>
  BY DEF InsertRun
<1>2. (EntriesAreBound /\ AttestedIsOnChain /\ Lossless /\ AttestedIsClosed)'
  BY <1>1, TableStays
<1>3. TypeOK'
  BY <1>1 DEF IInv, TypeOK, RealmTypeOK, realmVars
<1>4. SubmitsCounted'
  <2>1. IsFiniteSet(submits) /\ Cardinality(submits) \in Nat
    BY FS_CardinalityType DEF IInv, SubmitsCounted
  <2>2. /\ IsFiniteSet(submits') /\ Cardinality(submits') \in Nat
        /\ Cardinality(submits') <= Cardinality(submits)
    BY <1>1, <2>1, FS_Subset, FS_CardinalityType
  <2>3. Len(arcade_runs) \in Nat /\ MaxRuns \in Nat
    BY RowFacts, DayCloseAssumption DEF IInv, DayCloseAssumption
  <2>4. Len(arcade_runs') + Cardinality(submits') <= MaxRuns
    BY <1>1, <2>1, <2>2, <2>3 DEF IInv, SubmitsCounted
  <2> QED
    BY <1>1, <2>2, <2>4 DEF IInv, SubmitsCounted, Closed
<1>5. BatchFits' /\ BestIsHeld' /\ AnswersHold'
  BY <1>1
  DEF IInv, BatchFits, BestIsHeld, AnswersHold, InFlight, NoneBetter, Held,
      Closed, At, Stored, RunOf, Status, SameBoardAndAddr, OnChain, Topped, Refused, Used, realmVars
<1>6. AllPaid'
  <2>1. \A i \in Stored : InFlight(i)' = InFlight(i) /\ Uncounted(i)' = Uncounted(i)
    BY <1>1 DEF InFlight, Uncounted, At
  <2> QED
    BY <1>1, <2>1, PaidStays DEF IInv
<1> QED
  BY <1>2, <1>3, <1>4, <1>5, <1>6 DEF IInv

(* A new row is verified, was never broadcast, and its board is still open *)
(* if no re-simulation straddles midnight.                                 *)
(* A new row is the last of the table.                                     *)
LEMMA AppendRow ==
    ASSUME TypeOK, NEW row \in Row, arcade_runs' = Append(arcade_runs, row)
    PROVE  \E n : /\ n = Len(arcade_runs) + 1
                  /\ arcade_runs' \in Seq(Row) /\ Len(arcade_runs') = n
                  /\ arcade_runs'[n] = row
                  /\ \A i \in Stored : arcade_runs'[i] = arcade_runs[i]
                  /\ Stored' = Stored \cup {n} /\ n \notin Stored
<1>1. PICK n : n = Len(arcade_runs) + 1
  OBVIOUS
<1>2. arcade_runs \in Seq(Row) /\ Len(arcade_runs) \in Nat /\ Stored = 1..Len(arcade_runs)
  BY RowFacts
<1>3. /\ arcade_runs' \in Seq(Row) /\ Len(arcade_runs') = n
      /\ \A i \in 1..n : arcade_runs'[i] = IF i = n THEN row ELSE arcade_runs[i]
  BY <1>1, <1>2, AppendProperties
<1>4. DOMAIN arcade_runs' = 1..n
  BY <1>3, LenProperties
<1> QED
  BY <1>1, <1>2, <1>3, <1>4 DEF Stored

LEMMA InsertKeeps ==
    ASSUME IInv, NEW s \in submits, InsertRun(s), ~DuplicateLog(s.run)
    PROVE  IInv'
<1> DEFINE new == [run |-> s.run, status |-> "verified", failures |-> 0]
<1>1. /\ submits' = submits \ {s} /\ arcade_runs' = Append(arcade_runs, new)
      /\ UNCHANGED <<today, batch, mempool, attempts, count, leftOver, realmVars>>
  BY DEF InsertRun
<1>2. /\ arcade_runs \in Seq(Row) /\ Len(arcade_runs) \in Nat /\ Stored = 1..Len(arcade_runs)
      /\ s.run \in Run /\ s.run.log \in Logs /\ TypeOK
  BY RowFacts DEF IInv, TypeOK, Run
<1>3. new \in Row
  BY <1>2 DEF Row, Statuses
<1>4. PICK n : /\ n = Len(arcade_runs) + 1
               /\ arcade_runs' \in Seq(Row) /\ Len(arcade_runs') = n
               /\ arcade_runs'[n] = new
               /\ \A i \in Stored : arcade_runs'[i] = arcade_runs[i]
               /\ Stored' = Stored \cup {n} /\ n \notin Stored
  BY <1>1, <1>2, <1>3, AppendRow
<1>5. /\ \A i \in Stored : /\ RunOf(i)' = RunOf(i) /\ Status(i)' = Status(i)
                           /\ arcade_runs'[i].failures = arcade_runs[i].failures
      /\ RunOf(n)' = s.run /\ Status(n)' = "verified" /\ arcade_runs'[n].failures = 0
  BY <1>4 DEF RunOf, Status
<1>6. \A i \in Stored : RunOf(i).log # s.run.log
  BY DEF DuplicateLog, Stored, RunOf
<1>7. Straddle = FALSE => ~Closed(s.run.board.day)
  BY DEF IInv, SubmitsCounted
<1> HIDE DEF new
<1>8. TypeOK' /\ SubmitsCounted'
  <2>1. IsFiniteSet(submits) /\ Cardinality(submits) \in Nat
    BY FS_CardinalityType DEF IInv, SubmitsCounted
  <2>2. /\ IsFiniteSet(submits') /\ Cardinality(submits') \in Nat
        /\ Cardinality(submits') = Cardinality(submits) - 1
    BY <1>1, <2>1, FS_RemoveElement, FS_CardinalityType
  <2>3. Len(arcade_runs') + Cardinality(submits') <= MaxRuns /\ Len(arcade_runs') <= MaxRuns
    BY <1>2, <1>4, <2>1, <2>2, DayCloseAssumption DEF IInv, SubmitsCounted, DayCloseAssumption
  <2>4. \A i, j \in DOMAIN arcade_runs' :
            arcade_runs'[i].run.log = arcade_runs'[j].run.log => i = j
    <3>1. \A i, j \in Stored : RunOf(i).log = RunOf(j).log => i = j
      BY <1>2 DEF TypeOK, Stored, RunOf
    <3> QED
      BY <1>4, <1>5, <1>6, <3>1 DEF Stored, RunOf
  <2>5. TypeOK'
    BY <1>1, <1>2, <1>4, <2>3, <2>4 DEF TypeOK, RealmTypeOK, realmVars, Row
  <2>6. SubmitsCounted'
    BY <1>1, <2>2, <2>3 DEF IInv, SubmitsCounted, Closed
  <2> QED
    BY <2>5, <2>6
<1>9. BatchFits'
  <2>1. \A j \in batch.runs : (Held(j) /\ Status(j) = "verified")'
    BY <1>1, <1>4, <1>5 DEF IInv, BatchFits, Held, Closed
  <2>2. \A j, k \in batch.runs : SameBoardAndAddr(j, k)' => j = k
    BY <1>5 DEF IInv, BatchFits, SameBoardAndAddr, Held
  <2>3. ASSUME NEW row, row = batch.row, batch.at \in Flights
        PROVE  /\ Held(row)' /\ \A j \in batch.runs : ~SameBoardAndAddr(row, j)'
               /\ Status(row)' = IF At("resolve") THEN "attested" ELSE "verified"
    BY <1>1, <1>4, <1>5, <2>3, FlightFacts DEF Held, Closed, SameBoardAndAddr
  <2>4. batch.attempted + Cardinality(batch.runs) <= MaxPerCycle
    BY DEF IInv, BatchFits
  <2>5. \A b \in batch.boards : Closed(b.day)'
    BY <1>1 DEF IInv, BatchFits, Closed
  <2> QED
    BY <1>1, <2>1, <2>2, <2>3, <2>4, <2>5 DEF BatchFits, At, Held, Status, RunOf, SameBoardAndAddr
<1>10. BestIsHeld'
  <2>1. ASSUME NEW k \in Stored', k \in batch.runs \/ InFlight(k), Straddle = FALSE,
               NEW j \in Stored', SameBoardAndAddr(k, j)',
               Status(j)' \in {"verified", "errored"}
        PROVE  j \in Stored /\ RunOf(j).score <= RunOf(k).score
    <3>1. k \in Stored /\ Closed(RunOf(k).board.day)
      BY <2>1, FlightFacts DEF IInv, BatchFits, Held, InFlight
    <3>2. j # n
      BY <1>5, <1>7, <2>1, <3>1 DEF SameBoardAndAddr
    <3>3. j \in Stored /\ SameBoardAndAddr(k, j) /\ Status(j) \in {"verified", "errored"}
      BY <1>4, <1>5, <2>1, <3>1, <3>2 DEF SameBoardAndAddr
    <3> QED
      BY <2>1, <3>1, <3>3 DEF IInv, BestIsHeld, NoneBetter
  <2>2. \A k \in Stored' : k \in batch.runs \/ InFlight(k) => k \in Stored
    BY FlightFacts DEF IInv, BatchFits, Held, InFlight
  <2> QED
    BY <1>1, <1>5, <2>1, <2>2 DEF BestIsHeld, NoneBetter, InFlight
<1>11. AnswersHold'
  <2>1. ASSUME NEW row, row = batch.row, batch.at \in Flights PROVE RunOf(row)' = RunOf(row)
    BY <1>5, <2>1, FlightFacts
  <2> QED
    BY <1>1, <2>1 DEF IInv, AnswersHold, At, Flights, OnChain, Topped, Refused, RunOf, realmVars
<1>12. EntriesAreBound'
  BY <1>1 DEF IInv, EntriesAreBound, realmVars
<1>13. AttestedIsOnChain'
  BY <1>1, <1>4, <1>5 DEF IInv, AttestedIsOnChain, realmVars
<1>14. AttestedIsClosed'
  BY <1>1, <1>4, <1>5 DEF IInv, AttestedIsClosed, Closed
<1>15. Lossless'
  BY <1>1, <1>4, <1>5 DEF IInv, Lossless, SkippedLosesNothing, realmVars
<1>16. AllPaid'
  <2>0. Used \in Nat /\ MaxAttestRetries \in Nat \ {0} /\ Used' = Used
    <3>1. count \in [crashes : 0..MaxCrashes, faults : 0..MaxFaults,
                     requeues : 0..MaxRequeues, foreign : 0..MaxForeign]
      BY <1>2 DEF TypeOK
    <3> QED
      BY <1>1, <3>1, DayCloseAssumption DEF Used, DayCloseAssumption
  <2>1. ASSUME NEW i \in Stored PROVE Paid(i)'
    <3>1. Paid(i) /\ Uncounted(i)' = Uncounted(i) /\ InFlight(i)' = InFlight(i)
      BY <1>1 DEF IInv, AllPaid, Uncounted, InFlight, At
    <3> QED
      BY <1>1, <1>5, <2>0, <3>1 DEF Paid
  <2>2. Paid(n)'
    <3>1. attempts'[RunOf(n)'.log] = 0
      BY <1>1, <1>2, <1>5, <1>6 DEF IInv, AllPaid
    <3>2. ~Uncounted(n)'
      BY <1>1, <1>4, FlightFacts DEF Uncounted, InFlight
    <3> QED
      BY <1>5, <2>0, <3>1, <3>2 DEF Paid
  <2>3. ASSUME NEW l \in Logs, \A i \in Stored' : RunOf(i)'.log # l PROVE attempts'[l] = 0
    BY <1>1, <1>4, <1>5, <2>3 DEF IInv, AllPaid
  <2> QED
    BY <1>4, <2>1, <2>2, <2>3 DEF AllPaid
<1> QED
  BY <1>8, <1>9, <1>10, <1>11, <1>12, <1>13, <1>14, <1>15, <1>16 DEF IInv

-------------------------------------------------------------------------------
(* The invariant.                                                          *)

LEMMA InitIInv == Init => IInv
<1> SUFFICES ASSUME Init PROVE IInv
  OBVIOUS
<1> USE DEF Init, RealmInit
<1>1. Stored = {} /\ Len(arcade_runs) = 0 /\ Used = 0
  BY DEF Stored, Used
<1>2. /\ batch.at = "idle" /\ batch.boards = {} /\ batch.runs = {}
      /\ batch.attempted = 0 /\ batch.row = 0
  BY DEF Idle
<1>3. RealmTypeOK
  BY DEF RealmTypeOK, Absent
<1>4. batch \in [at : Places, boards : SUBSET Boards, runs : SUBSET Rows,
                 attempted : 0..MaxPerCycle, row : Rows \cup {0}]
  BY DayCloseAssumption DEF Idle, Places, DayCloseAssumption
<1>5. count \in [crashes : 0..MaxCrashes, faults : 0..MaxFaults,
                 requeues : 0..MaxRequeues, foreign : 0..MaxForeign]
  BY DayCloseAssumption DEF DayCloseAssumption
<1>6. TypeOK
  <2>1. arcade_runs \in Seq(Row) /\ Len(arcade_runs) <= MaxRuns
    BY <1>1, DayCloseAssumption DEF DayCloseAssumption
  <2> QED
    BY <1>1, <1>3, <1>4, <1>5, <2>1, DayCloseAssumption DEF TypeOK, Stored, Row, DayCloseAssumption
<1>7. SubmitsCounted
  BY <1>1, FS_EmptySet, DayCloseAssumption DEF SubmitsCounted, DayCloseAssumption
<1>8. BatchFits
  BY <1>2, FS_EmptySet, DayCloseAssumption DEF BatchFits, Flights, DayCloseAssumption
<1>9. BestIsHeld /\ AnswersHold
  BY <1>1, <1>2 DEF BestIsHeld, AnswersHold, At
<1>10. EntriesAreBound
  BY DEF EntriesAreBound, Absent
<1>11. AttestedIsOnChain /\ Lossless /\ AttestedIsClosed
  BY <1>1 DEF AttestedIsOnChain, Lossless, SkippedLosesNothing, AttestedIsClosed
<1>12. AllPaid
  BY <1>1 DEF AllPaid
<1> QED
  BY <1>6, <1>7, <1>8, <1>9, <1>10, <1>11, <1>12 DEF IInv

LEMMA StutterIInv == IInv /\ UNCHANGED vars => IInv'
<1> SUFFICES ASSUME IInv, UNCHANGED vars PROVE IInv'
  OBVIOUS
<1>1. UNCHANGED <<arcade_runs, submits, today, batch, mempool, attempts, count, leftOver, entries, owners>>
  BY DEF vars, storeVars, realmVars
<1>2. TypeOK'
  BY <1>1 DEF IInv, TypeOK, RealmTypeOK
<1>3. (SubmitsCounted /\ BatchFits /\ BestIsHeld /\ EntriesAreBound /\ AnswersHold)'
  BY <1>1
  DEF IInv, SubmitsCounted, BatchFits, BestIsHeld, EntriesAreBound, AnswersHold, InFlight,
      NoneBetter, Held, Closed, At, Stored, RunOf, Status, SameBoardAndAddr, OnChain, Topped, Refused
<1>4. (AttestedIsOnChain /\ Lossless /\ AttestedIsClosed)'
  BY <1>1
  DEF IInv, AttestedIsOnChain, Lossless, SkippedLosesNothing, AttestedIsClosed,
      Closed, At, Stored, RunOf, Status, SameBoardAndAddr, Used
<1>5. AllPaid'
  <2>1. \A i \in Stored : InFlight(i)' = InFlight(i) /\ Uncounted(i)' = Uncounted(i)
    BY <1>1 DEF InFlight, Uncounted, At
  <2> QED
    BY <1>1, <2>1, PaidStays DEF IInv
<1> QED
  BY <1>2, <1>3, <1>4, <1>5 DEF IInv

LEMMA NextIInv == IInv /\ [Next]_vars => IInv'
<1> SUFFICES ASSUME IInv, [Next]_vars PROVE IInv'
  OBVIOUS
<1>1. CASE \E run \in Run : Submit(run)
  BY <1>1, SubmitKeeps
<1>2. ASSUME NEW s \in submits, InsertRun(s) PROVE IInv'
  BY <1>2, DuplicateKeeps, InsertKeeps
<1>3. CASE NextDay
  BY <1>3, NextDayKeeps
<1>4. CASE Batcher
  BY <1>4, TickKeeps, EndKeeps, NextBoardKeeps, AttestKeeps, LookupKeeps, MarkKeeps,
     ResolveKeeps, SkipKeeps, CountFailureKeeps, ParkKeeps DEF Batcher
<1>5. CASE WriteFails
  BY <1>5, WriteFailsKeeps
<1>6. CASE Crash \/ OperatorRestart
  BY <1>6, RestartKeeps
<1>7. CASE \E i \in Stored : Requeue(i)
  BY <1>7, RequeueKeeps
<1>8. ASSUME NEW run \in mempool, Land(run) PROVE IInv'
  <2>1. run \in Run
    BY DEF IInv, TypeOK
  <2> QED
    BY <1>8, <2>1, LandKeeps
<1>9. CASE \E run \in Run : Foreign(run)
  BY <1>9, LandKeeps
<1>10. CASE UNCHANGED vars
  BY <1>10, StutterIInv
<1> QED
  BY <1>1, <1>2, <1>3, <1>4, <1>5, <1>6, <1>7, <1>8, <1>9, <1>10 DEF Next

LEMMA Inductive == Spec => []IInv
BY InitIInv, NextIInv, PTL DEF Spec

-------------------------------------------------------------------------------
(* The theorems.                                                           *)

(* The batcher, its queries and its writes keep the table, the counts and  *)
(* the realm within their types; a cycle keeps to its limit of broadcasts. *)
THEOREM TypeCorrect == Spec => []TypeOK
<1>1. IInv => TypeOK
  BY DEF IInv
<1> QED
  BY <1>1, Inductive, PTL

(* runBatchOnce marks a row attested only for what the realm holds.        *)
THEOREM AttestedOnChain == Spec => []AttestedIsOnChain
<1>1. IInv => AttestedIsOnChain
  BY DEF IInv
<1> QED
  BY <1>1, Inductive, PTL

(* If no re-simulation straddles midnight, a row is given up only for a    *)
(* run at least as good, or because the realm can never accept it.         *)
THEOREM NothingLost ==
    ASSUME Straddle = FALSE
    PROVE  Spec => []SkippedLosesNothing
<1>1. IInv => SkippedLosesNothing
  BY DEF IInv, Lossless
<1> QED
  BY <1>1, Inductive, PTL

(* recordAttestFailure bounds the gas of a run, restarts included.         *)
THEOREM GasIsBounded == Spec => []BroadcastsAreBounded
<1>1. IInv => BroadcastsAreBounded
  <2> SUFFICES ASSUME IInv, NEW l \in Logs
               PROVE attempts[l] <= MaxAttestRetries + count.crashes + count.faults + count.requeues
    BY DEF BroadcastsAreBounded
  <2>1. count \in [crashes : 0..MaxCrashes, faults : 0..MaxFaults,
                   requeues : 0..MaxRequeues, foreign : 0..MaxForeign]
    BY DEF IInv, TypeOK
  <2>2. /\ count.crashes \in Nat /\ count.faults \in Nat /\ count.requeues \in Nat
        /\ MaxAttestRetries \in Nat
    BY <2>1, DayCloseAssumption DEF DayCloseAssumption
  <2>3. CASE \E i \in Stored : RunOf(i).log = l
    BY <2>2, <2>3 DEF IInv, AllPaid, Paid, Used
  <2>4. CASE \A i \in Stored : RunOf(i).log # l
    BY <2>2, <2>4 DEF IInv, AllPaid
  <2> QED
    BY <2>3, <2>4
<1> QED
  BY <1>1, Inductive, PTL

-------------------------------------------------------------------------------
(* Worse runs, with the rows left over.                                    *)

(* An attestation leaves verified only better runs of its address, but for *)
(* the moment before the others are retired and for the rows left over.    *)
AttestedIsLast ==
    Straddle = FALSE =>
        \A i \in Stored \ leftOver, j \in Stored :
            SameBoardAndAddr(i, j) /\ Status(i) = "verified" /\ Status(j) = "attested" =>
                RunOf(j).score < RunOf(i).score \/ (At("resolve") /\ batch.row = j)

HInv == IInv /\ AttestedIsLast

(* No row becomes verified or attested, and what is being settled still is. *)
LEMMA NoneReturns ==
    ASSUME AttestedIsLast, Stored' = Stored, leftOver \subseteq leftOver',
           \A i \in Stored : /\ RunOf(i)' = RunOf(i)
                             /\ Status(i)' \in {"verified", "attested"} => Status(i)' = Status(i),
           At("resolve") => At("resolve")' /\ batch'.row = batch.row
    PROVE  AttestedIsLast'
BY DEF AttestedIsLast, SameBoardAndAddr

LEMMA HistoryResolve ==
    ASSUME HInv, ResolveSupersededDaily, leftOver \subseteq leftOver'
    PROVE  AttestedIsLast'
<1> DEFINE row == batch.row
           rows == Superseded(row) \ (IF At("resolve") THEN {row} ELSE {})
<1>1. SetStatus(rows, "skipped") /\ batch.at \in Flights /\ TypeOK /\ "skipped" \in Statuses
  BY DEF ResolveSupersededDaily, At, Flights, HInv, IInv, Statuses
<1>2. /\ Stored' = Stored
      /\ \A i \in Stored : /\ RunOf(i)' = RunOf(i)
                           /\ Status(i)' = IF i \in rows THEN "skipped" ELSE Status(i)
  BY <1>1, StatusWrite
<1>3. CASE At("drain")
  BY <1>2, <1>3, NoneReturns DEF HInv, At
<1>4. CASE At("resolve")
  <2>1. row \in Stored /\ Status(row) = "attested"
    BY <1>1, <1>4, FlightFacts DEF HInv
  <2>2. ASSUME Straddle = FALSE, NEW i \in Stored \ leftOver', NEW j \in Stored,
               SameBoardAndAddr(i, j)', Status(i)' = "verified", Status(j)' = "attested"
        PROVE  RunOf(j).score < RunOf(i).score
    <3>1. /\ i \in Stored \ leftOver /\ SameBoardAndAddr(i, j) /\ i \notin rows
          /\ Status(i) = "verified" /\ Status(j) = "attested"
      BY <1>2, <2>2 DEF SameBoardAndAddr
    <3>2. j # row
      BY <2>1, <3>1 DEF Superseded, SameBoardAndAddr
    <3> QED
      BY <2>2, <3>1, <3>2 DEF HInv, AttestedIsLast
  <2> QED
    BY <1>2, <2>2 DEF AttestedIsLast
<1> QED
  BY <1>3, <1>4 DEF ResolveSupersededDaily

LEMMA HistoryMark ==
    ASSUME HInv, MarkAttested, leftOver \subseteq leftOver'
    PROVE  AttestedIsLast'
<1>1. SetStatus({batch.row}, "attested") /\ TypeOK /\ "attested" \in Statuses /\ ~At("resolve")
  BY DEF MarkAttested, At, HInv, IInv, Statuses
<1>2. /\ Stored' = Stored
      /\ \A i \in Stored : /\ RunOf(i)' = RunOf(i)
                           /\ Status(i)' = IF i \in {batch.row} THEN "attested" ELSE Status(i)
  BY <1>1, StatusWrite
<1>3. batch'.at = "resolve" /\ batch'.row = batch.row
  BY <1>1, GotoFacts DEF MarkAttested, Places
<1> QED
  BY <1>1, <1>2, <1>3 DEF HInv, AttestedIsLast, SameBoardAndAddr, At

LEMMA HistoryRequeue ==
    ASSUME HInv, NEW k \in Stored, Requeue(k)
    PROVE  AttestedIsLast'
<1>1. /\ SetStatus({k}, "verified") /\ Status(k) = "errored" /\ UNCHANGED batch
      /\ TypeOK /\ "verified" \in Statuses
  BY DEF Requeue, HInv, IInv, Statuses
<1>2. /\ Stored' = Stored
      /\ \A i \in Stored : /\ RunOf(i)' = RunOf(i)
                           /\ Status(i)' = IF i \in {k} THEN "verified" ELSE Status(i)
  BY <1>1, StatusWrite
<1>3. ASSUME Straddle = FALSE, NEW i \in Stored \ leftOver', NEW j \in Stored,
             SameBoardAndAddr(i, j)', Status(i)' = "verified", Status(j)' = "attested"
      PROVE  RunOf(j).score < RunOf(i).score \/ (At("resolve") /\ batch.row = j)
  <2>1. SameBoardAndAddr(i, j) /\ Status(j) = "attested" /\ i \notin leftOver
    BY <1>1, <1>2, <1>3 DEF SameBoardAndAddr, Requeue
  <2>2. CASE i = k
    <3>1. ~(RunOf(j).score >= RunOf(i).score)
      BY <1>1, <1>2, <1>3, <2>1, <2>2 DEF Requeue, Beaten
    <3>2. RunOf(i).score \in Nat /\ RunOf(j).score \in Nat
      BY <1>1, RowFacts
    <3> QED
      BY <3>1, <3>2
  <2>3. CASE i # k
    BY <1>2, <1>3, <2>1, <2>3 DEF HInv, AttestedIsLast
  <2> QED
    BY <2>2, <2>3
<1> QED
  BY <1>1, <1>2, <1>3 DEF AttestedIsLast, At

(* A run stored later is of a day that is not closed.                      *)
LEMMA HistoryInsert ==
    ASSUME HInv, NEW s \in submits, InsertRun(s), leftOver \subseteq leftOver'
    PROVE  AttestedIsLast'
<1>1. CASE DuplicateLog(s.run)
  BY <1>1, NoneReturns DEF InsertRun, HInv, At, Stored, RunOf, Status
<1>2. CASE ~DuplicateLog(s.run)
  <2> DEFINE new == [run |-> s.run, status |-> "verified", failures |-> 0]
  <2>1. arcade_runs' = Append(arcade_runs, new) /\ UNCHANGED batch /\ TypeOK
    BY <1>2 DEF InsertRun, HInv, IInv
  <2>2. s.run \in Run
    BY <2>1 DEF TypeOK
  <2>3. new \in Row
    BY <2>2 DEF Row, Statuses
  <2>4. PICK n : /\ arcade_runs'[n] = new
                 /\ \A i \in Stored : arcade_runs'[i] = arcade_runs[i]
                 /\ Stored' = Stored \cup {n} /\ n \notin Stored
    BY <2>1, <2>3, AppendRow
  <2>5. /\ \A i \in Stored : RunOf(i)' = RunOf(i) /\ Status(i)' = Status(i)
        /\ RunOf(n)' = s.run /\ Status(n)' = "verified"
    BY <2>4 DEF RunOf, Status
  <2>6. ASSUME Straddle = FALSE, NEW i \in Stored' \ leftOver', NEW j \in Stored',
               SameBoardAndAddr(i, j)', Status(i)' = "verified", Status(j)' = "attested"
        PROVE  /\ i \in Stored \ leftOver /\ j \in Stored
               /\ RunOf(j).score < RunOf(i).score \/ (At("resolve") /\ batch.row = j)
    <3>1. j \in Stored /\ Status(j) = "attested" /\ Closed(RunOf(j).board.day)
      BY <2>4, <2>5, <2>6 DEF HInv, IInv, AttestedIsClosed
    <3>2. ~Closed(s.run.board.day)
      BY <2>6 DEF HInv, IInv, SubmitsCounted
    <3>3. i # n
      BY <2>5, <2>6, <3>1, <3>2 DEF SameBoardAndAddr
    <3>4. i \in Stored \ leftOver /\ SameBoardAndAddr(i, j) /\ Status(i) = "verified"
      BY <2>4, <2>5, <2>6, <3>1, <3>3 DEF SameBoardAndAddr
    <3> QED
      BY <2>6, <3>1, <3>4 DEF HInv, AttestedIsLast
  <2> QED
    BY <2>1, <2>5, <2>6 DEF AttestedIsLast, At
<1> QED
  BY <1>1, <1>2

(* Cut short, a settlement leaves behind what it would have retired.       *)
LEMMA HistoryStop ==
    ASSUME HInv, WriteFails \/ Crash \/ OperatorRestart
    PROVE  AttestedIsLast'
<1>0. leftOver \subseteq leftOver'
  BY DEF WriteFails, Crash, OperatorRestart, CutShort
<1>1. UNCHANGED arcade_runs /\ batch'.at \in {"fail", "stopped", "idle"}
      /\ (At("resolve") => batch'.at \in {"stopped", "idle"})
  <2>1. CASE WriteFails
    <3>1. PICK place \in {"fail", "stopped"} : Goto(place) /\ (place = "fail" => At("mark"))
      BY <2>1 DEF WriteFails
    <3>2. batch'.at = place
      BY <3>1, GotoFacts DEF HInv, IInv, Places
    <3> QED
      BY <2>1, <3>1, <3>2 DEF WriteFails, storeVars, At
  <2>2. CASE Crash \/ OperatorRestart
    BY <2>2 DEF Crash, OperatorRestart, Resume, Idle
  <2> QED
    BY <2>1, <2>2
<1>2. CASE ~At("resolve")
  BY <1>0, <1>1, <1>2, NoneReturns DEF HInv, Stored, RunOf, Status
<1>3. CASE At("resolve")
  <2>1. leftOver' = leftOver \cup Superseded(batch.row)
    BY <1>3 DEF WriteFails, Crash, OperatorRestart, CutShort, At
  <2>2. ASSUME Straddle = FALSE, NEW i \in Stored \ leftOver', NEW j \in Stored,
               SameBoardAndAddr(i, j), Status(i) = "verified", Status(j) = "attested"
        PROVE  RunOf(j).score < RunOf(i).score
    <3>1. j # batch.row
      BY <2>1, <2>2 DEF Superseded, SameBoardAndAddr
    <3> QED
      BY <1>0, <2>2, <3>1 DEF HInv, AttestedIsLast
  <2> QED
    BY <1>1, <2>2 DEF AttestedIsLast, Stored, RunOf, Status, SameBoardAndAddr
<1> QED
  BY <1>2, <1>3

(* The batcher's steps that settle no board.                               *)
LEMMA HistoryBatcher ==
    ASSUME HInv, Batcher, ~MarkAttested, ~ResolveSupersededDaily, leftOver \subseteq leftOver'
    PROVE  AttestedIsLast'
<1>1. ~At("resolve")
  BY DEF Batcher, Tick, EndCycle, EndBoard, NextBoard, AttestScore, LookupEntry, MarkAttested,
         ResolveSupersededDaily, MarkSkipped, IncrementAttestFailures, MarkErrored, At
<1>2. CASE UNCHANGED arcade_runs
  BY <1>1, <1>2, NoneReturns DEF HInv, Stored, RunOf, Status
<1>3. CASE MarkSkipped \/ MarkErrored
  <2>1. PICK status \in {"skipped", "errored"} :
            SetStatus({batch.row} \cap {i \in Stored : Status(i) = "verified"}, status)
    BY <1>3 DEF MarkSkipped, MarkErrored
  <2>2. TypeOK /\ status \in Statuses
    BY DEF HInv, IInv, Statuses
  <2>3. /\ Stored' = Stored
        /\ \A i \in Stored : RunOf(i)' = RunOf(i) /\ Status(i)' \in {status, Status(i)}
    BY <2>1, <2>2, StatusWrite
  <2> QED
    BY <1>1, <2>3, NoneReturns DEF HInv
<1>4. CASE IncrementAttestFailures
  <2>1. PICK failures :
            arcade_runs' = [arcade_runs EXCEPT ![batch.row].failures = failures]
    BY <1>4 DEF IncrementAttestFailures
  <2>2. /\ Stored' = Stored
        /\ \A i \in Stored : RunOf(i)' = RunOf(i) /\ Status(i)' = Status(i)
    <3>1. TypeOK
      BY DEF HInv, IInv
    <3> QED
      BY <2>1, <3>1, RowFacts DEF Stored, RunOf, Status, Row
  <2> QED
    BY <1>1, <2>2, NoneReturns DEF HInv
<1> QED
  BY <1>2, <1>3, <1>4
  DEF Batcher, Tick, EndCycle, EndBoard, NextBoard, AttestScore, LookupEntry, storeVars

LEMMA HistoryKeeps == HInv /\ [Next]_vars => HInv'
<1> SUFFICES ASSUME HInv, [Next]_vars PROVE HInv'
  OBVIOUS
<1>1. IInv'
  BY NextIInv DEF HInv
<1>2. AttestedIsLast'
  <2>1. CASE UNCHANGED vars
    BY <2>1, NoneReturns DEF HInv, vars, storeVars, At, Stored, RunOf, Status
  <2>2. CASE Next
    <3>1. leftOver \subseteq leftOver'
      BY <2>2
      DEF Next, Submit, InsertRun, NextDay, Batcher, Tick, EndCycle, EndBoard, NextBoard,
          AttestScore, LookupEntry, MarkAttested, ResolveSupersededDaily, MarkSkipped,
          IncrementAttestFailures, MarkErrored, WriteFails, CutShort, Crash, OperatorRestart,
          Requeue, Land, Foreign
    <3>2. CASE Batcher
      BY <3>1, <3>2, HistoryBatcher, HistoryMark, HistoryResolve
    <3>3. CASE \E s \in submits : InsertRun(s)
      BY <3>1, <3>3, HistoryInsert
    <3>4. CASE WriteFails \/ Crash \/ OperatorRestart
      BY <3>1, <3>4, HistoryStop
    <3>5. CASE \E k \in Stored : Requeue(k)
      BY <3>1, <3>5, HistoryRequeue
    <3>6. CASE UNCHANGED <<arcade_runs, batch>>
      BY <3>1, <3>6, NoneReturns DEF HInv, At, Stored, RunOf, Status
    <3> QED
      BY <2>2, <3>2, <3>3, <3>4, <3>5, <3>6
      DEF Next, Submit, NextDay, Land, Foreign, storeVars
  <2> QED
    BY <2>1, <2>2
<1> QED
  BY <1>1, <1>2 DEF HInv

(* If no re-simulation straddles midnight, no run is broadcast after one   *)
(* at least as good of its address was attested, through every crash,      *)
(* failed write and requeue; excused are only the rows that a stop between *)
(* MarkAttested and ResolveSupersededDaily left verified or an operator    *)
(* put back behind such a run.                                             *)
THEOREM NeverWorse ==
    ASSUME Straddle = FALSE
    PROVE  Spec => NeverWorseAfterBetter
<1> DEFINE Never ==
        \A i \in Stored \ leftOver :
            attempts'[RunOf(i).log] > attempts[RunOf(i).log] =>
                \A j \in Stored : SameBoardAndAddr(i, j) /\ Status(j) = "attested" =>
                    RunOf(j).score < RunOf(i).score
<1>1. Init => HInv
  <2> SUFFICES ASSUME Init PROVE HInv
    OBVIOUS
  <2>1. IInv /\ Stored = {}
    BY InitIInv DEF Init, Stored
  <2> QED
    BY <2>1 DEF HInv, AttestedIsLast
<1>2. HInv /\ [Next]_vars => [Never]_vars
  <2> SUFFICES ASSUME HInv, Next,
                      NEW i \in Stored \ leftOver, NEW j \in Stored,
                      attempts'[RunOf(i).log] > attempts[RunOf(i).log],
                      SameBoardAndAddr(i, j), Status(j) = "attested"
               PROVE  RunOf(j).score < RunOf(i).score
    OBVIOUS
  <2>1. attempts \in [Logs -> Nat] /\ TypeOK
    BY DEF HInv, IInv, TypeOK
  <2>2. RunOf(i).log \in Logs
    BY <2>1, RowFacts
  <2>3. attempts' # attempts
    BY <2>1, <2>2
  <2>4. PICK k \in Stored, answer \in {"ok", "lost", "not_improved", "bound_elsewhere", "unfit"} :
            AttestScore(k, answer)
    BY <2>3
    DEF Next, Submit, InsertRun, NextDay, Batcher, Tick, EndCycle, EndBoard,
        NextBoard, LookupEntry, MarkAttested, ResolveSupersededDaily, MarkSkipped,
        IncrementAttestFailures, MarkErrored, WriteFails, Crash, OperatorRestart, Resume,
        Requeue, Land, Foreign
  <2>5. k = i
    <3>1. attempts' = [attempts EXCEPT ![RunOf(k).log] = @ + 1]
      BY <2>4 DEF AttestScore
    <3>2. RunOf(k).log = RunOf(i).log
      BY <2>1, <2>2, <3>1
    <3> QED
      BY <2>1, <3>2 DEF TypeOK, RunOf, Stored
  <2>6. ~At("resolve") /\ Status(i) = "verified"
    BY <2>4, <2>5 DEF AttestScore, HInv, IInv, BatchFits, At
  <2> QED
    BY <2>6 DEF HInv, AttestedIsLast
<1> QED
  BY <1>1, <1>2, HistoryKeeps, PTL DEF Spec, NeverWorseAfterBetter
===============================================================================
