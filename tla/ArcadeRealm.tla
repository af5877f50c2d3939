----------------------------- MODULE ArcadeRealm -----------------------------
(***************************************************************************)
(* The leaderboard realm that Memba's attester writes, as                  *)
(* internal/arcade/attest.go and batcher.go rely on it (its code is not in *)
(* this repository): one entry for each address on each board, which only  *)
(* improves; an input log belongs to the first address it was attested     *)
(* for; a malformed run is always refused.                                 *)
(***************************************************************************)
EXTENDS Naturals

CONSTANTS
    Addrs,    \* wallets
    Logs,     \* input logs, named by their hash
    Unfit,    \* the logs whose runs fail the realm's shape checks
    Boards,   \* a board is a game's day
    MaxScore, \* bound: scores
    None

ASSUME RealmAssumption == Unfit \subseteq Logs /\ MaxScore \in Nat /\ None \notin Addrs

Scores == 1..MaxScore

VARIABLES
    entries,  \* of each board and address, the log and score it holds
    owners    \* of each log, the address it is bound to

realmVars == <<entries, owners>>

Entry == [log : Logs, score : Scores]
Absent == [log |-> None, score |-> 0]

RealmTypeOK ==
    /\ entries \in [Boards \X Addrs -> Entry \cup {Absent}]
    /\ owners \in [Logs -> Addrs \cup {None}]

RealmInit ==
    /\ entries = [b \in Boards \X Addrs |-> Absent]
    /\ owners = [l \in Logs |-> None]

(* The reasons to refuse a run.                                            *)
Verdicts(run) ==
    {v \in {"unfit", "bound_elsewhere", "not_improved"} :
        CASE v = "unfit" -> run.log \in Unfit
          [] v = "bound_elsewhere" -> owners[run.log] \notin {None, run.addr}
          [] v = "not_improved" -> entries[<<run.board, run.addr>>].score >= run.score}

(* AttestScore, accepted.                                                  *)
Enter(run) ==
    /\ Verdicts(run) = {}
    /\ entries' = [entries EXCEPT ![<<run.board, run.addr>>] =
                      [log |-> run.log, score |-> run.score]]
    /\ owners' = [owners EXCEPT ![run.log] = run.addr]
===============================================================================
