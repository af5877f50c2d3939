------------------------------ MODULE AnchorOnce ------------------------------
(***************************************************************************)
(* What free-play publication promises of each run, whatever worker dies   *)
(* or is overtaken at whatever point: its anchor transaction is handed to  *)
(* the network at most once, only while the run is the one run in doubt,   *)
(* and the run is confirmed only after that.                               *)
(***************************************************************************)
EXTENDS Naturals

CONSTANT AnchoredRuns

VARIABLES
    phase,       \* of each run
    broadcasts   \* of each run, how often its transaction was handed over

anchorVars == <<phase, broadcasts>>

Phases == {"unknown", "verified", "authorized", "doubtful", "confirmed"}

AnchorInit ==
    /\ phase = [r \in AnchoredRuns |-> "unknown"]
    /\ broadcasts = [r \in AnchoredRuns |-> 0]

Moves(r, from, to) ==
    /\ phase[r] = from
    /\ phase' = [phase EXCEPT ![r] = to]

Certify(r) == Moves(r, "unknown", "verified") /\ UNCHANGED broadcasts

Authorize(r) == Moves(r, "verified", "authorized") /\ UNCHANGED broadcasts

(* The account serves one run at a time.                                   *)
Commit(r) ==
    /\ \A s \in AnchoredRuns : phase[s] # "doubtful"
    /\ Moves(r, "authorized", "doubtful")
    /\ UNCHANGED broadcasts

Retract(r) ==
    /\ broadcasts[r] = 0
    /\ Moves(r, "doubtful", "authorized")
    /\ UNCHANGED broadcasts

Send(r) ==
    /\ phase[r] = "doubtful"
    /\ broadcasts[r] = 0
    /\ broadcasts' = [broadcasts EXCEPT ![r] = 1]
    /\ UNCHANGED phase

Settle(r) ==
    /\ broadcasts[r] = 1
    /\ Moves(r, "doubtful", "confirmed")
    /\ UNCHANGED broadcasts

AnchorNext ==
    \E r \in AnchoredRuns :
        Certify(r) \/ Authorize(r) \/ Commit(r) \/ Retract(r) \/ Send(r) \/ Settle(r)

AnchorSpec == AnchorInit /\ [][AnchorNext]_anchorVars
===============================================================================
