--------------------------- MODULE PublicationLedger ---------------------------
(* What an account's publications of one note promise, whatever tabs, wallet,  *)
(* network and storage do: an operation runs only while it is on record as     *)
(* open, the open operations follow different revisions, an operation is       *)
(* confirmed only because it made the revision after its base, and one that    *)
(* was given up as not sent never runs.                                        *)
EXTENDS Integers, Sequences

CONSTANTS PublishedOps, SomeoneElse

VARIABLES revisions, expected, state

Fates == {"new", "open", "confirmed", "dropped"}

LedgerInit ==
    /\ revisions = <<>>
    /\ expected = [o \in PublishedOps |-> 0]
    /\ state = [o \in PublishedOps |-> "new"]

Open(o) ==
    /\ state[o] = "new"
    /\ \E b \in 0..Len(revisions) :
          /\ \A p \in PublishedOps : state[p] = "open" => expected[p] < b
          /\ expected' = [expected EXCEPT ![o] = b]
    /\ state' = [state EXCEPT ![o] = "open"]
    /\ UNCHANGED revisions

Made(o) == expected[o] < Len(revisions) /\ revisions[expected[o] + 1] = o

RunOpen(o) ==
    /\ state[o] = "open"
    /\ expected[o] = Len(revisions)
    /\ revisions' = Append(revisions, o)
    /\ UNCHANGED <<expected, state>>

Edit ==
    /\ revisions' = Append(revisions, SomeoneElse)
    /\ UNCHANGED <<expected, state>>

Acknowledge(o) ==
    /\ state[o] = "open" /\ Made(o)
    /\ state' = [state EXCEPT ![o] = "confirmed"]
    /\ UNCHANGED <<revisions, expected>>

GiveBack(o) ==
    /\ state[o] = "open" /\ ~Made(o)
    /\ state' = [state EXCEPT ![o] = "dropped"]
    /\ UNCHANGED <<revisions, expected>>

LedgerNext ==
    \/ \E o \in PublishedOps : Open(o) \/ RunOpen(o) \/ Acknowledge(o) \/ GiveBack(o)
    \/ Edit

LedgerSpec == LedgerInit /\ [][LedgerNext]_<<revisions, expected, state>>
===============================================================================
