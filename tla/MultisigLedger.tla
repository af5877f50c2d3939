---------------------------- MODULE MultisigLedger ----------------------------
(***************************************************************************)
(* What the multisig service promises of its proposals, whatever the order *)
(* of requests, retries, restarts and chain answers: a proposal is open    *)
(* until the account has spent its sequence on exactly that proposal, and  *)
(* is then closed once, with the outcome the chain gave it.                *)
(***************************************************************************)
EXTENDS Naturals, Sequences

CONSTANTS Contents, MaxSequence, MaxProposals

VARIABLES
    proposals,   \* of each proposal, its fields and its outcome
    spent        \* what the account's sequences were used for, and how it ended

ledgerVars == <<proposals, spent>>

LedgerFields == [content : Contents, sequence : 0..MaxSequence]

LedgerInit ==
    /\ proposals = <<>>
    /\ spent = {}

Propose(fields) ==
    /\ Len(proposals) < MaxProposals
    /\ proposals' = Append(proposals, [fields |-> fields, outcome |-> "open"])
    /\ UNCHANGED spent

(* A sequence is spent once.                                               *)
Spend(fields, outcome) ==
    /\ \A s \in spent : s.fields.sequence # fields.sequence
    /\ spent' = spent \cup {[fields |-> fields, outcome |-> outcome]}
    /\ UNCHANGED proposals

Settle(p) ==
    /\ proposals[p].outcome = "open"
    /\ \E s \in spent :
          /\ s.fields = proposals[p].fields
          /\ proposals' = [proposals EXCEPT ![p].outcome = s.outcome]
    /\ UNCHANGED spent

LedgerNext ==
    \/ \E fields \in LedgerFields : Propose(fields)
    \/ \E fields \in LedgerFields, outcome \in {"executed", "failed"} :
          Spend(fields, outcome)
    \/ \E p \in DOMAIN proposals : Settle(p)

LedgerSpec == LedgerInit /\ [][LedgerNext]_ledgerVars
===============================================================================
