------------------------------ MODULE GnoAccount ------------------------------
(***************************************************************************)
(* The chain as the multisig service of Memba observes it: the account of  *)
(* ONE native Gno multisig, the transactions that blocks carry for it and  *)
(* their receipts.  The node is not in this repository; it is modelled     *)
(* from what internal/service/native_multisig.go and                       *)
(* internal/gnomultisig/transaction.go rely on:                            *)
(*                                                                         *)
(*   - a transaction runs only when the sequence its signatures cover is   *)
(*     the account's; running it, even when its messages fail, uses that   *)
(*     sequence;                                                           *)
(*   - a transaction refused before its messages run (the fee check at     *)
(*     block time, a wrong sequence) still has a receipt and uses nothing; *)
(*   - a hash names the bytes, and the receipt of a hash is that of the    *)
(*     last block that carried those bytes.                                *)
(*                                                                         *)
(* A hash is a hash of bytes: it is modelled by the signed transaction     *)
(* itself.                                                                 *)
(***************************************************************************)
EXTENDS Naturals, FiniteSets, Sequences

CONSTANTS
    Members,      \* the keys of the multisig
    K,            \* its threshold
    Contents,     \* what a proposal does: messages, fee and memo
    Renderings,   \* the payload renderings a wallet may have signed
    Values,       \* distinct valid signatures of one key over one payload
    MaxSequence,  \* bound: largest account sequence a proposal names
    MaxHeight,    \* bound: blocks
    None

ASSUME KeysAssumption == IsFiniteSet(Members) /\ K \in 1..Cardinality(Members)
ASSUME BoundsAssumption == MaxSequence \in Nat /\ MaxHeight \in Nat

VARIABLES
    log,          \* what the blocks carried, oldest first
    height,       \* last committed block
    nextSeq,      \* the account's sequence in the block being built
    seqAt         \* the account's sequence as of each committed block

chainVars == <<log, height, nextSeq, seqAt>>

(* What a member signs: the proposal's content bound to a sequence.        *)
Fields == [content : Contents, sequence : 0..MaxSequence]

(* A complete transaction: the fields and one signature of each of at      *)
(* least K keys, all over one rendering of the fields.                     *)
Signers(sigs) == {s[1] : s \in sigs}

IsQuorum(sigs) ==
    /\ \A s, t \in sigs : s[1] = t[1] => s = t
    /\ \E Q \in SUBSET Members : Q = Signers(sigs) /\ Cardinality(Q) >= K

SignedTxs ==
    {t \in [fields : Fields, rendering : Renderings,
            sigs : SUBSET (Members \X Values)] : IsQuorum(t.sigs)}

Results == {"ok", "failed", "refused"}

Receipts == [tx : SignedTxs, height : 1..MaxHeight, result : Results]

ChainTypeOK ==
    /\ log \in Seq(Receipts)
    /\ height \in 0..MaxHeight
    /\ nextSeq \in Nat
    /\ seqAt \in [0..height -> Nat]

ChainInit ==
    /\ log = <<>>
    /\ height = 0
    /\ nextSeq = 0
    /\ seqAt = [h \in {0} |-> 0]

(* The block being built carries t.  A proposer's mempool admits one       *)
(* transaction of an account per sequence into a block.                    *)
Deliver(t, result) ==
    /\ height < MaxHeight
    /\ \A i \in DOMAIN log :
          log[i].height = height + 1 =>
              log[i].tx.fields.sequence # t.fields.sequence
    /\ t.fields.sequence # nextSeq => result = "refused"
    /\ log' = Append(log, [tx |-> t, height |-> height + 1, result |-> result])
    /\ nextSeq' = IF result = "refused" THEN nextSeq ELSE nextSeq + 1
    /\ UNCHANGED <<height, seqAt>>

CommitBlock ==
    /\ height < MaxHeight
    /\ height' = height + 1
    /\ seqAt' = [h \in 0..(height + 1) |-> IF h = height + 1 THEN nextSeq ELSE seqAt[h]]
    /\ UNCHANGED <<log, nextSeq>>

(* The receipts a node that has the blocks up to view holds for t: the     *)
(* transaction index keeps the last one only.                              *)
ReceiptAt(t, view) ==
    {log[i] : i \in {j \in DOMAIN log :
        /\ log[j].tx = t /\ log[j].height <= view
        /\ \A k \in DOMAIN log :
              log[k].tx = t /\ log[k].height <= view => log[k].height <= log[j].height}}

(* sequenceUsed: the account as of a height had moved past the sequence.   *)
SequenceUsed(sequence, h) == seqAt[h] > sequence
===============================================================================
