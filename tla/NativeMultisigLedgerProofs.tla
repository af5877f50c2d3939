---------------------- MODULE NativeMultisigLedgerProofs ----------------------
(* Theorems about closing a proposal: what the chain did, and the ledger    *)
(* that the service implements.                                            *)
EXTENDS NativeMultisigProofs

USE NoneAssumption

(***************************************************************************)
(* The chain: what its blocks carried and the sequences they used.         *)
(***************************************************************************)
Ran(i) == log[i].result # "refused"
Sequence(i) == log[i].tx.fields.sequence

(* Some transaction of block h used sequence s.                            *)
RanIn(h, s) == \E i \in DOMAIN log : log[i].height = h /\ Sequence(i) = s /\ Ran(i)

ChainInv ==
    /\ \A i \in DOMAIN log : log[i].height \in 1..(height + 1)
    /\ \A i, j \in DOMAIN log :
          log[i].height = log[j].height /\ Sequence(i) = Sequence(j) => i = j
    /\ \A i \in DOMAIN log : Ran(i) => Sequence(i) < nextSeq
    /\ \A h \in 1..height, s \in Nat :
          seqAt[h - 1] <= s /\ s < seqAt[h] => RanIn(h, s)
    /\ \A s \in Nat : seqAt[height] <= s /\ s < nextSeq => RanIn(height + 1, s)
    /\ seqAt[height] <= nextSeq

LEMMA LogTypes ==
    ASSUME TypeOK, NEW i \in DOMAIN log
    PROVE  /\ log[i] \in Receipts
           /\ log[i].tx \in SignedTxs
           /\ log[i].result \in Results
           /\ Sequence(i) \in Nat
           /\ log[i].height \in Nat
<1>1. log[i] \in Receipts
  BY DEF TypeOK, ChainTypeOK
<1>2. log[i].tx \in SignedTxs /\ log[i].result \in Results /\ log[i].height \in Nat
  BY <1>1 DEF Receipts
<1>3. log[i].tx.fields \in Fields
  BY <1>2 DEF SignedTxs
<1>4. QED
  BY <1>1, <1>2, <1>3 DEF Sequence, Fields

LEMMA DeliverKeeps ==
    ASSUME TypeOK, ChainInv, NEW t \in SignedTxs, NEW result \in Results, Deliver(t, result)
    PROVE  ChainInv'
<1> PICK n : n = Len(log) + 1
  OBVIOUS
<1> DEFINE new == [tx |-> t, height |-> height + 1, result |-> result]
<1>1. /\ log \in Seq(Receipts) /\ height \in Nat /\ nextSeq \in Nat
      /\ seqAt \in [0..height -> Nat]
  BY DEF TypeOK, ChainTypeOK
<1>2. /\ log' = Append(log, new) /\ height' = height /\ seqAt' = seqAt
      /\ nextSeq' = IF result = "refused" THEN nextSeq ELSE nextSeq + 1
      /\ t.fields.sequence # nextSeq => result = "refused"
      /\ \A i \in DOMAIN log :
            log[i].height = height + 1 => log[i].tx.fields.sequence # t.fields.sequence
  BY DEF Deliver
<1>3. /\ DOMAIN log' = 1..n /\ DOMAIN log = 1..(n - 1) /\ n \in Nat
      /\ log'[n] = new
      /\ \A i \in DOMAIN log : log'[i] = log[i]
  BY <1>1, <1>2
<1>4. t.fields.sequence \in Nat
  <2>1. t.fields \in Fields
    BY DEF SignedTxs
  <2>2. QED
    BY <2>1 DEF Fields
<1>5. /\ log'[n].height = height + 1
      /\ Sequence(n)' = t.fields.sequence
      /\ Ran(n)' <=> result # "refused"
  BY <1>3 DEF Sequence, Ran
<1>6. \A i \in DOMAIN log : /\ Sequence(i)' = Sequence(i)
                            /\ Ran(i)' <=> Ran(i)
                            /\ Sequence(i) \in Nat
  BY <1>3, LogTypes DEF Sequence, Ran
<1> HIDE DEF new
<1>7. \A i \in DOMAIN log' : log'[i].height \in 1..(height' + 1)
  BY <1>1, <1>2, <1>3, <1>5 DEF ChainInv
<1>8. \A i, j \in DOMAIN log' :
         log'[i].height = log'[j].height /\ Sequence(i)' = Sequence(j)' => i = j
  BY <1>2, <1>3, <1>5, <1>6 DEF ChainInv, Sequence
<1>9. \A i \in DOMAIN log' : Ran(i)' => Sequence(i)' < nextSeq'
  BY <1>1, <1>2, <1>3, <1>4, <1>5, <1>6 DEF ChainInv
<1>10. \A h, s : RanIn(h, s) => RanIn(h, s)'
  BY <1>3, <1>6 DEF RanIn
<1>11. \A h \in 1..height', s \in Nat :
          seqAt'[h - 1] <= s /\ s < seqAt'[h] => RanIn(h, s)'
  BY <1>2, <1>10 DEF ChainInv
<1>12. ASSUME NEW s \in Nat, seqAt'[height'] <= s, s < nextSeq'
       PROVE  RanIn(height + 1, s)'
  <2>1. CASE s < nextSeq
    BY <1>2, <1>10, <1>12, <2>1 DEF ChainInv
  <2>2. CASE ~(s < nextSeq)
    <3>1. result # "refused" /\ s = t.fields.sequence
      BY <1>1, <1>2, <1>12, <2>2
    <3>2. QED
      BY <1>2, <1>3, <1>5, <3>1 DEF RanIn
  <2>3. QED
    BY <2>1, <2>2
<1>13. seqAt'[height'] <= nextSeq'
  BY <1>1, <1>2 DEF ChainInv
<1>14. QED
  BY <1>7, <1>8, <1>9, <1>11, <1>12, <1>13 DEF ChainInv

LEMMA CommitKeeps ==
    ASSUME TypeOK, ChainInv, CommitBlock
    PROVE  ChainInv'
<1>1. /\ log \in Seq(Receipts) /\ height \in Nat /\ nextSeq \in Nat
      /\ seqAt \in [0..height -> Nat]
  BY DEF TypeOK, ChainTypeOK
<1>2. /\ log' = log /\ height' = height + 1 /\ nextSeq' = nextSeq
      /\ \A h \in 0..height : seqAt'[h] = seqAt[h]
      /\ seqAt'[height + 1] = nextSeq
  BY <1>1 DEF CommitBlock
<1>3. \A h, s : RanIn(h, s)' <=> RanIn(h, s)
  BY <1>2 DEF RanIn, Sequence, Ran
<1>4. ASSUME NEW h \in 1..height', NEW s \in Nat, seqAt'[h - 1] <= s, s < seqAt'[h]
      PROVE  RanIn(h, s)'
  <2>1. CASE h <= height
    <3>1. h \in 1..height /\ h \in 0..height /\ h - 1 \in 0..height
      BY <1>1, <1>2, <2>1
    <3>2. seqAt[h - 1] <= s /\ s < seqAt[h]
      BY <1>2, <1>4, <3>1
    <3>3. QED
      BY <1>3, <3>1, <3>2 DEF ChainInv
  <2>2. CASE h = height + 1
    <3>1. h - 1 = height /\ height \in 0..height
      BY <1>1, <2>2
    <3>2. seqAt[height] <= s /\ s < nextSeq
      BY <1>2, <1>4, <2>2, <3>1
    <3>3. QED
      BY <1>3, <2>2, <3>2 DEF ChainInv
  <2>3. QED
    BY <1>1, <1>2, <2>1, <2>2
<1>5. \A s \in Nat : ~(seqAt'[height'] <= s /\ s < nextSeq')
  BY <1>1, <1>2
<1>6. /\ \A i \in DOMAIN log' : log'[i].height \in 1..(height' + 1)
      /\ \A i, j \in DOMAIN log' :
            log'[i].height = log'[j].height /\ Sequence(i)' = Sequence(j)' => i = j
      /\ \A i \in DOMAIN log' : Ran(i)' => Sequence(i)' < nextSeq'
  BY <1>1, <1>2 DEF ChainInv, Sequence, Ran
<1>7. seqAt'[height'] <= nextSeq'
  BY <1>1, <1>2
<1>8. QED
  BY <1>4, <1>5, <1>6, <1>7 DEF ChainInv

(* The service never writes the chain.                                     *)
LEMMA ChainSteps ==
    ASSUME [Next]_vars
    PROVE  \/ UNCHANGED chainVars
           \/ /\ UNCHANGED serviceVars
              /\ \/ CommitBlock
                 \/ \E t \in SignedTxs, result \in Results : Deliver(t, result)
<1>1. ASSUME NEW r \in Requests, Request(r) PROVE UNCHANGED chainVars
  BY <1>1 DEF Request, SignLoad, SignStoreNative, SignStoreLegacy, ExportLoad, ExportReply,
              CompleteLoad, FetchReceipt, RecordReceipt, Abandon
<1>2. QED
  BY <1>1 DEF Next, CreateTransaction, Restart, Chain, vars

LEMMA ChainInvariant == Spec => [](TypeOK /\ ChainInv)
<1>1. Init => ChainInv
  BY DEF Init, ChainInit, ChainInv, Sequence, Ran, RanIn
<1>2. TypeOK /\ ChainInv /\ [Next]_vars => ChainInv'
  <2>1. UNCHANGED chainVars => (ChainInv' <=> ChainInv)
    BY DEF chainVars, ChainInv, RanIn, Sequence, Ran
  <2>2. QED
    BY <2>1, ChainSteps, DeliverKeeps, CommitKeeps
<1>3. QED
  BY <1>1, <1>2, TypeCorrect, PTL DEF Spec

(* Blocks are only added.                                                  *)
LEMMA LogGrows ==
    ASSUME TypeOK, [Next]_vars
    PROVE  /\ \A i \in DOMAIN log : i \in DOMAIN log' /\ log'[i] = log[i]
           /\ height' \in Nat /\ height <= height'
<1>1. log \in Seq(Receipts) /\ height \in Nat
  BY DEF TypeOK, ChainTypeOK
<1>2. CASE UNCHANGED chainVars
  BY <1>1, <1>2 DEF chainVars
<1>3. CASE CommitBlock
  BY <1>1, <1>3 DEF CommitBlock
<1>4. ASSUME NEW t \in SignedTxs, NEW result \in Results, Deliver(t, result)
      PROVE  /\ \A i \in DOMAIN log : i \in DOMAIN log' /\ log'[i] = log[i]
             /\ height' = height
  BY <1>1, <1>4 DEF Deliver
<1>5. QED
  BY <1>1, <1>2, <1>3, <1>4, ChainSteps

(***************************************************************************)
(* A request that is about to record holds a receipt of the chain, of a    *)
(* transaction of exactly the proposal's fields.                           *)
(***************************************************************************)
Confirmed(receipt, p) ==
    /\ p \in Proposed
    /\ receipt.tx.fields = transactions[p].fields
    /\ \E i \in DOMAIN log : log[i] = receipt /\ log[i].height <= height

RecordInv ==
    \A r \in Requests : request[r].op = "record" =>
        Confirmed(request[r].receipt, request[r].tx)

LEMMA ConfirmedKept ==
    ASSUME TypeOK, [Next]_vars, NEW receipt, NEW p, Confirmed(receipt, p)
    PROVE  Confirmed(receipt, p)'
<1>1. p \in Proposed' /\ receipt.tx.fields = transactions'[p].fields
  BY FieldsKept DEF Confirmed
<1>2. \E i \in DOMAIN log' : log'[i] = receipt /\ log'[i].height <= height'
  <2>1. PICK i \in DOMAIN log : log[i] = receipt /\ log[i].height <= height
    BY DEF Confirmed
  <2>2. /\ i \in DOMAIN log' /\ log'[i] = log[i]
        /\ height' \in Nat /\ height <= height'
    BY <2>1, LogGrows
  <2>3. log[i].height \in Nat /\ height \in Nat
    BY <2>1, LogTypes DEF TypeOK, ChainTypeOK
  <2>4. QED
    BY <2>1, <2>2, <2>3
<1>3. QED
  BY <1>1, <1>2 DEF Confirmed

(* A request that comes to hold a receipt got it from a node, just now.    *)
LEMMA Fetched ==
    ASSUME TypeOK, [Next]_vars, NEW r \in Requests,
           request'[r].op = "record", request'[r] # request[r]
    PROVE  \E t \in SignedTxs, primary \in BOOLEAN, view \in 0..height :
           \E receipt \in ReceiptAt(t, view) :
              /\ request[r].op = "confirm"
              /\ primary \/ Fallback
              /\ view \in Views(primary)
              /\ ValidateSigned(request[r].tx, t)
              /\ request'[r] = [op |-> "record", tx |-> request[r].tx, receipt |-> receipt]
              /\ UNCHANGED <<transactions, log, height>>
<1>1. PICK q \in Requests : Request(q)
  <2>1. ~Restart
    BY DEF Restart, Done
  <2>2. Chain \/ UNCHANGED vars => request' = request
    BY DEF Chain, vars, serviceVars
  <2>3. \A u \in Users, fields \in Fields : ~CreateTransaction(u, fields)
    BY DEF CreateTransaction
  <2>4. QED
    BY <2>1, <2>2, <2>3 DEF Next
<1>2. ASSUME NEW value, request' = [request EXCEPT ![q] = value]
      PROVE  q = r /\ request'[r] = value
  BY <1>2 DEF TypeOK
<1>3. ASSUME NEW answer, Finish(q, answer) PROVE FALSE
  BY <1>2, <1>3 DEF Finish, Done
<1>4. ASSUME NEW u \in Users, NEW p \in Proposed,
             SignLoad(q, u, p) \/ CompleteLoad(q, u, p)
      PROVE  FALSE
  BY <1>2, <1>4 DEF SignLoad, CompleteLoad
<1>5. PICK t \in SignedTxs, primary \in BOOLEAN, view \in 0..MaxHeight :
         FetchReceipt(q, t, primary, view)
  <2>1. /\ \A sig \in Partials : ~SignStoreNative(q, sig) /\ ~SignStoreLegacy(q, sig)
        /\ ~ExportReply(q) /\ ~RecordReceipt(q) /\ ~Abandon(q)
    BY <1>3 DEF SignStoreNative, SignStoreLegacy, ExportReply, RecordReceipt, Abandon
  <2>2. \A p \in Proposed : ~ExportLoad(q, p)
    BY <1>2 DEF ExportLoad
  <2>3. \A u \in Users, p \in Proposed : ~SignLoad(q, u, p) /\ ~CompleteLoad(q, u, p)
    BY <1>4
  <2>4. QED
    BY <1>1, <2>1, <2>2, <2>3 DEF Request
<1>6. PICK receipt \in ReceiptAt(t, view) :
         /\ ValidateSigned(request[q].tx, t)
         /\ request' = [request EXCEPT ![q] =
               [op |-> "record", tx |-> request[q].tx, receipt |-> receipt]]
  BY <1>3, <1>5 DEF FetchReceipt
<1>7. view \in 0..height /\ view \in Views(primary) /\ (primary \/ Fallback)
  BY <1>5 DEF FetchReceipt, Views
<1>8. q = r /\ request'[r] = [op |-> "record", tx |-> request[q].tx, receipt |-> receipt]
  BY <1>2, <1>6
<1>9. request[q].op = "confirm" /\ UNCHANGED <<transactions, log, height>>
  BY <1>5 DEF FetchReceipt, chainVars
<1>10. QED
  BY <1>6, <1>7, <1>8, <1>9

LEMMA RecordKept ==
    ASSUME TypeOK, RecordInv, [Next]_vars
    PROVE  RecordInv'
<1> SUFFICES ASSUME NEW r \in Requests, request'[r].op = "record"
             PROVE  Confirmed(request[r].receipt, request[r].tx)'
  BY DEF RecordInv
<1>1. CASE request'[r] = request[r]
  <2> PICK receipt, p : receipt = request[r].receipt /\ p = request[r].tx
    OBVIOUS
  <2>1. Confirmed(receipt, p)'
    BY <1>1, ConfirmedKept DEF RecordInv
  <2>2. QED
    BY <1>1, <2>1
<1>2. CASE request'[r] # request[r]
  <2>1. PICK t, view, receipt :
           /\ view \in 0..height /\ receipt \in ReceiptAt(t, view)
           /\ request[r].op = "confirm"
           /\ ValidateSigned(request[r].tx, t)
           /\ request'[r] = [op |-> "record", tx |-> request[r].tx, receipt |-> receipt]
           /\ UNCHANGED <<transactions, log, height>>
    BY <1>2, Fetched
  <2>2. request[r].tx \in Proposed
    BY <2>1, RequestTypes DEF Proposed
  <2>3. PICK i \in DOMAIN log : log[i] = receipt /\ log[i].tx = t /\ log[i].height <= view
    BY <2>1 DEF ReceiptAt
  <2>4. log[i].height <= height
    BY <2>1, <2>3, LogTypes DEF TypeOK, ChainTypeOK
  <2> PICK p : p = request[r].tx
    OBVIOUS
  <2>5. Confirmed(receipt, p)
    BY <2>1, <2>2, <2>3, <2>4 DEF Confirmed, ValidateSigned
  <2>6. Confirmed(receipt, p)'
    BY <2>5, ConfirmedKept
  <2>7. QED
    BY <2>1, <2>6
<1>3. QED
  BY <1>1, <1>2

(***************************************************************************)
(* Closing a proposal.                                                     *)
(***************************************************************************)
AsTheChainDid(p) ==
    ~IsOpen(p) =>
        LET row == transactions[p] IN
        /\ (row.onchain_error = None) <=> row.verified
        /\ \E i \in DOMAIN log :
              /\ log[i].tx = row.final_hash
              /\ log[i].tx.fields = row.fields
              /\ log[i].height <= height
              /\ log[i].result = IF row.verified THEN "ok" ELSE "failed"

(* Two blocks' worth of sequences tell a refusal from a failure: a refused *)
(* transaction never is the one that used the sequence in its block.       *)
LEMMA FailureIsNotRefusal ==
    ASSUME TypeOK, ChainInv, NEW p, NEW receipt, Confirmed(receipt, p),
           Used(p, receipt), ~UsedBefore(p, receipt)
    PROVE  receipt.result # "refused"
<1>1. PICK i \in DOMAIN log : log[i] = receipt /\ log[i].height <= height
  BY DEF Confirmed
<1>2. /\ height \in Nat /\ receipt.height \in Nat /\ Sequence(i) \in Nat
      /\ seqAt \in [0..height -> Nat]
  BY <1>1, LogTypes DEF TypeOK, ChainTypeOK
<1>3. Sequence(i) = transactions[p].fields.sequence
  BY <1>1 DEF Confirmed, Sequence
<1>4. /\ receipt.height \in 1..height
      /\ seqAt[receipt.height - 1] <= Sequence(i)
      /\ Sequence(i) < seqAt[receipt.height]
  <2>1. /\ receipt.height >= 2
        /\ ~(seqAt[receipt.height - 1] > Sequence(i))
        /\ seqAt[receipt.height] > Sequence(i)
    BY <1>2, <1>3 DEF Used, UsedBefore, SequenceUsed
  <2>2. receipt.height \in 1..height /\ receipt.height - 1 \in 0..height /\ receipt.height \in 0..height
    BY <1>1, <1>2, <2>1
  <2>3. QED
    BY <1>2, <2>1, <2>2
<1>5. RanIn(receipt.height, Sequence(i))
  BY <1>2, <1>4 DEF ChainInv
<1>6. PICK j \in DOMAIN log :
         log[j].height = receipt.height /\ Sequence(j) = Sequence(i) /\ Ran(j)
  BY <1>5 DEF RanIn
<1>7. i = j
  BY <1>1, <1>6 DEF ChainInv
<1>8. QED
  BY <1>1, <1>6, <1>7 DEF Ran

LEMMA WrittenRow ==
    ASSUME TypeOK, NEW p \in Proposed, IsOpen(p), NEW hash, NEW verified \in BOOLEAN,
           NEW error, UpdateOpen(p, hash, verified, error)
    PROVE  /\ transactions'[p].fields = transactions[p].fields
           /\ transactions'[p].final_hash = hash
           /\ transactions'[p].verified = verified
           /\ transactions'[p].onchain_error = error
BY DEF UpdateOpen, Written, TypeOK, Proposed

LEMMA ClosingFollowsTheChain ==
    ASSUME TypeOK, ChainInv, RecordInv, NEW r \in Requests, RecordReceipt(r),
           NEW p \in Proposed, p = request[r].tx, IsOpen(p)
    PROVE  AsTheChainDid(p)'
<1> PICK receipt : receipt = request[r].receipt
  OBVIOUS
<1>1. Confirmed(receipt, p)
  BY DEF RecordInv, RecordReceipt
<1>2. PICK i \in DOMAIN log : log[i] = receipt /\ log[i].height <= height
  BY <1>1 DEF Confirmed
<1>3. receipt.result \in Results
  BY <1>2, LogTypes
<1>4. UNCHANGED <<log, height>>
  BY DEF RecordReceipt, chainVars
<1>6. CASE transactions' = transactions
  BY <1>6 DEF AsTheChainDid, IsOpen
<1>7. CASE UpdateOpen(p, receipt.tx, TRUE, None) /\ receipt.result = "ok"
  <2>1. /\ transactions'[p].fields = transactions[p].fields
        /\ transactions'[p].final_hash = receipt.tx
        /\ transactions'[p].verified = TRUE
        /\ transactions'[p].onchain_error = None
    BY <1>7 DEF UpdateOpen, Written, TypeOK, Proposed
  <2>2. QED
    BY <1>1, <1>2, <1>4, <1>7, <2>1 DEF AsTheChainDid, Confirmed
<1>8. CASE UpdateOpen(p, None, transactions[p].verified, receipt.result)
  <2>1. transactions'[p].final_hash = None
    BY <1>8 DEF UpdateOpen, Written, TypeOK, Proposed
  <2>2. QED
    BY <2>1 DEF AsTheChainDid, IsOpen
<1>9. CASE /\ UpdateOpen(p, receipt.tx, FALSE, receipt.result)
           /\ receipt.result # "ok"
           /\ Used(p, receipt) /\ ~UsedBefore(p, receipt)
  <2>1. /\ transactions'[p].fields = transactions[p].fields
        /\ transactions'[p].final_hash = receipt.tx
        /\ transactions'[p].verified = FALSE
        /\ transactions'[p].onchain_error = receipt.result
    BY <1>9, WrittenRow
  <2>2. receipt.result = "failed"
    BY <1>1, <1>3, <1>9, FailureIsNotRefusal DEF Results
  <2>3. QED
    BY <1>1, <1>2, <1>4, <2>1, <2>2 DEF AsTheChainDid, Confirmed
<1>10. QED
  BY <1>6, <1>7, <1>8, <1>9 DEF RecordReceipt

LEMMA SettledKept ==
    ASSUME TypeOK, ChainInv, RecordInv, [Next]_vars,
           \A p \in Proposed : AsTheChainDid(p), NEW p \in Proposed'
    PROVE  AsTheChainDid(p)'
<1>1. CASE p \in Proposed /\ transactions'[p] = transactions[p]
  <2>1. CASE IsOpen(p)
    BY <1>1, <2>1 DEF AsTheChainDid, IsOpen
  <2>2. CASE ~IsOpen(p)
    <3>1. /\ (transactions[p].onchain_error = None) <=> transactions[p].verified
          /\ \E i \in DOMAIN log :
                /\ log[i].tx = transactions[p].final_hash
                /\ log[i].tx.fields = transactions[p].fields
                /\ log[i].height <= height
                /\ log[i].result = IF transactions[p].verified THEN "ok" ELSE "failed"
      BY <1>1, <2>2 DEF AsTheChainDid
    <3>2. PICK i \in DOMAIN log :
             /\ log[i].tx = transactions[p].final_hash
             /\ log[i].tx.fields = transactions[p].fields
             /\ log[i].height <= height
             /\ log[i].result = IF transactions[p].verified THEN "ok" ELSE "failed"
      BY <3>1
    <3>3. i \in DOMAIN log' /\ log'[i] = log[i] /\ log[i].height <= height'
      <4>1. log[i].height \in Nat /\ height \in Nat
        BY LogTypes DEF TypeOK, ChainTypeOK
      <4>2. QED
        BY <3>2, <4>1, LogGrows
    <3>4. QED
      BY <1>1, <3>1, <3>2, <3>3 DEF AsTheChainDid
  <2>3. QED
    BY <2>1, <2>2
<1>2. ASSUME NEW u \in Users, NEW fields \in Fields, CreateTransaction(u, fields)
      PROVE  AsTheChainDid(p)'
  <2>1. CASE p \in Proposed
    BY <1>1, <1>2, <2>1 DEF CreateTransaction, TypeOK, Proposed
  <2>2. CASE p \notin Proposed
    BY <1>2, <2>2 DEF CreateTransaction, TypeOK, Proposed, AsTheChainDid, IsOpen
  <2>3. QED
    BY <2>1, <2>2
<1>3. ASSUME NEW r \in Requests, RecordReceipt(r)
      PROVE  AsTheChainDid(p)'
  <2>1. request[r].tx \in Proposed
    BY <1>3, RequestTypes DEF RecordReceipt, Proposed
  <2>2. p \in Proposed
    BY <1>3, <2>1 DEF RecordReceipt, UpdateOpen, Written, TypeOK, Proposed
  <2>3. CASE p = request[r].tx /\ IsOpen(p)
    BY <1>3, <2>2, <2>3, ClosingFollowsTheChain
  <2>4. CASE p # request[r].tx \/ ~IsOpen(p)
    BY <1>1, <1>3, <2>1, <2>2, <2>4
       DEF RecordReceipt, UpdateOpen, Written, TypeOK, Proposed, IsOpen
  <2>5. QED
    BY <2>3, <2>4
<1>4. CASE UNCHANGED transactions
  BY <1>1, <1>4 DEF Proposed
<1>5. QED
  BY <1>2, <1>3, <1>4, TableSteps
     DEF Quiet, SignStoreNative, SignStoreLegacy, ExportReply

(* The inductive invariant: the chain's own, what a recording request      *)
(* knows, and what the closed rows say.                                    *)
SettleInv == ChainInv /\ RecordInv /\ ClosedAsTheChainDid

LEMMA SettleInvariant == Spec => [](TypeOK /\ SettleInv)
<1>1. Init => RecordInv /\ ClosedAsTheChainDid
  BY DEF Init, RecordInv, Done, ClosedAsTheChainDid, Proposed
<1>2. TypeOK /\ ChainInv /\ RecordInv /\ ClosedAsTheChainDid /\ [Next]_vars
        => RecordInv' /\ ClosedAsTheChainDid'
  <2> SUFFICES ASSUME TypeOK, ChainInv, RecordInv, ClosedAsTheChainDid, [Next]_vars
               PROVE  RecordInv' /\ ClosedAsTheChainDid'
    OBVIOUS
  <2>1. \A p \in Proposed : AsTheChainDid(p)
    BY DEF ClosedAsTheChainDid, AsTheChainDid
  <2>2. \A p \in Proposed' : AsTheChainDid(p)'
    BY <2>1, SettledKept
  <2>3. ClosedAsTheChainDid'
    BY <2>2 DEF ClosedAsTheChainDid, AsTheChainDid
  <2>4. QED
    BY <2>3, RecordKept
<1>3. QED
  BY <1>1, <1>2, ChainInvariant, PTL DEF Spec, SettleInv

(* A closed proposal tells what a committed block did with its fields.     *)
THEOREM ClosedRowsTellTheTruth == Spec => []ClosedAsTheChainDid
BY SettleInvariant, PTL DEF SettleInv

(* A closed proposal's sequence is used: its bytes cannot run any more.    *)
THEOREM ClosedNeverRuns == Spec => []ClosedCannotRun
<1>1. TypeOK /\ SettleInv => ClosedCannotRun
  <2> SUFFICES ASSUME TypeOK, SettleInv, NEW p \in Proposed, ~IsOpen(p)
               PROVE  transactions[p].fields.sequence < nextSeq
    BY DEF ClosedCannotRun
  <2>1. PICK i \in DOMAIN log : /\ log[i].tx.fields = transactions[p].fields
                                /\ log[i].result # "refused"
    BY DEF SettleInv, ClosedAsTheChainDid
  <2>2. QED
    BY <2>1 DEF SettleInv, ChainInv, Ran, Sequence
<1>2. QED
  BY <1>1, SettleInvariant, PTL

(***************************************************************************)
(* The service implements the ledger.                                      *)
(***************************************************************************)
Row(p) == [fields |-> transactions[p].fields, outcome |-> Outcome(p)]
Board == [p \in Proposed |-> Row(p)]

LEMMA BoardTypes ==
    ASSUME TypeOK
    PROVE  /\ Board \in Seq([fields : Fields, outcome : {"open", "executed", "failed"}])
           /\ Len(Board) = Len(transactions)
           /\ DOMAIN Board = Proposed
           /\ \A p \in Proposed : Board[p] = Row(p)
<1>1. \A p \in Proposed : Row(p) \in [fields : Fields, outcome : {"open", "executed", "failed"}]
  <2> SUFFICES ASSUME NEW p \in Proposed
               PROVE  Row(p) \in [fields : Fields, outcome : {"open", "executed", "failed"}]
    OBVIOUS
  <2>1. transactions[p] \in TransactionRow
    BY DEF TypeOK, Proposed
  <2>2. transactions[p].fields \in Fields
    BY <2>1, Zenon DEF TransactionRow
  <2>3. QED
    BY <2>2 DEF Row, Outcome
<1>2. Len(transactions) \in Nat
  BY DEF TypeOK
<1>3. QED
  BY <1>1, <1>2 DEF Board, Proposed

(* What a block does is a sequence spent, or nothing the ledger sees.      *)
LEMMA DeliverSpends ==
    ASSUME TypeOK, SettleInv, NEW t \in SignedTxs, NEW result \in Results,
           Deliver(t, result)
    PROVE  \/ Spent' = Spent
           \/ /\ result # "refused"
              /\ \A s \in Spent : s.fields.sequence # t.fields.sequence
              /\ Spent' = Spent \cup
                    {[fields |-> t.fields,
                      outcome |-> IF result = "ok" THEN "executed" ELSE "failed"]}
<1> DEFINE Entry(i) == [fields |-> log[i].tx.fields,
                        outcome |-> IF log[i].result = "ok" THEN "executed" ELSE "failed"]
<1> PICK n : n = Len(log) + 1
  OBVIOUS
<1>1. /\ DOMAIN log' = DOMAIN log \cup {n}
      /\ n \notin DOMAIN log
      /\ \A i \in DOMAIN log : log'[i] = log[i]
      /\ log'[n].tx = t /\ log'[n].result = result
  BY DEF Deliver, TypeOK, ChainTypeOK
<1>2. CASE result = "refused"
  <2>1. Spent' = {Entry(i) : i \in {j \in DOMAIN log : log[j].result # "refused"}}
    BY <1>1, <1>2 DEF Spent
  <2>2. QED
    BY <2>1 DEF Spent
<1>3. CASE result # "refused"
  <2>1. \A s \in Spent : s.fields.sequence < nextSeq
    BY DEF Spent, SettleInv, ChainInv, Ran, Sequence
  <2>2. t.fields.sequence = nextSeq
    BY <1>3 DEF Deliver
  <2>3. \A s \in Spent : s.fields.sequence \in Nat
    BY LogTypes DEF Spent, Sequence
  <2>4. nextSeq \in Nat
    BY DEF TypeOK, ChainTypeOK
  <2>5. \A s \in Spent : s.fields.sequence # t.fields.sequence
    BY <2>1, <2>2, <2>3, <2>4
  <2>6. Spent' = Spent \cup
           {[fields |-> t.fields, outcome |-> IF result = "ok" THEN "executed" ELSE "failed"]}
    BY <1>1, <1>3 DEF Spent
  <2>7. QED
    BY <1>3, <2>5, <2>6
<1>4. QED
  BY <1>2, <1>3

LEMMA CreateProposes ==
    ASSUME TypeOK, NEW u \in Users, NEW fields \in Fields, CreateTransaction(u, fields)
    PROVE  Ledger!Propose(fields)
<1>1. /\ Len(transactions') = Len(transactions) + 1 /\ Len(transactions) \in Nat
      /\ Len(transactions) < MaxProposals
      /\ \A p \in Proposed : transactions'[p] = transactions[p]
      /\ transactions'[Len(transactions) + 1] =
            [fields |-> fields, final_hash |-> None, verified |-> FALSE, onchain_error |-> None]
      /\ log' = log
  BY DEF CreateTransaction, TypeOK, Proposed, chainVars
<1>2. Board' = Append(Board, [fields |-> fields, outcome |-> "open"])
  <2> PICK n : n = Len(transactions) + 1
    OBVIOUS
  <2>1. \A p \in Proposed : Row(p)' = Row(p)
    BY <1>1 DEF Row, Outcome, IsOpen
  <2>2. Row(n)' = [fields |-> fields, outcome |-> "open"]
    BY <1>1 DEF Row, Outcome, IsOpen
  <2>3. Proposed' = Proposed \cup {n} /\ Proposed' = 1..n /\ n \notin Proposed
    BY <1>1 DEF Proposed
  <2>4. Board' = [p \in 1..n |-> IF p = n THEN [fields |-> fields, outcome |-> "open"]
                                 ELSE Board[p]]
    BY <2>1, <2>2, <2>3 DEF Board
  <2>5. /\ Board \in Seq([fields : Fields, outcome : {"open", "executed", "failed"}])
        /\ Len(Board) + 1 = n
    BY <1>1, BoardTypes
  <2> HIDE DEF Board
  <2>6. QED
    BY <2>4, <2>5
<1>3. Spent' = Spent
  BY <1>1 DEF Spent
<1>4. Len(Board) < MaxProposals
  BY <1>1, BoardTypes
<1>5. QED
  BY <1>2, <1>3, <1>4 DEF Ledger!Propose, Board, Row

LEMMA RecordSettles ==
    ASSUME TypeOK, SettleInv, NEW r \in Requests, RecordReceipt(r)
    PROVE  \/ Board' = Board
           \/ \E p \in DOMAIN Board : Ledger!Settle(p)
<1> PICK p : p = request[r].tx
  OBVIOUS
<1>1. p \in Proposed
  BY RequestTypes DEF RecordReceipt, Proposed
<1>2. /\ Proposed' = Proposed
      /\ \A q \in Proposed : q # p => transactions'[q] = transactions[q]
      /\ ~IsOpen(p) => transactions'[p] = transactions[p]
      /\ transactions'[p].fields = transactions[p].fields
  BY <1>1 DEF RecordReceipt, UpdateOpen, Written, TypeOK, Proposed
<1>3. \A q \in Proposed : q # p => Row(q)' = Row(q)
  BY <1>2 DEF Row, Outcome, IsOpen
<1>4. CASE ~IsOpen(p) \/ IsOpen(p)'
  <2>1. Row(p)' = Row(p)
    BY <1>2, <1>4 DEF Row, Outcome, IsOpen
  <2>2. Board' = Board
    BY <1>2, <1>3, <2>1 DEF Board
  <2>3. QED
    BY <2>2
<1>5. CASE IsOpen(p) /\ ~IsOpen(p)'
  <2>1. AsTheChainDid(p)'
    BY <1>1, <1>5, ClosingFollowsTheChain DEF SettleInv
  <2>2. log' = log
    BY DEF RecordReceipt, chainVars
  <2>3. PICK i \in DOMAIN log :
           /\ log[i].tx.fields = transactions[p].fields
           /\ log[i].result = IF transactions'[p].verified THEN "ok" ELSE "failed"
    BY <1>2, <1>5, <2>1, <2>2 DEF AsTheChainDid
  <2> DEFINE s == [fields |-> log[i].tx.fields,
                   outcome |-> IF log[i].result = "ok" THEN "executed" ELSE "failed"]
  <2>4. s \in Spent /\ s.fields = transactions[p].fields
    BY <2>3 DEF Spent
  <2>5. Row(p)' = [Row(p) EXCEPT !.outcome = s.outcome]
    BY <1>2, <1>5, <2>3 DEF Row, Outcome
  <2> HIDE DEF s
  <2>6. Board' = [Board EXCEPT ![p].outcome = s.outcome]
    BY <1>1, <1>2, <1>3, <2>5 DEF Board
  <2>7. Spent' = Spent
    BY <2>2 DEF Spent
  <2>8. Board[p].outcome = "open" /\ Board[p].fields = s.fields /\ p \in DOMAIN Board
    BY <1>1, <1>5, <2>4 DEF Board, Row, Outcome
  <2>9. Ledger!Settle(p)
    BY <2>4, <2>6, <2>7, <2>8 DEF Ledger!Settle, Board, Row
  <2>10. QED
    BY <2>8, <2>9
<1>6. QED
  BY <1>4, <1>5

(* Every step of the service and of the chain is a step of the ledger.     *)
THEOREM ServiceImplementsLedger == Spec => ImplementsLedger
<1>1. Init => Ledger!LedgerInit
  BY DEF Init, ChainInit, Ledger!LedgerInit, Proposed, Spent
<1>2. TypeOK /\ SettleInv /\ [Next]_vars => [Ledger!LedgerNext]_(Ledger!ledgerVars)
  <2> SUFFICES ASSUME TypeOK, SettleInv, [Next]_vars
               PROVE  Ledger!LedgerNext \/ UNCHANGED <<Board, Spent>>
    BY DEF Ledger!ledgerVars, Board, Row
  <2>1. CASE UNCHANGED <<transactions, log>>
    BY <2>1 DEF Board, Row, Outcome, IsOpen, Proposed, Spent
  <2>2. ASSUME NEW u \in Users, NEW fields \in Fields, CreateTransaction(u, fields)
        PROVE  Ledger!LedgerNext
    BY <2>2, CreateProposes DEF Ledger!LedgerNext, Ledger!LedgerFields, Fields
  <2>3. ASSUME NEW t \in SignedTxs, NEW result \in Results, Deliver(t, result),
               UNCHANGED serviceVars
        PROVE  Ledger!LedgerNext \/ UNCHANGED <<Board, Spent>>
    <3>1. Board' = Board
      BY <2>3 DEF serviceVars, Board, Row, Outcome, IsOpen, Proposed
    <3>2. CASE Spent' = Spent
      BY <3>1, <3>2
    <3>3. CASE /\ \A s \in Spent : s.fields.sequence # t.fields.sequence
               /\ Spent' = Spent \cup
                     {[fields |-> t.fields,
                       outcome |-> IF result = "ok" THEN "executed" ELSE "failed"]}
      <4>1. t.fields \in Fields
        BY DEF SignedTxs
      <4>2. PICK outcome \in {"executed", "failed"} :
               outcome = IF result = "ok" THEN "executed" ELSE "failed"
        OBVIOUS
      <4>3. Ledger!Spend(t.fields, outcome)
        BY <3>1, <3>3, <4>2 DEF Ledger!Spend, Board, Row
      <4>4. QED
        BY <4>1, <4>2, <4>3 DEF Ledger!LedgerNext, Ledger!LedgerFields, Fields
    <3>4. QED
      BY <2>3, <3>2, <3>3, DeliverSpends
  <2>4. ASSUME NEW r \in Requests, RecordReceipt(r)
        PROVE  Ledger!LedgerNext \/ UNCHANGED <<Board, Spent>>
    <3>1. Spent' = Spent
      BY <2>4 DEF RecordReceipt, chainVars, Spent
    <3>2. QED
      BY <2>4, <3>1, RecordSettles DEF Ledger!LedgerNext, Board, Row
  <2>5. CASE UNCHANGED chainVars
    <3>1. \/ UNCHANGED transactions
          \/ \E u \in Users, fields \in Fields : CreateTransaction(u, fields)
          \/ \E r \in Requests : RecordReceipt(r)
      BY TableSteps DEF Quiet, SignStoreNative, SignStoreLegacy, ExportReply
    <3>2. QED
      BY <2>1, <2>2, <2>4, <2>5, <3>1 DEF chainVars
  <2>6. CASE CommitBlock /\ UNCHANGED serviceVars
    BY <2>1, <2>6 DEF CommitBlock, serviceVars
  <2>7. QED
    BY <2>3, <2>5, <2>6, ChainSteps
<1>3. QED
  BY <1>1, <1>2, SettleInvariant, PTL DEF Spec, ImplementsLedger, Ledger!LedgerSpec

(***************************************************************************)
(* What an answer that allows a broadcast rests on.                        *)
(***************************************************************************)
SequencesRise ==
    /\ \A g, h \in 0..height : g <= h => seqAt[g] <= seqAt[h]
    /\ \A h \in 0..height : seqAt[h] <= nextSeq
    /\ \A i \in DOMAIN log :
          Ran(i) /\ log[i].height <= height => Sequence(i) < seqAt[log[i].height]

LEMMA SequencesRiseKept ==
    ASSUME TypeOK, ChainInv, SequencesRise, [Next]_vars
    PROVE  SequencesRise'
<1>1. /\ log \in Seq(Receipts) /\ height \in Nat /\ nextSeq \in Nat
      /\ seqAt \in [0..height -> Nat]
  BY DEF TypeOK, ChainTypeOK
<1>2. \A i \in DOMAIN log : log[i].height \in Nat /\ Sequence(i) \in Nat
  BY LogTypes
<1>3. CASE UNCHANGED chainVars
  BY <1>3 DEF chainVars, SequencesRise, Ran, Sequence
<1>4. CASE CommitBlock
  <2>1. /\ log' = log /\ height' = height + 1 /\ nextSeq' = nextSeq
        /\ \A h \in 0..height : seqAt'[h] = seqAt[h]
        /\ seqAt'[height + 1] = nextSeq
    BY <1>1, <1>4 DEF CommitBlock
  <2>2. \A h \in 0..height' : seqAt'[h] <= nextSeq'
    BY <1>1, <2>1 DEF SequencesRise
  <2>3. \A g, h \in 0..height' : g <= h => seqAt'[g] <= seqAt'[h]
    BY <1>1, <2>1 DEF SequencesRise
  <2>4. ASSUME NEW i \in DOMAIN log', Ran(i)', log'[i].height <= height'
        PROVE  Sequence(i)' < seqAt'[log'[i].height]
    <3>1. Ran(i) /\ Sequence(i)' = Sequence(i) /\ log'[i].height = log[i].height
          /\ Sequence(i) < nextSeq
      BY <2>1, <2>4 DEF Ran, Sequence, ChainInv
    <3> QED
      BY <1>1, <1>2, <2>1, <2>4, <3>1 DEF SequencesRise
  <2> QED
    BY <2>2, <2>3, <2>4 DEF SequencesRise
<1>5. ASSUME NEW t \in SignedTxs, NEW result \in Results, Deliver(t, result)
      PROVE  SequencesRise'
  <2> PICK n : n = Len(log) + 1
    OBVIOUS
  <2>1. /\ height' = height /\ seqAt' = seqAt /\ nextSeq' \in Nat /\ nextSeq <= nextSeq'
        /\ DOMAIN log' = 1..n /\ DOMAIN log = 1..(n - 1) /\ n \in Nat
        /\ log'[n].height = height + 1
        /\ \A i \in DOMAIN log : log'[i] = log[i]
    BY <1>1, <1>5 DEF Deliver
  <2>2. ASSUME NEW i \in DOMAIN log', Ran(i)', log'[i].height <= height'
        PROVE  Sequence(i)' < seqAt'[log'[i].height]
    <3>1. i \in DOMAIN log
      BY <1>1, <2>1, <2>2
    <3> QED
      BY <2>1, <2>2, <3>1 DEF SequencesRise, Ran, Sequence
  <2>3. \A h \in 0..height' : seqAt'[h] <= nextSeq'
    BY <1>1, <2>1 DEF SequencesRise
  <2> QED
    BY <2>1, <2>2, <2>3 DEF SequencesRise
<1> QED
  BY <1>3, <1>4, <1>5, ChainSteps

(* A node that is current shows the last receipt of a transaction; had it  *)
(* run by then, its sequence would be used at that receipt's block.        *)
LEMMA RefusedHasNotRun ==
    ASSUME TypeOK, SequencesRise, NEW t \in SignedTxs, NEW view \in 0..height,
           view + MaxLag >= height, NEW receipt \in ReceiptAt(t, view),
           ~SequenceUsed(receipt.tx.fields.sequence, receipt.height),
           NEW i \in DOMAIN log, log[i].tx = receipt.tx, Ran(i), MaxLag \in Nat
    PROVE  log[i].height + MaxLag > height
<1>1. PICK j \in DOMAIN log :
         /\ receipt = log[j] /\ log[j].tx = t /\ log[j].height <= view
         /\ \A k \in DOMAIN log :
               log[k].tx = t /\ log[k].height <= view => log[k].height <= log[j].height
  BY DEF ReceiptAt
<1>2. /\ height \in Nat /\ seqAt \in [0..height -> Nat]
      /\ log[i].height \in Nat /\ log[j].height \in Nat /\ Sequence(i) \in Nat
  <2>1. height \in Nat /\ seqAt \in [0..height -> Nat]
    BY BoundsAssumption DEF TypeOK, ChainTypeOK, BoundsAssumption
  <2>2. log[i].height \in Nat /\ Sequence(i) \in Nat
    BY LogTypes
  <2>3. log[j].height \in Nat
    BY LogTypes
  <2> QED
    BY <2>1, <2>2, <2>3
<1>3. SUFFICES ASSUME log[i].height + MaxLag <= height PROVE FALSE
  BY <1>2
<1>4. log[i].height <= view
  BY <1>2, <1>3
<1>5. log[i].height <= log[j].height /\ log[j].height <= height
  BY <1>1, <1>2, <1>4
<1>6. Sequence(i) < seqAt[log[i].height] /\ seqAt[log[i].height] <= seqAt[log[j].height]
  BY <1>2, <1>5 DEF SequencesRise
<1>7. ~(seqAt[log[j].height] > Sequence(i))
  BY <1>1 DEF SequenceUsed, Sequence
<1> QED
  BY <1>2, <1>5, <1>6, <1>7

(* Without a fallback node, confirmNative tells a caller to broadcast      *)
(* after a refusal only bytes that no block past the freshness bound ran.  *)
THEOREM BroadcastIsSafe ==
    ASSUME Fallback = FALSE
    PROVE  Spec => MayBroadcastMeansNotRun
<1> DEFINE Safe ==
        \A r \in Requests :
          (request[r].op = "confirm" /\ request'[r].op = "record") =>
              LET receipt == request'[r].receipt IN
              (receipt.result # "ok"
                 /\ ~SequenceUsed(receipt.tx.fields.sequence, receipt.height)) =>
                  \A i \in DOMAIN log :
                      (log[i].tx = receipt.tx /\ log[i].result # "refused") =>
                          log[i].height + MaxLag > height
<1>1. Init => SequencesRise
  BY DEF Init, ChainInit, SequencesRise
<1>2. TypeOK /\ ChainInv /\ SequencesRise /\ [Next]_vars => SequencesRise'
  BY SequencesRiseKept
<1>3. TypeOK /\ SequencesRise /\ [Next]_vars => [Safe]_vars
  <2> SUFFICES ASSUME TypeOK, SequencesRise, [Next]_vars, NEW r \in Requests,
                      request[r].op = "confirm", request'[r].op = "record",
                      ~SequenceUsed(request'[r].receipt.tx.fields.sequence,
                                    request'[r].receipt.height),
                      NEW i \in DOMAIN log,
                      log[i].tx = request'[r].receipt.tx, log[i].result # "refused"
               PROVE  log[i].height + MaxLag > height
    OBVIOUS
  <2> request'[r] # request[r]
    OBVIOUS
  <2>1. PICK t \in SignedTxs, primary \in BOOLEAN, view \in 0..height :
           \E receipt \in ReceiptAt(t, view) :
              /\ request[r].op = "confirm"
              /\ primary \/ Fallback
              /\ view \in Views(primary)
              /\ ValidateSigned(request[r].tx, t)
              /\ request'[r] = [op |-> "record", tx |-> request[r].tx, receipt |-> receipt]
              /\ UNCHANGED <<transactions, log, height>>
    BY Fetched
  <2>2. view + MaxLag >= height
    BY <2>1 DEF Views
  <2> QED
    BY <2>1, <2>2, RefusedHasNotRun, ServiceAssumption DEF Ran, ServiceAssumption
<1>4. QED
  BY <1>1, <1>2, <1>3, ChainInvariant, PTL DEF Spec, MayBroadcastMeansNotRun
===============================================================================
