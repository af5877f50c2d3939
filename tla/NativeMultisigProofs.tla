------------------------- MODULE NativeMultisigProofs -------------------------
(* Theorems of NativeMultisig, for every value of its constants. *)
EXTENDS NativeMultisig, FiniteSetTheorems, TLAPS

USE KeysAssumption, BoundsAssumption, ServiceAssumption

(***************************************************************************)
(* The type invariant.                                                     *)
(***************************************************************************)

(* A request in flight names a proposal that exists.                       *)
LEMMA RequestTypes ==
    ASSUME TypeOK, NEW r \in Requests
    PROVE  /\ request[r] \in RequestState
           /\ request[r].op = "done" => request[r] \in Ended
           /\ request[r].op = "sign" => request[r] \in Signing
           /\ request[r].op \in {"export", "confirm"} => request[r] \in Reading
           /\ request[r].op = "record" => request[r] \in Recording
           /\ request[r].op # "done" => request[r].tx \in 1..Len(transactions)
BY DEF TypeOK, RequestState, Ended, Signing, Reading, Recording

LEMMA FinishTypes ==
    ASSUME TypeOK, NEW r \in Requests, NEW answer \in Answers, Finish(r, answer),
           Len(transactions') = Len(transactions)
    PROVE  /\ request' \in [Requests -> RequestState]
           /\ \A q \in Requests : request'[q].op # "done" =>
                 request'[q].tx \in 1..Len(transactions')
BY DEF TypeOK, Finish, Done, RequestState, Ended

(* The primary key of the signatures table: one row of each user.          *)
LEMMA UpsertTypes ==
    ASSUME TypeOK, NEW p \in Proposed, NEW row \in SignatureRow
    PROVE  /\ Upsert(p, row) \in Seq(SignatureRow)
           /\ \A i, j \in DOMAIN Upsert(p, row) :
                 Upsert(p, row)[i].user = Upsert(p, row)[j].user => i = j
           /\ Len(Upsert(p, row)) >= Len(signatures[p])
           /\ \A i \in DOMAIN signatures[p] :
                 /\ Upsert(p, row)[i].user = signatures[p][i].user
                 /\ signatures[p][i].user # row.user =>
                       Upsert(p, row)[i] = signatures[p][i]
           /\ \A i \in DOMAIN Upsert(p, row) :
                 \/ Upsert(p, row)[i] = row
                 \/ /\ i \in DOMAIN signatures[p]
                    /\ signatures[p][i].user # row.user
                    /\ Upsert(p, row)[i] = signatures[p][i]
<1> DEFINE rows == signatures[p]
<1>1. rows \in Seq(SignatureRow)
  BY DEF TypeOK, Proposed
<1>2. \A i, j \in DOMAIN rows : rows[i].user = rows[j].user => i = j
  BY DEF TypeOK, Proposed
<1>3. CASE OwnRows(p, row.user) = {}
  <2>1. Upsert(p, row) = Append(rows, row)
    BY <1>3 DEF Upsert
  <2>2. \A i \in DOMAIN rows : rows[i].user # row.user
    BY <1>3 DEF OwnRows
  <2>3. QED
    BY <1>1, <1>2, <2>1, <2>2
<1>4. CASE OwnRows(p, row.user) # {}
  <2>1. Upsert(p, row) = [i \in DOMAIN rows |->
                             IF rows[i].user = row.user THEN row ELSE rows[i]]
    BY <1>4 DEF Upsert
  <2>2. QED
    BY <1>1, <1>2, <2>1
<1>5. QED
  BY <1>3, <1>4

LEMMA StoreTypes ==
    ASSUME TypeOK, NEW p \in Proposed, NEW row \in SignatureRow,
           signatures' = [signatures EXCEPT ![p] = Upsert(p, row)]
    PROVE  /\ signatures' \in Seq(Seq(SignatureRow))
           /\ Len(signatures') = Len(signatures)
           /\ \A q \in 1..Len(signatures') : \A i, j \in DOMAIN signatures'[q] :
                 signatures'[q][i].user = signatures'[q][j].user => i = j
BY UpsertTypes DEF TypeOK, Proposed

(* What GetTransaction exports is a transaction the chain can check: K      *)
(* different keys, one rendering, exactly the stored fields.               *)
LEMMA ArtifactIsSigned ==
    ASSUME TypeOK, NEW p \in Proposed, CanAssemble(p)
    PROVE  Artifact(p) \in SignedTxs
<1> DEFINE rows == signatures[p]
           f == [i \in 1..K |-> rows[i].user]
           sigs == {<<rows[i].user, rows[i].sig.value>> : i \in 1..K}
<1>1. rows \in Seq(SignatureRow) /\ K \in Nat \ {0} /\ Len(rows) >= K
  <2>1. Cardinality(Members) \in Nat
    BY FS_CardinalityType
  <2>2. QED
    BY <2>1 DEF TypeOK, Proposed, CanAssemble
<1>2. \A i \in 1..K : rows[i] \in SignatureRow
  BY <1>1
<1>3. \A i \in 1..K : rows[i].sig \in Partials /\ rows[i].user = rows[i].sig.by
  BY <1>2 DEF CanAssemble, EarliestVerifies, VerifyPartial, SignatureRow
<1>4. \A i \in 1..K : /\ rows[i].user \in Members
                      /\ rows[i].sig.value \in Values
                      /\ rows[i].sig.rendering \in Renderings
  BY <1>3 DEF Partials
<1>5. \A i, j \in 1..K : rows[i].user = rows[j].user => i = j
  BY <1>1 DEF TypeOK, Proposed
<1>6. Signers(sigs) = {rows[i].user : i \in 1..K}
  <2>1. \A u : u \in Signers(sigs) <=> \E s \in sigs : u = s[1]
    BY DEF Signers
  <2>2. \A u : (\E s \in sigs : u = s[1]) <=> \E i \in 1..K : u = rows[i].user
    <3>1. \A i \in 1..K : <<rows[i].user, rows[i].sig.value>>[1] = rows[i].user
      OBVIOUS
    <3>2. QED
      BY <3>1, Zenon
  <2>3. QED
    BY <2>1, <2>2
<1>7. Cardinality(Signers(sigs)) = K
  <2> HIDE DEF sigs
  <2>1. f \in Bijection(1..K, Signers(sigs))
    BY <1>5, <1>6 DEF Bijection, Injection, Surjection, IsInjective
  <2>2. IsFiniteSet(1..K) /\ Cardinality(1..K) = K
    BY <1>1, FS_Interval
  <2>3. QED
    <3> HIDE DEF f
    <3>1. QED
      BY <2>1, <2>2, FS_Bijection DEF ExistsBijection
<1>8. IsQuorum(sigs)
  <2>1. Signers(sigs) \in SUBSET Members
    BY <1>4, <1>6
  <2>2. \A s, t \in sigs : s[1] = t[1] => s = t
    BY <1>5
  <2>3. Cardinality(Signers(sigs)) >= K
    BY <1>1, <1>7
  <2> HIDE DEF sigs
  <2>4. QED
    BY <2>1, <2>2, <2>3 DEF IsQuorum
<1>9. transactions[p].fields \in Fields
  <2>1. transactions[p] \in TransactionRow
    BY DEF TypeOK, Proposed
  <2>2. QED
    BY <2>1, Zenon DEF TransactionRow
<1>10. sigs \in SUBSET (Members \X Values)
  BY <1>4
<1>11. rows[1].sig.rendering \in Renderings
  BY <1>1, <1>4
<1>12. Artifact(p) = [fields |-> transactions[p].fields,
                     rendering |-> rows[1].sig.rendering, sigs |-> sigs]
  BY DEF Artifact
<1> HIDE DEF sigs, rows
<1>13. QED
  BY <1>8, <1>9, <1>10, <1>11, <1>12 DEF SignedTxs

THEOREM TypeCorrect == Spec => []TypeOK
<1>1. Init => TypeOK
  BY DEF Init, ChainInit, TypeOK, ChainTypeOK, Done, RequestState, Ended, Answers
<1>2. TypeOK /\ [Next]_vars => TypeOK'
  <2> SUFFICES ASSUME TypeOK, [Next]_vars PROVE TypeOK'
    OBVIOUS
  <2>1. ASSUME NEW u \in Users, NEW fields \in Fields, CreateTransaction(u, fields)
        PROVE  TypeOK'
    <3>1. transactions' \in Seq(TransactionRow) /\ Len(transactions') = Len(transactions) + 1
      BY <2>1 DEF CreateTransaction, TypeOK, TransactionRow, Hashes
    <3>2. signatures' \in Seq(Seq(SignatureRow)) /\ Len(signatures') = Len(signatures) + 1
      BY <2>1 DEF CreateTransaction, TypeOK
    <3>3. \A p \in 1..Len(signatures') : \A i, j \in DOMAIN signatures'[p] :
             signatures'[p][i].user = signatures'[p][j].user => i = j
      BY <2>1 DEF CreateTransaction, TypeOK
    <3>4. \A r \in Requests : request[r].op # "done" =>
             request[r].tx \in 1..Len(transactions')
      BY <3>1 DEF TypeOK
    <3>5. QED
      BY <2>1, <3>1, <3>2, <3>3, <3>4 DEF CreateTransaction, TypeOK, ChainTypeOK, chainVars
  <2>2. ASSUME NEW r \in Requests, Request(r) PROVE TypeOK'
    <3>1. ASSUME NEW u \in Users, NEW p \in Proposed, SignLoad(r, u, p) PROVE TypeOK'
      BY <3>1 DEF SignLoad, TypeOK, ChainTypeOK, chainVars, Proposed, RequestState, Signing, Ids
    <3>2. ASSUME NEW sig \in Partials, SignStoreNative(r, sig) PROVE TypeOK'
      <4>1. /\ request[r].tx \in Proposed
            /\ [user |-> request[r].user, sig |-> sig, verified |-> TRUE] \in SignatureRow
        BY <3>2, RequestTypes DEF SignStoreNative, Signing, SignatureRow, Proposed
      <4>2. /\ signatures' \in Seq(Seq(SignatureRow))
            /\ Len(signatures') = Len(signatures)
            /\ \A q \in 1..Len(signatures') : \A i, j \in DOMAIN signatures'[q] :
                  signatures'[q][i].user = signatures'[q][j].user => i = j
        BY <3>2, <4>1, StoreTypes DEF SignStoreNative
      <4>3. QED
        BY <3>2, <4>2, FinishTypes
           DEF SignStoreNative, TypeOK, ChainTypeOK, chainVars, Answers
    <3>3. ASSUME NEW sig \in Partials, SignStoreLegacy(r, sig) PROVE TypeOK'
      <4> DEFINE verdict == LegacyVerdict(request[r].tx, request[r].user, sig)
      <4>1. /\ request[r].tx \in Proposed
            /\ [user |-> request[r].user, sig |-> sig, verified |-> verdict] \in SignatureRow
        BY <3>3, RequestTypes
           DEF SignStoreLegacy, Signing, SignatureRow, Proposed, LegacyVerdict, VerifyPartial
      <4>2. /\ signatures' \in Seq(Seq(SignatureRow))
            /\ Len(signatures') = Len(signatures)
            /\ \A q \in 1..Len(signatures') : \A i, j \in DOMAIN signatures'[q] :
                  signatures'[q][i].user = signatures'[q][j].user => i = j
        BY <3>3, <4>1, StoreTypes DEF SignStoreLegacy
      <4>3. QED
        BY <3>3, <4>2, FinishTypes
           DEF SignStoreLegacy, TypeOK, ChainTypeOK, chainVars, Answers
    <3>4. ASSUME NEW p \in Proposed, ExportLoad(r, p) PROVE TypeOK'
      BY <3>4 DEF ExportLoad, TypeOK, ChainTypeOK, chainVars, Proposed, RequestState, Reading, Ids
    <3>5. ASSUME ExportReply(r) PROVE TypeOK'
      <4>1. request[r].tx \in Proposed /\ request[r].tx \in Ids
        BY <3>5, RequestTypes DEF ExportReply, Reading, Proposed
      <4>2. Artifact(request[r].tx) \in SignedTxs
        BY <3>5, <4>1, ArtifactIsSigned DEF ExportReply
      <4>3. QED
        BY <3>5, <4>1, <4>2, FinishTypes
           DEF ExportReply, TypeOK, ChainTypeOK, chainVars, Answers
    <3>6. ASSUME NEW u \in Users, NEW p \in Proposed, CompleteLoad(r, u, p) PROVE TypeOK'
      BY <3>6 DEF CompleteLoad, TypeOK, ChainTypeOK, chainVars, Proposed, RequestState, Reading, Ids
    <3>7. ASSUME NEW t \in SignedTxs, NEW primary \in BOOLEAN, NEW view \in 0..MaxHeight,
                 FetchReceipt(r, t, primary, view)
          PROVE  TypeOK'
      <4>1. CASE \E answer \in Answers : Finish(r, answer)
        BY <3>7, <4>1, FinishTypes DEF FetchReceipt, TypeOK, ChainTypeOK, chainVars
      <4>2. ASSUME NEW receipt \in ReceiptAt(t, view),
                   request' = [request EXCEPT ![r] =
                      [op |-> "record", tx |-> request[r].tx, receipt |-> receipt]]
            PROVE  TypeOK'
        <5>1. receipt \in Receipts
          BY <4>2 DEF ReceiptAt, TypeOK, ChainTypeOK
        <5>2. request[r].tx \in Ids /\ request[r].tx \in 1..Len(transactions)
          BY <3>7, RequestTypes DEF FetchReceipt, Reading
        <5>3. [op |-> "record", tx |-> request[r].tx, receipt |-> receipt] \in Recording
          BY <5>1, <5>2 DEF Recording
        <5>4. request' \in [Requests -> RequestState]
          BY <4>2, <5>3 DEF TypeOK, RequestState
        <5>5. QED
          BY <3>7, <4>2, <5>2, <5>4 DEF FetchReceipt, TypeOK, ChainTypeOK, chainVars
      <4>3. QED
        BY <3>7, <4>1, <4>2 DEF FetchReceipt, Answers
    <3>8. ASSUME RecordReceipt(r) PROVE TypeOK'
      <4> DEFINE p == request[r].tx
                 receipt == request[r].receipt
      <4>1. p \in 1..Len(transactions) /\ receipt \in Receipts
        BY <3>8, RequestTypes DEF RecordReceipt, Recording
      <4>2. ASSUME NEW hash \in Hashes, NEW verified \in BOOLEAN,
                   NEW error \in {None, "failed", "refused"},
                   UpdateOpen(p, hash, verified, error)
            PROVE  transactions' \in Seq(TransactionRow) /\ Len(transactions') = Len(transactions)
        <5>1. transactions[p] \in TransactionRow
          BY <4>1 DEF TypeOK
        <5>2. [fields |-> transactions[p].fields, final_hash |-> hash,
               verified |-> verified, onchain_error |-> error] \in TransactionRow
          BY <5>1 DEF TransactionRow
        <5>3. QED
          BY <4>1, <4>2, <5>2 DEF UpdateOpen, Written, TypeOK
      <4>3. /\ receipt.tx \in Hashes /\ None \in Hashes
            /\ receipt.result # "ok" => receipt.result \in {None, "failed", "refused"}
            /\ transactions[p].verified \in BOOLEAN
        <5>1. transactions[p] \in TransactionRow
          BY <4>1 DEF TypeOK
        <5>2. transactions[p].verified \in BOOLEAN
          BY <5>1, Zenon DEF TransactionRow
        <5>3. receipt.tx \in SignedTxs /\ receipt.result \in Results
          BY <4>1 DEF Receipts
        <5>4. QED
          BY <5>2, <5>3 DEF Hashes, Results
      <4>4. transactions' \in Seq(TransactionRow) /\ Len(transactions') = Len(transactions)
        BY <3>8, <4>2, <4>3 DEF RecordReceipt, TypeOK
      <4>5. \E answer \in Answers : Finish(r, answer)
        BY <3>8 DEF RecordReceipt, Answers
      <4>6. QED
        BY <3>8, <4>4, <4>5, FinishTypes DEF RecordReceipt, TypeOK, ChainTypeOK, chainVars
    <3>9. ASSUME Abandon(r) PROVE TypeOK'
      BY <3>9, FinishTypes DEF Abandon, TypeOK, ChainTypeOK, chainVars, Answers
    <3>10. QED
      BY <2>2, <3>1, <3>2, <3>3, <3>4, <3>5, <3>6, <3>7, <3>8, <3>9 DEF Request
  <2>3. ASSUME Restart PROVE TypeOK'
    BY <2>3 DEF Restart, TypeOK, ChainTypeOK, chainVars, Done, RequestState, Ended, Answers
  <2>4. ASSUME NEW t \in SignedTxs, NEW result \in Results,
               Deliver(t, result), UNCHANGED serviceVars
        PROVE  TypeOK'
    BY <2>4 DEF Deliver, serviceVars, TypeOK, ChainTypeOK, Receipts
  <2>5. ASSUME CommitBlock, UNCHANGED serviceVars PROVE TypeOK'
    BY <2>5 DEF CommitBlock, serviceVars, TypeOK, ChainTypeOK
  <2>6. CASE UNCHANGED vars
    BY <2>6 DEF vars, serviceVars, chainVars, TypeOK, ChainTypeOK
  <2>7. QED
    BY <2>1, <2>2, <2>3, <2>4, <2>5, <2>6 DEF Next, Chain
<1>3. QED
  BY <1>1, <1>2, PTL DEF Spec

(***************************************************************************)
(* Signatures and exports.                                                 *)
(***************************************************************************)

(* The steps that leave the three tables alone.                            *)
Quiet == UNCHANGED <<transactions, signatures, exports>>

(* Every step writes the tables in one of five ways.                       *)
LEMMA TableSteps ==
    ASSUME [Next]_vars
    PROVE  \/ Quiet
           \/ \E u \in Users, fields \in Fields : CreateTransaction(u, fields)
           \/ \E r \in Requests, sig \in Partials : SignStoreNative(r, sig)
           \/ \E r \in Requests, sig \in Partials : SignStoreLegacy(r, sig)
           \/ \E r \in Requests : ExportReply(r)
           \/ \E r \in Requests : RecordReceipt(r)
<1>1. ASSUME NEW r \in Requests, Request(r)
      PROVE  \/ Quiet
             \/ \E sig \in Partials : SignStoreNative(r, sig) \/ SignStoreLegacy(r, sig)
             \/ ExportReply(r)
             \/ RecordReceipt(r)
  BY <1>1 DEF Request, Quiet, SignLoad, ExportLoad, CompleteLoad, FetchReceipt, Abandon
<1>2. Restart => Quiet
  BY DEF Restart, Quiet
<1>3. Chain => Quiet
  BY DEF Chain, Quiet, serviceVars
<1>4. UNCHANGED vars => Quiet
  BY DEF vars, serviceVars, Quiet
<1>5. QED
  BY <1>1, <1>2, <1>3, <1>4 DEF Next

(* A proposal's fields never change: what was signed stays what is stored. *)
LEMMA FieldsKept ==
    ASSUME TypeOK, [Next]_vars, NEW p \in Proposed
    PROVE  p \in Proposed' /\ transactions'[p].fields = transactions[p].fields
<1>1. CASE Quiet
  BY <1>1 DEF Quiet, Proposed
<1>2. ASSUME NEW u \in Users, NEW fields \in Fields, CreateTransaction(u, fields)
      PROVE  p \in Proposed' /\ transactions'[p].fields = transactions[p].fields
  BY <1>2 DEF CreateTransaction, TypeOK, Proposed
<1>3. ASSUME NEW r \in Requests, NEW sig \in Partials,
             SignStoreNative(r, sig) \/ SignStoreLegacy(r, sig)
      PROVE  p \in Proposed' /\ transactions'[p].fields = transactions[p].fields
  BY <1>3 DEF SignStoreNative, SignStoreLegacy, Proposed
<1>4. ASSUME NEW r \in Requests, ExportReply(r)
      PROVE  p \in Proposed' /\ transactions'[p].fields = transactions[p].fields
  BY <1>4 DEF ExportReply, Proposed
<1>5. ASSUME NEW r \in Requests, RecordReceipt(r)
      PROVE  p \in Proposed' /\ transactions'[p].fields = transactions[p].fields
  <2>1. \/ UNCHANGED transactions
        \/ \E hash, verified, error :
              transactions' = Written(request[r].tx, hash, verified, error)
    BY <1>5 DEF RecordReceipt, UpdateOpen
  <2>2. ASSUME NEW hash, NEW verified, NEW error,
               transactions' = Written(request[r].tx, hash, verified, error)
        PROVE  p \in Proposed' /\ transactions'[p].fields = transactions[p].fields
    <3>1. /\ Len(transactions') = Len(transactions)
          /\ p # request[r].tx => transactions'[p] = transactions[p]
          /\ p = request[r].tx => transactions'[p] =
                [fields |-> transactions[p].fields, final_hash |-> hash,
                 verified |-> verified, onchain_error |-> error]
      BY <2>2 DEF Written, TypeOK, Proposed
    <3>2. QED
      BY <3>1 DEF Proposed
  <2>3. QED
    BY <2>1, <2>2 DEF Proposed
<1>6. QED
  BY <1>1, <1>2, <1>3, <1>4, <1>5, TableSteps

(* What a stored signature does to the rows of its proposal.               *)
LEMMA RowsKept ==
    ASSUME TypeOK, [Next]_vars, NEW p \in Proposed, NEW i \in DOMAIN signatures[p]
    PROVE  /\ i \in DOMAIN signatures'[p]
           /\ signatures'[p][i].user = signatures[p][i].user
<1>1. CASE Quiet
  BY <1>1 DEF Quiet
<1>2. ASSUME NEW u \in Users, NEW fields \in Fields, CreateTransaction(u, fields)
      PROVE  signatures'[p] = signatures[p]
  BY <1>2 DEF CreateTransaction, TypeOK, Proposed
<1>3. ASSUME NEW r \in Requests, NEW sig \in Partials,
             SignStoreNative(r, sig) \/ SignStoreLegacy(r, sig)
      PROVE  /\ i \in DOMAIN signatures'[p]
             /\ signatures'[p][i].user = signatures[p][i].user
  <2>1. request[r] \in Signing /\ request[r].tx \in Proposed
    BY <1>3, RequestTypes DEF SignStoreNative, SignStoreLegacy, Proposed
  <2>2. \E row \in SignatureRow :
           signatures' = [signatures EXCEPT ![request[r].tx] = Upsert(request[r].tx, row)]
    <3> DEFINE row(v) == [user |-> request[r].user, sig |-> sig, verified |-> v]
    <3>1. \A v \in BOOLEAN : row(v) \in SignatureRow
      BY <2>1 DEF Signing, SignatureRow
    <3>2. \E v \in BOOLEAN :
             signatures' = [signatures EXCEPT ![request[r].tx] = Upsert(request[r].tx, row(v))]
      BY <1>3 DEF SignStoreNative, SignStoreLegacy, LegacyVerdict, VerifyPartial
    <3> HIDE DEF row
    <3>3. QED
      BY <3>1, <3>2
  <2> DEFINE q == request[r].tx
  <2>3. PICK row \in SignatureRow : signatures' = [signatures EXCEPT ![q] = Upsert(q, row)]
    BY <2>2
  <2>4. \A j \in DOMAIN signatures[q] : /\ j \in DOMAIN Upsert(q, row)
                                        /\ Upsert(q, row)[j].user = signatures[q][j].user
    <3>1. /\ Upsert(q, row) \in Seq(SignatureRow)
          /\ Len(Upsert(q, row)) >= Len(signatures[q])
          /\ \A j \in DOMAIN signatures[q] : Upsert(q, row)[j].user = signatures[q][j].user
      <4>1. q \in Proposed
        BY <2>1
      <4> HIDE DEF q
      <4>2. QED
        BY <4>1, UpsertTypes
    <3>2. signatures[q] \in Seq(SignatureRow)
      BY <2>1 DEF TypeOK, Proposed
    <3> HIDE DEF q
    <3>3. QED
      BY <3>1, <3>2
  <2>5. p \in DOMAIN signatures /\ q \in DOMAIN signatures
    BY <2>1 DEF TypeOK, Proposed
  <2>6. CASE p = q
    <3>1. signatures'[p] = Upsert(q, row)
      BY <2>3, <2>5, <2>6
    <3>2. QED
      BY <3>1, <2>4, <2>6
  <2>7. CASE p # q
    BY <2>3, <2>5, <2>7
  <2>8. QED
    BY <2>6, <2>7
<1>4. ASSUME NEW r \in Requests, ExportReply(r) \/ RecordReceipt(r)
      PROVE  signatures' = signatures
  BY <1>4 DEF ExportReply, RecordReceipt
<1>5. QED
  BY <1>1, <1>2, <1>3, <1>4, TableSteps

(* Rows are never dropped or moved, whichever requests race.               *)
THEOREM SignersStay == Spec => SignersKeepTheirPlace
<1>1. TypeOK /\ [Next]_vars =>
        [\A p \in Proposed : \A i \in DOMAIN signatures[p] :
            /\ i \in DOMAIN signatures'[p]
            /\ signatures'[p][i].user = signatures[p][i].user]_vars
  BY RowsKept
<1>2. QED
  BY <1>1, TypeCorrect, PTL DEF Spec, SignersKeepTheirPlace

(* What the peers of a submission are checked for, as an invariant: every  *)
(* stored signature is its user's own, over the stored fields, and all of  *)
(* them are over one rendering.                                            *)
Agreed(p) ==
    \A i, j \in DOMAIN signatures[p] :
        /\ VerifyPartial(signatures[p][i].user, signatures[p][i].sig,
                         transactions[p].fields)
        /\ signatures[p][i].sig.rendering = signatures[p][j].sig.rendering

RowsAgree == native => \A p \in Proposed : Agreed(p)

(* A native signature is stored only beside signatures it agrees with, so  *)
(* the rows agree after it too.                                            *)
LEMMA StoreAgrees ==
    ASSUME TypeOK, NEW r \in Requests, NEW sig \in Partials, SignStoreNative(r, sig),
           NEW p \in Proposed, p = request[r].tx
    PROVE  Agreed(p)'
<1> DEFINE row == [user |-> request[r].user, sig |-> sig, verified |-> TRUE]
<1>1. row \in SignatureRow
  BY RequestTypes DEF SignStoreNative, Signing, SignatureRow
<1>2. signatures'[p] = Upsert(p, row)
  BY DEF SignStoreNative, TypeOK, Proposed
<1>3. \A i \in DOMAIN Upsert(p, row) :
         \/ Upsert(p, row)[i] = row
         \/ /\ i \in DOMAIN signatures[p]
            /\ signatures[p][i].user # row.user
            /\ Upsert(p, row)[i] = signatures[p][i]
  <2> HIDE DEF row
  <2>1. QED
    BY <1>1, UpsertTypes
<1>4. \A i \in DOMAIN signatures[p] : signatures[p][i].user # row.user =>
         /\ VerifyPartial(signatures[p][i].user, signatures[p][i].sig, transactions[p].fields)
         /\ signatures[p][i].sig.rendering = sig.rendering
  BY DEF SignStoreNative, PeersAgree, OwnRows
<1>5. VerifyPartial(row.user, row.sig, transactions[p].fields) /\ row.sig = sig
  BY DEF SignStoreNative
<1>6. transactions' = transactions
  BY DEF SignStoreNative
<1> HIDE DEF row
<1>7. \A i \in DOMAIN signatures'[p] :
         /\ VerifyPartial(signatures'[p][i].user, signatures'[p][i].sig,
                          transactions[p].fields)
         /\ signatures'[p][i].sig.rendering = sig.rendering
  BY <1>2, <1>3, <1>4, <1>5
<1>8. QED
  BY <1>6, <1>7 DEF Agreed, VerifyPartial

(* What kind of account it is never changes.                               *)
LEMMA KindKept == ASSUME [Next]_vars PROVE native' = native
<1>1. CASE UNCHANGED vars
  BY <1>1 DEF vars, serviceVars
<1>2. ASSUME NEW u \in Users, NEW fields \in Fields, CreateTransaction(u, fields)
      PROVE  native' = native
  BY <1>2 DEF CreateTransaction
<1>3. ASSUME NEW r \in Requests, Request(r) PROVE native' = native
  BY <1>3 DEF Request, SignLoad, SignStoreNative, SignStoreLegacy, ExportLoad, ExportReply,
              CompleteLoad, FetchReceipt, RecordReceipt, Abandon
<1>4. CASE Restart \/ Chain
  BY <1>4 DEF Restart, Chain, serviceVars
<1>5. QED
  BY <1>1, <1>2, <1>3, <1>4 DEF Next

LEMMA AgreementKept ==
    ASSUME TypeOK, RowsAgree, [Next]_vars
    PROVE  RowsAgree'
<1> SUFFICES ASSUME native, NEW p \in Proposed'
             PROVE  Agreed(p)'
  BY KindKept DEF RowsAgree
<1>1. CASE p \in Proposed /\ signatures'[p] = signatures[p]
  <2>1. transactions'[p].fields = transactions[p].fields
    BY <1>1, FieldsKept
  <2>2. Agreed(p)
    BY <1>1 DEF RowsAgree
  <2>3. QED
    BY <1>1, <2>1, <2>2 DEF Agreed
<1>2. CASE Quiet
  BY <1>1, <1>2 DEF Quiet, Proposed
<1>3. ASSUME NEW u \in Users, NEW fields \in Fields, CreateTransaction(u, fields)
      PROVE  Agreed(p)'
  <2>1. CASE p \in Proposed
    BY <1>1, <1>3, <2>1 DEF CreateTransaction, TypeOK, Proposed
  <2>2. CASE p \notin Proposed
    <3>1. signatures'[p] = <<>>
      BY <1>3, <2>2 DEF CreateTransaction, TypeOK, Proposed
    <3>2. QED
      BY <3>1 DEF Agreed
  <2>3. QED
    BY <2>1, <2>2
<1>4. ASSUME NEW r \in Requests, NEW sig \in Partials, SignStoreNative(r, sig)
      PROVE  Agreed(p)'
  <2>1. request[r].tx \in Proposed /\ p \in Proposed
    BY <1>4, RequestTypes DEF SignStoreNative, Proposed
  <2>2. CASE p = request[r].tx
    BY <1>4, <2>1, <2>2, StoreAgrees
  <2>3. CASE p # request[r].tx
    BY <1>1, <1>4, <2>1, <2>3 DEF SignStoreNative, TypeOK, Proposed
  <2>4. QED
    BY <2>2, <2>3
<1>5. ASSUME NEW r \in Requests, ExportReply(r) PROVE Agreed(p)'
  BY <1>1, <1>5 DEF ExportReply, Proposed
<1>6. ASSUME NEW r \in Requests, RecordReceipt(r) PROVE Agreed(p)'
  BY <1>1, <1>6, TableSteps DEF RecordReceipt, UpdateOpen, Written, TypeOK, Proposed
<1>7. ASSUME NEW r \in Requests, NEW sig \in Partials, SignStoreLegacy(r, sig)
      PROVE  FALSE
  BY <1>7 DEF SignStoreLegacy
<1>8. QED
  BY <1>2, <1>3, <1>4, <1>5, <1>6, <1>7, TableSteps

(* A proposal that has its K signatures can be exported, whatever the      *)
(* order in which concurrent submissions were stored.                      *)
THEOREM QuorumAlwaysAssembles == Spec => []QuorumAssembles
<1>1. Init => RowsAgree
  BY DEF Init, RowsAgree, Proposed
<1>2. TypeOK /\ RowsAgree /\ [Next]_vars => RowsAgree'
  BY AgreementKept
<1>3. TypeOK /\ RowsAgree => QuorumAssembles
  <2> SUFFICES ASSUME TypeOK, RowsAgree, native,
                      NEW p \in Proposed, Len(signatures[p]) >= K
               PROVE  EarliestVerifies(p)
    BY DEF QuorumAssembles, CanAssemble
  <2>1. 1..K \subseteq DOMAIN signatures[p]
    <3>1. signatures[p] \in Seq(SignatureRow) /\ K \in Nat
      BY FS_CardinalityType DEF TypeOK, Proposed
    <3>2. QED
      BY <3>1
  <2>2. QED
    BY <2>1 DEF RowsAgree, Agreed, EarliestVerifies
<1>4. QED
  BY <1>1, <1>2, <1>3, TypeCorrect, PTL DEF Spec

(* Nothing that is handed out differs from what would be handed out now;   *)
(* of a legacy record nothing is handed out and nothing is recorded.       *)
ExportIsCurrent(e) ==
    /\ e.tx \in Proposed
    /\ Len(signatures[e.tx]) >= K
    /\ e.bytes = Artifact(e.tx)

ExportsCurrent == \A e \in exports : ExportIsCurrent(e)

LegacyQuiet ==
    ~native =>
        /\ exports = {}
        /\ \A r \in Requests : request[r].op \in {"done", "sign"}
        /\ \A p \in Proposed :
              /\ IsOpen(p)
              /\ \A i \in DOMAIN signatures[p] :
                    LET row == signatures[p][i] IN
                    row.verified <=>
                        VerifyPartial(row.user, row.sig, transactions[p].fields)

(* From quorum on, a stored signature only adds a row after the first K.   *)
LEMMA StoreKeepsArtifact ==
    ASSUME TypeOK, NEW r \in Requests, NEW sig \in Partials, SignStoreNative(r, sig),
           NEW p \in Proposed, Len(signatures[p]) >= K
    PROVE  /\ Len(signatures'[p]) >= K
           /\ \A i \in 1..K : signatures'[p][i] = signatures[p][i]
<1>1. signatures[p] \in Seq(SignatureRow) /\ K \in Nat
  BY FS_CardinalityType DEF TypeOK, Proposed
<1>2. CASE p = request[r].tx
  <2> DEFINE row == [user |-> request[r].user, sig |-> sig, verified |-> TRUE]
  <2>1. OwnRows(p, row.user) = {}
    BY <1>1, <1>2 DEF SignStoreNative, MayStore
  <2>2. signatures'[p] = Append(signatures[p], row)
    BY <1>2, <2>1 DEF SignStoreNative, Upsert, TypeOK, Proposed
  <2>3. row \in SignatureRow
    BY RequestTypes DEF SignStoreNative, Signing, SignatureRow
  <2> HIDE DEF row
  <2>4. QED
    BY <1>1, <2>2, <2>3
<1>3. CASE p # request[r].tx
  BY <1>1, <1>3 DEF SignStoreNative, TypeOK, Proposed
<1>4. QED
  BY <1>2, <1>3

LEMMA ArtifactKept ==
    ASSUME TypeOK, LegacyQuiet, [Next]_vars, NEW e \in exports, ExportIsCurrent(e)
    PROVE  ExportIsCurrent(e)'
<1> DEFINE p == e.tx
<1>1. p \in Proposed' /\ transactions'[p].fields = transactions[p].fields
  BY FieldsKept DEF ExportIsCurrent
<1>2. native
  BY DEF LegacyQuiet
<1>3. /\ Len(signatures'[p]) >= K
      /\ \A i \in 1..K : signatures'[p][i] = signatures[p][i]
  <2>1. CASE signatures'[p] = signatures[p]
    BY <2>1 DEF ExportIsCurrent
  <2>2. ASSUME NEW r \in Requests, NEW sig \in Partials, SignStoreNative(r, sig)
        PROVE  <1>3!:
    BY <2>2, StoreKeepsArtifact DEF ExportIsCurrent
  <2>3. ASSUME NEW u \in Users, NEW fields \in Fields, CreateTransaction(u, fields)
        PROVE  signatures'[p] = signatures[p]
    BY <2>3 DEF CreateTransaction, TypeOK, Proposed, ExportIsCurrent
  <2>4. ASSUME NEW r \in Requests, ExportReply(r) \/ RecordReceipt(r)
        PROVE  signatures' = signatures
    BY <2>4 DEF ExportReply, RecordReceipt
  <2>5. Quiet => signatures' = signatures
    BY DEF Quiet
  <2>6. ASSUME NEW r \in Requests, NEW sig \in Partials, SignStoreLegacy(r, sig)
        PROVE  FALSE
    BY <1>2, <2>6 DEF SignStoreLegacy
  <2>7. QED
    BY <2>1, <2>2, <2>3, <2>4, <2>5, <2>6, TableSteps
<1>4. K \in 1..Cardinality(Members) /\ 1 \in 1..K
  BY FS_CardinalityType
<1>5. {<<signatures'[p][i].user, signatures'[p][i].sig.value>> : i \in 1..K}
        = {<<signatures[p][i].user, signatures[p][i].sig.value>> : i \in 1..K}
  BY <1>3
<1>6. Artifact(p)' = Artifact(p)
  BY <1>1, <1>3, <1>4, <1>5 DEF Artifact
<1>7. QED
  BY <1>1, <1>3, <1>6 DEF ExportIsCurrent

LEMMA ExportsKept ==
    ASSUME TypeOK, LegacyQuiet, ExportsCurrent, [Next]_vars
    PROVE  ExportsCurrent'
<1> SUFFICES ASSUME NEW e \in exports' PROVE ExportIsCurrent(e)'
  BY DEF ExportsCurrent
<1>1. CASE e \in exports
  BY <1>1, ArtifactKept DEF ExportsCurrent
<1>2. ASSUME NEW r \in Requests, ExportReply(r), e \notin exports
      PROVE  ExportIsCurrent(e)'
  <2>1. /\ e = [tx |-> request[r].tx, bytes |-> Artifact(request[r].tx)]
        /\ CanAssemble(request[r].tx)
        /\ transactions' = transactions /\ signatures' = signatures
    BY <1>2 DEF ExportReply
  <2>2. request[r].tx \in Proposed
    BY <1>2, RequestTypes DEF ExportReply, Proposed
  <2>3. ExportIsCurrent(e)
    BY <2>1, <2>2 DEF ExportIsCurrent, CanAssemble
  <2>4. QED
    BY <2>1, <2>3 DEF ExportIsCurrent, Artifact, Proposed
<1>3. \/ exports' = exports
      \/ \E r \in Requests : ExportReply(r)
  BY TableSteps DEF Quiet, CreateTransaction, SignStoreNative, SignStoreLegacy, RecordReceipt
<1>4. QED
  BY <1>1, <1>2, <1>3

(* No request on a legacy record hands out or records anything.            *)
LEMMA LegacyRequests ==
    ASSUME TypeOK, LegacyQuiet, ~native, [Next]_vars
    PROVE  /\ exports' = {}
           /\ \A r \in Requests : request'[r].op \in {"done", "sign"}
           /\ \A r \in Requests : ~ExportReply(r) /\ ~RecordReceipt(r)
<1>1. \A r \in Requests : request[r].op \in {"done", "sign"}
  BY DEF LegacyQuiet
<1>2. \A r \in Requests : ~ExportReply(r) /\ ~RecordReceipt(r)
  BY <1>1 DEF ExportReply, RecordReceipt
<1>3. exports' = {}
  BY <1>2, TableSteps DEF Quiet, LegacyQuiet, CreateTransaction, SignStoreNative, SignStoreLegacy
<1>4. ASSUME NEW q \in Requests, Request(q), NEW r \in Requests
      PROVE  request'[r].op \in {"done", "sign"}
  <2>1. \/ \E answer : Finish(q, answer)
        \/ \E u \in Users, p \in Proposed : SignLoad(q, u, p)
    BY <1>1, <1>4 DEF Request, SignStoreNative, SignStoreLegacy, ExportLoad, ExportReply,
                      CompleteLoad, FetchReceipt, RecordReceipt, Abandon
  <2>2. ASSUME NEW answer, Finish(q, answer)
        PROVE  request'[r].op \in {"done", "sign"}
    BY <1>1, <2>2 DEF Finish, Done, TypeOK
  <2>3. ASSUME NEW u \in Users, NEW p \in Proposed, SignLoad(q, u, p)
        PROVE  request'[r].op \in {"done", "sign"}
    BY <1>1, <2>3 DEF SignLoad, TypeOK
  <2>4. QED
    BY <2>1, <2>2, <2>3
<1>5. \A r \in Requests : request'[r].op \in {"done", "sign"}
  <2>1. Restart => <1>5!:
    BY DEF Restart, Done
  <2>2. \/ request' = request
        \/ Restart
        \/ \E q \in Requests : Request(q)
    BY DEF Next, Chain, CreateTransaction, vars, serviceVars
  <2>3. QED
    BY <1>1, <1>4, <2>1, <2>2
<1>6. QED
  BY <1>2, <1>3, <1>5

(* On a legacy record the stored verdict is the one the sweep recomputes.  *)
Judged(p) ==
    /\ IsOpen(p)
    /\ \A i \in DOMAIN signatures[p] :
          LET row == signatures[p][i] IN
          row.verified <=> VerifyPartial(row.user, row.sig, transactions[p].fields)

LEMMA LegacyJudged ==
    ASSUME TypeOK, LegacyQuiet, ~native, [Next]_vars, NEW p \in Proposed'
    PROVE  Judged(p)'
<1>1. CASE /\ p \in Proposed
           /\ transactions'[p] = transactions[p]
           /\ signatures'[p] = signatures[p]
  BY <1>1 DEF LegacyQuiet, Judged, IsOpen
<1>2. CASE Quiet
  BY <1>1, <1>2 DEF Quiet, Proposed
<1>3. ASSUME NEW u \in Users, NEW fields \in Fields, CreateTransaction(u, fields)
      PROVE  Judged(p)'
  <2>1. CASE p \in Proposed
    BY <1>1, <1>3, <2>1 DEF CreateTransaction, TypeOK, Proposed
  <2>2. CASE p \notin Proposed
    <3>1. signatures'[p] = <<>> /\ transactions'[p].final_hash = None
      BY <1>3, <2>2 DEF CreateTransaction, TypeOK, Proposed
    <3>2. QED
      BY <3>1 DEF Judged, IsOpen
  <2>3. QED
    BY <2>1, <2>2
<1>4. ASSUME NEW r \in Requests, NEW sig \in Partials, SignStoreLegacy(r, sig)
      PROVE  Judged(p)'
  <2> DEFINE row == [user |-> request[r].user, sig |-> sig,
                     verified |-> LegacyVerdict(p, request[r].user, sig)]
  <2>1. request[r].tx \in Proposed /\ p \in Proposed /\ transactions' = transactions
    BY <1>4, RequestTypes DEF SignStoreLegacy, Proposed
  <2>2. CASE p = request[r].tx
    <3>1. signatures'[p] = Upsert(p, row)
      BY <1>4, <2>1, <2>2 DEF SignStoreLegacy, TypeOK, Proposed
    <3>2. row \in SignatureRow
      BY <1>4, RequestTypes
         DEF SignStoreLegacy, Signing, SignatureRow, LegacyVerdict, VerifyPartial
    <3>3. row.verified <=> VerifyPartial(row.user, row.sig, transactions[p].fields)
      BY DEF LegacyVerdict
    <3>4. \A i \in DOMAIN signatures[p] :
             signatures[p][i].verified <=>
                VerifyPartial(signatures[p][i].user, signatures[p][i].sig,
                              transactions[p].fields)
      BY <2>1 DEF LegacyQuiet
    <3> HIDE DEF row
    <3>5. \A i \in DOMAIN Upsert(p, row) :
             \/ Upsert(p, row)[i] = row
             \/ i \in DOMAIN signatures[p] /\ Upsert(p, row)[i] = signatures[p][i]
      BY <2>1, <3>2, UpsertTypes
    <3>6. \A i \in DOMAIN signatures'[p] :
             signatures'[p][i].verified <=>
                VerifyPartial(signatures'[p][i].user, signatures'[p][i].sig,
                              transactions[p].fields)
      BY <3>1, <3>3, <3>4, <3>5
    <3>7. IsOpen(p)
      BY <2>1 DEF LegacyQuiet
    <3>8. QED
      BY <2>1, <3>6, <3>7 DEF Judged, IsOpen, VerifyPartial
  <2>3. CASE p # request[r].tx
    BY <1>1, <1>4, <2>1, <2>3 DEF SignStoreLegacy, TypeOK, Proposed
  <2>4. QED
    BY <2>2, <2>3
<1>5. ASSUME NEW r \in Requests, NEW sig \in Partials, SignStoreNative(r, sig)
      PROVE  FALSE
  BY <1>5 DEF SignStoreNative
<1>6. QED
  BY <1>2, <1>3, <1>4, <1>5, LegacyRequests, TableSteps

LEMMA LegacyKept == TypeOK /\ LegacyQuiet /\ [Next]_vars => LegacyQuiet'
<1> SUFFICES ASSUME TypeOK, LegacyQuiet, ~native, [Next]_vars
             PROVE  LegacyQuiet'
  BY KindKept DEF LegacyQuiet
<1>1. \A p \in Proposed' : Judged(p)'
  BY LegacyJudged
<1>2. QED
  BY <1>1, LegacyRequests DEF LegacyQuiet, Judged

(* The invariant behind the exports, and the theorems it gives.            *)
ExportInv == LegacyQuiet /\ ExportsCurrent

LEMMA ExportInvariant == Spec => [](TypeOK /\ ExportInv)
<1>1. Init => ExportInv
  BY DEF Init, ExportInv, LegacyQuiet, ExportsCurrent, Proposed, Done
<1>2. TypeOK /\ ExportInv /\ [Next]_vars => ExportInv'
  BY LegacyKept, ExportsKept DEF ExportInv
<1>3. QED
  BY <1>1, <1>2, TypeCorrect, PTL DEF Spec

(* Every export of a proposal is the same bytes.                           *)
THEOREM OneExport == Spec => []ExportsAgree
<1>1. ExportInv => ExportsAgree
  BY DEF ExportInv, ExportsCurrent, ExportIsCurrent, ExportsAgree
<1>2. QED
  BY <1>1, ExportInvariant, PTL

(* A legacy record is only ever history.                                   *)
THEOREM LegacyStaysHistory == Spec => []LegacyIsHistory
<1>1. ExportInv => LegacyIsHistory
  BY DEF ExportInv, LegacyQuiet, LegacyIsHistory
<1>2. QED
  BY <1>1, ExportInvariant, PTL

(* A closed row and its signatures are never written again.                *)
THEOREM ClosedStaysClosed == Spec => ClosedIsFinal
<1>1. ASSUME TypeOK, ExportInv, [Next]_vars, NEW p \in Proposed, ~IsOpen(p)
      PROVE  transactions'[p] = transactions[p] /\ signatures'[p] = signatures[p]
  <2>1. native
    BY <1>1 DEF ExportInv, LegacyQuiet
  <2>2. CASE Quiet
    BY <2>2 DEF Quiet
  <2>3. ASSUME NEW u \in Users, NEW fields \in Fields, CreateTransaction(u, fields)
        PROVE  transactions'[p] = transactions[p] /\ signatures'[p] = signatures[p]
    BY <1>1, <2>3 DEF CreateTransaction, TypeOK, Proposed
  <2>4. ASSUME NEW r \in Requests, NEW sig \in Partials, SignStoreNative(r, sig)
        PROVE  transactions'[p] = transactions[p] /\ signatures'[p] = signatures[p]
    BY <1>1, <2>4 DEF SignStoreNative, LockOpenRow, TypeOK, Proposed
  <2>5. ASSUME NEW r \in Requests, NEW sig \in Partials, SignStoreLegacy(r, sig)
        PROVE  FALSE
    BY <2>1, <2>5 DEF SignStoreLegacy
  <2>6. ASSUME NEW r \in Requests, ExportReply(r)
        PROVE  transactions' = transactions /\ signatures' = signatures
    BY <2>6 DEF ExportReply
  <2>7. ASSUME NEW r \in Requests, RecordReceipt(r)
        PROVE  transactions'[p] = transactions[p] /\ signatures' = signatures
    BY <1>1, <2>7 DEF RecordReceipt, UpdateOpen, Written, TypeOK, Proposed
  <2>8. QED
    BY <2>2, <2>3, <2>4, <2>5, <2>6, <2>7, <1>1, TableSteps
<1>2. TypeOK /\ ExportInv /\ [Next]_vars =>
        [\A p \in Proposed : ~IsOpen(p) =>
            /\ transactions'[p] = transactions[p]
            /\ signatures'[p] = signatures[p]]_vars
  BY <1>1
<1>3. QED
  BY <1>2, ExportInvariant, PTL DEF Spec, ClosedIsFinal
===============================================================================
