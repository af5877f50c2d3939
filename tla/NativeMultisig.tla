---------------------------- MODULE NativeMultisig ----------------------------
(***************************************************************************)
(* The transaction side of the multisig service (backend/internal/service: *)
(* tx_rpc.go, native_multisig.go): the proposals of one multisig, their    *)
(* signatures, the export of a complete transaction and the confirmation   *)
(* of its execution against a chain receipt.                               *)
(*                                                                         *)
(* The handlers run concurrently over one SQLite database.  A handler is a *)
(* request in flight; each of its database statements (or transactions)    *)
(* and each answer of a chain node is a step of its own, so the others     *)
(* interleave with it wherever the code lets them.                         *)
(***************************************************************************)
EXTENDS GnoAccount

CONSTANTS
    Users,         \* bound: the accounts that call, members or not
    Requests,      \* bound: requests in flight at once
    MaxProposals,  \* bound: proposals created
    MaxLag,        \* blocks a node whose newest block is fresh may be behind
    Kinds,         \* whether the account is a native one: what it may be
    Fallback       \* a fallback receipt node is configured

ASSUME ServiceAssumption ==
    /\ MaxProposals \in Nat /\ MaxLag \in Nat
    /\ Kinds \subseteq BOOLEAN /\ Fallback \in BOOLEAN
ASSUME NoneAssumption == None \notin {"failed", "refused"}

VARIABLES
    transactions,  \* rows of the table, by id
    signatures,    \* of each transaction, its rows in rowid order
    request,       \* requests in flight, and the answer of those that ended
    exports,       \* the complete transactions handed out so far
    native,        \* the account is a native one (FALSE: a legacy record)
    gate           \* the environment gate that applies to this account:
                   \* MEMBA_ENABLE_NATIVE_GNO_MULTISIG for a native one,
                   \* MEMBA_ENFORCE_MULTISIG_SIG_VERIFY for a legacy record

serviceVars == <<transactions, signatures, request, exports, native, gate>>
vars == <<serviceVars, chainVars>>

Ids == 1..MaxProposals
Hashes == SignedTxs \cup {None}

TransactionRow ==
    [fields : Fields, final_hash : Hashes, verified : BOOLEAN,
     onchain_error : {None, "failed", "refused"}]

(* A signature as submitted: who really signed, what, in which rendering.  *)
Partials ==
    [by : Members, fields : Fields, rendering : Renderings, value : Values]

SignatureRow == [user : Users, sig : Partials, verified : BOOLEAN]

(* The status codes that carry a meaning for the caller.                   *)
Answers == {"ok", "failed_precondition", "unavailable"}

Ended == [op : {"done"}, answer : Answers]
Signing == [op : {"sign"}, tx : Ids, user : Users]
Reading == [op : {"export", "confirm"}, tx : Ids]
Recording == [op : {"record"}, tx : Ids, receipt : Receipts]
RequestState == Ended \cup Signing \cup Reading \cup Recording

TypeOK ==
    /\ ChainTypeOK
    /\ transactions \in Seq(TransactionRow)
    /\ Len(transactions) <= MaxProposals
    /\ signatures \in Seq(Seq(SignatureRow))
    /\ Len(signatures) = Len(transactions)
    /\ \A p \in 1..Len(signatures) : \A i, j \in DOMAIN signatures[p] :
          signatures[p][i].user = signatures[p][j].user => i = j
    /\ request \in [Requests -> RequestState]
    /\ \A r \in Requests :
          request[r].op # "done" => request[r].tx \in 1..Len(transactions)
    /\ exports \subseteq [tx : Ids, bytes : SignedTxs]
    /\ native \in BOOLEAN /\ gate \in BOOLEAN

Done(answer) == [op |-> "done", answer |-> answer]

Init ==
    /\ ChainInit
    /\ transactions = <<>>
    /\ signatures = <<>>
    /\ request = [r \in Requests |-> Done("ok")]
    /\ exports = {}
    /\ native \in Kinds /\ gate \in BOOLEAN

-------------------------------------------------------------------------------
(* Helpers.                                                                *)

IsOpen(p) == transactions[p].final_hash = None

(* user_multisigs holds a row for each key of the multisig and no other.   *)
IsMember(u) == u \in Members

(* VerifyPartial: u's own key signed exactly these fields.                 *)
VerifyPartial(u, sig, fields) == sig.by = u /\ sig.fields = fields

(* The rows nativeArtifact assembles: the K stored first.                  *)
EarliestVerifies(p) ==
    \A i, j \in 1..K :
        LET row == signatures[p][i] IN
        /\ VerifyPartial(row.user, row.sig, transactions[p].fields)
        /\ row.sig.rendering = signatures[p][j].sig.rendering

CanAssemble(p) == Len(signatures[p]) >= K /\ EarliestVerifies(p)

Artifact(p) ==
    [fields |-> transactions[p].fields,
     rendering |-> signatures[p][1].sig.rendering,
     sigs |-> {<<signatures[p][i].user, signatures[p][i].sig.value>> : i \in 1..K}]

OwnRows(p, u) == {i \in DOMAIN signatures[p] : signatures[p][i].user = u}

(* INSERT ... ON CONFLICT DO UPDATE: a row that exists keeps its place.    *)
UpsertFirst(p, row) ==
    <<row>> \o SelectSeq(signatures[p], LAMBDA s : s.user # row.user)
UpsertDuplicates(p, row) == Append(signatures[p], row)
Upsert(p, row) ==
    IF OwnRows(p, row.user) = {}
    THEN Append(signatures[p], row)
    ELSE [i \in DOMAIN signatures[p] |->
             IF signatures[p][i].user = row.user THEN row ELSE signatures[p][i]]

Free(r) == request[r].op = "done"
Finish(r, answer) == request' = [request EXCEPT ![r] = Done(answer)]

-------------------------------------------------------------------------------
(* CreateTransaction                                                       *)

CreateTransaction(u, fields) ==
    /\ IsMember(u)
    /\ native => gate
    /\ Len(transactions) < MaxProposals
    /\ transactions' = Append(transactions,
          [fields |-> fields, final_hash |-> None, verified |-> FALSE,
           onchain_error |-> None])
    /\ signatures' = Append(signatures, <<>>)
    /\ UNCHANGED <<request, exports, native, gate, chainVars>>

-------------------------------------------------------------------------------
(* SignTransaction                                                         *)

(* The row is read while still open; the gate and membership are checked.  *)
SignLoad(r, u, p) ==
    /\ Free(r)
    /\ IsOpen(p)
    /\ IsMember(u)
    /\ native => gate
    /\ request' = [request EXCEPT ![r] = [op |-> "sign", tx |-> p, user |-> u]]
    /\ UNCHANGED <<transactions, signatures, exports, native, gate, chainVars>>

(* The signatures of the other members verify, in the rendering of this one. *)
PeersAnyRendering(p, u, sig) ==
    \A i \in DOMAIN signatures[p] \ OwnRows(p, u) :
        VerifyPartial(signatures[p][i].user, signatures[p][i].sig, transactions[p].fields)
PeersAgree(p, u, sig) ==
    \A i \in DOMAIN signatures[p] \ OwnRows(p, u) :
        /\ VerifyPartial(signatures[p][i].user, signatures[p][i].sig,
                         transactions[p].fields)
        /\ signatures[p][i].sig.rendering = sig.rendering

(* From quorum on, a stored signature may not change.                      *)
MayStoreBelowOrAtQuorum(p, u) == OwnRows(p, u) # {} => Len(signatures[p]) <= K
MayStore(p, u) == OwnRows(p, u) # {} => Len(signatures[p]) < K

(* The lock statement touches the row only while it is open.               *)
LockAnyRow(p) == TRUE
LockOpenRow(p) == IsOpen(p)

(* storeNativeSignature: one SQLite transaction that takes the write lock  *)
(* on the still-open row before it reads the other members' signatures.    *)
SignStoreNative(r, sig) ==
    LET p == request[r].tx
        u == request[r].user
    IN
    /\ native
    /\ request[r].op = "sign"
    /\ VerifyPartial(u, sig, transactions[p].fields)
    /\ LockOpenRow(p)
    /\ PeersAgree(p, u, sig)
    /\ MayStore(p, u)
    /\ signatures' = [signatures EXCEPT ![p] =
          Upsert(p, [user |-> u, sig |-> sig, verified |-> TRUE])]
    /\ Finish(r, "ok")
    /\ UNCHANGED <<transactions, exports, native, gate, chainVars>>

(* VerifyMultisigMemberSignature against the stored fields.                *)
TrustedVerdict(p, u, sig) == sig.by = u
LegacyVerdict(p, u, sig) == VerifyPartial(u, sig, transactions[p].fields)

(* The legacy path: the verdict is stored; only enforcement refuses.  The  *)
(* row is not read again before the write.                                 *)
SignStoreLegacy(r, sig) ==
    LET p == request[r].tx
        u == request[r].user
        verdict == LegacyVerdict(p, u, sig)
    IN
    /\ ~native
    /\ request[r].op = "sign"
    /\ gate => verdict
    /\ signatures' = [signatures EXCEPT ![p] =
          Upsert(p, [user |-> u, sig |-> sig, verified |-> verdict])]
    /\ Finish(r, "ok")
    /\ UNCHANGED <<transactions, exports, native, gate, chainVars>>

-------------------------------------------------------------------------------
(* GetTransaction                                                          *)

(* The transaction row and its signatures are two queries, outside any     *)
(* SQL transaction.                                                        *)
ExportLoad(r, p) ==
    /\ Free(r)
    /\ native
    /\ IsOpen(p)
    /\ request' = [request EXCEPT ![r] = [op |-> "export", tx |-> p]]
    /\ UNCHANGED <<transactions, signatures, exports, native, gate, chainVars>>

ExportReply(r) ==
    LET p == request[r].tx IN
    /\ request[r].op = "export"
    /\ CanAssemble(p)
    /\ exports' = exports \cup {[tx |-> p, bytes |-> Artifact(p)]}
    /\ Finish(r, "ok")
    /\ UNCHANGED <<transactions, signatures, native, gate, chainVars>>

-------------------------------------------------------------------------------
(* CompleteTransaction / confirmNative                                     *)

CompleteLoad(r, u, p) ==
    /\ Free(r)
    /\ IsOpen(p)
    /\ IsMember(u)
    /\ native
    /\ gate
    /\ request' = [request EXCEPT ![r] = [op |-> "confirm", tx |-> p]]
    /\ UNCHANGED <<transactions, signatures, exports, native, gate, chainVars>>

(* A node checked as current; only the primary is held to that.            *)
ViewsUnchecked(primary) == 0..height
Views(primary) ==
    {v \in 0..height : primary => v + MaxLag >= height}

(* ValidateSigned: the receipt's transaction signs exactly these fields.   *)
AnyTransaction(p, t) == TRUE
ValidateSigned(p, t) == t.fields = transactions[p].fields

(* The primary answers, or the fallback (which may only confirm).          *)
FetchReceipt(r, t, primary, view) ==
    LET p == request[r].tx IN
    /\ request[r].op = "confirm"
    /\ primary \/ Fallback
    /\ view \in Views(primary)
    /\ \/ /\ ReceiptAt(t, view) = {}
          /\ Finish(r, IF primary THEN "failed_precondition" ELSE "unavailable")
       \/ /\ ReceiptAt(t, view) # {}
          /\ ~ValidateSigned(p, t)
          /\ Finish(r, "failed_precondition")
       \/ \E receipt \in ReceiptAt(t, view) :
          /\ ValidateSigned(p, t)
          /\ request' = [request EXCEPT ![r] =
                [op |-> "record", tx |-> p, receipt |-> receipt]]
    /\ UNCHANGED <<transactions, signatures, exports, native, gate, chainVars>>

(* UPDATE transactions ... WHERE id = ? AND final_hash IS NULL             *)
Written(p, hash, verified, error) ==
    [transactions EXCEPT ![p] =
        [fields |-> @.fields, final_hash |-> hash, verified |-> verified,
         onchain_error |-> error]]
UpdateAny(p, hash, verified, error) ==
    transactions' = Written(p, hash, verified, error)
(* final_hash is UNIQUE: no hash closes two rows, the statement fails.     *)
HashFree(p, hash) ==
    hash # None /\ IsOpen(p) =>
        \A q \in 1..Len(transactions) : transactions[q].final_hash # hash
UpdateOpen(p, hash, verified, error) ==
    /\ HashFree(p, hash)
    /\ transactions' = IF IsOpen(p) THEN Written(p, hash, verified, error) ELSE transactions

(* The account at the receipt's block, and at the block before it.         *)
UsedWhenRefused(p, receipt) == TRUE
Used(p, receipt) ==
    SequenceUsed(transactions[p].fields.sequence, receipt.height)

UsedBeforeUnchecked(p, receipt) == FALSE
UsedBefore(p, receipt) ==
    receipt.height < 2
        \/ SequenceUsed(transactions[p].fields.sequence, receipt.height - 1)

RecordReceipt(r) ==
    LET p == request[r].tx
        receipt == request[r].receipt
    IN
    /\ request[r].op = "record"
    /\ \/ /\ receipt.result = "ok"
          /\ UpdateOpen(p, receipt.tx, TRUE, None)
          /\ Finish(r, "ok")
       \/ /\ receipt.result # "ok"
          /\ ~Used(p, receipt)
          /\ UpdateOpen(p, None, transactions[p].verified, receipt.result)
          /\ Finish(r, "failed_precondition")
       \/ /\ receipt.result # "ok"
          /\ Used(p, receipt) /\ UsedBefore(p, receipt)
          /\ Finish(r, "unavailable")
          /\ UNCHANGED transactions
       \/ /\ receipt.result # "ok"
          /\ Used(p, receipt) /\ ~UsedBefore(p, receipt)
          /\ UpdateOpen(p, receipt.tx, FALSE, receipt.result)
          /\ Finish(r, "ok")
    /\ UNCHANGED <<signatures, exports, native, gate, chainVars>>

-------------------------------------------------------------------------------
(* A request ends without an effect: refused, timed out, a node or the     *)
(* database failed.                                                        *)
Abandon(r) ==
    /\ ~Free(r)
    /\ Finish(r, "unavailable")
    /\ UNCHANGED <<transactions, signatures, exports, native, gate, chainVars>>

(* The process restarts, maybe with other gates: requests are lost, the    *)
(* database stays.                                                         *)
Restart ==
    /\ request' = [r \in Requests |-> Done("ok")]
    /\ gate' \in BOOLEAN
    /\ UNCHANGED <<transactions, signatures, exports, native, chainVars>>

Proposed == 1..Len(transactions)

Chain ==
    \/ \E t \in SignedTxs, result \in Results :
          Deliver(t, result) /\ UNCHANGED serviceVars
    \/ CommitBlock /\ UNCHANGED serviceVars

Request(r) ==
    \/ \E u \in Users, p \in Proposed : SignLoad(r, u, p)
    \/ \E sig \in Partials : SignStoreNative(r, sig)
    \/ \E sig \in Partials : SignStoreLegacy(r, sig)
    \/ \E p \in Proposed : ExportLoad(r, p)
    \/ ExportReply(r)
    \/ \E u \in Users, p \in Proposed : CompleteLoad(r, u, p)
    \/ \E t \in SignedTxs, primary \in BOOLEAN, view \in 0..MaxHeight :
          FetchReceipt(r, t, primary, view)
    \/ RecordReceipt(r)
    \/ Abandon(r)

Next ==
    \/ \E u \in Users, fields \in Fields : CreateTransaction(u, fields)
    \/ \E r \in Requests : Request(r)
    \/ Restart
    \/ Chain

Spec == Init /\ [][Next]_vars

-------------------------------------------------------------------------------
(* Properties.                                                             *)

(* A row that holds a quorum can be exported: concurrent submissions never *)
(* leave a proposal with enough signatures that the chain cannot verify    *)
(* together (different renderings, a signature over other fields).         *)
QuorumAssembles ==
    native => \A p \in Proposed : Len(signatures[p]) >= K => CanAssemble(p)

(* Whoever asks, whenever they ask, before or after others sign, gets the  *)
(* same bytes for a proposal, so one hash finds every broadcast of it.     *)
ExportsAgree ==
    \A e, f \in exports : e.tx = f.tx => e.bytes = f.bytes

(* A closed proposal tells what the chain did with it: its final hash is a *)
(* transaction of exactly its fields that a committed block ran, verified  *)
(* when the messages succeeded and with the reason when they failed.       *)
ClosedAsTheChainDid ==
    \A p \in Proposed : ~IsOpen(p) =>
        LET row == transactions[p] IN
        /\ (row.onchain_error = None) <=> row.verified
        /\ \E i \in DOMAIN log :
              /\ log[i].tx = row.final_hash
              /\ log[i].tx.fields = row.fields
              /\ log[i].height <= height
              /\ log[i].result = IF row.verified THEN "ok" ELSE "failed"

(* A proposal whose signed bytes can still run is never closed.            *)
ClosedCannotRun ==
    \A p \in Proposed : ~IsOpen(p) => transactions[p].fields.sequence < nextSeq

(* The whole service implements the ledger it promises.                    *)
Outcome(p) ==
    IF IsOpen(p) THEN "open"
    ELSE IF transactions[p].verified THEN "executed" ELSE "failed"

Spent ==
    {[fields |-> log[i].tx.fields,
      outcome |-> IF log[i].result = "ok" THEN "executed" ELSE "failed"] :
        i \in {j \in DOMAIN log : log[j].result # "refused"}}

Ledger == INSTANCE MultisigLedger
    WITH proposals <- [p \in Proposed |->
                          [fields |-> transactions[p].fields, outcome |-> Outcome(p)]],
         spent <- Spent

ImplementsLedger == Ledger!LedgerSpec

(* Once closed, neither the row nor its signatures change, even by the     *)
(* requests that read it while it was open.                                *)
ClosedIsFinal ==
    [][\A p \in Proposed : ~IsOpen(p) =>
          /\ transactions'[p] = transactions[p]
          /\ signatures'[p] = signatures[p]]_vars

(* A member who has signed stays among the signers: no later request drops *)
(* or moves a row, the order the export depends on.                        *)
SignersKeepTheirPlace ==
    [][\A p \in Proposed : \A i \in DOMAIN signatures[p] :
          /\ i \in DOMAIN signatures'[p]
          /\ signatures'[p][i].user = signatures[p][i].user]_vars

(* FailedPrecondition lets the caller broadcast again.  A request goes on  *)
(* to answer so for a refusal in a receipt only when, as the node is asked, *)
(* no block older than the freshness bound has run that very transaction.  *)
MayBroadcastMeansNotRun ==
    [][\A r \in Requests :
          (request[r].op = "confirm" /\ request'[r].op = "record") =>
              LET receipt == request'[r].receipt IN
              (receipt.result # "ok"
                 /\ ~SequenceUsed(receipt.tx.fields.sequence, receipt.height)) =>
                  \A i \in DOMAIN log :
                      (log[i].tx = receipt.tx /\ log[i].result # "refused") =>
                          log[i].height + MaxLag > height]_vars

(* A legacy record is history: nothing is ever exported or closed for it,  *)
(* and the verdict stored with a signature is the one the boot-time sweep  *)
(* (SweepMultisigSigVerify) computes again from the stored fields.         *)
LegacyIsHistory ==
    ~native =>
        /\ exports = {}
        /\ \A p \in Proposed :
              /\ IsOpen(p)
              /\ \A i \in DOMAIN signatures[p] :
                    LET row == signatures[p][i] IN
                    row.verified <=>
                        VerifyPartial(row.user, row.sig, transactions[p].fields)
===============================================================================
