# Verification of Memba

TLA+ models of the parts of Memba whose correctness depends on ordering,
concurrency and failure, the TLC configurations that check them on small
instances, and TLAPS proofs of their main properties for every size.

Memba is a Go backend (`backend/`, ConnectRPC over SQLite), a React frontend
(`frontend/`), client packages, and realms on Gno chains that live in another
repository. What is modelled is each side's own logic: what it stores, in which
order, what it tells its user, and what it sends to a chain. On the backend
that is the shared database and the goroutines over it; on the frontend it is
what several pages of one member do with a wallet that answers late, wrongly or
not at all.

To check a run: `tlc -config Settlement.cfg MCNativeMultisig`. To check the
proofs: `tlapm FreePlayProofs.tla`.

## 1. Inventory

One SQLite database serves all components. Its pool has several connections,
so each statement, or each transaction, is the unit of interleaving. HTTP and
RPC handlers run concurrently; each background component is one goroutine
behind a ticker that `cmd/memba/main.go` starts. A restart keeps the database
and loses everything else.

The frontend has no server of its own: each page is one event loop, so every
`await` is the unit of interleaving. Pages of one browser share IndexedDB and
`localStorage`, the wallet (Adena, an extension with its own windows) and the
chain, and nothing else. A page may be reloaded or closed at any step.

### Modelled

**Multisig coordination** (`service/tx_rpc.go`, `native_multisig.go`,
`gnomultisig/transaction.go`).
State: `transactions`, `signatures`, two environment gates. Operations:
`CreateTransaction`, `SignTransaction` (a native and a legacy path),
`GetTransaction` (hands out the assembled transaction), `CompleteTransaction`
(asks a node for the receipt and closes the proposal). It talks to a primary
node and, optionally, a fallback. Hard: concurrent signers with different
payload renderings, signing again at quorum, a receipt from a node that is
behind, a refused replay of bytes that ran, two confirmations at once.
Correct when: a quorum can always be assembled, its bytes never change, a
proposal is closed at most once and exactly as the chain executed it.

**Arcade competitive boards** (`arcade/submit.go`, `store.go`, `batcher.go`,
`attest.go`). State: `arcade_runs`, a batcher goroutine, broadcasts under way.
Operations: submission with a day window and a re-simulation, the day-close
batcher with its queries, its broadcasts and its writes. Hard: a crash between
a broadcast and its record, lost answers, midnight, several boards. Correct
when: what is marked attested is on chain, no run is given up unless something
at least as good replaced it, gas is bounded, every board settles.

**Arcade free play** (`arcade/freeplay_*.go`). State: runs, quotes, outbox,
signer row, daily budget and reservations (tables `arcade_freeplay_*_v2`), and
what each worker holds in memory. Operations: store a verified run, issue a
quote, queue (authorize), claim a lease, look the run up on chain, reserve the
budget, write the broadcast marker, anchor, save the hash, confirm or record a
failure. Hard: leases that expire under a stalled worker, a crash around the
broadcast, an ambiguous answer, a re-authorization racing a worker. Correct
when: a run is broadcast at most once, under the authorization its player
agreed to and the budget that was charged; only what the realm recorded is
confirmed; the signer is never pinned for nothing.

**NFT event indexer** (`indexer/tailer.go`, `dispatch.go`, `reorg.go`,
`raw_ledger.go`). State: raw ledger, sales, listings, offers, ownership
history, tokens, collection aggregates, one cursor per realm. Operations: poll,
compare the cursor's hash, roll back, fetch, apply each event, save cursors;
seed a realm. Hard: a cycle cut anywhere and replayed, a block replaced, two
events for one sale. Correct when: the tables are those of the chain's own
history and a sale is counted exactly once.

**Publishing a public note** (`frontend/src/lib/notes/chain/request.ts`,
`intents.ts`, `chain/recovery.ts`, `os/apps/notes/PublicPublish.tsx`).
State: the durable intentions of an account, and per page the request it is
making. Operations: review, record the intention, recheck, open the wallet,
settle the intention by what is learnt, verify on chain, requote, recover from
any page. Hard: a wallet answer after the driver stopped waiting, a session or
a page that ends between the wallet's answer and the write, a node that is
behind, two pages with the same note. Correct when: whatever may still run is
on record, what is said not to be sent is not, and at most one publication of a
revision can still run.

**Signing a DAO action** (`frontend/src/os/sign/signer.ts`,
`SignerProvider.tsx`, `accountMark.ts`, `lib/dao/governanceRecovery.ts`).
State: one durable receipt per action (the lock), the requests each page knows
to be active, the call on the sheet. Operations: lock, first read of the
account, ask the wallet, interpret its answer by reading the account again
three blocks later, watch the account while the wallet is silent, verify,
release. Hard: Adena answers "rejected" also after Confirm; the account is read
from nodes that lag; the lock outlives the page and the list of active requests
does not. Correct when: "nothing was sent" is true, "cancelled" is what the
chain shows, and a page cannot send an action twice by accident.

### Not modelled yet, or at all

| component | state and operations | hard part | property to check |
|---|---|---|---|
| Multisig accounts (`multisig_rpc.go`) | accounts and members; create or join | two joins at once | every key has one member row |
| Wallet login (`auth`, `siwe`, `siwe_rpc.go`) | used nonces; challenge, login, prune | one message used twice, clock skew | a challenge opens at most one session |
| Quests (`quest_rpc.go`) | completions, claims, vouchers, ranks, badges | check outside a transaction, cached ranks | no voucher without a verified completion |
| Teams (`team_rpc.go`) | teams, members | two admins leave at once | a team with members keeps an admin |
| Activity watcher (`activitywatch`) | cursor, outbox | crash around a delivery | every message delivered, in order |
| Launchpad watcher, keeper (`launchpadwatch`) | readings, pages | undelivered page, changing treasury | a fall stays pending until it is paged |
| Block Party (`blockparty`) | scores, streaks, freezes | retries, week turn | first score of the day wins |
| Analyst (`analyst_gate.go`) | usage per wallet and day | reservation and failure | cap per wallet and day |
| Rate limiter (`ratelimit`) | windows | window edge, collector | at most the quota per window |
| Feed indexer (`feed_tailer.go`) | posts, reactions, cursor | as the NFT indexer | as the NFT indexer |
| Curation inbox (`curation_inbox.go`) | sealed messages | retry of a send, expiry | one message per client id |
| Home snapshot, proxies, IPFS cache | caches | single flight, byte budget | never from another chain; within budget |
| Poller, NFT and marketplace reads, profiles, registries, points | single statements | none | none beyond a unit test |
| Database, migrations, metrics, wiring, tools | scripts and configuration | none | type invariants hold what they establish |
| Notes: drafts, flushes, merge (`lib/notes/drafts.ts`, `draftSlot.ts`, `draftFlush.ts`, merge) | drafts with revisions in IndexedDB | a save that times out, a closing editor, two tabs | no acknowledged text is lost; the merge keeps both sides |
| Notes: comments, identities, private notes | requests with other evidence | as publishing | as publishing |
| Frontend views, wallets, games, DAO pages | React state over reads | none beyond a unit test | modelled as any legal caller |
| Packages, MCP server, contracts, realms | clients and external code | outside this state | external |

### How they interact

Handlers and goroutines share tables, never memory. The multisig service and
the free-play publisher each treat the chain as an account plus receipts; the
batcher treats the leaderboard realm as one improving entry for each address;
the indexer reads blocks that another component's transactions may fill, but
never writes. No modelled component reads another's tables, so each module
composes one component with the part of the chain it observes. On the frontend
notes publishing passes its requests to the signing driver; `NotesPublishing`
takes from the driver the outcomes it may give (nothing sent, refused by the
node, cancelled, unknown, accepted, or no answer in time), and `SigningDriver`
models the driver for requests that carry a receipt.

## 2. Plan

Order: (1) multisig, because it moves shared funds; (2) day close and (3) free
play, because they spend the operator's gas and decide what players are shown;
(4) the indexer, which serves money figures; (5) notes publishing and (6) the
signing driver, because they decide what a member is told about a transaction
that may still run. All six are done.

Next: `NotesDrafts` and `NotesMerge` (drafts, flushes and the three-way merge);
`MultisigAccounts` (composed with `NativeMultisig`, whose `IsMember` it would
justify); wallet login and its nonces; quests and vouchers; the activity
watcher's outbox; the launchpad watcher; teams; the analyst quota and the rate
limiter; Block Party streaks; the curation inbox; the feed indexer after
`NftTailer`.

Abstract specifications: `MultisigLedger`, `AnchorOnce`, `SalesFeed` and
`PublicationLedger` exist; an outbox ("every message delivered at least once,
in order") for the activity watcher is worth stating.

Theorems next: a refinement of `DayClose` to a board that only improves, and
those of the modules above. Every invariant and action property of the six
modelled components that holds is proved.

## 3. Modules

| module | models |
|---|---|
| `GnoAccount` | the chain as one multisig account: blocks, sequences, receipts (external), and what counts as a signed transaction |
| `NativeMultisig` | the handlers of the multisig service over it |
| `MultisigLedger` | abstract: proposals are open until the account spends their sequence on exactly them |
| `ArcadeRealm` | the leaderboard realm (external) and its three reasons to refuse |
| `DayClose` | submissions, `arcade_runs` and the batcher |
| `FreePlay` | quotes, outbox, signer, budget and the publisher's workers |
| `AnchorOnce` | abstract: a run is handed to the network at most once, while it is the one run in doubt |
| `MarketChain` | the NFT market's events in blocks that may be replaced (external) |
| `NftTailer` | the tailer, rollback and dispatch for one token |
| `SalesFeed` | abstract: a prefix of the final sales is counted, each once, in order |
| `NotesPublishing` | the pages, intentions and requests of one public note, with the wallet and the realm |
| `PublicationLedger` | abstract: an operation runs only while it is on record as open, open ones follow different revisions, nothing given up ever runs |
| `SigningDriver` | the calls of `executeSignature` for one DAO action, the lock, the wallet and the account |
| `MC*` | symmetry sets and constant values for TLC |
| `NftTailerLemmas` | what the operators of `MarketChain` and `NftTailer` compute: blocks, volumes, last prices, cursors, the market after each event, histories |
| `*Proofs` | theorems |

Below, an action is named after the function it models where there is one.
`PROJECT.json` gives the lines of each definition. Definitions placed just
before one they resemble, such as `UpdateAny` before `UpdateOpen`, are wrong
variants used to test that a property notices the corresponding bug; no
specification uses them.

**NativeMultisig.** A request in flight is a record in `request`; its steps are
the database statements and node answers at which others may interleave.
`SignLoad` reads the open row; `SignStoreNative` is one SQL transaction that
takes the write lock first (`storeNativeSignature`); `SignStoreLegacy` writes
without reading the row again. `ExportLoad`/`ExportReply` are the two queries
of `GetTransaction`. `CompleteLoad`, `FetchReceipt` and `RecordReceipt` are
`CompleteTransaction` and `confirmNative`: a receipt that failed is asked about
at its block and the block before, and writes only to a row still open.
`final_hash` is unique in the table (`HashFree`): of two proposals of the same
fields the chain runs one, one row is closed with its hash, and the statement
that would close the other fails, so that one stays open.
`Abandon` is any error return or timeout; `Restart` loses requests and may
change the gates. A signature is who signed what in which rendering; a hash is
the signed transaction itself. In the code the two account queries of a
receipt are separate calls, but both ask about committed blocks, so they are
one step. `native` says which kind of record the account is; `Kinds` is what it
may be in a run.

**DayClose.** `Submit` and `InsertRun` are the two halves of `HandleSubmit`
around the re-simulation, whose verdict is an input (a refused run stores
nothing). `batch.at` is the program counter of `runBatchOnce`. `AttestScore`
covers every outcome of the broadcast: landed or refused with its answer or
with the answer lost, or unknown and landing later through `mempool`.
`WriteFails` is a failed statement: a receipt that cannot be stored counts as a
failed attempt, anything else ends the loop until a restart. `leftOver` is a history
variable that nothing but one property reads: the rows that a stop between the
two writes of a settlement, or an operator, left verified behind an attested
run. `Straddle` says
whether a re-simulation may still run at midnight. The boards of one batch are
taken oldest first, and the best run of each address in rank order.

**FreePlay.** `worker[w]` is one invocation of `PublishOne`; `at` names the
call it makes next. A timestamp is kept as the time left until it; `Tick`
lets time pass, and a worker's own steps take any time, so a worker may run on
after its lease. `ReserveBroadcast` is the transaction that writes the marker
and pins the signer; `CancelUnsentBroadcast` takes it back only from the
invocation that knows `Anchor` was not called; `Anchor` either sends or finds
the authorization expired before sending; `SaveAttempt` and `Confirm` are
fenced by the lease's token. `Stop` is a crash, a cancelled context or a
failed statement. A new token is one that no row or worker holds: tokens
are random. The budget counts attempts; the fee and the deposit follow the
same comparison in the same statement and are left out. Only this attester
anchors, and it goes through the real transport, whose receipts need no hash
to be looked up. A worker that stops after the marker leaves the signer pinned
until the chain shows the run: that is the intended behaviour
(`docs/features`, `freeplay_publisher.go`), and liveness is stated for runs
the realm has recorded.

**NftTailer.** `tail.at` is the program counter of `tailOnce`. Each event is
first recorded in the raw ledger, then applied by the action of its type;
`settleSale` is one SQL transaction, and an accepted offer is resolved in
another after it. `SaveCursor` writes one realm at a time. `Interrupt` is any
failed call, panic or restart; `WatchSeeded` is a restart with another realm,
seeded to its deploy height. `MarketChain` gives every legal history of one
token on an engine that emits `Sale`, or on an older one (`saleVolume`, chosen
at the start), at most `MaxOps` operations in a block. `confirmations` is how
far behind the tip it was configured to stay. Left out: token owners and
`MarketTransfer`, collection metadata, the floor price, the poller.

**NotesPublishing.** An operation is one operation id of one request. `requests`
is what the page's code knows of it: `stage` is where `send` of `request.ts`
is, `waiting` whether the driver still waits for it, `opened` is
`walletMayHaveOpened`, `late` a pending `onSettled('unknown')`, `told` the
notice the member is shown. `Fail` and `RefuseAtNode` are the ways `send`
throws: nothing sent, in doubt, Adena's "rejected", or a node's refusal;
`SettleFailure` is its catch, and `Outcome` what the driver then says. After a
"rejected" it waits for the account three blocks later (`settling`) and says
`Cancelled` if that shows no change; the intention stays `unknown`, as
`request.ts:180` wants it. `receipts` is the table of intentions and `Settled` the rule of `settle`; every `Write` may
be refused by a session that ended or by storage. `Begin` is one IndexedDB
transaction, and the only guard between two pages. After `onWallet` the guard
(session and driver) and the request to Adena are one step (`Ask`). `Reads`
are the revisions a lagging node may answer with. The realm applies an
operation on exactly the revision it names (`Run`); other people's edits are
`ForeignEdit`. A wallet network that does not match is refused after
`walletMayHaveOpened`, and leaves the intention `unknown`: that is what the
code means to do (`signing.integration.test.ts`).

**SigningDriver.** An attempt is one call of `executeSignature`. `locked` is
the receipt in storage, `showing` the pages whose last render saw it,
`Active` the page's own list of requests. `ReadMark` is the first read of
sequence and coins, `Rejected`/`Settle` the wait of `SETTLE_BLOCKS` and the
second read, `Watch` the poll of a silent wallet, which needs the same moved
sequence twice. `Ends` is the `finally` of the call, after which its request
never reaches the wallet. `Check` is the member's "I checked the transaction",
refused while the page signs. `Release` is a call's own end: it clears the one
receipt, whichever page took it; `taken` keeps the attempts of other pages that
were under way at that moment. A block may hold any of the attempts, and
another change of the account; a transaction of a session key moves no
sequence. Coins are counted as changes, so a payment that exactly makes up for
a fee is not modelled. Requests without a receipt, proposal drafts and the
classic pages are left out.

## 4. Runs

Every property is listed with a variant of one definition that violates it
(`PROJECT.json`, "mutants"), so none holds for lack of the interesting case.

| run | what it shows | bounds |
|---|---|---|
| `signing_race` | a quorum always assembles, exported bytes never change, closed rows are final | 2-of-3, 2 requests, 2 renderings, 2 signature values, one proposal, 1 block, fallback node present |
| `settlement` | a proposal is closed as the chain did, never while its bytes may run, once; "may broadcast" is never said of bytes that have run; a legacy record is never exported or closed; `MultisigLedger` | 2-of-2, native or legacy, two proposals for one sequence, 2 requests, 3 blocks, node at most 1 behind |
| `day_close` | attested is on chain, broadcasts are bounded, no worse run after a better one, through stops, failed writes and requeues | 2 addresses, 2 logs, 1 board, one crash, failed write, requeue and foreign entry |
| `day_close_settles` | settling a board loses nothing on the other; every board settles | 1 address, 3 logs (one unfit), boards of 2 days, cycles of 1 broadcast, a crash, a failed write |
| `late_run` (fails) | see below | a re-simulation over midnight |
| `nft_indexer` | behind the reorgs nothing is ever rolled back and every sale and event is in the tables once, whatever is cut and replayed; the tables show the token, offers and history of the chain; the aggregates are those of the sales through rollbacks; `SalesFeed`; the tip is reached | 0 or 1 confirmation, 2 operations a block, 3 blocks, a reorg, 2 troubles out of a reorg, an interruption and a seeded realm |
| `nft_relist` (fails) | see below | 1 interruption |
| `free_play` | at most one broadcast, one run in doubt, as agreed and charged, failures bounded; `AnchorOnce` | 2 runs, 2 quotes, 2 workers, 1 failure, 1 attempt a day |
| `free_play_settles` | a recorded run is confirmed | 2 runs, 2 quotes, 1 worker, 2 failures, 2 attempts a day |
| `notes_cancelled` (fails) | see below | as `notes_publishing` |
| `notes_publishing` | what may run is on record, what is told not to be sent or refused is not out, one publication can still run; `PublicationLedger` | 2 pages, 2 operations, 2 foreign edits, a node 1 revision behind, 2 sessions or pages that end |
| `signing_driver` | nothing sent is true, cancelled is what the account showed, one request of a page is out | 2 pages, 2 attempts, 1 settle block, lag 1, 3 blocks, 1 other change of the account, 1 session or page that ends |

**Why the bounds are enough.** The races of the multisig need two requests:
one that has read and one that writes. Two renderings and two values of a
signature are what a pair can disagree on. Three blocks hold a refusal, the
execution and a refused replay. One sequence with two proposals is a conflict;
the proofs cover any number of sequences, blocks and members. Day close needs
two runs to have a better and a worse one, two addresses for a log bound
elsewhere, and two failures to tell retrying from parking. Two workers are a
holder and its successor, two quotes an authorization and its replacement, two
runs the competition for the account. In the indexer a replay needs one
interruption, a fork two versions of a block; `MaxTroubles` counts interruptions,
reorgs and added realms together, `MaxReadable` the blocks that are deep enough
to be read, and `MaxTotal` both, so that a long chain is checked with few
troubles and a short one with more. One price is enough there: a sale and none
are told apart, and `LastShown` and the order of sales are proved for any
prices, blocks and reorgs. It has two operations in a block, which excludes one case known to fail (an offer made, cancelled and made
again in a block). Two operations of a note are a publication and the one that
competes with it or replaces it, and two foreign edits put a revision before
and after it. Two attempts are a call and its repetition, from the same page or
from another; one settle block with lag one already lets the head be older than
the answer. The driver was also checked with `SettleBlocks` 2 over four blocks,
with one page over four blocks, and with three attempts over two blocks. It
takes three attempts for another page's call to take the lock away: without
`taken` the property is then violated in thirteen steps, with it it holds. The
proofs cover every size of both.

**Deadlock.** It is checked in the multisig and indexer runs. Elsewhere the
system may stop because its days, runs, quotes, operations or attempts run out
at their bounds, so it is not checked there.

**Symmetry** is used only in runs without liveness, over sets whose members
the specification does not tell apart.

**Fairness.**
`DayClose!FairSpec`: the batcher's ticker fires for ever and an operator
restarts a process that reported a failed cycle. No fairness is assumed of the
realm's answers: retries are bounded and end in a parked row.
`NftTailer!FairSpec`: the tailer's ticker fires for ever; reorgs and
interruptions are finite. `FreePlay!FairSpec`: time passes, each worker goes
on, and, strongly, a lookup of a recorded run succeeds and the confirming write
goes through now and then, since either may fail any number of times before.
It is checked with the one publisher goroutine the runtime starts. With two, the
specification also allows leases that always expire before a lookup returns;
the runtime excludes that with timeouts shorter than the lease, which a
countdown without durations does not express. Nothing is assumed of a member or
of Adena, so the frontend modules state safety only: a wallet may stay silent
for ever, and an intention then stays open.

### What does not hold

`late_run`: `ResolveSupersededDaily` retires every verified row of the address
but the attested one, whatever its score. A run admitted just before midnight
and stored after the batcher read its board may be the better one; it is then
skipped and never reaches the leaderboard, although the writes are said to
retire "the address's lesser runs". All other runs take `Straddle = FALSE`.

`nft_relist`: a block that lists and then sells a token is replayed after an
interruption. The listing is applied again, the sale is known and skipped, and
the token stays listed. `tailer.go:263` calls the replay safe.

`notes_cancelled`: Adena answers "rejected" also when its window is closed after
Confirm, and the account is read from a node that may be behind. If it shows no
change three blocks later the outcome is `cancelled` ("the chain agrees",
`signer.ts:304`) and the member reads "Nothing was sent" (`PublicPublish.tsx:69`),
while the publication may be with a node and still be applied. The intention is
kept `unknown`, so it stays on record (`OutIsOnRecord`) and no second one can
follow (`OneCanStillRun`); only the sentence is wrong. `NothingSentIsTrue`
therefore speaks of what failed before the wallet and of what the node refused;
how far "cancelled" may be relied on is `CancelledAsObserved` of the driver.

Others were met while modelling and are kept as hazards, with the properties
that stop short of them:

- A stop between `MarkAttested` and `ResolveSupersededDaily` lets the next
  cycle broadcast a worse run after the better one, against `store.go:106`; so
  does an operator who puts back a parked run that an attested one supersedes.
  `NeverWorseAfterBetter` excuses exactly the rows that such a step left
  verified (`leftOver`); it holds for every other row through the same and all
  other crashes, failed writes and requeues.
- A fallback node's old refusal is answered as "you may broadcast" after the
  bytes have run, although `native_multisig.go:114` lets a fallback confirm
  only. `MayBroadcastMeansNotRun` is checked and proved without a fallback node.
- A replayed mint is in the ownership history twice; `HistoryOfTheChain` is
  checked without interruptions.
- A block applied in part and then replaced keeps the old fork's sale
  (`LedgersOfTheChain` excludes it), and a reorg of two processed blocks keeps
  the lower one's rows (the runs replace one block).
- An offer made, cancelled and made again in one block is not shown as open
  (`012_nft_events.sql:68`): one row stands for both. `OffersOfTheChain` holds
  with at most two operations in a block.
- A realm seeded below the cursor drags it back, although `tailer.go:341` says
  not; the replay is harmless to the aggregates and to the catching up, which
  `nft_indexer` shows.
- The governance lock is shared by the pages and the list of active requests is
  not. A second page that began before it saw the lock, and whose call fails or
  is cancelled, clears the shared receipt and with it the lock of the first
  page, whose request may be out (`governanceRecovery.ts:21`), against
  `signer.ts:14`. `OneIsOut` excuses the attempts that were under way at that
  very moment (`taken`), and no other.

## 5. Proofs

All are for every value of the constants that satisfies the named assumptions;
a theorem that needs one more (`Straddle = FALSE`, `Fallback = FALSE`,
reorgs one block deeper than the confirmations at most, two operations in a
block at most) says so in its ASSUME.

**`NativeMultisigProofs`.** Assumptions: a finite set of keys, a threshold
between 1 and its size, natural bounds. `TypeCorrect` is inductive by itself.
`SignersStay` follows from what `Upsert` keeps. `QuorumAlwaysAssembles` needs
`RowsAgree`: all rows of a native proposal verify over its fields in one
rendering. It is stronger than the property, which speaks of the first K rows
once there are K; the invariant holds from the first row on, because the write
lock makes the check of the peers and the insert one step. `OneExport` needs
`ExportsCurrent`: every exported artifact is still the one its rows give, since
from quorum on the first K rows do not change. `LegacyStaysHistory` is by
`KindKept` (a record never changes its kind) and `LegacyQuiet`,
`ClosedStaysClosed` by cases on the writes.

**`NativeMultisigLedgerProofs`.** `ChainInv` relates the log to the sequence as
of each block: used sequences are below it and each is used once. `RecordInv`
keeps what a request holding a receipt may rely on: the receipt is of a
committed block and of this proposal's fields. With both,
`FailureIsNotRefusal` shows that a failed receipt whose sequence is used at its
block and not before is an execution, not a refusal; hence
`ClosedRowsTellTheTruth` and `ClosedNeverRuns`. `ServiceImplementsLedger` maps
creation to `Propose`, an execution to `Spend`, a first closing write to
`Settle`, and everything else to a stutter. `BroadcastIsSafe` adds
`SequencesRise`: the sequence never falls from block to block, and what ran in a
block is below the sequence as of it. A node that is current shows the last
receipt of a transaction (`Fetched`); had the bytes run by then, their sequence
would be used at that receipt's block, and the refusal would not be answered
with "may broadcast". A stale fallback breaks precisely the first half, hence
the assumption.

**`DayCloseProofs`.** What the batcher holds between its steps is the difficulty:
`BatchFits` says that each row it holds is still stored, closed and verified
(attested between the two writes), and that it holds one row of an address, so
that settling one does not invalidate another. `BestIsHeld` says no better run
of the address can be left, which is where `Straddle = FALSE` enters: on a
closed board nothing new is stored. `AnswersHold` keeps what the realm answered
true until it is written, because entries only improve and a log stays bound to
its address (`EntriesAreBound`). `AllPaid` charges every broadcast to a counted
failure, a crash, a failed write or a requeue. Together they give
`TypeCorrect`, `AttestedOnChain`, `GasIsBounded`, and, for
`Straddle = FALSE`, `NothingLost` and `NeverWorse`. For the last,
`AttestedIsLast` says that a verified row with an attested
one of its address at least as good is in `leftOver`, or is about to be retired
because the batcher stands between the two writes; so what it takes for a
broadcast is left over or better than all that was attested.
`BestVerifiedDaily` returns
at most `limit` rows since the rank of each is an injection into `0..limit-1`.
TLC checked `IInv` on both day-close instances first, and with
`Straddle = TRUE`.

**`FreePlayProofs`.** `IInv` is a conjunction of named parts. The core is
`OneBroadcaster` (a worker between marker and answer is the only one of its
run), `WorkersKnow` (what each program counter may rely on: before the send
nothing was sent and the budget is charged), `RowsMatch` (the marker stands in
exactly the rows of submitted and confirmed runs) and the tokens: two busy
workers have different ones, and a token is in the row of at most one run, the
run of the worker that drew it. `OneBroadcast` alone is not inductive: nothing
in it says that an armed worker's run is unsent. TLC checked `IInv` on the run
`free_play`'s instance before it was proved. There is one lemma per action,
then `NextIInv`, the six invariants, and `Refinement`: every step is one step
of `AnchorOnce` or a stutter.

**`NotesPublishingProofs`.** `Fits` relates a request, its intention and where
its transaction is: one that was not opened is not with the wallet, one that
was keeps an open intention until the chain shows it. `OpenDiffer` says the
open intentions of the note name different revisions; it is inductive because
`Begin` looks and writes in one transaction. `RevisionsFollow` says the
account's revisions on chain were sent on the revision before them. From these
follow `OutOnRecord`, `NothingSentHolds`, `OneRuns`, and
`PublishingImplementsLedger` (`NothingSentHolds` is about the notices "not sent"
and "refused"; for the second, `WalletUnsent` says that what the wallet holds
was never accepted by a node, so its refusal is the end of it), in which every step is one of the ledger or a
stutter: in particular `Evidence` read from a lagging node is true of the chain.

**`SigningDriverProofs`.** `Before` says the first mark was the account's at a
block before the attempt's own; with `CoinsRise` (each transaction changes the
coins, so marks differ after it, session key or not) an unchanged account at
the target block shows that the attempt is not in a block up to it. That is
`CancelledObserved`, for every lag up to `SETTLE_BLOCKS`. `Kept` is the
lock's invariant: while an attempt of a page waits and no attempt has run,
unless the attempt is excused (the member's word, another page's release while
it was under way, a cancellation), the lock is in storage, the page shows it or its
own sheet, and nothing else of that page is under way. `OneOut` needs it
together with `OneSheet`, since a page on whose sheet a call failed signs again
without looking at the lock.

**`NftTailerProofs`** (with `NftTailerLemmas`). The tables are related to the
chain block by block, and only then summed up.

- `TypeInv` includes the unique keys of the tables, and `ChainInv` what the
  chain may be: hashes are new, a block holds what its engine emits.
- `StableInv`: while no block that has its confirmations is replaced (`Stable`),
  the cursor's block and every block before it is applied (`Done`), every row is
  of a confirmed block, and the block under way is applied up to the event that
  the program counter names (`TailOnChain`), however often the cycle is cut
  and replayed. `rollback` is then never reached: `ConfirmedStaysFinal`.
- `UndisturbedInv` takes over for a tailer that may see its blocks replaced but
  is not cut: rows are of blocks as they were read, and the only one that may
  have been replaced since is the last. It needs the assumption `OneDeep`
  (`ReorgDepth <= c + 1` for every configured number of confirmations):
  `tailOnce` compares and rolls back only the block of its cursor
  (`tailer.go:225`), so a reorg two processed blocks deep keeps the rows of the
  lower one. `ReorgDepth` is 1 in every run. With both, `LedgersFollowTheChain`.
- `AggregatesFollowTheSales` adds `Counted`, which needs no history: the volume
  and count are those of the sales table after every statement. The last price
  (`LastShown`) needs more: it is the price of the latest sale only if sales
  are counted in order, and after a rollback only if the rows left are of whole
  blocks. Hence the two invariants above.
- `TailerImplementsFeed` needs no assumption. `Final` only grows when a block
  gains its confirmations, so a step of the chain is `Finalize` or a stutter;
  a new row of `settleSale` is `Count` of the next final sale, since what is in
  the table is exactly what precedes it (`SalesBefore`).
- `TablesShowTheToken` and `TablesShowTheMarket` are about the read model. `Linked`
  says that the events of each block lead from the market before it to the
  market after it, and is kept by blocks produced and replaced. `ShownInv`
  says that with every block applied once the tables show the market after the
  last whole block (`BetweenAt`) or after the events applied so far
  (`WithinAt`), with the delay of one step between a sale and the offer it
  resolves. Price, open listing and history hold for blocks of any size. The
  offers hold for blocks of at most two operations: the key of `nft_offers` is
  buyer, token and block (`012_nft_events.sql`), so of two offers made in one
  block, the first cancelled in between, only the first has a row, and it is not
  open. Three operations do this, and the theorem would be false.

Sums, last prices and histories are recursive functions. What is proved of them
is the step from one element to the next, and facts about all lengths by a
least counterexample (`LeastOf`, `CountingUp`), which needs no operator as
parameter.

**Only model-checked.** Liveness: `EventuallyConfirmed`, `Settles` and
`CatchesUp`. It rests on fairness, which is beyond the prover.

## 6. Not modelled, and limits

The components of the last inventory table are not modelled. Those marked
planned have hazards of their own, which no property covers yet: a nonce that
two logins race for (`siwe_rpc.go:166`) or that is pruned within the clock skew
(`siwe_rpc.go:267`), a Discord message accepted and not yet deleted
(`activitywatch/watcher.go:264`), a quota taken for a report that fails
(`analyst_gate.go:98`), two completions with one deploy proof
(`quest_rpc.go:251`), two admins who leave at once (`team_rpc.go:274`), a page
that is not delivered (`launchpadwatch/watcher.go:205`), a message sent again
after a lost answer (`curation_inbox.go:236`). The hazard list of
`PROJECT.json` is that of the modelled components.

Most of the TypeScript is views, game rendering, generated protocol code, seed
data, templates of contracts and configuration. None of it keeps state that two
actors share, so the lines the models stand for are a small share of the
repository, and they are concentrated where ordering decides the outcome.

Cryptography, JSON and protobuf encodings, prices and gas amounts are inputs
or sets of values. SQLite and IndexedDB are serial stores whose transactions
are atomic and durable; a write that fails leaves nothing. The HTTP layers'
size and rate limits are left out. One multisig account, one signer account,
one token and one market engine, one note and one DAO action are modelled at a
time; the tables and keys of the code keep them apart.
