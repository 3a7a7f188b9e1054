# dailydraft.fun: a TLA+ verification project

dailydraft.fun runs wagering games over collectible cards on Solana devnet. The API
(`apps/api`, NestJS over PostgreSQL through Prisma) is the coordinator: it keeps the
state of every game in rows, asks wallets to sign transactions, watches the cluster
for them, and asks card providers for packs. Several API processes and periodic
workers share the database. Nothing is locked for longer than one database
transaction, so correctness rests on guarded updates (a status or a `version` in the
`where` of an update), on idempotency keys, and on the escrow program.

This directory models that coordination, checks it with TLC and proves the core of it
with TLAPS. Paths below are relative to `src/`; `A/` stands for `apps/api/src/`.

## 1. Inventory

### Components, their state and their operations

| Component | State | Operations that change it | Status |
|---|---|---|---|
| Duel status graph (`A/duels/duel-state.ts`) | none (a table) | `canTransition`, `recoveryStatusAfterTransactionFailure` | `DuelState` |
| Duel row (`A/duels/prisma-duel.repository.ts`) | status, version, opponent, escrow, result | `create`, `join`, `cancel`, `expireTimedOut`, `transition`, `resolveOpenedPacks` | `DuelFunding`, `DuelOpening` |
| Duel funding (`A/transactions/duel-funding.service.ts`) | FUND transaction rows | `prepare`, `persistPrepared`, `recordWalletRejection` | `DuelFunding` |
| Transaction monitor (`A/transactions/transaction-monitor.service.ts`, `prisma-transaction-monitor.repository.ts`) | all transaction rows, the duel row | `bindSubmission`, `reconcile`, `recoverUnboundBroadcasts`, `recordConfirmed/Terminal/Finalized/RecoveryAlert` | FUND rows: `DuelFunding`; settlement rows: `DuelSettlement` |
| Provider opening (`A/duels/duel-opening.service.ts`, `provider-opening.repository.ts`) | two operation rows of a duel | `open`, `reservePair`, `recordGenerated`, `markOpening`, `recordOpened`, `markRecovery` | `DuelOpening` |
| Pack providers (`A/providers/`) | mock packs in process memory, `DevnetPackSnapshot` rows with a deposit lease | `generatePack`, `openPack`, `getPack` | `DuelOpening`, `PackDeposit` |
| Settlement and refund (`A/transactions/provider-settlement.service.ts`, `devnet-demo-settlement.service.ts`, `devnet-refund-orchestrator.service.ts`) | COMMIT_RESULT, SETTLE and REFUND rows, the duel row | `prepare`, `finalizeDuel`, `reconcile`, `routeToSettlement`, `complete` | `DuelSettlement` |
| Matchmaking (`A/matchmaking/`) | tickets, behaviour records, duel rows | `search`, `status`, `cancel`, `houseFallback`, `expireCommitments`, `expireTimedOut` | `Matchmaking` |
| House treasury (`A/treasury/`) | reservations, ledger, inventory, snapshots | `reserveHouseExposure`, `reconcileLifecycle`, `reconcileOnChain`, `setDisposition`, `delistInventory`, `completeDisposition` | `HouseTreasury` |
| Flip (`A/flip/`) | sessions with transitions and proofs, tiers, the acquisition outbox, rule sets, snapshots | session transitions, `selectOutcome`, `resumeFixtureAcquisition`, registrations | `FlipSession`, `FlipAcquisition`, `FlipRules`, `FlipRegistry` |
| Crash (`A/crash/`) | rounds with transitions, exposures, custody intents, settlements with operations | `createFixtureRound`, `decide`, `applyExpiredDefaults`, `ensurePlan`, `resumeFixtureSettlement`, `finalizeOperation`, `recordRecovery` | `CrashRound`, `CrashSettlement`, `CrashHistory` |
| Gacha (`A/gacha/`) | payment intents, odds, seeds, rips, inventory snapshots | `createIntent`, `claimSignature`, `verifyIntent`, `createFixtureRip`, `resumeRipLifecycle` | `GachaPayment`, `GachaRip`, `GachaOdds` |
| Wallet authentication (`A/auth/`, `apps/app/app/solana/`) | challenges, sessions; the tab's session and operations | `issueChallenge`, `createSession`, `revoke`; prepare, sign in, sign out, account change | `WalletSession` |
| Duel front end (`apps/app/app/duel-arena.tsx`, `duel/`) | page state, the stored draft | review, create, prepare, sign, submit, reconcile, restore, resume, cancel | `DuelEntry` (the guided entry only) |
| Flip front end (`apps/app/app/games/flip/`) | page state per tab, one stored payment record | prepare, confirm, resume, reset, hydrate | `GachaClient` |
| Fantasy (`A/fantasy/`) | none (calculators) | scoring, kickoff, payout | `Fantasy` |
| Receipts, leaderboard, lists, analytics, admin (`A/duels/public-*.ts`, `A/games/`, `A/analytics/`, `A/admin/`) | events; otherwise read only | `ingest`, `recordServer`; reads | `PublicProof`, `DuelReceipt`, `PublicListing`, `Funnel` |
| Policy gates and request boundary (`A/policy/`, `A/common/request-boundary.ts`, `A/health/`) | a table of rate-limited clients | the guard and the limiter | `Admission` |
| Presentation engine, simulator, sites, MCP server | none that the others read | none | not modelled |

### How they interact

    wallet --sign/broadcast--> cluster <--status, height, history-- monitor (worker)
       |  prepare, bind                                             |
       v                                                            v
    funding service --> transaction rows <--------------------- monitor repository
                             |                                      |
                             +-----------> duel row <---------------+
                                             ^   ^
             timeout sweep, join, cancel ----+   +---- opening service --> pack provider
                                                 +---- settlement service, refund orchestrator

    matchmaking --> tickets, duel row, reservation <-- treasury <--> cluster (balance, cards)
    flip:  session --> selection proof --> acquisition plan --lease--> marketplace
    crash: round --> decisions, exposure --> settlement plan --lease--> provider
    gacha: page --> intent --> claim --> wallet --> cluster --> verify --> rip --lease--> provider
    receipts, lists, reports: read the rows of all of these, several at different times

A duel goes WAITING → MATCHED → COMMITTING → FUNDED → OPENING → AWAITING_ASSETS →
SETTLING → SETTLED, and from most of these to CANCELLED, REFUNDING → REFUNDED, or FAILED.
The API never holds the money: the escrow program does. So at every point the question
is whether the row and the escrow agree, and if not, whether somebody will notice.

### What is hard

* **Two clocks.** The database and the cluster move independently. A status read from
  the RPC is old when it is written down; a finalized block height read after a status is
  newer than the status.
* **Lost calls.** A wallet may broadcast and never report. The monitor scans the
  address history of unbound intents, and must not conclude "never sent" too early.
* **Unguarded writes.** Most updates are guarded by status or version, and some
  (`recordConfirmed`, the row update of `recordTerminal`) are not.
* **Promise.all and retries.** One side of an opening fails while the other side runs on;
  a retry meets rows written by a request that is still running.
* **Leases that expire under their holder** (`devnet-demo-pack.provider.ts`).
* **Ambiguous answers.** A marketplace, a card provider, a wallet or a cluster read may fail
  after it did what it was asked. "It failed" and "it certainly did not happen" are different
  words in this code, and the money depends on which one is used.
* **Pages.** A reload, a second tab, an account change or a lost reply falls between any two
  awaits of a page; what survives is a record in `localStorage`.
* **Reads without a common transaction.** A receipt combines rows read at different times.
* **Fixed idempotency keys.** A transaction that may be prepared once only, under a
  fixed key, cannot be replaced when its row has ended badly.

`PROJECT.json` lists each hazard at the line where it bites, with the property that would
catch it.

### What makes each component correct

| Component | Properties |
|---|---|
| Funding | FUNDED is backed by two final deposits; nobody pays before the creator's deposit is final; an absent deposit is really absent; a timeout never cancels over money; every deposit is found and every intent ends |
| Opening | one piece of evidence per side decides the duel, whoever recorded it; an opening that failed half-way can be finished |
| Deposit of a pack | the row says so only when the card is in the vault; the answer does not change |
| Settlement and refund | SETTLED and REFUNDED are what the escrow says; no asset has two refunds under way; paid out is permanent; a duel in refund is refunded |
| Matchmaking | tickets and duel rows tell the same story; nobody is charged with a failed commitment unless he was late |
| Treasury | what is lost today and what may still be lost stay within the daily limit; a reservation is booked once and as the duel ended; a disposed card stays disposed |
| Flip | a session stays readable; its outcome is the one its proof derives; the rows say where the asset is |
| Crash | exposure, pot and ledger follow the round; a settlement is final only with all its operations; receipts tell what happened |
| Gacha | an ended intent took no money; a spent one has one rip; a card is handed to one rip |
| Wallet authentication | the tab uses a session of the connected wallet only; challenges are limited and used once |
| Pages | no prompt while an earlier message can still land; two tabs never pay twice; what the page says is true |
| Calculators, receipts, lists, reports | see `CalculationsAreExact` (`DrawsKeepOdds` and `BooksBalance`), `OffersHold`, `ViewsAgree`, `ReceiptIsBacked`, `CrashReceiptIsBacked` |

## 2. Plan

Modules in the order they are written, the most important behaviour first:

1. `DuelState`, `DuelFunding`, `DuelPromise`, `DuelFundingProofs`: money enters. **Done.**
2. `DuelOpening`, `PackDeposit`, `PackPromise`: packs are opened. **Done.**
3. `DuelSettlement`, `PayoutPromise`: money leaves. **Done.**
4. `Matchmaking` over `HouseTreasury`: tickets, pairings, reservations against limits; one
   run for both, since a house match holds a reservation. **Done.**
5. `FlipSession` and `FlipAcquisition`, `CrashRound` and `CrashSettlement`, `GachaPayment` and
   `GachaRip`: payment, outcome and payout are separate transactions. **Done.**
6. `WalletSession`, `DuelEntry`, `GachaClient`: the pages, against the API as the other
   modules show it. **Done.**
7. `FlipRules`, `FlipRegistry`, `GachaOdds`, `Fantasy`: the calculators against reference
   definitions; `PublicProof`, `DuelReceipt`, `CrashHistory`, `PublicListing`, `Admission`,
   `Funnel`: what the system tells about itself; `Calculators`: what those without state owe. **Done.**
8. Proofs beyond funding: opening, the refinements of `PackPromise` and `PayoutPromise`, settlement and refund, flip,
   crash, gacha, sign-in, the receipt of a duel, `Matchmaking` with `HouseTreasury`, and the two
   pages that pay (`DuelEntry`, `GachaClient`). **Done.**

Composition: `DuelFunding` ends where `DuelOpening` starts (FUNDED), which ends where
`DuelSettlement` starts (AWAITING_ASSETS, or REFUNDING). The modules share `DuelState`;
each starts from every state its predecessor can leave behind rather than from one.
`DuelReceipt` extends `DuelSettlement` and `PublicProof`, `CrashHistory` extends
`CrashSettlement`, which extends `CrashRound`; `FlipAcquisition` extends `FlipSession`,
`GachaRip` extends `GachaPayment`, `Matchmaking` extends `HouseTreasury`. `MCGames` and
`MCPlayers` put components side by side. Abstract specifications: `DuelPromise` (a duel as its
players see it), `PackPromise` (a pack opens once), `PayoutPromise` (the assets go one way).

## 3. The models

Conventions common to all modules:

* **A process** (`p`, `r`, `c`) is a request or a worker pass that has read something and has
  not yet written. `job[p]` holds what it has read. A process that crashes is a process that
  takes no further step; fairness is only assumed where a property needs it.
* **A database transaction is one step** when its writes are guarded by the status or the
  version it read, because a conflict rolls all of it back and ends the request. PostgreSQL
  runs READ COMMITTED here, so a transaction with an unguarded write (`recordConfirmed`, the
  row update of `recordTerminal`, `rejectFinalization`) is split into its read (`LoadRow`) and
  its write (`Record...`).
* **The cluster** is external: what the escrow program accepts, landing, finality, expiry of a
  blockhash. Block heights are kept relative to a message's last valid one: 0 not above it,
  1 above it, 2 above it by more than the 64 blocks of `RECOVERY_FINALITY_BLOCK_BUFFER`.
* A signature is the message it signs. A client binds only what it broadcast, and the
  wallet broadcasts exactly what was prepared. Hashes are equality of what they cover.
* Schedule fields (`nextCheckAt`, attempt counters) and RPC errors only delay a visit, and
  the model lets a visit happen at any time or never.
* A comment `Mutant:` marks a definition that is a wrong version of the next one, used to
  show that a property can fail.

### DuelState
The transition table of `duel-state.ts`, `recoveryStatusAfterTransactionFailure` and
`recoveryAlertTarget`. Every duel module uses it.

### DuelFunding
One duel from creation to FUNDED, for any set of FUND intents (`TxIds`) and processes
(`Procs`). State: the duel row with its version, the transaction rows, the processes, the
cluster's view of each intent, the heights, and the clock (`expired`). Actions: `Join`, `Cancel`;
the two halves of the timeout sweep (`ReadTimedOut`, `ExpireTimedOut`); `BeginPrepare` and
`PersistPrepared`, with the creator's row free to change between them;
`RecordWalletRejection`, `BindSubmission`; the reconciliation pass (`ReadStatus`, `LoadRow`,
`RecordConfirmed`, `RecordTerminal`, `RecordFinalized`); the scan for unbound broadcasts
(`BeginRecovery`, `ScanFound`, `ScanEmpty`, `BindRecovered`, `RecordRecoveryAlert`); and the
wallet and the cluster. `IndexKeepsHistory` is the assumption the recovery makes of the RPC
node: what is final is in the address index before the height has passed the buffer.

`DuelPromise` is the abstract specification: players deposit, the duel moves along the
status graph or by recovery, and FUNDED means two deposits.

### DuelOpening
Two providers and two sides; each request runs in a process of its own, since mock packs
live in process memory. `open` waits for both sides with `Promise.all`: when one side rejects
the request ends, and the other side runs on. `persistOpened` is returned without `await`
inside the `try`, so its errors do not mark the operation RECOVERY; the model does the same.
`FundingFails` is a second funding intent of a wallet that ends while the duel is being
opened. A devnet pack is opened at one time, but an answer may give it a later one (`AnsweredAt`,
which counts as a fault): then the first time recorded is the one that decides, a request that
got another is refused and goes by the row when it is retried. The Collector Crypt provider refuses
every call and is left out.

### PackDeposit and PackPromise
`ensureSnapshotDeposited` of the devnet provider: a call claims the lease or waits, sends
the card, and records it. Every call has its own lease owner. The time a pack was opened is
the oldest block time of the listing `getSignaturesForAddress` returns: the `SIGNATURE_LIMIT` (10)
newest transactions that name the mint, failed ones included, without those whose block time the
node does not have. `history` is all of them; `Newest` is the listing; `Return` hands back its
minimum, over all of it or over the block times that came. A listing without any makes the call throw.

So the time can move: once `NameMint` (anyone may name the mint) has pushed the opening out of the
listing, or a block time was missing, an answer may be later than the opening. `PackPromise` says
just that. Its pack is opened once; `Answer` gives the opening time while the call is `legible`,
and a time not before it after the `Fade`. In `PackDeposit` a call is legible while the
history fits the listing and no block time was missing in what the call read. An overlong history can
therefore be seen by one caller as another time than the row records: `recordOpened` refuses
it, and `DuelOpening` takes such answers into account (`AnsweredAt`).

### DuelSettlement
The rows are `<<"commit", 1>>`, `<<"settle", 1>>` (one fixed idempotency key each) and
`<<asset, attempt>>` for refunds. A row may be given a new message (`gen`); the cluster
knows each message separately, so a replaced message can still land. The escrow account is
not a variable: it is what has landed. `BeginSettle` joins `finalizeDuel`'s reads with those
that `prepare` repeats. `ReadRefunding` is the orchestrator's `findMany`, with everything
it derives from the rows; `ReadState` the finalized account it reads afterwards; `RefundNext` the
loop, which an error leaves. `checked` stands for
`lastRecoveryCheckedBlockHeight > lastValidBlockHeight`, the condition for a renewal.

Three starting points: a resolved duel; a duel that reached REFUNDING earlier, with any
deposits, known to the database or not; and a duel whose final commitment or settlement an
earlier verifier refused (`ACCOUNT_ACCESS_MISMATCH`), which the monitor has a path for.
Refunds made by operators outside the API are not modelled.

### DuelReceipt and PublicProof
`PublicProof` has the computations of `public-duel-proof.ts` and `public-duel-leaderboard.ts`
(receipt status, funding and custody states, the card actions of an owner, profile counts,
standings) as operators over a duel and its rows. `DuelReceipt` extends `DuelSettlement`
and puts its duel and rows through them, so the receipt is checked in every state a
settlement or refund can be in, late writes of the monitor included.

### HouseTreasury and Matchmaking
`HouseTreasury`: `res` (a reservation per house duel), `ledger`, `asset` (a card per opened
outcome), `snapshot`, `tier`, `rec` (the reconciler between its RPC reads and its
transaction). Actions: `Reserve`, `SetPaused`, `ReconcileLifecycle`, the on-chain reconciliation in
its steps (`ReadAccount`, `ReadSlot`, `RecordSnapshot`, `ListCards`, `VerifyCard`), and the life of a
card (`QuoteCard`, `SetDisposition`, `DelistInventory`, `CompleteDisposition`). Transactions under
an advisory lock or SERIALIZABLE are one step; what is read before them is a step of its own.

`Matchmaking` extends it: `ticket`, `behavior` and `call`, one call per wallet. A call keeps
its start time, works through the commitments and searches it found due
(`ExpireCommitment`, `ExpireSearch`), then searches, polls, cancels or falls back to the house
(`AssignCandidate`, `CreateSearch`, `Cancel`, `HouseFallback`, `PersistRefusal`). One pack, region and
risk segment: two segments share nothing but the wallet's own ticket.

### FlipSession, FlipAcquisition, FlipRules, FlipRegistry
`FlipSession`: the row `flip`, its append-only `flipLog`, the audit `proof`, the tier
switch. A transition is `FlipTransition`, guarded by status, evidence contract and transition key;
`ConfirmStake` admits a stake against provider health read earlier; `SelectOutcome`,
`EnsurePreparedProof`, `RecordSelection`, `FinalizeProof` are the four transactions of a selection,
between which a call may die. `SessionLedgerValid` is what `findSession` verifies on every read.

`FlipAcquisition` adds the plan `acq` of a purchase and a transfer, the workers of
`resumeFixtureAcquisition` with their lease, and the marketplace (`trade`, external). An answer is
an error, a definite refusal or a receipt; only a definite refusal opens a reviewed branch.

`FlipRules` holds the reviewed bands, eligible entries, committed outcomes, admission and
draw; `FlipRegistry` what the tables of rule sets, snapshots, pools and policies accept.

### CrashRound, CrashSettlement, CrashHistory
`CrashRound`: rounds with their log, exposures, custody intents. `CreateFixtureRound`;
`BeginDecision`, `ResumeRound`, `DecideRound`, `ResumeAfterConflict` for `decide`; `SweepExpired` for
`applyExpiredDefaults`. `ValidCalculatorRules` has the limits of the code, a contribution to the pot of up
to `MAX_POT_CONTRIBUTION_BPS` (a hundred times the stage's value) and `MAX_RULE_STAGES` stages. What everybody else reserves is the number `houseRoom`, which changes at
any time. `CrashSettlement` adds the plan of operations and the settlers of
`resumeFixtureSettlement`; `EffectArrives` is a side effect that is carried out after its caller
has given up. `CrashHistory` is the receipt: the round is read at some version and the rest
later, and `SettlementVerified` is `assertVerifiedSettlement`.

### GachaPayment, GachaRip, GachaOdds
`GachaPayment`: intents, the transfer of each signature on the chain, calls between their
transactions. `BeginIntent`, `ReadChain`, `ReleaseClaimed`, `CreateIntent`; `ClaimSignature`;
`BeginVerify`, `FetchTransaction`, `WriteVerification`. `GachaRip` adds the machine's odds and
snapshots, seeds, rips and the provider: `BeginReadiness`, `CreateFixtureSnapshot`, `CommitOdds`,
`CreateSeedCommitment`, `CreateFixtureRip`, then the leased lifecycle (`ClaimRipLease`, `Reveal`, `AcquireCard`,
`CardAcquired`, `FailLeasedRip`, `Settle`, `ReleaseRipLease`). `GachaOdds` is which card two seeds name.

### WalletSession
The rows of challenges and sessions, one tab (`tab`) and its operations (`authOp`), balance
reads in flight (`reads`). A generation counter that only ever invalidates what is in flight
is kept as the flag `current` of each operation. The wallet changes accounts, the player
signs out, the page is reloaded and messages are lost at any point.

### DuelEntry
The guided entry of `duel-arena.tsx` for the creator of a direct or house duel: `page`, the
stored `draft` (an effect keeps it equal to the page), the awaits of the main action and of the
restore (`entryOp`). When the phase, the rejected intent or the saved entry changes, the draft effect
runs again: its cleanup enables the buttons, and the restore in flight goes on as `late`: its requests
still reach the API, its result is ignored. One such restore is kept. All this is played against the API as `DuelFunding` shows it (`Preparable`, `Monitored`: one open
intent of a wallet, dropped only if its message cannot land or was declined). `resigned` marks the
one case the property leaves out: a wallet that signs after it reported a rejection.

### GachaClient
The tabs of one browser on the flip page: one recovery record in `localStorage`, storage
events, the broadcast lock, and the awaits of prepare, confirm, resume and reset, against the API as
`GachaPayment` and `GachaRip` show it. `told` is what the page last said of the payment.

### Fantasy, PublicListing, Admission, Funnel
Operators only. `Fantasy`: score, kickoff, payout. `PublicListing`: keyset paging, verified
activity, attention lists. `Admission`: the request boundary, the real-value policy, the
limits on a new duel, and the lobby that announces them. `Funnel`: the analytics log and its report. Each
states its reference definition as a property of an input. `Calculators` puts these inputs, and those
of the flip and gacha draws, side by side with what each owes; `MCGames` enumerates them.

### The instances of several components
Components that share no rows are explored in parts of one run: the variable `part` says which
one moves, and the others stay where they are. `MCPlayers` has the parts queue, exposure,
alerts and custody (matchmaking and treasury), auth, expiry, limit and balance
(`WalletSession`), entry (`DuelEntry`), tabs and reloads (`GachaClient`). `MCGames` has stake and acquire
(flip), decide, exposure and settle (crash), boot, pay and rip (gacha), and rules, which takes no
step: its initial states are the inputs of the calculators. A part that starts in the middle
(acquire, settle, rip, exposure, alerts, custody) starts from rows that the earlier part leaves
behind.

## 4. Runs

| Run | Instance | Distinct states | Shows |
|---|---|---|---|
| `funding` | 2 intents, 2 processes | 1.2 M | the safety properties of funding and the refinement of `DuelPromise` |
| `funding_live` | 2 intents, 1 process | 46 k | `UnboundDepositIsFound`, `IntentsAreSettled` |
| `creator_failure` | 2 intents, 1 process | violation | finding 1 |
| `failure_keeps_refund` | 2 intents, 1 process | violation | finding 2 |
| `opening` | 2 requests, 2 values, 1 fault or late answer | 1.1 M | `ResultIsTheRecordedOne`: one recorded piece of evidence per side decides |
| `opening_live` | 1 request, retried, 3 faults | 182 k | `OpeningCompletes` |
| `deposit` | 2 calls, 2 faults, 3 instants, a listing of 2 and up to 3 transactions of others | 278 k | `SnapshotIsBacked`, refinement of `PackPromise`, `LandedPackIsAnswered` |
| `settlement` | 2 processes, 1 card, 2 attempts, 1 message, 1 fault | 2.0 M | `SettledIsBacked`, `OneRefundInFlight`, the refinement of `PayoutPromise` (`PaidOneWay`), and the receipt at every moment (`ReceiptIsBacked`) |
| `settlement_live` | 1 process, 2 payments, 2 attempts, 2 messages, 1 fault | 40 k | `PaidOneWay` where a refund can stop half-way, `RefundCompletes` |
| `players` | 2 wallets, 2 duels, 2 tabs, 2 accounts | 2.2 M | `TicketsAgreeWithDuels`, `OnlyTheLateAreCharged`; `ExposureWithinDailyLimit`, `ReservationFollowsDuel`, `DisposedIsFinal`; `WalletSessionIsCurrent`, `ChallengesAreLimited`; `PromptIsSafe`; `GachaClientIsSafe` |
| `games` | 1 session, 2 rounds, 2 rips, 2 callers of each | 1.5 M | `FlipSessionsStayReadable`, `SelectionIsProven`, `FlipAssetIsAccounted`; `CrashExposureFollowsRounds`, `CrashSettlementIsBacked`, `CrashReceiptIsBacked`; `GachaPaymentIsAccounted`, `GachaCardIsAccounted`; `CalculationsAreExact`, `OffersHold`, `ViewsAgree` |
| `crash_history` | as `games` | violation | finding 3 |

What the larger properties say:

* `PaidOneWay`: an asset leaves the escrow once; some go back to their owners or all go to the
  winner, never both. SETTLED and REFUNDED come after the last of it (`SettledIsBacked`,
  `RefundedIsBacked`) and are never left (`PayoutIsPermanent`), which the proofs also state each on its own.
* `ReceiptIsBacked`: a public receipt never claims a settlement or a refund the escrow has not
  made, in whatever order the rows it is made of were written.
* `TicketsAgreeWithDuels`, `OnlyTheLateAreCharged`: the expiry pass works from rows it read
  before other calls dissolved and rebuilt the pairs; nobody is lost or charged for it.
* `ExposureWithinDailyLimit`: two house fallbacks admitted at the same time cannot both use the
  last of the daily limit, and a loss moves from reserved to booked without a gap.
* `FlipAssetIsAccounted`, `CrashSettlementIsBacked`, `GachaCardIsAccounted`: a lease that ran out
  under a caller who is still waiting for an answer never makes the rows claim something
  that did not happen, or do a thing twice.
* `GachaPaymentIsAccounted`: the intent that the API releases, to let the player pay
  again, took no money and can take none later.
* `PromptIsSafe`, `GachaClientIsSafe`: the promises the pages make in words
  (`STILL_RECONCILING_PAYMENT`, "declined", "failed on the chain") are kept across reloads, lost replies and
  two tabs.
* `CalculationsAreExact` (its parts are `DrawsKeepOdds` and `BooksBalance`), `ViewsAgree`: each
  calculator against its reference definition, over all its inputs within the bounds.
* `OffersHold`: what one part shows (the lobby's modes, the activity list, the operators' lists) is
  what another part, which reads the same signals by itself, will do or has done.

**Bounds.** Two intents give one for each participant, or two of one participant; two
processes give every race between a read in one and a write in another (the proofs of section 5
cover any number of both, here and for the other modules they list). One asset is enough for races on a refund row; two are
needed to tell "every known asset" from "every asset": in `settlement_live` they are the two
payments, one of which the database may not know of (finding 1 leaves such a deposit behind).
There one payment can also go back and the other not yet; that no award follows is the refinement's
proof, over any number of assets. The races on a card are in `settlement`. One fault lets a transaction fail or
an answer be lost once and the retry succeed. `MaxAttempts` cuts the attempts: an attempt
beyond the bound is not made, and one fault does not use up two attempts.

In `players`, a daily limit of one stake and two house duels make the limit contested;
`MaxCalls` 4 is two calls of each wallet, enough to match, dissolve and match again under an expiry
pass that has read the first pair; `MaxTime` passes a commitment window, a snapshot's age and a day.
Three challenges and a limit of two let the limit refuse; three entry intents let one be
replaced twice; two reloads or storage faults are one during the payment and one during its
recovery. In the part tabs there are no storage faults and one order, in the part reloads one
tab and two orders: the tabs' races are about one order, a second order needs the first to end.
In `deposit`, a listing of two and up to three transactions of others let the opening drop out of
the listing before, between and after the answers of the two calls, and a listing of two whose one
block time is missing gives either. In `opening`, `MaxSourceAge` 1 lets a late time be
recorded, and `ExpiresAt` 0 lets that be too late. In `games`, two crash stages add three and
seven halves of the stage's value, more than all of it, as the rules of the code may (`BPS_SCALE` 2);
two callers race for every lease and every lock; two flip outcomes and two
entropies let a second selection differ; two crash stages with different pots and a wallet
limit below twice the largest pot make the limit bind; two intents, signatures, seeds and cards
let each be confused with another. `MaxHealthAge` 0 and `MaxFlipTime` 1 are one moment in which a provider's
report is fresh and one in which it is stale. `FirstRipHasKey` fixes which of the two rips was asked
for with an idempotency key; the other one has it too, or not. Scales of the calculators
(`FLIP_PROBABILITY_SCALE_PPM` 4, `UINT64_RANGE` 10, `UINT32_RANGE` 6) are such that remainders occur:
10 and 6 are no multiples of 4. Version bounds (`MaxVersion`, `MaxPlanVersion`, `MaxSettleVersion`) are
above what a run of the protocol without a repeated recovery needs.

Symmetry is used for callers, seeds and cards, and for wallets and duels, which no
action tells apart; no liveness property is checked under symmetry.
`CHECK_DEADLOCK FALSE` is set because all of these protocols end.

**Fairness.** A request or pass that has begun runs on (weak fairness): Node runs it and
every wait in it has a timeout. A worker visits every open row again and again (strong
fairness: a visit needs an idle process and the row in a state that changes meanwhile); the
reconciliation loop is periodic, oldest first, and rows are rescheduled, never dropped. Recovery
looks at a row for 24 hours, and the model assumes a visit falls in that time. The cluster
decides every transaction. In `settlement_live` the index does not miss a final
transaction for ever; nothing is assumed of players or of the settlement rows. Faults are never
fair. `players` and `games` state no fairness and check safety only: the games and pages go on
when a player or an operator asks them to, and no worker of the code promises more.

## 5. Proofs

TLC shows the properties on the instances of section 4; the theorems below hold for every value
of the constants the named assumptions allow: any number of players, sessions, rounds, callers,
workers, attempts and faults. `PROJECT.json` lists them with the property each one states. A
proof module extends the module it is about; games and gacha are proved for the
composition of their two modules, started from empty rows, so what a later part starts from
is derived and not assumed.

| Module | Theorems | Assumes |
|---|---|---|
| `DuelFundingProofs` | `FundingInvariant`; `TypeCorrect`, `FundedBacked`, `OpponentSecond`, `RefundHasEscrow`, `TimeoutSpares`, `AbsenceCertified` (with `IndexKeepsHistory` as a hypothesis); `PromiseHolds`: `DuelFunding` refines `DuelPromise` | `FundingConstants` |
| `DuelOpeningProofs` | `OpeningInvariant`, `OneResult`, `OpeningDecidesOnce` | `OpeningConstants` |
| `PackDepositProofs` | `DepositInvariant`, `SnapshotBacked`; `PromiseKept`: `PackDeposit` refines `PackPromise` | `DepositConstants` |
| `DuelSettlementProofs` | `SettlementInvariant`, `SettledBacked`, `RefundedBacked`, `OneRefund`, `PayoutPermanent` (an action property); `PayoutHolds`: `DuelSettlement` refines `PayoutPromise`; `ReceiptBacked`, over `DuelReceipt` | `SettlementConstants` |
| `CardGameProofs` | flip: `FlipInvariant`, `SelectionProven`, `AssetAccounted`, `SessionsReadable`, over `FlipSpec`; gacha: `GachaInvariant`, `GachaPaymentAccounted`, `GachaCardAccounted`, over `GachaSpec`; tabs: `ClientInvariant`, `ClientsAreSafe`, over `ClientSpec` | `FlipSessionConstants`, `FlipAcquisitionConstants`; `GachaPaymentConstants`, `GachaRipConstants`; `GachaClientConstants` |
| `GameProofs` | crash: `CrashInvariant`, `CrashRoundsKeepExposure`, `CrashSettlementKeepsBacking`, `CrashReceiptKeepsBacking`, over `CrashSpec`; fantasy: `BooksAlwaysBalance`, for every input of the league's calculators (`BooksInput`), from `PayoutIsExact`, `KickoffsSealOnce`, `ScoresCountUnitsOnce`; draws: `DrawsAlwaysKeepOdds`, for every input of the flip and gacha calculators (`DrawsInput`), from `CommittedPoolsArePlayable`, `RegistriesAreFinal`, `AmountsAreExact`, `GachaDrawsKeepOdds`; both: `CalculationsAreAlwaysExact`; views: `OffersAlwaysHold`, for every row, environment and lobby (`OffersInput`), from `ListedActivityIsVerified`, `AttentionAlwaysHasReason`, `ProductionAlwaysNeedsPolicy`, `OffersAreAdmitted`, `SummariesTellRefusals` | `CrashConstants`, `CrashSettlementConstants`; `FantasyConstants`; `FlipConstants`, `GachaOddsConstants`; none of `Admission` or `PublicListing` |
| `PlayersProofs` | `MatchInvariant`, `TicketsStayWithDuels`, `ExposureStaysWithinLimit`, `ReservationsFollowDuels`, `DisposedCardsAreFinal` and `TheLateAreCharged` (action properties), over `MatchSpec`; sign-in: `AuthInvariant`, `AuthTypeCorrect`, `SessionCurrent`, `ChallengeLimit`, over `WalletSpec`; entry: `EntryInvariant`, `PromptsAreSafe`, over `EntrySpec` | `TreasuryConstants`, `MatchmakingConstants`; `WalletSessionConstants`; `DuelEntryConstants` |
| `Totals` | lemmas on sums over finite sets, for the wallet exposure of crash, the daily loss of the house, the fantasy payout and the odds of bands | none |

The assumptions say that null values are no members, that numbers are numbers and that the
rules a service is configured with have passed its own validation (`ValidStateRules`); every run
evaluates them.

No property is inductive by itself. What the invariants add, and why:

**Funding** (`FundingInv`).

| Part | Why it is needed |
|---|---|
| `RowsHaveOwners`, `JobsHoldIntents` | a process that is about to write holds an existing row, of a participant |
| `FinalityIsStable` | a row or a process that says "finalized" is about a transaction that is final on the cluster, and stays so: this carries the fact from the RPC answer to the quorum |
| `OpponentWaits` | a request about to insert the opponent's row implies a final deposit of the creator: what one transaction checked still holds in the next |
| `EscrowStored` | the statuses that lead to REFUNDING have stored the escrow address |
| `SnapshotsAge` | the sweep's snapshot, with the version it carries, still describes the row if the version is unchanged |
| `HeightSettles` | an intent whose height has passed the buffer cannot land any more, and if it landed the index has it |

**Opening** (`OpeningInv`). The evidence a request is about to persist is complete, and a side that is
done belongs to an operation row that is OPENED (`SidesCarryEvidence`); only a request whose two
sides are done compares them (`ResolveAfterBoth`). An OPENED row is never rewritten
(`OpeningDecidesOnce`), so a second request that opened other packs compares what the
first one recorded.

**Deposit** (`DepositInv`). Only a transaction that filled the vault reads as landed (`LandingIsSeen`); the
block times of the history never go back (`HistoryIsOrdered`), so the oldest of any listing is
not before the first one; and a call that has returned holds the first one as long as the listing
shows all of the history and no block time was missing in what it read, and no earlier one in any case
(`ReturnsOpenedAt`). The refinement maps the opening of the abstract pack to the first block time
once the vault is filled, and `legible` to that condition; the limit of the listing is arbitrary.

**Settlement and refund** (`SettlementInv`). A row leaves the monitor's hands only when the cluster
has decided its message (`ClosedIsDecided`). What a process read from the cluster is still true
when it acts on it (`KnowsTheChain`): only facts the cluster does not revise are kept. An attempt
is planned and made behind attempts that are over (`KeepsTheOrder`, `AttemptsInOrder`), which is
what leaves one refund of an asset in flight at most.

**The payout** (`SettlementInv` with `EscrowOneWay`). An asset is where the final transactions have
put it (`Whereabouts`). `EscrowOneWay` says what the escrow program's conditions add up to over
any order of landings: a settlement is behind the commitment, the commitment behind a full escrow,
and no refund is behind the commitment. Every step is then a refund, the award of everything, a move of the
status that what is final already backs (`SettledIsBacked`, `RefundedIsBacked` after the step), or
a stutter. Recovery takes an awarded duel from REFUNDING to SETTLED at once, which is not an
edge of `duel-state.ts`; the promise names that step.

**The receipt** (`SettlementInv` with `ReceiptInv`). The receipt is computed from the rows, so the
invariant says what a row may tell: FINALIZED, or an alert, only of a message that is final on the
cluster (`RowsTellFinality`), and a process on its way to an alert has found it there
(`JobsTellFinality`). A late write may take the word FINALIZED from the row of a settlement but
never its signature (`SettledIsSigned`), which is why a settled duel's receipt still names it.

**Flip** (`FlipInv`). `LedgerInv`: the log of a session is a path of its state machine, entry for
entry, and ends in the session's status (`SessionShaped`); its outcome is the one its proof
derives (`SelectionFits`). `AcquisitionInv`: the operations of the plan say what the marketplace did
(`PlanFits`), and a worker knows of its operation what nobody can take back, even if its lease
has gone to another worker (`WorkerKnows`).

**Crash** (`CrashInv`). `RoundInv`: the ledger of a round has one entry for each stage and one for the
end (`LedgerFits`), its reservation and intents follow its row (`MoneyFits`), a call asks
something of a round that exists (`CallsFit`), and the active reservations of the wallet sum up to
no more than its limit. `SettlementInv`: the operations are those of the plan and are carried out
in its order (`PlanFollowed`), the count is theirs (`CountFits`), and a settler that is past an
operation finds it final whoever did it (`SettlerFits`). The plan is computed from the ledger
each time, so the proof shows that the ledger of an ended round does not move. Sums over sets
are folds, which induction would unfold; the proofs use the smallest finite set that would be
a counterexample instead (`TotalsExist`, `TotalSplits`, in `Totals`).

**Gacha** (`GachaInv`). `PaymentInv`: only the signature an intent was claimed with can move its money
(`ClaimedAloneMoves`, `StatusTellsClaim`), a wallet has one open intent (`OneOpenIntent`), and what
a call has read of the chain still holds when it writes (`KnowsTheTransfer`). `RipInv`: a spent
intent, a consumed seed and a rip are made together (`RipsAndSpending`), what the provider was
asked for is the card of the row (`HandedFollowsRip`), and a call that works on a rip knows what
its lease may no longer protect (`KnowsTheRip`).

**Sign-in** (`AuthInv`). A deleted challenge is older than the window that counts it, and a session is
of the wallet of the one challenge it consumed (`RowsFit`); an operation that is still current is of
the connected wallet and of nothing the player signed out of (`OpKnows`), and so are the
session and balance the tab shows (`TabKnows`).

**Guided entry** (`EntryInv`). At the API a wallet has one open intent, and what may have been paid is
never dropped (`ApiFit`). A page offers a payment, a handler signs or prepares, only when nothing may
have been paid (`PageFit`, `MainFit`); that the duel is `matched` and no intent is open shows it
(`NothingIsOpen`). The rejected intent the page still reports was not signed; the restore works
on the page's, since a change of it makes the effect run again (`RestoreFit`), and a restore that was
overtaken that way may still drop its intent only when that one is closed or the page offers no
payment (`LateFit`). Every step but the wallet's signature makes no payment and reopens nothing
(`ApiGoesOn`), so these facts stay true while others move.

**The tabs of the flip page** (`ClientInv`). A signed transaction pays one intent, the API claims for
an intent only a transaction that pays it, and none but a claimed one was sent (`ClaimsFit`): a tab
that is about to send has found its own bytes in the claimed row, and a claim is never taken back
(`Grows`). What a record names, in the storage or in a tab, was signed (`RecordFits`), whoever wrote
it and whenever it is read; an operation knows between its awaits what no other tab can undo
(`ClientOpFits`). A tab may say that a transfer was declined only before it has bytes, and that it
failed only when the cluster said so (`ToldFits`). The record of a tab may belong to another intent
than its operation, and the invariant allows it.

**Matchmaking and treasury** (`MatchInv`). Every move of a duel row counts its version, and only its
funding moves it otherwise. So what a request read before an `await` is either still the row, in
every field the request decides by, or the guarded update finds another version (`SeenFits`,
`DueFits`); a dead row stays dead, which is what lets a request clear tickets after the duel
was ended (`TicketsFit`). A reservation follows the resolution of its duel (`DuelsFit`): it
leaves the active set in the step that books the loss of its day, so that one unit moves
from the reservations to the ledger, and a new one is admitted only below the limit
(`ExposureFits`). The loss of a day is a sum over the ledger's entries of that day; an appended
entry adds its amount to its own day at most (`LossGrows`), and a new day starts from nothing, as
no entry is dated ahead (`DaysAdvance`). A disposed card has a version above every one the
reconciliation has listed (`CardsFit`), so the verification that comes late changes nothing.

**The fantasy payout** (`PayoutIsExact`). Nothing moves here; the argument is about sums. The cells
of the rules are counted one by one, so the points of the filled places are those of distinct
cells and add up to no more than `BASIS_POINTS_TOTAL` (`PointsAddUp`). Every division rounds
down by less than one unit: the allocations stay within the pool and leave less than one unit for
each place (`AllocationsAddUp`), the rewards of a place leave less than one for each holder
(`ResidualIsDust`), and two roundings cost a holder less than two (`RewardsAreFair`).

**The rest of the league** (`BooksAlwaysBalance`). `BooksInput` says that lists are lists, amounts are
numbers and custody references can be ordered. A score is a fold, so the totals of the first
components are derived as a table first (`ScoreSteps`), and three of them are compared step
by step (`ScoresAdd`, `OneStatScores`, `TurnedScores`). The place of a holding in the snapshot is its rank
among the custody references (`OrderedByCustody`), so the entries are a renaming of the holdings,
and so are the holdings read backwards; a renaming leaves a sum as it is (`RenamedSum`).

**What is shown** (`OffersAlwaysHold`). `OffersInput` says that fees are paid by the players of the
duel (the type invariant of `DuelFunding` has that of every row: the service refuses another
wallet), that a policy's approvals are of the known keys, and that the wallet that asks has no
duel yet and the limit of duels per wallet is at least one. A receipt without a missing field has
each of them (`CompleteReceipt`); a document is refused for the first approval it lacks
(`ParsedPolicy`). The rest follows a request through both sides of the comparison.

**The draws** (`DrawsAlwaysKeepOdds`). Nothing moves here either; the hypothesis `DrawsInput` says that
lists are lists and numbers are numbers, and what is refused is part of the property. A range of
numbers holds as many of each residue, or one more of the low ones (`ResiduesCounted`); rejecting the digests
above the largest multiple makes it exact (`AcceptedIsWhole`). The rolls of a band are those between the sum
of the bands before it and its own, so it has `ppm` of them (`RollsCount`); the index of a card
is its rank, and each rank is one card (`NthIsRanked`). A snapshot is built candidate by candidate,
and `AdmittedFits` says after each what is admitted, within both limits, and why the others are not; what it
admits meets the checks of the two services that come later. Powers of ten are a recursive
function (`TenTo`), which the provers know nothing of, so its defining equations are derived first
(`TenToUnfolds`). The registry is a fold over requests: after each one (`RunFits`) every table has one row a
key, rows answered for are still there, and each row was created by one request. Induction
over the candidates, the exponents and the requests goes by the least exception in a set
(`LeastExists`, `NumbersInduct`).

The step lemma for each part goes through the actions; lemmas such as `StepGrows`,
`RowsGrow` and `TradesKept` say once what any step can do to a row, and the others rest on them.

Model-checked only:

* liveness (`UnboundDepositIsFound`, `IntentsAreSettled`, `OpeningCompletes`, `LandedPackIsAnswered`,
  `RefundCompletes`): fairness and ENABLED are out of the prover's reach;
* `ViewsAgree`: the standings, pages, the rate limiter's table and the funnel sort, filter and fold
  sequences with `SortSeq` and `SelectSeq`, of which the provers know no facts;
* the findings of section 6, which are counterexamples.

Every other property of the passing runs is stated by a theorem.

## 6. Findings

1. **A deposit that lands between two reads** (`creator_failure`).
   `transaction-monitor.service.ts` reads the signature statuses, and the finalized block height
   after them (line 185). A transaction that lands in between is missing from the first and
   expired by the second: the row becomes EXPIRED and the duel CANCELLED while the escrow
   holds the deposit. The policy test says the cancellation is right "because no asset was
   deposited".
2. **A failing opponent ends a refund** (`failure_keeps_refund`). `recordTerminal` applies the
   recovery table to whatever status the duel has by now. After the timeout sweep moved the
   duel to REFUNDING, the opponent's expiring transaction moves it on to FAILED, which the
   refund orchestrator does not select.
3. **A recovered settlement cannot be read** (`crash_history`). `finalizeOperation` sets a
   settlement that had been RECOVERY_REQUIRED back to PENDING
   (`crash-settlement.service.ts:948`) and leaves `round.settlementStatus` at RECOVERY_REQUIRED.
   `assertVerifiedSettlement` compares the two, so the receipt, and every page of the history that holds the
   round, is refused until the settlement is settled; the history's tests show a receipt for
   every state.

Observations made while modelling, which no doc, comment or test contradicts:

* Flip and crash: an operator may recover a session between the applied purchase and its
  record (`flip-acquisition.service.ts:283`); `recordRecovery` updates the operation and
  the round without the lease, so a late one can replace RECONCILE_ONLY and make a receipt say "failed" (`crash-settlement.service.ts:442`); a risk policy
  with fewer stages than the calculator leaves a round that can only cash out
  (`crash-risk.policy.ts:557`); an ended round has no receipt before its plan exists.
* Gacha: two bands with one minimum leave a band with odds and no cards; a 32-bit word modulo
  the number of cards favours the first ones by at most one part in 2^32 divided by it.
* The flip page: after a lost reply of `createRip` the page can say that the previous approval
  expired before it was sent, although it paid for a rip (compare `flip-machine-actions.test.ts:1306`);
  `verifyIntent` refuses a CONSUMED intent (`gacha-payment.service.ts:508`); a second tab clears a record
  that awaits a signature in the first; a record of a dropped transaction stays locked.
* Duel pages: a late restore of a matchmaking session, and a rejected intent that is remembered
  after it was replaced (`duel-arena.tsx`).
* Monitor: a late `recordConfirmed` takes a FINALIZED row back
  (`prisma-transaction-monitor.repository.ts:604`). The receipt then shows less than happened,
  never more: `ReceiptIsBacked` holds.
* Lists and reports: a row that commits late with an older timestamp is missed by a cursor that
  has passed it; `duel_created` is recorded again when a request is replayed (the report counts
  duels, not events); the rate limiter forgets its oldest client when its table is full.

## 7. Hazards without a property

`PROJECT.json` lists two: a deposit that finalizes after the sweep cancelled its duel is left to
an operator (`prisma-transaction-monitor.repository.ts:715`), and a ledger entry made while the
reconciler reads the chain is counted on one side only, so a reconciliation can report
a difference that is none (`house-treasury.service.ts:269`). The model has both behaviours, so no
property forbids them.

Further behaviours for which the code promises nothing: two prepare requests of one wallet can
both insert an intent (the escrow refuses the second deposit; `PersistPrepared` makes check and insert
one step); mock packs do not survive a restart; a pack opened, or recorded with a time, after
the duel's end leaves the duel in OPENING; a card without recorded outcomes
blocks the refund of the payments behind it; a commitment or settlement that ended badly is
never prepared again under its fixed key. The liveness properties name these as accepted ends.

## 8. What is not modelled

* The presentation engine (timing by animation frames), the simulator (its answers are
  estimates), the docs and marketing sites and the MCP server (they forward to the API).
* Rendering, sound and wording of the pages; the page's own matchmaking queue; the opponent's
  entry, which is the creator's without the creation.
* Instruction and account encoding of the escrow client, SHA-256 and Ed25519: equality of what
  they cover. HTTP validation of fields; a value that fails it never reaches a handler.
* Response caches, metrics and logs, the leaderboard's cache.
* Refunds and card deposits an operator signs outside the API; Collector Crypt, whose provider refuses
  every call.
* Conditions that only refuse more: the key, version, timestamp and u64 checks of a pool commitment
  (`PoolCommitable` and `CreateFixtureSessionPoolCommitment` admit more than the code) and the match of
  failure code and recovery reason in `RecoveryIsUnderstood`. `ConfirmStake` may be denied at any time,
  which stands for an inventory that is stale or degraded.
* The signature limit of the funding scan. A full page certifies no absence (`scanComplete`), so the
  safety properties do not depend on it; `UnboundDepositIsFound` assumes that the deposit is among the
  newest transactions of its escrow address.
* A client that reports a rejection for a transaction its wallet did sign; `DuelEntry` shows that the page does not.
* The body of the database: SERIALIZABLE conflicts end a request without an effect, and
  triggers are part of the action whose write they check.

## 9. Running it

    tlc -workers 2 -config MCDuelFunding.cfg MCDuelFunding
    tlc -workers 2 -config MCDuelSettlement.cfg MCDuelSettlement
    tlc -workers 2 -config MCPlayers.cfg MCPlayers
    tlc -workers 2 -config MCGames.cfg MCGames
    for m in DuelFunding DuelOpening PackDeposit DuelSettlement CardGame Game Players; do
      tlapm ${m}Proofs.tla
    done
    tlapm Totals.tla

`PROJECT.json` lists every run with its configuration. `players` and `games` take two to four
minutes each, the others less.
