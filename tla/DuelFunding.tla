----------------------------- MODULE DuelFunding -----------------------------
(***************************************************************************)
(* Funding of one duel: the duel row, its FUND transaction rows, the       *)
(* Solana transactions behind them, and the API requests and worker passes *)
(* that read and write them concurrently.                                  *)
(*                                                                         *)
(* A database transaction whose writes are guarded by the row's status or  *)
(* version is one step.  What the code reads outside such a transaction    *)
(* (an RPC answer, a snapshot, a row it later overwrites without a guard)  *)
(* is a step of its own, and the process keeps the answer in job[p].       *)
(***************************************************************************)
EXTENDS Integers, FiniteSets, DuelState

CONSTANTS
  Creator, Opponent,     \* the two wallets of the duel
  TxIds,                 \* bound on the funding intents ever prepared
  Procs,                 \* concurrent API requests and worker passes
  IndexKeepsHistory,     \* the RPC indexes a finalized signature within 64 blocks
  NoTx, NoWallet

Wallets == {Creator, Opponent}

ASSUME FundingConstants ==
  /\ Creator # Opponent /\ NoWallet \notin Wallets
  /\ NoTx \notin TxIds
  /\ IndexKeepsHistory \in BOOLEAN

VARIABLES
  duel,      \* the Duel row
  rows,      \* rows[t]: the DuelTransaction row with action FUND
  job,       \* job[p]: what process p has read and is about to do
  chain,     \* chain[t]: what the cluster knows of intent t's transaction
  height,    \* finalized block height: 0 <= lastValid, 1 above, 2 above by > 64
  expired    \* duel.expiresAt <= now

vars == <<duel, rows, job, chain, height, expired>>

(***************************************************************************)
(* Values.                                                                 *)
(***************************************************************************)
RowStatuses == {"NONE", "PREPARED", "SUBMITTED", "CONFIRMED", "FINALIZED",
                "EXPIRED", "FAILED"}
ACTIVE_STATUSES == {"SUBMITTED", "CONFIRMED"}
ACTIVE_FUNDING_STATUSES == {"SUBMITTED", "CONFIRMED", "FINALIZED"}
ACTIVE_TIMEOUT_STATUSES == {"WAITING", "MATCHED"}

ErrorCodes == {"none", "WALLET_REJECTED", "NOT_FOUND_AFTER_FINALITY",
               "BLOCKHASH_EXPIRED", "TRANSACTION_EXECUTION_ERROR", "DUEL_STATE_MISMATCH",
               "FUNDING_QUORUM_INVALID"}
Reasons == {"none", "user", "timeout", "commitment_timeout",
            "creator_funding_terminal"}

\* "dropped": the blockhash expired first.  "indexed": finalized and listed by
\* getSignaturesForAddress.
ChainStates == {"unsent", "declined", "sent", "confirmed", "finalized",
                "indexed", "error", "dropped"}
OnChain == {"confirmed", "finalized", "indexed"}
Final   == {"finalized", "indexed"}

NoRow == [st |-> "NONE", wallet |-> NoWallet, code |-> "none", alert |-> FALSE]

Ops == {"idle", "prepare", "timeout", "seen", "record", "scan", "bind", "alert"}
Idle == [op |-> "idle", tx |-> NoTx, wallet |-> NoWallet, saw |-> "nothing",
         version |-> 0, funded |-> FALSE, height |-> 0]

RowType == [st : RowStatuses, wallet : Wallets \cup {NoWallet},
            code : ErrorCodes, alert : BOOLEAN]
DuelType == [status : DuelStatuses, version : Nat, escrow : BOOLEAN,
             opponent : {Opponent, NoWallet}, reason : Reasons]
Sights == {"nothing", "null", "err", "confirmed", "finalized"} \cup DuelStatuses
JobType == [op : Ops, tx : TxIds \cup {NoTx}, wallet : Wallets \cup {NoWallet},
            saw : Sights, version : Nat, funded : BOOLEAN, height : 0..2]

(***************************************************************************)
(* Reads.                                                                  *)
(***************************************************************************)
HasRow(w, S) == \E t \in TxIds : rows[t].wallet = w /\ rows[t].st \in S
HasFinalizedFunding == \E t \in TxIds : rows[t].st = "FINALIZED"
\* The escrow account of the duel holds w's deposit (not necessarily finalized).
Deposited(w) == \E t \in TxIds : rows[t].wallet = w /\ chain[t] \in OnChain
FinalDeposit(w) == \E t \in TxIds : rows[t].wallet = w /\ chain[t] \in Final

\* Every update of the duel row increments version and appends an event.
Move(status) == [duel EXCEPT !.status = status, !.version = @ + 1]

(***************************************************************************)
(* The duel row: create, join, cancel and the timeout sweep.               *)
(***************************************************************************)

\* PrismaDuelRepository.create: a house duel is matched at once.
Create(house) ==
  [status   |-> IF house THEN "MATCHED" ELSE "WAITING",
   version  |-> 1,
   escrow   |-> FALSE,
   opponent |-> IF house THEN Opponent ELSE NoWallet,
   reason   |-> "none"]

Join ==
  /\ ~expired
  /\ duel.status = "WAITING"
  /\ duel' = [Move("MATCHED") EXCEPT !.opponent = Opponent]
  /\ UNCHANGED <<rows, job, chain, height, expired>>

Cancel ==
  /\ duel.status \in ACTIVE_TIMEOUT_STATUSES
  /\ duel' = [Move("CANCELLED") EXCEPT !.reason = "user"]
  /\ UNCHANGED <<rows, job, chain, height, expired>>

\* expireTimedOut, first half: the sweep's findMany.
ReadTimedOut(p) ==
  /\ job[p].op = "idle"
  /\ expired
  /\ duel.status \in ACTIVE_TIMEOUT_STATUSES \cup {"COMMITTING"}
  /\ job' = [job EXCEPT ![p] = [Idle EXCEPT !.op = "timeout",
                 !.saw = duel.status, !.version = duel.version,
                 !.funded = HasFinalizedFunding]]
  /\ UNCHANGED <<duel, rows, chain, height, expired>>

\* timedOutDuelRecovery
TimedOutDuelRecovery(saw, funded) ==
  IF saw # "COMMITTING"
  THEN [status |-> "CANCELLED", reason |-> "timeout"]
  ELSE [status |-> IF funded THEN "REFUNDING" ELSE "CANCELLED",
        reason |-> "commitment_timeout"]

\* Mutant: the update is guarded by the status only.
TimeoutRowSameStatus(p) == duel.status = job[p].saw

\* Mutant: the update is not guarded.
TimeoutRowAny(p) == TRUE

\* The row the sweep read is still the row it updates.
TimeoutRowUnchanged(p) ==
  duel.status = job[p].saw /\ duel.version = job[p].version

\* expireTimedOut, second half: the update, guarded by status and version.
ExpireTimedOut(p) ==
  /\ job[p].op = "timeout"
  /\ job' = [job EXCEPT ![p] = Idle]
  /\ LET recovery == TimedOutDuelRecovery(job[p].saw, job[p].funded)
     IN duel' = IF TimeoutRowUnchanged(p)
                THEN [Move(recovery.status) EXCEPT !.reason = recovery.reason]
                ELSE duel
  /\ UNCHANGED <<rows, chain, height, expired>>

(***************************************************************************)
(* Preparing, submitting and rejecting a funding intent.                   *)
(***************************************************************************)

\* Mutant: either wallet may go first.
MayFundFirst(w) ==
  \/ w = Creator /\ duel.status \in {"MATCHED", "COMMITTING"}
  \/ w = Opponent /\ duel.opponent = Opponent /\ duel.status = "COMMITTING"

\* validateFundingDuelForPreparation and the finalized-creator check.
MayFund(w) ==
  \/ w = Creator /\ duel.status \in {"MATCHED", "COMMITTING"}
  \/ /\ w = Opponent /\ duel.opponent = Opponent
     /\ duel.status = "COMMITTING"
     /\ HasRow(Creator, {"FINALIZED"})

\* DuelFundingService.prepare up to persistPrepared.  A prepared row of this
\* wallet is returned again or reported as a conflict: no step.
BeginPrepare(p, w) ==
  /\ job[p].op = "idle"
  /\ ~expired
  /\ MayFund(w)
  /\ ~HasRow(w, ACTIVE_FUNDING_STATUSES)
  /\ ~HasRow(w, {"PREPARED"})
  /\ job' = [job EXCEPT ![p] = [Idle EXCEPT !.op = "prepare", !.wallet = w]]
  /\ UNCHANGED <<duel, rows, chain, height, expired>>

\* What persistPrepared checks again before it creates the row.
MayPersist(w) ==
  /\ duel.status \in {"MATCHED", "COMMITTING"}
  /\ duel.status = "MATCHED" => w = Creator
  /\ ~HasRow(w, {"PREPARED"})

PersistPrepared(p, t) ==
  /\ job[p].op = "prepare"
  /\ MayPersist(job[p].wallet)
  /\ rows[t].st = "NONE"
  /\ rows' = [rows EXCEPT ![t] = [NoRow EXCEPT !.st = "PREPARED",
                                               !.wallet = job[p].wallet]]
  /\ job' = [job EXCEPT ![p] = Idle]
  /\ UNCHANGED <<duel, chain, height, expired>>

\* The request ends in a conflict, or the bound on intents is reached.
PersistRefused(p) ==
  /\ job[p].op = "prepare"
  /\ \/ ~MayPersist(job[p].wallet)
     \/ \A t \in TxIds : rows[t].st # "NONE"
  /\ job' = [job EXCEPT ![p] = Idle]
  /\ UNCHANGED <<duel, rows, chain, height, expired>>

\* recordWalletRejection: the client reports that the wallet declined to sign.
RecordWalletRejection(t) ==
  /\ rows[t].st = "PREPARED"
  /\ chain[t] = "declined"
  /\ rows' = [rows EXCEPT ![t].st = "EXPIRED", ![t].code = "WALLET_REJECTED"]
  /\ UNCHANGED <<duel, job, chain, height, expired>>

\* shouldEnterCommittingOnCreatorSubmission
EntersCommitting(t) == rows[t].wallet = Creator /\ duel.status = "MATCHED"

\* bindSubmission's conditions on the row and on the duel.
MayBind(t) ==
  /\ rows[t].st = "PREPARED"
  /\ EntersCommitting(t) \/ duel.status = "COMMITTING"

Bound(t) == [rows EXCEPT ![t].st = "SUBMITTED", ![t].alert = FALSE]

\* bindSubmission called by the client with the signature it broadcast.
BindSubmission(t) ==
  /\ chain[t] \notin {"unsent", "declined"}
  /\ MayBind(t)
  /\ rows' = Bound(t)
  /\ duel' = IF EntersCommitting(t)
             THEN [Move("COMMITTING") EXCEPT !.escrow = TRUE]
             ELSE duel
  /\ UNCHANGED <<job, chain, height, expired>>

(***************************************************************************)
(* Reconciliation of submitted transactions: reconcileTransactions reads   *)
(* the signature status, then (for a missing one) the block height, and    *)
(* the repository reads the row before it writes it.                       *)
(***************************************************************************)

\* Mutant: a confirmed signature counts as finalized.
SignatureStatusOptimistic(t) ==
  CASE chain[t] \in OnChain -> "finalized"
    [] chain[t] = "error"   -> "err"
    [] OTHER                -> "null"

\* getSignatureStatuses
SignatureStatus(t) ==
  CASE chain[t] \in Final      -> "finalized"
    [] chain[t] = "confirmed"  -> "confirmed"
    [] chain[t] = "error"      -> "err"
    [] OTHER                   -> "null"

ReadStatus(p, t) ==
  /\ job[p].op = "idle"
  /\ rows[t].st \in ACTIVE_STATUSES
  /\ job' = [job EXCEPT ![p] = [Idle EXCEPT !.op = "seen", !.tx = t,
                                            !.saw = SignatureStatus(t)]]
  /\ UNCHANGED <<duel, rows, chain, height, expired>>

\* Mutant: a missing signature stays pending for ever.
DecidedIfSeen(saw, t) == saw # "null"

\* A missing signature is settled only above its last valid block height;
\* below it recordPending reschedules the row.
Decided(saw, t) == saw = "null" => height[t] > 0

\* The repository's read of the row: only an active row is written.
LoadRow(p) ==
  /\ job[p].op = "seen"
  /\ LET t == job[p].tx
     IN job' = [job EXCEPT ![p] =
                  IF Decided(job[p].saw, t) /\ rows[t].st \in ACTIVE_STATUSES
                  THEN [job[p] EXCEPT !.op = "record"] ELSE Idle]
  /\ UNCHANGED <<duel, rows, chain, height, expired>>

\* Mutant: the RPC's commitment is stored as it is spelt.
RecordCommitment(p) ==
  /\ job[p].op = "record" /\ job[p].saw = "confirmed"
  /\ rows' = [rows EXCEPT ![job[p].tx].st = job[p].saw]
  /\ job' = [job EXCEPT ![p] = Idle]
  /\ UNCHANGED <<duel, chain, height, expired>>

RecordConfirmed(p) ==
  /\ job[p].op = "record" /\ job[p].saw = "confirmed"
  /\ rows' = [rows EXCEPT ![job[p].tx].st = "CONFIRMED"]
  /\ job' = [job EXCEPT ![p] = Idle]
  /\ UNCHANGED <<duel, chain, height, expired>>

\* recoveryStatusForTerminalTransaction for a FUND transaction
RecoveryStatusForTerminal(w, s) ==
  IF w = Creator /\ s = "COMMITTING"
  THEN "CANCELLED" ELSE RecoveryStatusAfterTransactionFailure(s)

\* recordTerminal: the row expires or fails and the duel leaves its status.
RecordTerminal(p) ==
  /\ job[p].op = "record" /\ job[p].saw \in {"null", "err"}
  /\ LET t == job[p].tx
         target == RecoveryStatusForTerminal(rows[t].wallet, duel.status)
     IN /\ rows' = IF job[p].saw = "null"
                   THEN [rows EXCEPT ![t].st = "EXPIRED",
                                     ![t].code = "BLOCKHASH_EXPIRED"]
                   ELSE [rows EXCEPT ![t].st = "FAILED",
                                     ![t].code = "TRANSACTION_EXECUTION_ERROR"]
        /\ duel' = IF ~CanTransition(duel.status, target) THEN duel
                   ELSE [Move(target) EXCEPT !.reason =
                           IF target = "CANCELLED"
                           THEN "creator_funding_terminal" ELSE @]
  /\ job' = [job EXCEPT ![p] = Idle]
  /\ UNCHANGED <<chain, height, expired>>

\* resolveFundingQuorum, for the funding rows other than t that are finalized
ResolveFundingQuorum(t) ==
  LET others == {u \in TxIds \ {t} : rows[u].st = "FINALIZED"}
      paid(w) == {u \in others : rows[u].wallet = w}
      w == rows[t].wallet
  IN IF \/ duel.opponent = NoWallet
        \/ paid(w) # {}
        \/ \E v \in Wallets : Cardinality(paid(v)) > 1
     THEN "invalid"
     ELSE IF \A v \in Wallets \ {w} : paid(v) # {} THEN "complete" ELSE "pending"

\* recordFinalized and finalizeFundingSide
RecordFinalized(p) ==
  /\ job[p].op = "record" /\ job[p].saw = "finalized"
  /\ LET t == job[p].tx
         quorum == ResolveFundingQuorum(t)
     IN IF duel.status # "COMMITTING"
        THEN /\ rows' = [rows EXCEPT ![t].st = "FAILED",
                                     ![t].code = "DUEL_STATE_MISMATCH"]
             /\ duel' = duel
        ELSE /\ rows' = [rows EXCEPT ![t].st = "FINALIZED",
                           ![t].code = IF quorum = "invalid"
                                       THEN "FUNDING_QUORUM_INVALID" ELSE "none"]
             /\ duel' = Move(CASE quorum = "invalid"  -> "REFUNDING"
                               [] quorum = "complete" -> "FUNDED"
                               [] OTHER               -> "COMMITTING")
  /\ job' = [job EXCEPT ![p] = Idle]
  /\ UNCHANGED <<chain, height, expired>>

(***************************************************************************)
(* recoverUnboundBroadcasts: prepared rows without a signature.            *)
(***************************************************************************)

\* findPreparedForRecovery (with the duel's status), then getBlockHeight.
BeginRecovery(p, t) ==
  /\ job[p].op = "idle"
  /\ rows[t].st = "PREPARED"
  /\ job' = [job EXCEPT ![p] = [Idle EXCEPT !.op = "scan", !.tx = t,
                 !.saw = duel.status, !.height = height[t]]]
  /\ UNCHANGED <<duel, rows, chain, height, expired>>

\* canBindRecoveredFunding
CanBindRecoveredFunding(s) == s \in {"MATCHED", "COMMITTING"}

\* getFinalizedSignaturesForAddress finds the intent's own message; the worker
\* goes on to bind it (reading the duel's version) or to raise the alert.
ScanFound(p) ==
  /\ job[p].op = "scan"
  /\ chain[job[p].tx] = "indexed"
  /\ job' = [job EXCEPT ![p].op =
                   IF CanBindRecoveredFunding(job[p].saw) THEN "bind" ELSE "alert",
                 ![p].version = duel.version]
  /\ UNCHANGED <<duel, rows, chain, height, expired>>

\* Mutant: absence is certified at the last valid height, with no buffer.
AbsenceIsFinalEarly(h) == h >= 1

\* Absence is certified once the height read before the scan is past the
\* last valid height by more than RECOVERY_FINALITY_BLOCK_BUFFER.
AbsenceIsFinal(h) == h = 2

\* The scan is complete and finds nothing.
ScanEmpty(p) ==
  /\ job[p].op = "scan"
  /\ chain[job[p].tx] # "indexed"
  /\ LET t == job[p].tx
     IN rows' = IF AbsenceIsFinal(job[p].height) /\ rows[t].st = "PREPARED"
                THEN [rows EXCEPT ![t].st = "EXPIRED",
                                  ![t].code = "NOT_FOUND_AFTER_FINALITY"]
                ELSE rows
  /\ job' = [job EXCEPT ![p] = Idle]
  /\ UNCHANGED <<duel, chain, height, expired>>

\* bindRecoveredSubmission: guarded by the duel's version; a conflict goes on
\* to the alert.
BindRecovered(p) ==
  /\ job[p].op = "bind"
  /\ LET t == job[p].tx
     IN IF MayBind(t) /\ duel.version = job[p].version
        THEN /\ rows' = Bound(t)
             /\ duel' = [Move("COMMITTING") EXCEPT
                           !.escrow = @ \/ EntersCommitting(t)]
             /\ job' = [job EXCEPT ![p] = Idle]
        ELSE /\ job' = [job EXCEPT ![p].op = "alert"]
             /\ UNCHANGED <<duel, rows>>
  /\ UNCHANGED <<chain, height, expired>>

\* Mutant: the alert routes the duel and forgets the escrow address.
RecordRecoveryAlertOnly(p) ==
  /\ job[p].op = "alert"
  /\ LET t == job[p].tx
         target == RecoveryAlertTarget(duel.status)
     IN IF rows[t].st # "PREPARED"
        THEN UNCHANGED <<duel, rows>>
        ELSE /\ rows' = [rows EXCEPT ![t].alert = TRUE]
             /\ duel' = IF rows[t].alert /\ target = duel.status
                        THEN duel ELSE Move(target)
  /\ job' = [job EXCEPT ![p] = Idle]
  /\ UNCHANGED <<chain, height, expired>>

\* recordRecoveryAlert and recoveryAlertRouting
RecordRecoveryAlert(p) ==
  /\ job[p].op = "alert"
  /\ LET t == job[p].tx
         target == RecoveryAlertTarget(duel.status)
         replay == rows[t].alert /\ target = duel.status
     IN IF rows[t].st # "PREPARED"
        THEN UNCHANGED <<duel, rows>>
        ELSE /\ rows' = [rows EXCEPT ![t].alert = TRUE]
             /\ duel' = IF replay THEN duel
                        ELSE [Move(target) EXCEPT
                                !.escrow = @ \/ target = "REFUNDING"]
  /\ job' = [job EXCEPT ![p] = Idle]
  /\ UNCHANGED <<chain, height, expired>>

(***************************************************************************)
(* The wallet, the cluster and the clock (external).                       *)
(***************************************************************************)
Sends(t) ==
  /\ rows[t].st # "NONE" /\ chain[t] = "unsent"
  /\ \/ height[t] = 0 /\ chain' = [chain EXCEPT ![t] = "sent"]
     \/ chain' = [chain EXCEPT ![t] = "declined"]
  /\ UNCHANGED <<duel, rows, job, height, expired>>

\* initialize_duel creates the escrow account once; fund_duel needs it and
\* takes one deposit of each wallet.
EscrowAccepts(w) ==
  /\ ~Deposited(w)
  /\ w = Opponent => Deposited(Creator)

Lands(t) ==
  /\ chain[t] = "sent"
  /\ \/ EscrowAccepts(rows[t].wallet) /\ chain' = [chain EXCEPT ![t] = "confirmed"]
     \/ chain' = [chain EXCEPT ![t] = "error"]
  /\ UNCHANGED <<duel, rows, job, height, expired>>

Finalizes(t) ==
  /\ \/ chain[t] = "confirmed" /\ chain' = [chain EXCEPT ![t] = "finalized"]
     \/ chain[t] = "finalized" /\ chain' = [chain EXCEPT ![t] = "indexed"]
  /\ UNCHANGED <<duel, rows, job, height, expired>>

\* The finalized height passes lastValid: by then a transaction has been
\* finalized, or can no longer land.
HeightPasses(t) ==
  /\ rows[t].st # "NONE" /\ height[t] < 2
  /\ height[t] = 0 => chain[t] # "confirmed"
  /\ height[t] = 1 /\ IndexKeepsHistory => chain[t] # "finalized"
  /\ height' = [height EXCEPT ![t] = @ + 1]
  /\ chain' = IF chain[t] = "sent" THEN [chain EXCEPT ![t] = "dropped"] ELSE chain
  /\ UNCHANGED <<duel, rows, job, expired>>

DuelExpires ==
  /\ ~expired /\ expired' = TRUE
  /\ UNCHANGED <<duel, rows, job, chain, height>>

-----------------------------------------------------------------------------
Init ==
  /\ duel \in {Create(TRUE), Create(FALSE)}
  /\ rows = [t \in TxIds |-> NoRow]
  /\ job = [p \in Procs |-> Idle]
  /\ chain = [t \in TxIds |-> "unsent"]
  /\ height = [t \in TxIds |-> 0]
  /\ expired = FALSE

Reconcile(p) ==
  LoadRow(p) \/ RecordConfirmed(p) \/ RecordTerminal(p) \/ RecordFinalized(p)
Recover(p) ==
  ScanFound(p) \/ ScanEmpty(p) \/ BindRecovered(p) \/ RecordRecoveryAlert(p)

Next ==
  \/ Join
  \/ Cancel
  \/ \E p \in Procs :
       \/ ReadTimedOut(p)
       \/ ExpireTimedOut(p)
       \/ \E w \in Wallets : BeginPrepare(p, w)
       \/ \E t \in TxIds : PersistPrepared(p, t)
       \/ PersistRefused(p)
       \/ \E t \in TxIds : ReadStatus(p, t)
       \/ Reconcile(p)
       \/ \E t \in TxIds : BeginRecovery(p, t)
       \/ Recover(p)
  \/ \E t \in TxIds :
       \/ RecordWalletRejection(t)
       \/ BindSubmission(t)
       \/ Sends(t)
       \/ Lands(t)
       \/ Finalizes(t)
       \/ HeightPasses(t)
  \/ DuelExpires

Spec == Init /\ [][Next]_vars

\* The workers run periodically over every open intent, and a request or a
\* pass once begun runs on; the cluster keeps producing blocks.
Fairness ==
  /\ \A p \in Procs :
       /\ WF_vars(ExpireTimedOut(p)) /\ WF_vars(PersistRefused(p))
       /\ WF_vars(\E t \in TxIds : PersistPrepared(p, t))
       /\ WF_vars(Reconcile(p)) /\ WF_vars(Recover(p))
       /\ \A t \in TxIds :
            SF_vars(ReadStatus(p, t)) /\ SF_vars(BeginRecovery(p, t))
  /\ \A t \in TxIds :
       WF_vars(Lands(t)) /\ WF_vars(Finalizes(t)) /\ WF_vars(HeightPasses(t))

FairSpec == Spec /\ Fairness

TypeOK ==
  /\ duel \in DuelType
  /\ rows \in [TxIds -> RowType]
  /\ job \in [Procs -> JobType]
  /\ chain \in [TxIds -> ChainStates]
  /\ height \in [TxIds -> 0..2]
  /\ expired \in BOOLEAN

(***************************************************************************)
(* What funding promises.                                                  *)
(***************************************************************************)

\* A FUNDED duel holds a finalized deposit of each participant: the duel
\* advances "only at finalized", and only on one deposit of each wallet
\* (finalizeFundingSide), whatever the requests and passes in flight.
FundedIsBacked ==
  duel.status = "FUNDED" => \A w \in Wallets : FinalDeposit(w)

\* An intent the recovery pass certifies as never broadcast
\* (recordPreparedRecoveryExpired), and one the wallet declined, did not
\* deposit: a fresh intent can replace it.
AbsenceIsCertain ==
  \A t \in TxIds :
    rows[t].code \in {"NOT_FOUND_AFTER_FINALITY", "WALLET_REJECTED"} =>
      chain[t] \notin OnChain

\* The sweep cancels a committing duel only if no funding row is finalized
\* (timedOutDuelRecovery), though it decides on a snapshot.
TimeoutSparesFinalizedFunding ==
  duel.reason = "commitment_timeout" /\ duel.status = "CANCELLED" =>
    ~HasFinalizedFunding

\* The opponent is asked to fund only after the creator's deposit is final
\* (DuelFundingService.prepare): its intent is never the first money in.
OpponentPaysSecond ==
  \A t \in TxIds : rows[t].wallet = Opponent => FinalDeposit(Creator)

\* A duel that enters refund recovery knows its escrow account: without it
\* the refund orchestrator has nothing to read (recoveryAlertRouting).
RefundKnowsEscrow == duel.status = "REFUNDING" => duel.escrow

\* The public status keeps the promise of DuelPromise.
Promise == INSTANCE DuelPromise WITH
  status <- duel.status, deposits <- {w \in Wallets : FinalDeposit(w)}
PromiseKept == Promise!Spec

\* A final deposit that no request bound to its intent is found: the row is
\* bound, or the duel is taken to refund recovery (recoverUnboundBroadcasts).
UnboundDepositIsFound ==
  \A t \in TxIds :
    rows[t].st = "PREPARED" /\ chain[t] \in Final ~>
      rows[t].st # "PREPARED" \/ duel.status = "REFUNDING"

\* No funding intent stays open: each one prepared ends finalized, expired or
\* failed, or stands as an alert on a duel in recovery.
IntentsAreSettled ==
  \A t \in TxIds :
    rows[t].st \in {"PREPARED", "SUBMITTED", "CONFIRMED"} ~>
      rows[t].st \in {"FINALIZED", "EXPIRED", "FAILED"} \/ rows[t].alert

(***************************************************************************)
(* The inductive strengthening behind the safety properties above.         *)
(***************************************************************************)

\* A row in use has an owner; nothing is sent for a row that is not.
RowsHaveOwners ==
  \A t \in TxIds :
    /\ rows[t].st # "NONE" => rows[t].wallet \in Wallets
    /\ rows[t].st = "NONE" => rows[t].wallet = NoWallet /\ chain[t] = "unsent"

\* A process that holds an intent holds one that was prepared, and a sweep
\* one of the statuses it looks for.
JobsHoldIntents ==
  \A p \in Procs :
    /\ job[p].op \in {"seen", "record", "scan", "bind", "alert"} =>
         job[p].tx \in TxIds /\ rows[job[p].tx].st # "NONE"
    /\ job[p].op = "prepare" => job[p].wallet \in Wallets
    /\ job[p].op = "timeout" =>
         job[p].saw \in ACTIVE_TIMEOUT_STATUSES \cup {"COMMITTING"}

\* A finalized status, once read, stays true of the cluster, and so do a
\* finalized row and a signature the scan has found.
FinalityIsStable ==
  /\ \A p \in Procs :
       /\ job[p].op \in {"seen", "record"} /\ job[p].saw = "finalized" =>
            chain[job[p].tx] \in Final
       /\ job[p].op \in {"bind", "alert"} => chain[job[p].tx] \in Final
  /\ \A t \in TxIds : rows[t].st = "FINALIZED" => chain[t] \in Final

\* A request to prepare the opponent's funding saw the creator's finalized.
OpponentWaits ==
  \A p \in Procs :
    job[p].op = "prepare" /\ job[p].wallet = Opponent => FinalDeposit(Creator)

\* Funding reaches these statuses only, and knows the escrow in three of them.
EscrowStored ==
  /\ duel.status \in {"WAITING", "MATCHED", "COMMITTING", "FUNDED", "REFUNDING",
                      "CANCELLED", "FAILED"}
  /\ duel.status \in {"COMMITTING", "FUNDED", "REFUNDING"} => duel.escrow

\* A sweep's snapshot is older than the row or still tells the truth of it.
SnapshotsAge ==
  \A p \in Procs :
    job[p].op = "timeout" =>
      /\ job[p].version <= duel.version
      /\ job[p].version = duel.version /\ ~job[p].funded => ~HasFinalizedFunding

\* What the block height settles: nothing lands above the last valid height,
\* and what the index must list it lists 64 blocks later.  A scan's height is
\* not ahead of the cluster's.
HeightSettles ==
  /\ \A t \in TxIds :
       /\ height[t] > 0 => chain[t] \notin {"sent", "confirmed"}
       /\ IndexKeepsHistory /\ height[t] = 2 => chain[t] # "finalized"
       /\ rows[t].code = "WALLET_REJECTED" => chain[t] = "declined"
       /\ IndexKeepsHistory /\ rows[t].code = "NOT_FOUND_AFTER_FINALITY" =>
            height[t] = 2 /\ chain[t] \notin OnChain
  /\ \A p \in Procs :
       job[p].op = "scan" => job[p].height <= height[job[p].tx]

FundingInv ==
  /\ TypeOK
  /\ RowsHaveOwners /\ JobsHoldIntents /\ FinalityIsStable
  /\ OpponentWaits /\ OpponentPaysSecond /\ FundedIsBacked
  /\ EscrowStored
  /\ SnapshotsAge /\ TimeoutSparesFinalizedFunding
  /\ HeightSettles

(***************************************************************************)
(* What the repository's tests and guides say and the code does not do.    *)
(***************************************************************************)

\* "cancels an atomic creator funding failure because no asset was deposited"
\* (recordTerminal of a creator transaction).
CreatorFailureDepositsNothing ==
  duel.reason = "creator_funding_terminal" /\ duel.status = "CANCELLED" =>
    ~Deposited(Creator)

\* "refunds an opponent funding failure after creator funding finalized": a
\* failed transaction never takes a duel with a deposit out of refund recovery.
FailureKeepsRefundOpen ==
  duel.status = "FAILED" => \A w \in Wallets : ~FinalDeposit(w)
=============================================================================
