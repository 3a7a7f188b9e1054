--------------------------- MODULE DuelSettlement ---------------------------
(***************************************************************************)
(* Settlement and refund of one devnet duel: DevnetDemoSettlementService   *)
(* (called by open), DevnetRefundOrchestratorService, the intents that     *)
(* ProviderSettlementService prepares for both, and what the transaction   *)
(* monitor does with the COMMIT_RESULT, SETTLE and REFUND rows.            *)
(*                                                                         *)
(* A row is <<kind, attempt>>: the result commitment and the settlement    *)
(* have one row each, under a fixed idempotency key; the refund of an      *)
(* asset has one per attempt.  A prepared row whose blockhash has passed   *)
(* may be given a new message: gen counts the messages of a row, and the   *)
(* cluster knows each of them separately.                                  *)
(***************************************************************************)
EXTENDS Integers, FiniteSets, SequencesExt, DuelState

CONSTANTS
  Cards, Payments,   \* assets the escrow may hold, as sequences: cards go first
  Procs,             \* concurrent requests and worker passes
  MaxAttempts,       \* bound on the refund rows of one asset
  MaxGens,           \* bound on the messages of one row
  MaxFaults,         \* bound on lost answers, failing transactions and failing funding
  Starts             \* which of the starting points below are considered

AssetOrder == Cards \o Payments          \* Object.entries(state.custody)
Assets == Range(AssetOrder)
Commit == <<"commit", 1>>
Settle == <<"settle", 1>>
Rows == {Commit, Settle} \cup (Assets \X (1..MaxAttempts))
Gens == 1..MaxGens

ASSUME SettlementConstants ==
  /\ {"commit", "settle"} \cap Assets = {}
  /\ Starts \subseteq {"resolved", "refunding", "rejected"}
  /\ MaxAttempts \in Nat \ {0} /\ MaxGens \in Nat \ {0} /\ MaxFaults \in Nat

VARIABLES
  duel,      \* the Duel row: status, and whether both pack outcomes are recorded
  custody,   \* assets deposited before this protocol starts
  known,     \* the ones a finalized FUND row or a pack snapshot tells of
  rows,      \* rows[r]: the DuelTransaction row
  job,       \* job[p]: what process p has read and is about to do
  chain,     \* chain[r][g]: what the cluster knows of message g of row r
  expired,   \* duel.expiresAt <= now
  faults

vars == <<duel, custody, known, rows, job, chain, expired, faults>>
world == <<custody, known>>

(***************************************************************************)
(* Values.                                                                 *)
(***************************************************************************)
RowStatuses == {"NONE", "PREPARED", "SUBMITTED", "CONFIRMED", "FINALIZED", "EXPIRED", "FAILED"}
ACTIVE_STATUSES == {"SUBMITTED", "CONFIRMED"}
ACTIVE_REFUND_STATUSES == {"PREPARED", "SUBMITTED", "CONFIRMED"}

\* "dead": the blockhash passed before the message landed.
ChainStates == {"unsent", "sent", "confirmed", "finalized", "error", "dead"}
OnChain == {"confirmed", "finalized"}
Final   == {"finalized"}

\* The finalized block height against a message's last valid one: 0 not above,
\* 1 above, 2 above by more than RECOVERY_FINALITY_BLOCK_BUFFER.
Heights(c) == CASE c = "dead" -> {1, 2} [] c \in {"finalized", "error"} -> 0..2 [] OTHER -> {0}

\* gen: the message the row describes; sig: the one whose signature is bound (0:
\* none); checked: a complete scan at a height above the last valid one found
\* nothing; access: FAILED with ACCOUNT_ACCESS_MISMATCH.
NoRow == [st |-> "NONE", gen |-> 0, sig |-> 0, checked |-> FALSE, alert |-> FALSE,
          access |-> FALSE]

Nothing == [a \in Assets |-> 0]
Idle == [op |-> "idle", row |-> Commit, gen |-> 0, saw |-> "nothing", height |-> 0,
         from |-> "nothing", recover |-> FALSE, todo |-> Nothing, proved |-> FALSE]
Ops == {"idle", "persist", "send", "bind", "seen", "record", "scan", "bindFound", "alert",
        "escrow", "assets", "route", "complete"}

\* trackedTransition
From(r) == CASE r = Commit -> "AWAITING_ASSETS" [] r = Settle -> "SETTLING" [] OTHER -> "REFUNDING"
To(r)   == CASE r = Commit -> "SETTLING" [] r = Settle -> "SETTLED" [] OTHER -> "REFUNDING"
IsRefund(r) == r[1] \in Assets

(***************************************************************************)
(* The escrow account is what has landed.                                  *)
(***************************************************************************)
Landed(r, S) == \E g \in Gens : chain[r][g] \in S
Refunded(a, S) == \E k \in 1..MaxAttempts : Landed(<<a, k>>, S)
Held(a, S) == a \in custody /\ ~Refunded(a, S) /\ ~Landed(Settle, S)

\* What the escrow program accepts (external).
EscrowAccepts(r) ==
  CASE r = Commit -> /\ ~Landed(Commit, OnChain)
                     /\ \A a \in Assets : Held(a, OnChain)
    [] r = Settle -> Landed(Commit, OnChain) /\ ~Landed(Settle, OnChain)
    [] OTHER      -> expired /\ ~Landed(Commit, OnChain) /\ Held(r[1], OnChain)

Goto(p, where) == job' = [job EXCEPT ![p].op = where]
Stop(p) == job' = [job EXCEPT ![p] = Idle]
Fault == faults < MaxFaults /\ faults' = faults + 1

(***************************************************************************)
(* Preparing, sending and binding one transaction.                         *)
(***************************************************************************)
\* The scan has cleared the row's message: it may be given another.
Renewable(row) == row.st = "PREPARED" /\ row.checked

\* DevnetDemoSettlementService.shouldPrepare
ShouldPrepare(row) == row.st = "NONE" \/ Renewable(row)

\* validateCanonicalEvidence: both outcomes are recorded.  Their values, snapshots and
\* hashes passed the same checks when resolveOpenedPacks recorded them.
CanonicalEvidence == duel.evidence
\* assertVault, at finalized commitment.
InVault(a) == Held(a, Final)

\* The conditions of prepare on a commitment or a settlement.
MaySettle(r) ==
  duel.status = From(r) /\ CanonicalEvidence /\ \A a \in Range(Cards) : InVault(a)

\* finalizeDuel up to persistTrackedIntent: prepare reads the duel and the card
\* vaults again, so one step stands for both reads.
BeginSettle(p, r) ==
  /\ r \in {Commit, Settle}
  /\ job[p].op = "idle"
  /\ MaySettle(r) /\ ShouldPrepare(rows[r])
  /\ job' = [job EXCEPT ![p] = [Idle EXCEPT !.op = "persist", !.row = r]]
  /\ UNCHANGED <<duel, rows, chain, expired, faults>> /\ UNCHANGED world

\* persistTrackedIntent: create the row, renew its message, or reuse it as it is
\* within its 75 seconds.
PersistTrackedIntent(p) ==
  /\ job[p].op = "persist"
  /\ LET r == job[p].row
         row == rows[r]
         kept(new) == /\ rows' = [rows EXCEPT ![r] = new]
                      /\ job' = [job EXCEPT ![p].op = "send", ![p].gen = new.gen]
     IN \/ row.st = "NONE" /\ kept([NoRow EXCEPT !.st = "PREPARED", !.gen = 1])
        \/ /\ Renewable(row) /\ row.gen < MaxGens
           /\ kept([row EXCEPT !.gen = @ + 1, !.checked = FALSE])
        \/ row.st = "PREPARED" /\ ~row.checked /\ kept(row)
        \/ /\ row.st # "NONE" /\ (Renewable(row) => row.gen = MaxGens)
           /\ Stop(p) /\ UNCHANGED rows
  /\ UNCHANGED <<duel, chain, expired, faults>> /\ UNCHANGED world

\* signAndSendPrepared, with preflight; the answer may be lost.
SignAndSend(p) ==
  /\ job[p].op = "send"
  /\ LET r == job[p].row
         g == job[p].gen
         ok == chain[r][g] \in {"unsent", "sent"} /\ EscrowAccepts(r)
     IN \/ /\ ok /\ chain' = [chain EXCEPT ![r][g] = "sent"]
           /\ \/ Goto(p, "bind") /\ UNCHANGED faults
              \/ Stop(p) /\ Fault
        \/ ~ok /\ Stop(p) /\ UNCHANGED <<chain, faults>>
  /\ UNCHANGED <<duel, rows, expired>> /\ UNCHANGED world

\* bindSubmission's conditions; the signature is not compared with the message.
MayBind(r) == rows[r].st = "PREPARED" /\ duel.status = From(r)
Bound(r, g) == [rows EXCEPT ![r].st = "SUBMITTED", ![r].sig = g, ![r].alert = FALSE]

\* A conflict ends the request, or the orchestrator's loop over this duel.
BindSubmission(p) ==
  /\ job[p].op = "bind"
  /\ LET r == job[p].row
         replay == rows[r].st \in ACTIVE_STATUSES /\ rows[r].sig = job[p].gen
         next == IF IsRefund(r) THEN Goto(p, "assets") ELSE Stop(p)
     IN \/ MayBind(r) /\ rows' = Bound(r, job[p].gen) /\ next
        \/ ~MayBind(r) /\ UNCHANGED rows /\ (Stop(p) \/ (replay /\ next))
  /\ UNCHANGED <<duel, chain, expired, faults>> /\ UNCHANGED world

(***************************************************************************)
(* DevnetRefundOrchestratorService.reconcile.                              *)
(***************************************************************************)
Attempts(a) == {k \in 1..MaxAttempts : rows[<<a, k>>].st # "NONE"}
HasAttempt(a, S) == \E k \in Attempts(a) : rows[<<a, k>>].st \in S

\* Mutants: an intent that was only prepared does not count; an expired or failed
\* attempt is not made again.
KeyPastPrepared(a) ==
  IF HasAttempt(a, ACTIVE_STATUSES) THEN 0
  ELSE IF HasAttempt(a, {"FINALIZED"}) THEN -1
  ELSE Cardinality(Attempts(a)) + 1
KeyForOneAttempt(a) == IF Attempts(a) = {} THEN 1 ELSE 0

\* nextPreparationKey: the attempt to make, 0 to wait, -1 where it throws.
NextPreparationKey(a) ==
  IF HasAttempt(a, ACTIVE_REFUND_STATUSES)
  THEN LET active == CHOOSE k \in Attempts(a) : rows[<<a, k>>].st \in ACTIVE_REFUND_STATUSES
       IN IF Renewable(rows[<<a, active>>]) THEN active ELSE 0
  ELSE IF HasAttempt(a, {"FINALIZED"}) THEN -1
  ELSE Cardinality(Attempts(a)) + 1

RequiredAssets == known \cup {a \in Assets : Attempts(a) # {}}
AllProved == /\ RequiredAssets # {}
             /\ \A a \in RequiredAssets : HasAttempt(a, {"FINALIZED"})

\* findMany: the rows of the duel, as the rest of the pass will know them.
ReadRefunding(p) ==
  /\ job[p].op = "idle"
  /\ duel.status = "REFUNDING"
  /\ job' = [job EXCEPT ![p] = [Idle EXCEPT !.op = "escrow", !.proved = AllProved,
                                  !.todo = [a \in Assets |-> NextPreparationKey(a)]]]
  /\ UNCHANGED <<duel, rows, chain, expired, faults>> /\ UNCHANGED world

\* Mutant: rows that prove the known assets are enough.
ReadStateTrustingRows(p) ==
  /\ job[p].op = "escrow"
  /\ job' = [job EXCEPT ![p] =
       IF Landed(Commit, Final) \/ Landed(Settle, Final) THEN [Idle EXCEPT !.op = "route"]
       ELSE IF job[p].proved THEN [Idle EXCEPT !.op = "complete"]
       ELSE [job[p] EXCEPT !.op = "assets",
               !.todo = [a \in Assets |-> IF Held(a, Final) THEN @[a] ELSE 0]]]
  /\ UNCHANGED <<duel, rows, chain, expired, faults>> /\ UNCHANGED world

\* readState at finalized commitment, and what follows from it.
ReadState(p) ==
  /\ job[p].op = "escrow"
  /\ LET held == {a \in Assets : Held(a, Final)}
     IN job' = [job EXCEPT ![p] =
          IF Landed(Commit, Final) \/ Landed(Settle, Final) THEN [Idle EXCEPT !.op = "route"]
          ELSE IF held = {}
          THEN IF job[p].proved THEN [Idle EXCEPT !.op = "complete"] ELSE Idle
          ELSE [job[p] EXCEPT !.op = "assets", !.proved = FALSE,
                              !.todo = [a \in Assets |-> IF a \in held THEN @[a] ELSE 0]]]
  /\ UNCHANGED <<duel, rows, chain, expired, faults>> /\ UNCHANGED world

\* The conditions of prepare on a refund: expired, and for a card the recorded
\* outcomes and the card in its vault.
MayRefundCard(a) == CanonicalEvidence /\ InVault(a)
MayRefund(a) ==
  /\ duel.status = "REFUNDING" /\ expired
  /\ a \in Range(Cards) => MayRefundCard(a)

\* The next held asset; an error leaves the loop, and the assets after it.
RefundNext(p) ==
  /\ job[p].op = "assets"
  /\ LET left == {i \in DOMAIN AssetOrder : job[p].todo[AssetOrder[i]] # 0}
     IN \/ left = {} /\ Stop(p)
        \/ \E i \in left :
             /\ \A j \in left : i <= j
             /\ LET a == AssetOrder[i]
                    k == job[p].todo[a]
                IN job' = [job EXCEPT ![p] =
                     IF k \notin 1..MaxAttempts \/ ~MayRefund(a) THEN Idle
                     ELSE [job[p] EXCEPT !.op = "persist", !.row = <<a, k>>, !.todo[a] = 0]]
  /\ UNCHANGED <<duel, rows, chain, expired, faults>> /\ UNCHANGED world

\* Mutant: the update does not compare the status.
MoveFromAnywhere(from, to) == duel' = [duel EXCEPT !.status = to]
MoveFrom(from, to) == duel' = IF duel.status = from THEN [duel EXCEPT !.status = to] ELSE duel

RouteToSettlement(p) ==
  /\ job[p].op = "route"
  /\ MoveFrom("REFUNDING", "SETTLING")
  /\ Stop(p)
  /\ UNCHANGED <<rows, chain, expired, faults>> /\ UNCHANGED world

Complete(p) ==
  /\ job[p].op = "complete"
  /\ MoveFrom("REFUNDING", "REFUNDED")
  /\ Stop(p)
  /\ UNCHANGED <<rows, chain, expired, faults>> /\ UNCHANGED world

(***************************************************************************)
(* The monitor, on rows with a signature.                                  *)
(***************************************************************************)
\* isRecoverableTerminalFinalization
Recoverable(r) == rows[r].st = "FAILED" /\ rows[r].access /\ ~IsRefund(r)

\* Mutant: a confirmed transaction counts as final.
SignatureStatusConfirmedIsFinal(r) ==
  LET c == chain[r][rows[r].sig]
  IN CASE c \in OnChain -> "finalized" [] c = "error" -> "err" [] OTHER -> "null"

SignatureStatus(r) ==
  LET c == chain[r][rows[r].sig]
  IN CASE c \in OnChain -> c [] c = "error" -> "err" [] OTHER -> "null"

\* findPending and findParticipantReconciliationBatch; findRecoverableTerminal.
Pending(r) == rows[r].st \in ACTIVE_STATUSES \/ Recoverable(r)

\* One row of a batch and its getSignatureStatuses.
ReadStatus(p, r) ==
  /\ job[p].op = "idle"
  /\ Pending(r)
  /\ job' = [job EXCEPT ![p] = [Idle EXCEPT !.op = "seen", !.row = r,
                                  !.saw = SignatureStatus(r)]]
  /\ UNCHANGED <<duel, rows, chain, expired, faults>> /\ UNCHANGED world

\* The block height is read for a missing signature; then the repository reads
\* the row it is about to write, with its duel, in the transaction that writes it.
\* Below the last valid height: recordPending.
LoadRow(p) ==
  /\ job[p].op = "seen"
  /\ LET r == job[p].row
         writes == \/ rows[r].st \in ACTIVE_STATUSES
                   \/ job[p].saw = "finalized" /\ Recoverable(r)
     IN \E h \in Heights(chain[r][rows[r].gen]) :
          IF writes /\ (job[p].saw = "null" => h > 0)
          THEN job' = [job EXCEPT ![p].op = "record", ![p].from = duel.status,
                                  ![p].recover = Recoverable(r)]
          ELSE Stop(p)
  /\ UNCHANGED <<duel, rows, chain, expired, faults>> /\ UNCHANGED world

\* verifyTransactionEnvelope: the transaction is the message of the row.
Verified(r) == rows[r].sig = rows[r].gen

\* The row is written by its id, whatever it is by now; a transaction that also moves
\* the duel is rolled back unless the duel still is what it read.
RowBecomes(r, st) == rows' = [rows EXCEPT ![r].st = st, ![r].access = FALSE]
RowAndDuelBecome(p, st, status) ==
  IF duel.status = job[p].from
  THEN RowBecomes(job[p].row, st) /\ duel' = [duel EXCEPT !.status = status]
  ELSE UNCHANGED <<rows, duel>>

RecordConfirmed(p) ==
  /\ job[p].op = "record" /\ job[p].saw = "confirmed" /\ Verified(job[p].row)
  /\ rows' = [rows EXCEPT ![job[p].row].st = "CONFIRMED"]
  /\ Stop(p)
  /\ UNCHANGED <<duel, chain, expired, faults>> /\ UNCHANGED world

\* recoveryStatusForTerminalTransaction
TerminalTarget(r, s) ==
  IF IsRefund(r) /\ s = "REFUNDING" THEN s ELSE RecoveryStatusAfterTransactionFailure(s)

RecordTerminal(p) ==
  /\ job[p].op = "record"
  /\ job[p].saw \in {"null", "err"} \/ ~Verified(job[p].row)
  /\ LET r == job[p].row
         st == IF job[p].saw = "null" THEN "EXPIRED" ELSE "FAILED"
         target == TerminalTarget(r, job[p].from)
     IN IF CanTransition(job[p].from, target) THEN RowAndDuelBecome(p, st, target)
        ELSE RowBecomes(r, st) /\ UNCHANGED duel
  /\ Stop(p)
  /\ UNCHANGED <<chain, expired, faults>> /\ UNCHANGED world

RecordFinalized(p) ==
  /\ job[p].op = "record" /\ job[p].saw = "finalized" /\ Verified(job[p].row)
  /\ LET r == job[p].row
         matches == \/ job[p].from = From(r)
                    \/ job[p].recover /\ job[p].from = "REFUNDING"
     IN IF matches THEN RowAndDuelBecome(p, "FINALIZED", To(r))
        ELSE RowBecomes(r, "FAILED") /\ UNCHANGED duel
  /\ Stop(p)
  /\ UNCHANGED <<chain, expired, faults>> /\ UNCHANGED world

(***************************************************************************)
(* recoverUnboundBroadcasts, on prepared rows.                             *)
(***************************************************************************)
BeginRecovery(p, r) ==
  /\ job[p].op = "idle"
  /\ rows[r].st = "PREPARED"
  /\ \E h \in Heights(chain[r][rows[r].gen]) :
       job' = [job EXCEPT ![p] = [Idle EXCEPT !.op = "scan", !.row = r, !.gen = rows[r].gen,
                                    !.saw = duel.status, !.height = h]]
  /\ UNCHANGED <<duel, rows, chain, expired, faults>> /\ UNCHANGED world

\* getFinalizedSignaturesForAddress finds the message; canBindRecoveredIntent.
ScanFound(p) ==
  /\ job[p].op = "scan"
  /\ chain[job[p].row][job[p].gen] = "finalized"
  /\ job' = [job EXCEPT ![p].saw = "nothing", ![p].height = 0,
               ![p].op = IF job[p].saw = From(job[p].row) THEN "bindFound" ELSE "alert"]
  /\ UNCHANGED <<duel, rows, chain, expired, faults>> /\ UNCHANGED world

\* It finds nothing; a final transaction may be missing from the index until the
\* height is past the buffer.  recordPreparedRecoveryExpired and
\* recordRecoveryAttempt are guarded by the row's status only: the row may
\* describe another message by now.
ScanEmpty(p) ==
  /\ job[p].op = "scan"
  /\ chain[job[p].row][job[p].gen] = "finalized" => job[p].height < 2
  /\ LET r == job[p].row
     IN rows' = IF rows[r].st # "PREPARED" THEN rows
                ELSE IF job[p].height = 2 THEN [rows EXCEPT ![r].st = "EXPIRED"]
                ELSE [rows EXCEPT ![r].checked = (job[p].height = 1 /\ job[p].gen = rows[r].gen)]
  /\ Stop(p)
  /\ UNCHANGED <<duel, chain, expired, faults>> /\ UNCHANGED world

BindRecovered(p) ==
  /\ job[p].op = "bindFound"
  /\ LET r == job[p].row
     IN IF MayBind(r)
        THEN rows' = Bound(r, job[p].gen) /\ Stop(p)
        ELSE Goto(p, "alert") /\ UNCHANGED rows
  /\ UNCHANGED <<duel, chain, expired, faults>> /\ UNCHANGED world

RecordRecoveryAlert(p) ==
  /\ job[p].op = "alert"
  /\ LET r == job[p].row
     IN IF rows[r].st # "PREPARED" THEN UNCHANGED <<duel, rows>>
        ELSE /\ rows' = [rows EXCEPT ![r].alert = TRUE]
             /\ duel' = [duel EXCEPT !.status = RecoveryAlertTarget(@)]
  /\ Stop(p)
  /\ UNCHANGED <<chain, expired, faults>> /\ UNCHANGED world

(***************************************************************************)
(* The cluster, the clock and the rest of the system (external).           *)
(***************************************************************************)
Lands(r, g) ==
  /\ chain[r][g] = "sent"
  /\ \/ /\ EscrowAccepts(r) /\ UNCHANGED faults
        /\ chain' = [chain EXCEPT ![r][g] = "confirmed"]
     \/ /\ ~EscrowAccepts(r) /\ UNCHANGED faults
        /\ chain' = [chain EXCEPT ![r][g] = "error"]
     \/ /\ EscrowAccepts(r) /\ Fault
        /\ chain' = [chain EXCEPT ![r][g] = "error"]
  /\ UNCHANGED <<duel, rows, job, expired>> /\ UNCHANGED world

Finalizes(r, g) ==
  /\ chain[r][g] = "confirmed" /\ chain' = [chain EXCEPT ![r][g] = "finalized"]
  /\ UNCHANGED <<duel, rows, job, expired, faults>> /\ UNCHANGED world

\* The finalized height passes the last valid one of an open row's message: by a
\* fault, if it was sent in time or a process is about to send it.
BlockhashExpires(r) ==
  /\ rows[r].st \in ACTIVE_REFUND_STATUSES
  /\ LET g == rows[r].gen
         awaited == \/ chain[r][g] = "sent"
                    \/ \E p \in Procs : job[p].op = "send" /\ job[p].row = r /\ job[p].gen = g
     IN /\ chain[r][g] \in {"unsent", "sent"}
        /\ IF awaited THEN Fault ELSE UNCHANGED faults
        /\ chain' = [chain EXCEPT ![r][g] = "dead"]
  /\ UNCHANGED <<duel, rows, job, expired>> /\ UNCHANGED world

DuelExpires ==
  /\ ~expired /\ expired' = TRUE
  /\ UNCHANGED <<duel, rows, job, chain, faults>> /\ UNCHANGED world

\* recordTerminal of a second funding intent of one wallet.
FundingFails ==
  /\ duel.status \in {"AWAITING_ASSETS", "SETTLING"} /\ Fault
  /\ duel' = [duel EXCEPT !.status = RecoveryStatusAfterTransactionFailure(@)]
  /\ UNCHANGED <<rows, job, chain, expired>> /\ UNCHANGED world

-----------------------------------------------------------------------------
OldRow(st) == [NoRow EXCEPT !.st = st, !.gen = 1, !.sig = 1, !.access = (st = "FAILED")]

\* resolveOpenedPacks has run.
Resolved ==
  /\ duel = [status |-> "AWAITING_ASSETS", evidence |-> TRUE]
  /\ custody = Assets /\ known = Assets
  /\ rows = [r \in Rows |-> NoRow]

\* The duel left funding or opening for refund, with what had been deposited.
Refunding ==
  /\ \E e \in BOOLEAN : duel = [status |-> "REFUNDING", evidence |-> e]
  /\ custody \in (SUBSET Assets) \ {{}} /\ known \in SUBSET custody
  /\ duel.evidence => known = Assets
  /\ rows = [r \in Rows |-> NoRow]

\* The commitment or the settlement is final, and an earlier verifier made its
\* row FAILED with ACCOUNT_ACCESS_MISMATCH.
Rejected ==
  /\ duel = [status |-> "REFUNDING", evidence |-> TRUE]
  /\ custody = Assets /\ known = Assets
  /\ \/ rows = [r \in Rows |-> IF r = Commit THEN OldRow("FAILED") ELSE NoRow]
     \/ rows = [r \in Rows |-> CASE r = Commit -> OldRow("FINALIZED")
                                 [] r = Settle -> OldRow("FAILED") [] OTHER -> NoRow]

Init ==
  /\ \/ "resolved" \in Starts /\ Resolved
     \/ "refunding" \in Starts /\ Refunding
     \/ "rejected" \in Starts /\ Rejected
  /\ job = [p \in Procs |-> Idle]
  /\ chain = [r \in Rows |-> [g \in Gens |-> IF rows[r].sig = g THEN "finalized" ELSE "unsent"]]
  /\ expired = FALSE /\ faults = 0

\* What a process does once it has begun.
Continue(p) ==
  \/ PersistTrackedIntent(p) \/ SignAndSend(p) \/ BindSubmission(p)
  \/ ReadState(p) \/ RefundNext(p) \/ RouteToSettlement(p) \/ Complete(p)
  \/ LoadRow(p) \/ RecordConfirmed(p) \/ RecordTerminal(p) \/ RecordFinalized(p)
  \/ ScanFound(p) \/ ScanEmpty(p) \/ BindRecovered(p) \/ RecordRecoveryAlert(p)

\* The worker passes, and open() called again for the result.
Visit(p, r) == ReadStatus(p, r) \/ BeginRecovery(p, r)
AskForResult(p) == BeginSettle(p, Commit) \/ BeginSettle(p, Settle)

Cluster == \E r \in Rows : \/ BlockhashExpires(r)
                           \/ \E g \in Gens : Lands(r, g) \/ Finalizes(r, g)

Next ==
  \/ \E p \in Procs :
       Continue(p) \/ ReadRefunding(p) \/ AskForResult(p) \/ \E r \in Rows : Visit(p, r)
  \/ Cluster
  \/ DuelExpires
  \/ FundingFails

Spec == Init /\ [][Next]_vars

\* Requests and passes run on, the workers keep visiting the duel and its open
\* refunds, the cluster makes progress and its index does not miss a final
\* transaction for ever.
FairSpec ==
  /\ Spec
  /\ \A p \in Procs :
       /\ WF_vars(Continue(p)) /\ SF_vars(ReadRefunding(p)) /\ SF_vars(ScanFound(p))
       /\ \A r \in {q \in Rows : IsRefund(q)} : SF_vars(Visit(p, r))
  /\ WF_vars(Cluster) /\ WF_vars(DuelExpires)

(***************************************************************************)
(* Properties.                                                             *)
(***************************************************************************)
TypeOK ==
  /\ duel \in [status : DuelStatuses, evidence : BOOLEAN]
  /\ custody \subseteq Assets /\ known \subseteq custody
  /\ rows \in [Rows -> [st : RowStatuses, gen : 0..MaxGens, sig : 0..MaxGens,
                        checked : BOOLEAN, alert : BOOLEAN, access : BOOLEAN]]
  /\ \A r \in Rows : rows[r].st \in ACTIVE_STATUSES \cup {"FINALIZED"} => rows[r].sig > 0
  /\ job \in [Procs -> [op : Ops, row : Rows, gen : 0..MaxGens, height : 0..2,
                        saw : {"nothing", "null", "err", "confirmed", "finalized"}
                                \cup DuelStatuses,
                        from : {"nothing"} \cup DuelStatuses, recover : BOOLEAN,
                        todo : [Assets -> -1..(MaxAttempts + 1)], proved : BOOLEAN]]
  /\ chain \in [Rows -> [Gens -> ChainStates]]
  /\ expired \in BOOLEAN /\ faults \in 0..MaxFaults

\* The database says settled only over a settlement that is final, whichever
\* pass, retry or recovery recorded it.
SettledIsBacked == duel.status = "SETTLED" => Landed(Settle, Final)

\* The database says refunded only when every asset that was deposited has gone
\* back in a final transaction, also one the database had not heard of.
RefundedIsBacked ==
  duel.status = "REFUNDED" => \A a \in custody : Refunded(a, Final)

\* Concurrent passes never have two refunds of one asset under way.
OneRefundInFlight ==
  \A a \in Assets :
    Cardinality({k \in 1..MaxAttempts : rows[<<a, k>>].st \in ACTIVE_REFUND_STATUSES}) <= 1

\* Whatever a late pass, an alert or a failure writes, a duel that has been paid
\* out stays paid out.
PayoutIsPermanent ==
  [][duel.status \in {"SETTLED", "REFUNDED"} => duel'.status = duel.status]_vars

\* Where the assets of the duel are, by what is final on the cluster.
Whereabouts ==
  [a \in Assets |-> IF a \notin custody THEN "nowhere"
                    ELSE IF Refunded(a, Final) THEN "owner"
                    ELSE IF Landed(Settle, Final) THEN "winner" ELSE "escrow"]

\* The payout of a duel keeps the promise of PayoutPromise, through every retry, lost
\* answer, late write and recovery: owners or winner, never both, and the status behind.
Payout == INSTANCE PayoutPromise WITH status <- duel.status, at <- Whereabouts
PaidOneWay == Payout!Spec

(***************************************************************************)
(* The inductive invariant, for DuelSettlementProofs.                      *)
(***************************************************************************)
\* A message is numbered from 1, and a signature is bound to a prepared row only.
RowsAreWhole == \A r \in Rows :
  /\ rows[r].st = "NONE" => rows[r] = NoRow
  /\ rows[r].st # "NONE" => rows[r].gen > 0
  /\ rows[r].st = "PREPARED" => rows[r].sig = 0
  /\ rows[r].access => rows[r].sig > 0

\* What the cluster does not revise.
Decided == {"finalized", "error", "dead"}

\* A row leaves the monitor's hands only when the cluster has decided its message, or when
\* its signature belongs to another message.
ClosedIsDecided == \A r \in Rows :
  rows[r].sig > 0 /\ Verified(r) /\ rows[r].st \notin ACTIVE_STATUSES =>
    chain[r][rows[r].sig] \in Decided

\* A closed row that no late write of the monitor can make active again.
Over(r) == /\ rows[r].st \in {"EXPIRED", "FAILED", "FINALIZED"}
           /\ ~(rows[r].sig > 0 /\ Verified(r) /\ chain[r][rows[r].sig] \in OnChain)

\* The attempts on one asset follow each other.
AttemptsInOrder == \A a \in Assets, k \in 1..MaxAttempts :
  rows[<<a, k>>].st # "NONE" => \A i \in 1..MaxAttempts : i < k => Over(<<a, i>>)

\* What a process read from the cluster is still true of it when the process acts on it.
KnowsTheChain(j) ==
  LET row == rows[j.row]
  IN  /\ j.op \in {"send", "bind", "scan", "bindFound"} => j.gen > 0
      /\ j.op \in {"seen", "record"} =>
           /\ row.sig > 0 /\ j.saw \in {"null", "err", "confirmed", "finalized"}
           /\ j.saw = "confirmed" => chain[j.row][row.sig] \in OnChain
           /\ j.saw = "finalized" => chain[j.row][row.sig] = "finalized"
           /\ j.saw = "err" => chain[j.row][row.sig] = "error"
      /\ j.op = "record" => j.from \in DuelStatuses
      /\ j.op = "record" /\ j.saw = "null" => chain[j.row][row.gen] \in Decided
      /\ j.op = "complete" => \A a \in custody : Refunded(a, Final)

\* An attempt is planned behind attempts that are over.  Before the escrow is read one of
\* them may have refunded the asset, which the escrow will tell.
KeepsTheOrder(j) ==
  /\ \A a \in Assets, i \in 1..MaxAttempts :
       /\ j.op = "escrow" /\ i < j.todo[a] => Over(<<a, i>>) \/ Landed(<<a, i>>, Final)
       /\ j.op \in {"assets", "persist", "send", "bind"} /\ i < j.todo[a] => Over(<<a, i>>)
  /\ j.op = "persist" /\ IsRefund(j.row) =>
       \A i \in 1..MaxAttempts : i < j.row[2] => Over(<<j.row[1], i>>)

JobsAreSound == \A p \in Procs : KnowsTheChain(job[p]) /\ KeepsTheOrder(job[p])

SettlementInv == /\ TypeOK /\ RowsAreWhole /\ ClosedIsDecided /\ AttemptsInOrder
                 /\ JobsAreSound /\ SettledIsBacked /\ RefundedIsBacked

\* The escrow is emptied one way: a settlement only behind the commitment, which only
\* a full escrow accepts and after which it refunds nothing.
EscrowOneWay ==
  /\ Landed(Settle, OnChain) => Landed(Commit, OnChain)
  /\ Landed(Commit, OnChain) =>
       custody = Assets /\ \A a \in Assets : ~Refunded(a, OnChain)
  /\ \A a \in Assets : Refunded(a, OnChain) => a \in custody

\* A transaction that landed and that its row will never own up to.
Stray == \E r \in Rows : /\ Landed(r, OnChain)
                         /\ rows[r].st \in {"EXPIRED", "FAILED"} \/ rows[r].alert

\* A card whose outcome was never recorded blocks the refunds of its duel.
Blocked == ~duel.evidence /\ \E a \in Range(Cards) : Held(a, Final)

\* A duel in refund with no result on chain is refunded, through failing
\* transactions and lost answers.
RefundCompletes ==
  duel.status = "REFUNDING" ~>
    \/ duel.status \in {"REFUNDED", "FAILED"}
    \/ Landed(Commit, OnChain)
    \/ Stray \/ Blocked
=============================================================================
