----------------------------- MODULE FlipSession -----------------------------
(***************************************************************************)
(* A flip session: its durable row and append-only transitions, the        *)
(* admission of its stake against the tier, and the deterministic          *)
(* selection with its audit proof (flip/flip-session-state.service.ts,     *)
(* flip-tier-admission.*.ts, flip-outcome-selection.service.ts), with the  *)
(* triggers of the flip tables that decide whether a write commits.        *)
(*                                                                         *)
(* Every transition is one SERIALIZABLE transaction guarded by status and  *)
(* version, so it is one step; a request that is refused, or that replays  *)
(* its transition key, changes nothing and is not a step.  A stake and a   *)
(* selection are calls of several steps.  An asset is named by the ordinal *)
(* of its outcome, a purchase or transfer by its provider reference.       *)
(***************************************************************************)
EXTENDS Integers, Sequences, FiniteSets

CONSTANTS
  Sessions, FlipCalls,            \* sessions, and calls of one API process in flight
  Entropies,                      \* approved entropy inputs, naturals
  Ordinals,                       \* committed outcome space of every session
  FlipStakes,                     \* stake amounts; 1 is the stake of the ruleset
  MaxHealthAge,                   \* maximumSourceAgeMs
  MaxFlipTime

ASSUME FlipSessionConstants ==
  /\ Ordinals \subseteq Nat /\ Entropies \subseteq Nat /\ IsFiniteSet(Ordinals)
  /\ 0 \notin Ordinals /\ Ordinals # {} /\ 1 \in FlipStakes
  /\ MaxHealthAge \in Nat /\ MaxFlipTime \in Nat

VARIABLES
  flip,        \* flip[s]: the FlipSession row
  flipLog,     \* flipLog[s]: its FlipSessionTransition rows
  proof,       \* proof[s]: the FlipOutcomeSelectionProof row
  flipTier,    \* flipTier[a]: the FlipTierAdmissionState row of stake a
  health,      \* the provider health fixture
  flipCall,    \* flipCall[c]: one confirm-stake or selection call
  flipTime

flipVars == <<flip, flipLog, proof, flipTier, health, flipCall, flipTime>>

FlipStatuses == <<"AWAITING_STAKE", "STAKE_CONFIRMED", "POOL_COMMITTED", "SELECTION_RECORDED",
                  "PURCHASE_RECORDED", "TRANSFER_RECORDED", "REVEAL_READY", "SETTLED">>
FlipTerminal == {"SETTLED", "RECOVERED", "FAILED"}

\* Kind of the transition that enters a status, and the status it leaves.
FlipStep == [k \in {"confirm-stake", "commit-pool", "record-selection", "record-purchase",
                    "record-transfer", "mark-reveal-ready", "settle"} |->
  CASE k = "confirm-stake"     -> <<"AWAITING_STAKE", "STAKE_CONFIRMED">>
    [] k = "commit-pool"       -> <<"STAKE_CONFIRMED", "POOL_COMMITTED">>
    [] k = "record-selection"  -> <<"POOL_COMMITTED", "SELECTION_RECORDED">>
    [] k = "record-purchase"   -> <<"SELECTION_RECORDED", "PURCHASE_RECORDED">>
    [] k = "record-transfer"   -> <<"PURCHASE_RECORDED", "TRANSFER_RECORDED">>
    [] k = "mark-reveal-ready" -> <<"TRANSFER_RECORDED", "REVEAL_READY">>
    [] k = "settle"            -> <<"REVEAL_READY", "SETTLED">>]

NoSession == [status |-> "NONE", version |-> 0, stake |-> 0, pool |-> FALSE, ordinal |-> 0,
              purchase |-> 0, transfer |-> 0, reveal |-> FALSE, reason |-> "none"]
NoProof == [entropy |-> 0, ordinal |-> 0, final |-> FALSE]
\* What the provider last reported, and when it was observed.
NoHealth == [state |-> "missing", at |-> 0]
FlipIdle == [pc |-> "idle", session |-> 0, amount |-> 0, at |-> 0, health |-> NoHealth]

(***************************************************************************)
(* Transitions.  A request is [kind, ev, key]; its expected version is the *)
(* version the caller read, so an accepted one meets the current version.  *)
(***************************************************************************)
FlipRequest(kind, ev, key) == [kind |-> kind, ev |-> ev, key |-> key]

Logged(s, key) == \E i \in DOMAIN flipLog[s] : flipLog[s][i].key = key

\* Mutant: recovery may start while a prepared proof waits for its transition.
ProofContractOfSelectionOnly(s, r) ==
  r.kind = "record-selection" => proof[s].entropy # 0 /\ ~proof[s].final /\ r.ev = proof[s].ordinal

\* validate_flip_selection_transition_proof: a selection carries its prepared proof, and
\* nothing else is recorded between a prepared proof and its finalization.
ProofContract(s, r) ==
  IF r.kind = "record-selection"
  THEN proof[s].entropy # 0 /\ ~proof[s].final /\ r.ev = proof[s].ordinal
  ELSE proof[s].entropy # 0 => proof[s].final

\* requireStake ... requireTransfer: the evidence a request of a kind carries.
EvidenceOK(r) ==
  CASE r.kind = "confirm-stake" -> r.ev \in FlipStakes
    [] r.kind = "record-selection" -> r.ev \in Ordinals
    [] r.kind \in {"record-purchase", "record-transfer", "mark-reveal-ready"} -> r.ev \in Nat \X Nat
    [] OTHER -> TRUE

\* resolveAction: what each action asks of the durable row.
Resolvable(s, r) ==
  LET row == flip[s] IN
  CASE r.kind = "request-recovery" -> row.status # "RECOVERY_REQUIRED"
    [] r.kind \in {"complete-recovery", "terminate"} -> row.status = "RECOVERY_REQUIRED"
    [] r.kind = "confirm-stake"     -> row.status = "AWAITING_STAKE"
    [] r.kind = "commit-pool"       -> row.status = "STAKE_CONFIRMED" /\ row.stake = 1
    [] r.kind = "record-selection"  -> row.status = "POOL_COMMITTED"
    [] r.kind = "record-purchase"   -> row.status = "SELECTION_RECORDED" /\ r.ev[1] = row.ordinal
    [] r.kind = "record-transfer"   -> row.status = "PURCHASE_RECORDED" /\ r.ev[1] = row.ordinal
    [] r.kind = "mark-reveal-ready" -> /\ row.status = "TRANSFER_RECORDED"
                                       /\ r.ev = <<row.purchase, row.transfer>>
    [] r.kind = "settle"            -> row.status = "REVEAL_READY" /\ r.ev = row.ordinal

\* Mutant: a completed recovery leaves no terminal reason.
ReasonOfSettlementOnly(kind, reason) == IF kind = "settle" THEN "FIXTURE_SETTLED" ELSE reason

TerminalReason(kind, reason) ==
  CASE kind = "settle" -> "FIXTURE_SETTLED"
    [] kind = "complete-recovery" -> "FIXTURE_RECOVERY_COMPLETED"
    [] kind = "terminate" -> "FIXTURE_TERMINATED"
    [] OTHER -> reason

\* The row a transition writes.
Resolved(s, r) ==
  [flip[s] EXCEPT !.version = @ + 1,
     !.status = CASE r.kind = "request-recovery" -> "RECOVERY_REQUIRED"
                  [] r.kind = "complete-recovery" -> "RECOVERED"
                  [] r.kind = "terminate" -> "FAILED"
                  [] OTHER -> FlipStep[r.kind][2],
     !.stake = IF r.kind = "confirm-stake" THEN r.ev ELSE @,
     !.pool = @ \/ r.kind = "commit-pool",
     !.ordinal = IF r.kind = "record-selection" THEN r.ev ELSE @,
     !.purchase = IF r.kind = "record-purchase" THEN r.ev[2] ELSE @,
     !.transfer = IF r.kind = "record-transfer" THEN r.ev[2] ELSE @,
     !.reveal = @ \/ r.kind = "mark-reveal-ready",
     !.reason = TerminalReason(r.kind, @)]

\* The columns a stored transition repeats from the row.
Recorded(s, r) ==
  LET late == r.kind \notin {"confirm-stake", "commit-pool"}
  IN  [kind |-> r.kind, key |-> r.key, ev |-> r.ev, from |-> flip[s].status,
       to |-> Resolved(s, r).status, reason |-> Resolved(s, r).reason,
       pool |-> r.kind # "confirm-stake" /\ Resolved(s, r).pool,
       asset |-> IF late THEN Resolved(s, r).ordinal ELSE 0]

CanFlipTransition(s, r) ==
  /\ flip[s].status \notin FlipTerminal \cup {"NONE"}
  /\ EvidenceOK(r)
  /\ ~Logged(s, r.key)
  /\ Resolvable(s, r)
  /\ ProofContract(s, r)

FlipTransition(s, r) ==
  /\ CanFlipTransition(s, r)
  /\ flip' = [flip EXCEPT ![s] = Resolved(s, r)]
  /\ flipLog' = [flipLog EXCEPT ![s] = Append(@, Recorded(s, r))]

\* createFixtureSession
CreateFixtureSession(s) ==
  /\ flip[s].status = "NONE"
  /\ flip' = [flip EXCEPT ![s] = [NoSession EXCEPT !.status = "AWAITING_STAKE", !.version = 1]]
  /\ flipLog' = [flipLog EXCEPT ![s] = <<[kind |-> "session-started", key |-> "session-started",
                   ev |-> 0, from |-> "NONE", to |-> "AWAITING_STAKE", reason |-> "none",
                   pool |-> FALSE, asset |-> 0]>>]
  /\ UNCHANGED <<proof, flipTier, health, flipCall, flipTime>>

\* Requests of the operator.  Purchase and transfer come from the acquisition.
OperatorRequests(s) ==
  {FlipRequest("commit-pool", s, "pool"), FlipRequest("settle", flip[s].ordinal, "settle"),
   FlipRequest("request-recovery", 0, "operator-recovery"),
   FlipRequest("complete-recovery", 0, "recovered"), FlipRequest("terminate", 0, "terminated")}
OperatorTransition(s) ==
  /\ \E r \in OperatorRequests(s) : FlipTransition(s, r)
  /\ UNCHANGED <<proof, flipTier, health, flipCall, flipTime>>

(***************************************************************************)
(* confirm-stake: time and provider health are read before the             *)
(* transaction; a denied stake is persisted by a transaction of its own.   *)
(***************************************************************************)
HealthAge(call) == call.at - call.health.at

\* evaluateFlipTierAdmission: the pool of the session is sealed for stake 1.
AdmissionReason(call) ==
  CASE call.amount # 1 -> "configuration_invalid"
    [] call.health.state = "missing" -> "provider_health_missing"
    [] call.health.state = "outage" -> "provider_outage"
    [] call.health.state = "healthy" /\ HealthAge(call) > MaxHealthAge -> "provider_health_stale"
    [] OTHER -> "allowed"

\* recordFlipTierAdmissionState: the state only moves to evaluations not older.
TierAfter(amount, disabled, at) ==
  IF flipTier[amount].at > at THEN flipTier
  ELSE [flipTier EXCEPT ![amount] = [disabled |-> disabled, at |-> at]]

\* protect_flip_session_admission_binding: the stake binds only to a decision that is
\* the current state of its tier.
AdmissionIsCurrent(call) == flipTier[call.amount].at <= call.at

ReadProviderHealth(c, s) ==
  /\ flipCall[c].pc = "idle" /\ flip[s].status = "AWAITING_STAKE"
  /\ \E a \in FlipStakes : flipCall' = [flipCall EXCEPT ![c] =
       [pc |-> "stake", session |-> s, amount |-> a, at |-> flipTime, health |-> health]]
  /\ UNCHANGED <<flip, flipLog, proof, flipTier, health, flipTime>>

\* A stake is also denied when the pool is: its snapshot is stale, its quality below the
\* reviewed thresholds (PoolRefusal of FlipRules), or the health row is malformed.
ConfirmStake(c) ==
  LET call == flipCall[c]
      r == FlipRequest("confirm-stake", call.amount, "stake") IN
  /\ call.pc = "stake"
  /\ IF ~CanFlipTransition(call.session, r)
     THEN /\ flipCall' = [flipCall EXCEPT ![c] = FlipIdle]
          /\ UNCHANGED <<flip, flipLog, flipTier>>
     ELSE \/ /\ flipCall' = [flipCall EXCEPT ![c].pc = "denied"]
             /\ UNCHANGED <<flip, flipLog, flipTier>>
          \/ /\ AdmissionReason(call) = "allowed"
             /\ flipCall' = [flipCall EXCEPT ![c] = FlipIdle]
             /\ IF AdmissionIsCurrent(call)
                THEN /\ flipTier' = TierAfter(call.amount, FALSE, call.at)
                     /\ FlipTransition(call.session, r)
                ELSE UNCHANGED <<flip, flipLog, flipTier>>
  /\ UNCHANGED <<proof, health, flipTime>>

\* persistRejectedFlipTierAdmission
PersistRejected(c) ==
  /\ flipCall[c].pc = "denied"
  /\ flipTier' = TierAfter(flipCall[c].amount, TRUE, flipCall[c].at)
  /\ flipCall' = [flipCall EXCEPT ![c] = FlipIdle]
  /\ UNCHANGED <<flip, flipLog, proof, health, flipTime>>

\* The environment: time passes and the provider reports.
FlipTick ==
  /\ flipTime < MaxFlipTime
  /\ flipTime' = flipTime + 1
  /\ UNCHANGED <<flip, flipLog, proof, flipTier, health, flipCall>>
ProviderReports ==
  /\ health' \in [state : {"outage", "healthy"}, at : {flipTime}] \ {health}
  /\ UNCHANGED <<flip, flipLog, proof, flipTier, flipCall, flipTime>>

(***************************************************************************)
(* selectFixtureOutcome: the proof is prepared, then the transition is     *)
(* recorded, then the proof is finalized against it.                       *)
(***************************************************************************)
\* The outcome an entropy yields for the committed pool; FlipRules draws it.
OutcomeOf(entropy) ==
  CHOOSE n \in Ordinals :
    Cardinality({m \in Ordinals : m < n}) = entropy % Cardinality(Ordinals)

SelectionKey == "selection"
GotoFlip(c, pc) == flipCall' = [flipCall EXCEPT ![c].pc = pc]
EndFlipCall(c) == flipCall' = [flipCall EXCEPT ![c] = FlipIdle]

SelectOutcome(c, s) ==
  /\ flipCall[c].pc = "idle"
  /\ flip[s].pool /\ (flip[s].status = "POOL_COMMITTED" \/ flip[s].ordinal # 0)
  /\ \E e \in Entropies : flipCall' = [flipCall EXCEPT ![c] =
       [FlipIdle EXCEPT !.pc = "prepare", !.session = s, !.amount = e]]
  /\ UNCHANGED <<flip, flipLog, proof, flipTier, health, flipTime>>

\* assertStoredProof, assertSelectedReplay: a stored proof, a recorded outcome is this
\* entropy's.
StoredProofMatches(s, entropy) == proof[s].entropy = entropy
SelectedReplayMatches(s, entropy) == flip[s].ordinal = OutcomeOf(entropy)

EnsurePreparedProof(c) ==
  LET call == flipCall[c]
      s == call.session
      mine == [entropy |-> call.amount, ordinal |-> OutcomeOf(call.amount), final |-> FALSE] IN
  /\ call.pc = "prepare"
  /\ CASE proof[s].entropy # 0 /\ ~StoredProofMatches(s, call.amount) -> EndFlipCall(c) /\ UNCHANGED proof
       [] StoredProofMatches(s, call.amount) /\ Logged(s, SelectionKey) ->
            GotoFlip(c, "finalize") /\ UNCHANGED proof
       [] (proof[s].entropy = 0 \/ StoredProofMatches(s, call.amount)) /\ ~Logged(s, SelectionKey) ->
            IF flip[s].status # "POOL_COMMITTED" THEN EndFlipCall(c) /\ UNCHANGED proof
            ELSE /\ GotoFlip(c, "record")
                 /\ proof' = [proof EXCEPT ![s] = IF @.entropy = 0 THEN mine ELSE @]
       [] OTHER -> EndFlipCall(c) /\ UNCHANGED proof
  /\ UNCHANGED <<flip, flipLog, flipTier, health, flipTime>>

\* A transition that a concurrent call has recorded is a replay.
RecordSelection(c) ==
  LET call == flipCall[c]
      s == call.session
      r == FlipRequest("record-selection", OutcomeOf(call.amount), SelectionKey) IN
  /\ call.pc = "record"
  /\ \/ FlipTransition(s, r) /\ GotoFlip(c, "finalize")
     \/ /\ ~CanFlipTransition(s, r)
        /\ IF Logged(s, SelectionKey) THEN GotoFlip(c, "finalize") ELSE EndFlipCall(c)
        /\ UNCHANGED <<flip, flipLog>>
  /\ UNCHANGED <<proof, flipTier, health, flipTime>>

FinalizeProof(c) ==
  LET s == flipCall[c].session IN
  /\ flipCall[c].pc = "finalize"
  /\ proof' = [proof EXCEPT ![s].final = @ \/ SelectedReplayMatches(s, flipCall[c].amount)]
  /\ EndFlipCall(c)
  /\ UNCHANGED <<flip, flipLog, flipTier, health, flipTime>>

\* The API process dies between two transactions of a call.
FlipCallDies(c) ==
  /\ flipCall[c].pc # "idle"
  /\ EndFlipCall(c)
  /\ UNCHANGED <<flip, flipLog, proof, flipTier, health, flipTime>>

StakeSteps(c) ==
  \/ \E s \in Sessions : ReadProviderHealth(c, s)
  \/ ConfirmStake(c) \/ PersistRejected(c)
SelectionSteps(c) ==
  \/ \E s \in Sessions : SelectOutcome(c, s)
  \/ EnsurePreparedProof(c) \/ RecordSelection(c) \/ FinalizeProof(c) \/ FlipCallDies(c)

(***************************************************************************)
(* assertSessionLedger: what every read of a session asks of its rows.     *)
(***************************************************************************)
RankOf(status) == CHOOSE i \in DOMAIN FlipStatuses : FlipStatuses[i] = status

\* assertMilestoneContract: a recovery keeps the milestones of where it began.
MilestoneStatus(s) ==
  IF flip[s].status \notin {"RECOVERY_REQUIRED", "RECOVERED", "FAILED"} THEN flip[s].status
  ELSE flipLog[s][CHOOSE i \in DOMAIN flipLog[s] :
                    flipLog[s][i].kind = "request-recovery"].from
MilestonesValid(s) ==
  LET rank == RankOf(MilestoneStatus(s)) IN
  /\ (flip[s].stake # 0) = (rank >= 2)
  /\ flip[s].pool = (rank >= 3)
  /\ (flip[s].ordinal # 0) = (rank >= 4)
  /\ (flip[s].purchase # 0) = (rank >= 5)
  /\ (flip[s].transfer # 0) = (rank >= 6)
  /\ flip[s].reveal = (rank >= 7)

\* expectedStoredTransition: the statuses and the evidence a row lets its transition have.
StoredEdgeValid(t) ==
  CASE t.kind = "session-started" -> t.from = "NONE"
    [] t.kind = "request-recovery" -> t.to = "RECOVERY_REQUIRED"
    [] t.kind = "complete-recovery" -> t.from = "RECOVERY_REQUIRED" /\ t.to = "RECOVERED"
    [] t.kind = "terminate" -> t.from = "RECOVERY_REQUIRED" /\ t.to = "FAILED"
    [] OTHER -> <<t.from, t.to>> = FlipStep[t.kind]
StoredEvidenceValid(s, t) ==
  CASE t.kind = "confirm-stake" -> t.ev = flip[s].stake
    [] t.kind = "record-selection" -> t.ev = flip[s].ordinal
    [] t.kind = "record-purchase" -> t.ev = <<flip[s].ordinal, flip[s].purchase>>
    [] t.kind = "record-transfer" -> t.ev = <<flip[s].ordinal, flip[s].transfer>>
    [] t.kind = "mark-reveal-ready" -> t.ev = <<flip[s].purchase, flip[s].transfer>>
    [] t.kind = "settle" -> t.ev = flip[s].ordinal
    [] OTHER -> TRUE

\* The terminal reason expectedStoredTransition gives a transition, by its kind alone.
StoredReason(kind) ==
  CASE kind = "settle" -> "FIXTURE_SETTLED"
    [] kind = "complete-recovery" -> "FIXTURE_RECOVERY_COMPLETED"
    [] kind = "terminate" -> "FIXTURE_TERMINATED"
    [] OTHER -> "none"

\* isValidStoredTransition
StoredTransitionValid(s, t) ==
  /\ StoredEdgeValid(t) /\ StoredEvidenceValid(s, t) /\ t.reason = StoredReason(t.kind)
  /\ t.pool = (flip[s].pool /\ t.kind \notin {"session-started", "confirm-stake"})
  /\ t.asset = IF t.kind \in {"session-started", "confirm-stake", "commit-pool"} THEN 0
               ELSE flip[s].ordinal

\* assertStoredCommitmentBinding: the pool was sealed for stake 1, and the selected
\* outcome is one of the committed ones.
CommitmentBound(s) ==
  IF flip[s].pool THEN flip[s].stake = 1 /\ flip[s].ordinal \in Ordinals \cup {0} ELSE flip[s].ordinal = 0

SessionLedgerValid(s) ==
  LET log == flipLog[s] IN
  /\ Len(log) = flip[s].version
  /\ \A i \in DOMAIN log : log[i].from = IF i = 1 THEN "NONE" ELSE log[i - 1].to
  /\ log[1].kind = "session-started" /\ log[Len(log)].to = flip[s].status
  /\ (flip[s].status \in FlipTerminal) = (flip[s].reason # "none")
  /\ CommitmentBound(s) /\ MilestonesValid(s)
  /\ \A i \in DOMAIN log : StoredTransitionValid(s, log[i])

FlipSessionInit ==
  /\ flipTier = [a \in FlipStakes |-> [disabled |-> FALSE, at |-> 0]]
  /\ health = NoHealth /\ flipTime = 0
  /\ flipCall = [c \in FlipCalls |-> FlipIdle]

FlipSessionTypeOK ==
  /\ \A s \in Sessions : /\ flip[s].version \in 0..10
                         /\ flip[s].ordinal \in Ordinals \cup {0}
                         /\ proof[s].entropy \in Entropies \cup {0}
  /\ \A c \in FlipCalls : flipCall[c].pc \in {"idle", "stake", "denied", "prepare", "record", "finalize"}
  /\ \A a \in FlipStakes : flipTier[a].at \in 0..MaxFlipTime

(***************************************************************************)
(* Properties.                                                             *)
(***************************************************************************)
\* No interleaving of stakes, selections, acquisitions and recoveries leaves a session
\* that findSession refuses to read: row, milestones and transitions always agree.
FlipSessionsStayReadable ==
  \A s \in Sessions : flip[s].status # "NONE" => SessionLedgerValid(s)

\* The outcome a session carries is the one its stored proof derives, and once a proof is
\* prepared no other step of the session happens before it is final: a selection in
\* progress can neither be replaced by another entropy nor abandoned.
SelectionIsProven ==
  \A s \in Sessions :
    /\ flip[s].ordinal # 0 => /\ proof[s].ordinal = flip[s].ordinal
                              /\ proof[s].ordinal = OutcomeOf(proof[s].entropy)
    /\ proof[s].entropy # 0 /\ ~proof[s].final =>
         flip[s].status \in {"POOL_COMMITTED", "SELECTION_RECORDED"}
=============================================================================
