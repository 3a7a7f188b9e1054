--------------------------- MODULE CardGameProofs ---------------------------
(*****************************************************************************)
(* Machine-checked proofs about the two games that deliver a card:           *)
(* FlipSession with FlipAcquisition, GachaPayment with GachaRip, and the     *)
(* tabs that pay for rips (GachaClient), for any sessions, calls, workers,   *)
(* outcomes, stakes, wallets, intents, rips, seeds, cards, tabs and signed   *)
(* transactions.                                                             *)
(*****************************************************************************)
EXTENDS FlipAcquisition, GachaRip, GachaClient, FiniteSetTheorems, SequenceTheorems, WellFoundedInduction, TLAPS

(*****************************************************************************)
(* Flip.                                                                    *)
(*****************************************************************************)

FlipInit ==
  /\ FlipSessionInit /\ AcquisitionInit
  /\ flip = [s \in Sessions |-> NoSession] /\ flipLog = [s \in Sessions |-> <<>>]
  /\ proof = [s \in Sessions |-> NoProof]

\* Stakes, selections, the operator and the acquisition, all at once.
FlipSessionStep ==
  \/ \E c \in FlipCalls : StakeSteps(c) \/ SelectionSteps(c)
  \/ FlipTick \/ ProviderReports
  \/ \E s \in Sessions : CreateFixtureSession(s) \/ OperatorTransition(s)
FlipNext == (FlipSessionStep /\ UNCHANGED acqVars) \/ AcquisitionStep
FlipSpec == FlipInit /\ [][FlipNext]_<<flipVars, acqVars>>

SessionStatuses == {"NONE", "AWAITING_STAKE", "STAKE_CONFIRMED", "POOL_COMMITTED", "SELECTION_RECORDED",
                    "PURCHASE_RECORDED", "TRANSFER_RECORDED", "REVEAL_READY", "SETTLED",
                    "RECOVERY_REQUIRED", "RECOVERED", "FAILED"}
Reasons == {"none", "FIXTURE_SETTLED", "FIXTURE_RECOVERY_COMPLETED", "FIXTURE_TERMINATED"}
FlipRow == [status : SessionStatuses,
            version : Nat, stake : FlipStakes \cup {0}, pool : BOOLEAN, ordinal : Ordinals \cup {0},
            purchase : Nat, transfer : Nat, reveal : BOOLEAN,
            reason : Reasons]
FlipEvidence == Nat \cup (Nat \X Nat) \cup FlipStakes \cup Sessions
Kinds == {"session-started", "confirm-stake", "commit-pool", "record-selection", "record-purchase",
          "record-transfer", "mark-reveal-ready", "settle", "request-recovery", "complete-recovery", "terminate"}
Keys == {"session-started", "stake", "pool", "selection", "flip-acquisition:1:purchase",
         "flip-acquisition:2:transfer", "reveal", "settle", "operator-recovery", "flip-acquisition-recovery",
         "recovered", "terminated"}
LogRow == [kind : Kinds, key : Keys, ev : FlipEvidence, from : SessionStatuses, to : SessionStatuses,
           reason : Reasons, pool : BOOLEAN, asset : Nat]

(***************************************************************************)
(* The shape of a session's ledger: n milestones in their order, then      *)
(* perhaps a recovery and its end.                                         *)
(***************************************************************************)
FlipKinds == <<"session-started", "confirm-stake", "commit-pool", "record-selection", "record-purchase",
               "record-transfer", "mark-reveal-ready", "settle">>
FlipKeys == <<"session-started", "stake", "pool", "selection", "flip-acquisition:1:purchase",
              "flip-acquisition:2:transfer", "reveal", "settle">>
RecoveryKinds == {"request-recovery", "complete-recovery", "terminate"}
RecoveryKeys == {"operator-recovery", "flip-acquisition-recovery", "recovered", "terminated"}

\* Transition t is the i-th milestone of row.
EntryFits(t, i, row) ==
  /\ t.kind = FlipKinds[i] /\ t.key = FlipKeys[i] /\ t.to = FlipStatuses[i]
  /\ t.from = IF i = 1 THEN "NONE" ELSE FlipStatuses[i - 1]
  /\ i = 2 => t.ev = row.stake
  /\ i = 4 => t.ev = row.ordinal
  /\ i = 5 => t.ev = <<row.ordinal, row.purchase>>
  /\ i = 6 => t.ev = <<row.ordinal, row.transfer>>
  /\ i = 7 => t.ev = <<row.purchase, row.transfer>>
  /\ i = 8 => t.ev = row.ordinal
  /\ t.pool = (i >= 3)
  /\ t.asset = IF i >= 4 THEN row.ordinal ELSE 0
  /\ t.reason = IF i = 8 THEN "FIXTURE_SETTLED" ELSE "none"

\* Transition t belongs to a recovery that began at milestone n of row.
RecoveryFits(t, kind, from, to, n, row) ==
  /\ t.kind = kind /\ t.key \in RecoveryKeys /\ t.from = from /\ t.to = to
  /\ t.pool = (n >= 3) /\ t.asset = row.ordinal /\ t.reason = StoredReason(kind)

Milestones(row, n) ==
  /\ row.stake = IF n >= 2 THEN 1 ELSE 0
  /\ row.pool = (n >= 3)
  /\ (row.ordinal # 0) = (n >= 4) /\ row.ordinal \in Ordinals \cup {0}
  /\ row.purchase = IF n >= 5 THEN 1 ELSE 0
  /\ row.transfer = IF n >= 6 THEN 2 ELSE 0
  /\ row.reveal = (n >= 7)

Shape(row, log, n) ==
  /\ Milestones(row, n) /\ row.version = Len(log)
  /\ n <= Len(log) /\ \A i \in 1..n : EntryFits(log[i], i, row)
  /\ \/ /\ row.status = FlipStatuses[n] /\ Len(log) = n
        /\ row.reason = IF n = 8 THEN "FIXTURE_SETTLED" ELSE "none"
     \/ /\ n < 8 /\ row.status = "RECOVERY_REQUIRED" /\ Len(log) = n + 1 /\ row.reason = "none"
        /\ RecoveryFits(log[n + 1], "request-recovery", FlipStatuses[n], "RECOVERY_REQUIRED", n, row)
     \/ /\ n < 8 /\ row.status \in {"RECOVERED", "FAILED"} /\ Len(log) = n + 2
        /\ row.reason = IF row.status = "RECOVERED" THEN "FIXTURE_RECOVERY_COMPLETED" ELSE "FIXTURE_TERMINATED"
        /\ RecoveryFits(log[n + 1], "request-recovery", FlipStatuses[n], "RECOVERY_REQUIRED", n, row)
        /\ RecoveryFits(log[n + 2], IF row.status = "RECOVERED" THEN "complete-recovery" ELSE "terminate",
                        "RECOVERY_REQUIRED", row.status, n, row)

SessionShaped(s) ==
  \/ flip[s] = NoSession /\ flipLog[s] = <<>>
  \/ \E n \in 1..8 : Shape(flip[s], flipLog[s], n)

(***************************************************************************)
(* The proofs of the selections.                                           *)
(***************************************************************************)
SelectionFits(s) ==
  /\ proof[s].entropy # 0 => proof[s].ordinal = OutcomeOf(proof[s].entropy)
  /\ proof[s].entropy # 0 /\ ~proof[s].final => flip[s].status \in {"POOL_COMMITTED", "SELECTION_RECORDED"}
  /\ flip[s].ordinal # 0 => proof[s].entropy # 0 /\ proof[s].ordinal = flip[s].ordinal

ProofRow == [entropy : Entropies \cup {0}, ordinal : {OutcomeOf(e) : e \in Entropies} \cup {0}, final : BOOLEAN]

(***************************************************************************)
(* Calls.                                                                  *)
(***************************************************************************)
HealthRow == [state : {"missing", "outage", "healthy"}, at : Nat]
CallRow == [pc : {"idle", "stake", "denied", "prepare", "record", "finalize"}, session : Sessions \cup {0},
            amount : FlipStakes \cup Entropies \cup {0}, at : Nat, health : HealthRow]
CallKnows(x) ==
  /\ x.pc # "idle" => x.session \in Sessions
  /\ x.pc \in {"prepare", "record", "finalize"} => x.amount \in Entropies

\* Rows, ledgers and proofs of the sessions, and the calls in flight.
RowsFit ==
  /\ flip \in [Sessions -> FlipRow] /\ flipLog \in [Sessions -> Seq(LogRow)] /\ proof \in [Sessions -> ProofRow]
  /\ \A s \in Sessions : SessionShaped(s) /\ SelectionFits(s)
CallsFit ==
  /\ health \in HealthRow /\ flipTime \in Nat /\ flipCall \in [FlipCalls -> CallRow]
  /\ \A c \in FlipCalls : CallKnows(flipCall[c])
LedgerInv == RowsFit /\ CallsFit

(***************************************************************************)
(* The acquisition.                                                        *)
(***************************************************************************)
OperationRow == [status : {"NONE", "PREPARED", "RECOVERY_REQUIRED", "FINALIZED"},
                 mode : {"NONE", "RECONCILE_ONLY", "RETRYABLE"}, known : BOOLEAN]
PlanRow == [status : {"NONE", "PENDING", "RECOVERY_REQUIRED", "ACQUIRED"}, version : Nat,
            owner : Workers \cup {Nobody}, expired : BOOLEAN, branch : BOOLEAN, count : Nat,
            sessionVersion : Nat, op : [TradeOperations -> OperationRow]]
WorkerRow == [pc : {"idle", "create", "claim", "leased", "snapshot", "operation", "lifecycle", "finalize", "execute",
                    "ambiguous", "reviewed-tx", "reviewed", "acquire", "release"},
              session : Sessions \cup {0}, version : Nat, op : TradeOperations \cup {0}, known : BOOLEAN]
Trading == {"operation", "lifecycle", "finalize", "execute", "ambiguous", "reviewed-tx"}

\* What the plan of session s says of the marketplace and of the session.
PlanFits(s) ==
  /\ \A i \in TradeOperations : /\ acq[s].op[i].status = "FINALIZED" => trade[s][i] = "applied"
                                /\ acq[s].op[i].mode = "RETRYABLE" => trade[s][i] = "rejected"
  /\ acq[s].status = "NONE" => acq[s] = NoPlan
  /\ flip[s].purchase # 0 => acq[s].op[1].status = "FINALIZED"
  /\ flip[s].transfer # 0 => acq[s].op[2].status = "FINALIZED"
  /\ trade[s][2] # "none" => flip[s].purchase # 0
  /\ acq[s].status = "ACQUIRED" => flip[s].transfer # 0
  /\ s \in retained <=> acq[s].op[2].mode = "RETRYABLE"

\* What a worker in state x knows: where it stands in the plan, what the marketplace did
\* and, while it holds the lease, that nobody has handed the plan to a reviewed branch.
WorkerKnows(x, w) ==
  /\ x.pc # "idle" => x.session \in Sessions
  /\ x.pc \in Trading => x.op \in TradeOperations
  /\ x.pc \in Trading /\ x.op = 2 => flip[x.session].purchase # 0
  /\ x.pc = "finalize" => trade[x.session][x.op] = "applied"
  /\ x.pc = "reviewed-tx" => trade[x.session][x.op] = "rejected"
  /\ x.pc = "lifecycle" => acq[x.session].op[x.op].status = "FINALIZED"
  /\ x.pc = "acquire" => flip[x.session].transfer # 0
  /\ x.pc \in Trading /\ acq[x.session].owner = w => ~Retryable(x.session)

AcqTypes ==
  /\ acq \in [Sessions -> PlanRow] /\ worker \in [Workers -> WorkerRow]
  /\ trade \in [Sessions -> [TradeOperations -> {"none", "sent", "applied", "rejected"}]]
  /\ retained \subseteq Sessions
AcquisitionInv ==
  /\ AcqTypes
  /\ \A s \in Sessions : PlanFits(s)
  /\ \A w \in Workers : WorkerKnows(worker[w], w)

FlipInv == LedgerInv /\ AcquisitionInv

-----------------------------------------------------------------------------
(***************************************************************************)
(* Transitions.                                                            *)
(***************************************************************************)
LEMMA Tables ==
  /\ FlipStatuses[1] = "AWAITING_STAKE" /\ FlipStatuses[2] = "STAKE_CONFIRMED"
  /\ FlipStatuses[3] = "POOL_COMMITTED" /\ FlipStatuses[4] = "SELECTION_RECORDED"
  /\ FlipStatuses[5] = "PURCHASE_RECORDED" /\ FlipStatuses[6] = "TRANSFER_RECORDED"
  /\ FlipStatuses[7] = "REVEAL_READY" /\ FlipStatuses[8] = "SETTLED"
  /\ FlipKinds[1] = "session-started" /\ FlipKinds[2] = "confirm-stake" /\ FlipKinds[3] = "commit-pool"
  /\ FlipKinds[4] = "record-selection" /\ FlipKinds[5] = "record-purchase" /\ FlipKinds[6] = "record-transfer"
  /\ FlipKinds[7] = "mark-reveal-ready" /\ FlipKinds[8] = "settle"
  /\ FlipKeys[1] = "session-started" /\ FlipKeys[2] = "stake" /\ FlipKeys[3] = "pool"
  /\ FlipKeys[4] = "selection" /\ FlipKeys[5] = "flip-acquisition:1:purchase"
  /\ FlipKeys[6] = "flip-acquisition:2:transfer" /\ FlipKeys[7] = "reveal" /\ FlipKeys[8] = "settle"
  BY DEF FlipStatuses, FlipKinds, FlipKeys

\* The status a transition of a kind enters.
Entered(kind) ==
  CASE kind = "request-recovery" -> "RECOVERY_REQUIRED"
    [] kind = "complete-recovery" -> "RECOVERED"
    [] kind = "terminate" -> "FAILED"
    [] OTHER -> FlipStep[kind][2]

LEMMA Edges ==
  /\ Entered("confirm-stake") = "STAKE_CONFIRMED" /\ Entered("commit-pool") = "POOL_COMMITTED"
  /\ Entered("record-selection") = "SELECTION_RECORDED" /\ Entered("record-purchase") = "PURCHASE_RECORDED"
  /\ Entered("record-transfer") = "TRANSFER_RECORDED" /\ Entered("mark-reveal-ready") = "REVEAL_READY"
  /\ Entered("settle") = "SETTLED"
  /\ Entered("request-recovery") = "RECOVERY_REQUIRED" /\ Entered("complete-recovery") = "RECOVERED"
  /\ Entered("terminate") = "FAILED"
  BY DEF Entered, FlipStep

\* The row a transition writes, field by field.
LEMMA ResolvedRow ==
  ASSUME NEW s \in Sessions, flip[s] \in FlipRow, NEW r,
         NEW status \in SessionStatuses, status = Entered(r.kind),
         NEW reason \in Reasons, reason = TerminalReason(r.kind, flip[s].reason),
         NEW stake \in FlipStakes \cup {0}, stake = IF r.kind = "confirm-stake" THEN r.ev ELSE flip[s].stake,
         NEW ordinal \in Ordinals \cup {0},
         ordinal = IF r.kind = "record-selection" THEN r.ev ELSE flip[s].ordinal,
         NEW purchase \in Nat, purchase = IF r.kind = "record-purchase" THEN r.ev[2] ELSE flip[s].purchase,
         NEW moved \in Nat, moved = IF r.kind = "record-transfer" THEN r.ev[2] ELSE flip[s].transfer
  PROVE  /\ Resolved(s, r) \in FlipRow
         /\ Resolved(s, r).status = status /\ Resolved(s, r).version = flip[s].version + 1
         /\ Resolved(s, r).stake = stake /\ Resolved(s, r).pool = (flip[s].pool \/ r.kind = "commit-pool")
         /\ Resolved(s, r).ordinal = ordinal /\ Resolved(s, r).purchase = purchase
         /\ Resolved(s, r).transfer = moved
         /\ Resolved(s, r).reveal = (flip[s].reveal \/ r.kind = "mark-reveal-ready")
         /\ Resolved(s, r).reason = reason
<1> DEFINE version == flip[s].version + 1
           pool == flip[s].pool \/ r.kind = "commit-pool"
           reveal == flip[s].reveal \/ r.kind = "mark-reveal-ready"
<1>1. version \in Nat /\ pool \in BOOLEAN /\ reveal \in BOOLEAN
  <2>1. flip[s].version \in Nat /\ flip[s].pool \in BOOLEAN /\ flip[s].reveal \in BOOLEAN
    BY DEF FlipRow
  <2>2. pool \in BOOLEAN
    BY <2>1, Zenon
  <2>3. reveal \in BOOLEAN
    BY <2>1, Zenon
  <2> QED
    BY <2>1, <2>2, <2>3
<1>2. Resolved(s, r) = [flip[s] EXCEPT !.version = version, !.status = status, !.stake = stake, !.pool = pool,
                                       !.ordinal = ordinal, !.purchase = purchase, !.transfer = moved,
                                       !.reveal = reveal, !.reason = reason]
  BY DEF Resolved, Entered
<1> HIDE DEF version, pool, reveal
<1>3. PICK y \in FlipRow : y = [flip[s] EXCEPT !.version = version, !.status = status, !.stake = stake, !.pool = pool]
  BY <1>1 DEF FlipRow
<1>4. PICK z \in FlipRow : z = [y EXCEPT !.ordinal = ordinal, !.purchase = purchase, !.transfer = moved,
                                       !.reveal = reveal, !.reason = reason]
  BY <1>1 DEF FlipRow
<1>5. Resolved(s, r) = z
  BY <1>2, <1>3, <1>4
<1>6. /\ y.status = status /\ y.version = version /\ y.stake = stake /\ y.pool = pool
  BY <1>3 DEF FlipRow
<1>7. z.status = y.status /\ z.version = y.version /\ z.stake = y.stake /\ z.pool = y.pool
  BY <1>4 DEF FlipRow
<1>8. /\ z.ordinal = ordinal /\ z.purchase = purchase /\ z.transfer = moved
      /\ z.reveal = reveal /\ z.reason = reason
  BY <1>4 DEF FlipRow
<1>9. z.pool = (flip[s].pool \/ r.kind = "commit-pool") /\ z.reveal = (flip[s].reveal \/ r.kind = "mark-reveal-ready")
  BY <1>6, <1>7, <1>8 DEF pool, reveal
<1>10. z.version = flip[s].version + 1
  BY <1>6, <1>7 DEF version
<1> QED
  BY <1>5, <1>6, <1>7, <1>8, <1>9, <1>10

LEMMA OneToEight == \A n \in 1..8 : n = 1 \/ n = 2 \/ n = 3 \/ n = 4 \/ n = 5 \/ n = 6 \/ n = 7 \/ n = 8
  OBVIOUS

LEMMA StatusesDiffer ==
  /\ \A i, j \in 1..8 : FlipStatuses[i] = FlipStatuses[j] => i = j
  /\ \A i \in 1..8 : FlipStatuses[i] \notin {"NONE", "RECOVERY_REQUIRED", "RECOVERED", "FAILED"}
<1>1. \A i \in 1..8 : FlipStatuses[i] \notin {"NONE", "RECOVERY_REQUIRED", "RECOVERED", "FAILED"}
  BY Tables, OneToEight
<1>2. ASSUME NEW i \in 1..8, NEW j \in 1..8, FlipStatuses[i] = FlipStatuses[j] PROVE i = j
  BY <1>2, Tables, OneToEight
<1> QED
  BY <1>1, <1>2

\* The status of an unfinished session says how far it is.
LEMMA StatusIsMilestone ==
  ASSUME NEW row, NEW log, NEW n \in 1..8, Shape(row, log, n), NEW i \in 1..8, row.status = FlipStatuses[i]
  PROVE  n = i /\ Len(log) = n
  BY StatusesDiffer DEF Shape

\* Transition e takes a session from milestone n to the next one.
LEMMA ShapeGrows ==
  ASSUME NEW row, NEW log \in Seq(LogRow), NEW n \in 1..7, Shape(row, log, n), Len(log) = n, row.version \in Nat,
         NEW y, NEW e \in LogRow, y.status = FlipStatuses[n + 1], y.version = row.version + 1,
         y.reason = IF n + 1 = 8 THEN "FIXTURE_SETTLED" ELSE "none",
         Milestones(y, n + 1), EntryFits(e, n + 1, y),
         n >= 2 => y.stake = row.stake, n >= 4 => y.ordinal = row.ordinal,
         n >= 5 => y.purchase = row.purchase, n >= 6 => y.transfer = row.transfer
  PROVE  Shape(y, Append(log, e), n + 1)
<1>1. /\ Len(Append(log, e)) = n + 1 /\ Append(log, e)[n + 1] = e
      /\ \A i \in 1..n : Append(log, e)[i] = log[i]
  OBVIOUS
<1>2. \A i \in 1..n : EntryFits(log[i], i, row) /\ row.version = n
  BY DEF Shape
<1>3. ASSUME NEW i \in 1..n PROVE EntryFits(log[i], i, y)
  BY <1>2 DEF EntryFits
<1>4. \A i \in 1..(n + 1) : EntryFits(Append(log, e)[i], i, y)
  BY <1>1, <1>3
<1> QED
  BY <1>1, <1>2, <1>4 DEF Shape

\* What a recovery and its end keep of the row.
Keeps(y, row) ==
  /\ y.version = row.version + 1 /\ y.stake = row.stake /\ y.pool = row.pool /\ y.ordinal = row.ordinal
  /\ y.purchase = row.purchase /\ y.transfer = row.transfer /\ y.reveal = row.reveal

LEMMA KeptEntries ==
  ASSUME NEW row, NEW log \in Seq(LogRow), NEW n \in 1..8, Shape(row, log, n), row.version \in Nat,
         NEW y, NEW e \in LogRow, Keeps(y, row)
  PROVE  /\ Milestones(y, n) /\ y.version = Len(Append(log, e)) /\ n <= Len(Append(log, e))
         /\ \A i \in 1..n : EntryFits(Append(log, e)[i], i, y)
         /\ Len(Append(log, e)) = Len(log) + 1 /\ Append(log, e)[Len(log) + 1] = e
         /\ \A i \in 1..Len(log) : Append(log, e)[i] = log[i]
<1>1. /\ Len(Append(log, e)) = Len(log) + 1 /\ Append(log, e)[Len(log) + 1] = e /\ Len(log) \in Nat
      /\ \A i \in 1..Len(log) : Append(log, e)[i] = log[i]
  OBVIOUS
<1>2. Milestones(y, n)
  BY DEF Shape, Milestones, Keeps
<1>3. ASSUME NEW i \in 1..n PROVE EntryFits(Append(log, e)[i], i, y)
  <2>1. EntryFits(log[i], i, row) /\ i \in 1..Len(log)
    BY <1>1 DEF Shape
  <2>2. EntryFits(log[i], i, y)
    BY <2>1 DEF EntryFits, Keeps
  <2> QED
    BY <1>1, <2>1, <2>2
<1>4. y.version = Len(log) + 1 /\ n <= Len(log)
  BY DEF Shape, Keeps
<1> QED
  BY <1>1, <1>2, <1>3, <1>4

LEMMA RecoveryBegins ==
  ASSUME NEW row, NEW log \in Seq(LogRow), NEW n \in 1..7, Shape(row, log, n), Len(log) = n, row.version \in Nat,
         NEW y, NEW e \in LogRow, Keeps(y, row), y.status = "RECOVERY_REQUIRED", y.reason = "none",
         RecoveryFits(e, "request-recovery", FlipStatuses[n], "RECOVERY_REQUIRED", n, y)
  PROVE  Shape(y, Append(log, e), n)
<1> DEFINE after == Append(log, e)
<1>1. /\ Milestones(y, n) /\ y.version = Len(after) /\ n <= Len(after)
      /\ \A i \in 1..n : EntryFits(after[i], i, y)
      /\ Len(after) = n + 1 /\ after[n + 1] = e
  <2>1. n \in 1..8
    OBVIOUS
  <2> QED
    BY <2>1, KeptEntries
<1> HIDE DEF after
<1>2. n < 8 /\ RecoveryFits(after[n + 1], "request-recovery", FlipStatuses[n], "RECOVERY_REQUIRED", n, y)
  BY <1>1
<1>3. Shape(y, after, n)
  BY <1>1, <1>2 DEF Shape
<1> QED
  BY <1>3 DEF after

LEMMA RecoveryEnds ==
  ASSUME NEW row, NEW log \in Seq(LogRow), NEW n \in 1..8, Shape(row, log, n), row.version \in Nat,
         row.status = "RECOVERY_REQUIRED",
         NEW y, NEW e \in LogRow, Keeps(y, row), y.status \in {"RECOVERED", "FAILED"},
         y.reason = IF y.status = "RECOVERED" THEN "FIXTURE_RECOVERY_COMPLETED" ELSE "FIXTURE_TERMINATED",
         RecoveryFits(e, IF y.status = "RECOVERED" THEN "complete-recovery" ELSE "terminate",
                      "RECOVERY_REQUIRED", y.status, n, y)
  PROVE  Shape(y, Append(log, e), n)
<1>1. /\ n < 8 /\ Len(log) = n + 1
      /\ RecoveryFits(log[n + 1], "request-recovery", FlipStatuses[n], "RECOVERY_REQUIRED", n, row)
  BY StatusesDiffer DEF Shape
<1> DEFINE after == Append(log, e)
<1>2. /\ Milestones(y, n) /\ y.version = Len(after) /\ n <= Len(after)
      /\ \A i \in 1..n : EntryFits(after[i], i, y)
      /\ Len(after) = Len(log) + 1 /\ after[Len(log) + 1] = e
      /\ \A i \in 1..Len(log) : after[i] = log[i]
  BY KeptEntries
<1> HIDE DEF after
<1>3. after[n + 1] = log[n + 1] /\ Len(after) = n + 2 /\ after[n + 2] = e
  BY <1>1, <1>2
<1>4. RecoveryFits(after[n + 1], "request-recovery", FlipStatuses[n], "RECOVERY_REQUIRED", n, y)
  BY <1>1, <1>3 DEF RecoveryFits, Keeps
<1>5. Shape(y, after, n)
  BY <1>1, <1>2, <1>3, <1>4 DEF Shape
<1> QED
  BY <1>5 DEF after

LEMMA RecordedRow ==
  ASSUME NEW s \in Sessions, flip[s] \in FlipRow, NEW r, Resolved(s, r) \in FlipRow,
         r.kind \in Kinds, r.key \in Keys, r.ev \in FlipEvidence
  PROVE  /\ Recorded(s, r) \in LogRow
         /\ Recorded(s, r).kind = r.kind /\ Recorded(s, r).key = r.key /\ Recorded(s, r).ev = r.ev
         /\ Recorded(s, r).from = flip[s].status /\ Recorded(s, r).to = Resolved(s, r).status
         /\ Recorded(s, r).reason = Resolved(s, r).reason
         /\ Recorded(s, r).pool = (r.kind # "confirm-stake" /\ Resolved(s, r).pool)
         /\ Recorded(s, r).asset = IF r.kind \notin {"confirm-stake", "commit-pool"} THEN Resolved(s, r).ordinal ELSE 0
<1> DEFINE y == Resolved(s, r)
           pool == r.kind # "confirm-stake" /\ y.pool
           won == IF r.kind \notin {"confirm-stake", "commit-pool"} THEN y.ordinal ELSE 0
<1>1. /\ flip[s].status \in SessionStatuses /\ y.status \in SessionStatuses /\ y.reason \in Reasons
      /\ y.pool \in BOOLEAN /\ won \in Nat
  <2>1. /\ flip[s].status \in SessionStatuses /\ y.status \in SessionStatuses /\ y.reason \in Reasons
        /\ y.pool \in BOOLEAN /\ y.ordinal \in Ordinals \cup {0}
    BY DEF FlipRow
  <2>2. y.ordinal \in Nat
    BY <2>1, FlipSessionConstants
  <2>3. won \in Nat
    BY <2>2
  <2> QED
    BY <2>1, <2>3
<1>2. pool \in BOOLEAN
  BY <1>1, Zenon
<1>3. Recorded(s, r) = [kind |-> r.kind, key |-> r.key, ev |-> r.ev, from |-> flip[s].status,
                        to |-> y.status, reason |-> y.reason, pool |-> pool, asset |-> won]
  BY DEF Recorded
<1> HIDE DEF pool, won, y
<1>4. [kind |-> r.kind, key |-> r.key, ev |-> r.ev, from |-> flip[s].status,
       to |-> y.status, reason |-> y.reason, pool |-> pool, asset |-> won] \in LogRow
  BY <1>1, <1>2 DEF LogRow
<1>5. /\ Recorded(s, r) \in LogRow
      /\ Recorded(s, r).kind = r.kind /\ Recorded(s, r).key = r.key /\ Recorded(s, r).ev = r.ev
      /\ Recorded(s, r).from = flip[s].status /\ Recorded(s, r).to = y.status
      /\ Recorded(s, r).asset = won /\ Recorded(s, r).reason = y.reason
  BY <1>3, <1>4
<1>6. Recorded(s, r).pool = pool
  BY <1>3
<1> QED
  BY <1>5, <1>6 DEF pool, won, y

\* The requests the API and the acquisition make.
MilestoneRequest(r, i) ==
  /\ r.kind = FlipKinds[i] /\ r.key = FlipKeys[i] /\ r.ev \in FlipEvidence
  /\ i = 2 => r.ev = 1
  /\ i = 5 => r.ev[2] = 1
  /\ i = 6 => r.ev[2] = 2
RecoveryRequest(r) == r.kind \in RecoveryKinds /\ r.key \in RecoveryKeys /\ r.ev \in FlipEvidence

\* What a transition that records milestone i asks of the session.
LEMMA MilestoneGuard ==
  ASSUME NEW s \in Sessions, NEW r, NEW i \in 2..8, MilestoneRequest(r, i), CanFlipTransition(s, r)
  PROVE  /\ flip[s].status = FlipStatuses[i - 1]
         /\ i = 3 => flip[s].stake = 1
         /\ i = 4 => r.ev \in Ordinals /\ proof[s].entropy # 0 /\ ~proof[s].final /\ r.ev = proof[s].ordinal
         /\ i # 4 => (proof[s].entropy # 0 => proof[s].final)
         /\ i \in {5, 6} => r.ev \in Nat \X Nat /\ r.ev[1] = flip[s].ordinal
         /\ i = 7 => r.ev = <<flip[s].purchase, flip[s].transfer>>
         /\ i = 8 => r.ev = flip[s].ordinal
<1>1. EvidenceOK(r) /\ Resolvable(s, r) /\ ProofContract(s, r)
  BY DEF CanFlipTransition
<1>2. CASE i = 2
  BY <1>1, <1>2, Tables DEF EvidenceOK, Resolvable, ProofContract, MilestoneRequest
<1>3. CASE i = 3
  BY <1>1, <1>3, Tables DEF EvidenceOK, Resolvable, ProofContract, MilestoneRequest
<1>4. CASE i = 4
  BY <1>1, <1>4, Tables DEF EvidenceOK, Resolvable, ProofContract, MilestoneRequest
<1>5. CASE i = 5
  BY <1>1, <1>5, Tables DEF EvidenceOK, Resolvable, ProofContract, MilestoneRequest
<1>6. CASE i = 6
  BY <1>1, <1>6, Tables DEF EvidenceOK, Resolvable, ProofContract, MilestoneRequest
<1>7. CASE i = 7
  BY <1>1, <1>7, Tables DEF EvidenceOK, Resolvable, ProofContract, MilestoneRequest
<1>8. CASE i = 8
  BY <1>1, <1>8, Tables DEF EvidenceOK, Resolvable, ProofContract, MilestoneRequest
<1>9. i = 2 \/ i = 3 \/ i = 4 \/ i = 5 \/ i = 6 \/ i = 7 \/ i = 8
  OBVIOUS
<1> QED
  BY <1>2, <1>3, <1>4, <1>5, <1>6, <1>7, <1>8, <1>9

LEMMA RecoveryGuard ==
  ASSUME NEW s \in Sessions, NEW r, RecoveryRequest(r), CanFlipTransition(s, r)
  PROVE  /\ flip[s].status \notin {"NONE", "SETTLED", "RECOVERED", "FAILED"}
         /\ (r.kind = "request-recovery") <=> (flip[s].status # "RECOVERY_REQUIRED")
         /\ proof[s].entropy # 0 => proof[s].final
<1>1. Resolvable(s, r) /\ ProofContract(s, r) /\ r.kind \in RecoveryKinds
  BY DEF CanFlipTransition, RecoveryRequest
<1>2. flip[s].status \notin {"NONE", "SETTLED", "RECOVERED", "FAILED"}
  BY DEF CanFlipTransition, FlipTerminal
<1>3. proof[s].entropy # 0 => proof[s].final
  BY <1>1 DEF ProofContract, RecoveryKinds
<1>4. CASE r.kind = "request-recovery"
  BY <1>1, <1>2, <1>3, <1>4 DEF Resolvable
<1>5. CASE r.kind = "complete-recovery"
  BY <1>1, <1>2, <1>3, <1>5 DEF Resolvable
<1>6. CASE r.kind = "terminate"
  BY <1>1, <1>2, <1>3, <1>6 DEF Resolvable
<1> QED
  BY <1>1, <1>4, <1>5, <1>6 DEF RecoveryKinds

LEMMA KindOfMilestone ==
  ASSUME NEW r, NEW i \in 2..8, r.kind = FlipKinds[i]
  PROVE  /\ Entered(r.kind) = FlipStatuses[i] /\ r.kind \notin RecoveryKinds /\ r.kind \in Kinds
         /\ (r.kind = "confirm-stake") <=> (i = 2)
         /\ (r.kind = "commit-pool") <=> (i = 3)
         /\ (r.kind = "record-selection") <=> (i = 4)
         /\ (r.kind = "record-purchase") <=> (i = 5)
         /\ (r.kind = "record-transfer") <=> (i = 6)
         /\ (r.kind = "mark-reveal-ready") <=> (i = 7)
         /\ (r.kind = "settle") <=> (i = 8)
<1>0. r.kind = FlipKinds[i]
  OBVIOUS
<1>2. CASE i = 2
  BY <1>2, <1>0, Tables, Edges DEF RecoveryKinds, Kinds
<1>3. CASE i = 3
  BY <1>3, <1>0, Tables, Edges DEF RecoveryKinds, Kinds
<1>4. CASE i = 4
  BY <1>4, <1>0, Tables, Edges DEF RecoveryKinds, Kinds
<1>5. CASE i = 5
  BY <1>5, <1>0, Tables, Edges DEF RecoveryKinds, Kinds
<1>6. CASE i = 6
  BY <1>6, <1>0, Tables, Edges DEF RecoveryKinds, Kinds
<1>7. CASE i = 7
  BY <1>7, <1>0, Tables, Edges DEF RecoveryKinds, Kinds
<1>8. CASE i = 8
  BY <1>8, <1>0, Tables, Edges DEF RecoveryKinds, Kinds
<1>9. i = 2 \/ i = 3 \/ i = 4 \/ i = 5 \/ i = 6 \/ i = 7 \/ i = 8
  OBVIOUS
<1> QED
  BY <1>2, <1>3, <1>4, <1>5, <1>6, <1>7, <1>8, <1>9

\* The row of milestone i.
MilestoneRow(y, row, i, ev) ==
  /\ y \in FlipRow /\ y.status = FlipStatuses[i] /\ y.version = row.version + 1
  /\ y.stake = (IF i = 2 THEN 1 ELSE row.stake) /\ y.pool = (row.pool \/ i = 3)
  /\ y.ordinal = (IF i = 4 THEN ev ELSE row.ordinal)
  /\ y.purchase = (IF i = 5 THEN 1 ELSE row.purchase) /\ y.transfer = (IF i = 6 THEN 2 ELSE row.transfer)
  /\ y.reveal = (row.reveal \/ i = 7) /\ y.reason = (IF i = 8 THEN "FIXTURE_SETTLED" ELSE row.reason)

LEMMA ResolvedMilestone ==
  ASSUME NEW s \in Sessions, flip[s] \in FlipRow, NEW r, NEW i \in 2..8, MilestoneRequest(r, i),
         CanFlipTransition(s, r)
  PROVE  MilestoneRow(Resolved(s, r), flip[s], i, r.ev)
<1> DEFINE status == FlipStatuses[i]
           reason == IF i = 8 THEN "FIXTURE_SETTLED" ELSE flip[s].reason
           stake == IF i = 2 THEN 1 ELSE flip[s].stake
           ordinal == IF i = 4 THEN r.ev ELSE flip[s].ordinal
           purchase == IF i = 5 THEN 1 ELSE flip[s].purchase
           moved == IF i = 6 THEN 2 ELSE flip[s].transfer
<1>1. /\ flip[s].reason \in Reasons /\ flip[s].stake \in FlipStakes \cup {0} /\ flip[s].ordinal \in Ordinals \cup {0}
      /\ flip[s].purchase \in Nat /\ flip[s].transfer \in Nat
  BY DEF FlipRow
<1>2. i = 4 => r.ev \in Ordinals
  BY MilestoneGuard
<1>3. status \in SessionStatuses /\ reason \in Reasons
  BY <1>1, Tables DEF SessionStatuses, Reasons
<1>4. /\ stake \in FlipStakes \cup {0} /\ ordinal \in Ordinals \cup {0} /\ purchase \in Nat /\ moved \in Nat
  BY <1>1, <1>2, FlipSessionConstants
<1>5. /\ r.kind = FlipKinds[i]
      /\ i = 2 => r.ev = 1
      /\ i = 5 => r.ev[2] = 1
      /\ i = 6 => r.ev[2] = 2
  BY DEF MilestoneRequest
<1>6. /\ status = Entered(r.kind) /\ reason = TerminalReason(r.kind, flip[s].reason)
      /\ stake = IF r.kind = "confirm-stake" THEN r.ev ELSE flip[s].stake
  BY <1>5, KindOfMilestone DEF TerminalReason, RecoveryKinds
<1>7. /\ ordinal = IF r.kind = "record-selection" THEN r.ev ELSE flip[s].ordinal
  BY <1>5, KindOfMilestone
<1>8. purchase = IF r.kind = "record-purchase" THEN r.ev[2] ELSE flip[s].purchase
  BY <1>5, KindOfMilestone
<1>9. moved = IF r.kind = "record-transfer" THEN r.ev[2] ELSE flip[s].transfer
  BY <1>5, KindOfMilestone
<1>10. ((r.kind = "commit-pool") <=> (i = 3)) /\ ((r.kind = "mark-reveal-ready") <=> (i = 7))
  BY <1>5, KindOfMilestone
<1> HIDE DEF status, reason, stake, ordinal, purchase, moved
<1>11. /\ Resolved(s, r) \in FlipRow
       /\ Resolved(s, r).status = status /\ Resolved(s, r).version = flip[s].version + 1
       /\ Resolved(s, r).stake = stake /\ Resolved(s, r).pool = (flip[s].pool \/ r.kind = "commit-pool")
       /\ Resolved(s, r).ordinal = ordinal /\ Resolved(s, r).purchase = purchase
       /\ Resolved(s, r).transfer = moved
       /\ Resolved(s, r).reveal = (flip[s].reveal \/ r.kind = "mark-reveal-ready")
       /\ Resolved(s, r).reason = reason
  BY <1>3, <1>4, <1>6, <1>7, <1>8, <1>9, ResolvedRow
<1>12. /\ Resolved(s, r).pool = (flip[s].pool \/ i = 3)
       /\ Resolved(s, r).reveal = (flip[s].reveal \/ i = 7)
  BY <1>10, <1>11
<1> QED
  BY <1>11, <1>12 DEF MilestoneRow, status, reason, stake, ordinal, purchase, moved

\* Milestone i extends the ledger of the session by its transition.
LEMMA MilestoneShape ==
  ASSUME NEW s \in Sessions, flip[s] \in FlipRow, flipLog[s] \in Seq(LogRow), SessionShaped(s),
         NEW r, NEW i \in 2..8, MilestoneRequest(r, i), CanFlipTransition(s, r)
  PROVE  /\ Recorded(s, r) \in LogRow
         /\ Shape(Resolved(s, r), Append(flipLog[s], Recorded(s, r)), i)
<1> DEFINE row == flip[s]
           log == flipLog[s]
           y == Resolved(s, r)
           e == Recorded(s, r)
           n == i - 1
<1>1. n \in 1..7 /\ n \in 1..8 /\ n + 1 = i
  OBVIOUS
<1>2. row.status = FlipStatuses[n] /\ row.version \in Nat /\ row.ordinal \in Ordinals \cup {0}
  BY MilestoneGuard DEF FlipRow
<1>3. PICK m \in 1..8 : Shape(row, log, m)
  BY <1>1, <1>2, StatusesDiffer DEF SessionShaped, NoSession
<1>4. m = n /\ Len(log) = m
  <2> HIDE DEF n, row, log
  <2> QED
    BY <1>1, <1>2, <1>3, StatusIsMilestone
<1>5. Shape(row, log, n) /\ Len(log) = n
  BY <1>3, <1>4
<1>6. MilestoneRow(y, row, i, r.ev)
  BY ResolvedMilestone
<1>7. y \in FlipRow
  BY <1>6 DEF MilestoneRow
<1>8. /\ r.kind = FlipKinds[i] /\ r.key = FlipKeys[i] /\ r.ev \in FlipEvidence
      /\ i = 2 => r.ev = 1
      /\ i = 5 => r.ev[2] = 1
      /\ i = 6 => r.ev[2] = 2
  BY DEF MilestoneRequest
<1>9. r.kind \in Kinds /\ ((r.kind = "confirm-stake") <=> (i = 2)) /\ ((r.kind = "commit-pool") <=> (i = 3))
  BY <1>8, KindOfMilestone
<1>10. r.key \in Keys
  <2>1. i = 2 \/ i = 3 \/ i = 4 \/ i = 5 \/ i = 6 \/ i = 7 \/ i = 8
    OBVIOUS
  <2> QED
    BY <1>8, <2>1, Tables DEF Keys
<1>11. /\ e \in LogRow
       /\ e.kind = r.kind /\ e.key = r.key /\ e.ev = r.ev /\ e.from = row.status /\ e.to = y.status
       /\ e.reason = y.reason
       /\ e.pool = (i # 2 /\ y.pool)
       /\ e.asset = IF i \notin {2, 3} THEN y.ordinal ELSE 0
  <2>1. /\ e \in LogRow
        /\ e.kind = r.kind /\ e.key = r.key /\ e.ev = r.ev /\ e.from = row.status /\ e.to = y.status
        /\ e.reason = y.reason
        /\ e.pool = (r.kind # "confirm-stake" /\ y.pool)
        /\ e.asset = IF r.kind \notin {"confirm-stake", "commit-pool"} THEN y.ordinal ELSE 0
    BY <1>7, <1>8, <1>9, <1>10, RecordedRow
  <2>2. e.pool = (i # 2 /\ y.pool)
    BY <1>9, <2>1
  <2>3. e.asset = IF i \notin {2, 3} THEN y.ordinal ELSE 0
    BY <1>9, <2>1
  <2> QED
    BY <2>1, <2>2, <2>3
<1>12. /\ i = 3 => row.stake = 1
       /\ i = 4 => r.ev \in Ordinals
       /\ i \in {5, 6} => r.ev \in Nat \X Nat /\ r.ev[1] = row.ordinal
       /\ i = 7 => r.ev = <<row.purchase, row.transfer>>
       /\ i = 8 => r.ev = row.ordinal
  BY MilestoneGuard
<1>13. Milestones(row, n)
  BY <1>5 DEF Shape
<1>14. row.reason = "none"
  <2> HIDE DEF n, row, log
  <2>1. row.reason = IF n = 8 THEN "FIXTURE_SETTLED" ELSE "none"
    BY <1>1, <1>2, <1>5, StatusesDiffer DEF Shape
  <2> QED
    BY <1>1, <2>1
<1> HIDE DEF row, log, y, e
<1>15. Milestones(y, i)
  <2>1. y.stake = IF i >= 2 THEN 1 ELSE 0
    BY <1>6, <1>13 DEF MilestoneRow, Milestones
  <2>2. y.pool = (i >= 3) /\ y.reveal = (i >= 7)
    <3>1. row.pool = (n >= 3) /\ row.reveal = (n >= 7) /\ y.pool = (row.pool \/ i = 3) /\ y.reveal = (row.reveal \/ i = 7)
      BY <1>6, <1>13 DEF MilestoneRow, Milestones
    <3>2. y.pool = (n >= 3 \/ i = 3) /\ y.reveal = (n >= 7 \/ i = 7)
      BY <3>1, Zenon
    <3>3. ((n >= 3 \/ i = 3) = (i >= 3)) /\ ((n >= 7 \/ i = 7) = (i >= 7))
      OBVIOUS
    <3> QED
      BY <3>2, <3>3, Zenon
  <2>3. (y.ordinal # 0) = (i >= 4) /\ y.ordinal \in Ordinals \cup {0}
    BY <1>6, <1>12, <1>13, FlipSessionConstants DEF MilestoneRow, Milestones
  <2>4. y.purchase = (IF i >= 5 THEN 1 ELSE 0) /\ y.transfer = (IF i >= 6 THEN 2 ELSE 0)
    BY <1>6, <1>13 DEF MilestoneRow, Milestones
  <2> QED
    BY <2>1, <2>2, <2>3, <2>4 DEF Milestones
<1>16. EntryFits(e, i, y)
  <2>1. /\ e.kind = FlipKinds[i] /\ e.key = FlipKeys[i] /\ e.to = FlipStatuses[i] /\ e.from = FlipStatuses[i - 1]
    BY <1>2, <1>6, <1>8, <1>11 DEF MilestoneRow
  <2>2. e.pool = (i >= 3) /\ e.asset = IF i >= 4 THEN y.ordinal ELSE 0
    <3>1. y.pool = (i >= 3) /\ e.pool = (i # 2 /\ y.pool)
      BY <1>11, <1>15 DEF Milestones
    <3>2. (i # 2 /\ i >= 3) = (i >= 3)
      OBVIOUS
    <3>3. e.pool = (i >= 3)
      BY <3>1, <3>2, Zenon
    <3>4. e.asset = IF i >= 4 THEN y.ordinal ELSE 0
      BY <1>11
    <3> QED
      BY <3>3, <3>4
  <2>3. (i = 2 => e.ev = y.stake) /\ (i = 4 => e.ev = y.ordinal) /\ (i = 8 => e.ev = y.ordinal)
    BY <1>6, <1>8, <1>11, <1>12 DEF MilestoneRow
  <2>4. i = 5 => e.ev = <<y.ordinal, y.purchase>>
    BY <1>6, <1>8, <1>11, <1>12 DEF MilestoneRow
  <2>5. i = 6 => e.ev = <<y.ordinal, y.transfer>>
    BY <1>6, <1>8, <1>11, <1>12 DEF MilestoneRow
  <2>6. i = 7 => e.ev = <<y.purchase, y.transfer>>
    BY <1>6, <1>8, <1>11, <1>12 DEF MilestoneRow
  <2>7. e.reason = IF i = 8 THEN "FIXTURE_SETTLED" ELSE "none"
    BY <1>6, <1>11, <1>14 DEF MilestoneRow
  <2> QED
    BY <2>1, <2>2, <2>3, <2>4, <2>5, <2>6, <2>7 DEF EntryFits
<1>17. /\ y.status = FlipStatuses[i] /\ y.version = row.version + 1
       /\ y.reason = IF i = 8 THEN "FIXTURE_SETTLED" ELSE "none"
  BY <1>6, <1>14 DEF MilestoneRow
<1>18. /\ n >= 2 => y.stake = row.stake
       /\ n >= 4 => y.ordinal = row.ordinal
       /\ n >= 5 => y.purchase = row.purchase
       /\ n >= 6 => y.transfer = row.transfer
  BY <1>6 DEF MilestoneRow
<1>19. log \in Seq(LogRow)
  BY DEF log
<1>20. Shape(y, Append(log, e), n + 1)
  <2> HIDE DEF n
  <2> QED
    BY <1>1, <1>2, <1>5, <1>11, <1>15, <1>16, <1>17, <1>18, <1>19, ShapeGrows
<1> QED
  BY <1>1, <1>11, <1>20 DEF y, e, log

LEMMA ResolvedRecovery ==
  ASSUME NEW s \in Sessions, flip[s] \in FlipRow, NEW r, r.kind \in RecoveryKinds
  PROVE  /\ Resolved(s, r) \in FlipRow /\ Keeps(Resolved(s, r), flip[s])
         /\ Resolved(s, r).status = Entered(r.kind)
         /\ Resolved(s, r).reason = TerminalReason(r.kind, flip[s].reason)
<1>1. /\ flip[s].reason \in Reasons /\ flip[s].stake \in FlipStakes \cup {0} /\ flip[s].ordinal \in Ordinals \cup {0}
      /\ flip[s].purchase \in Nat /\ flip[s].transfer \in Nat /\ flip[s].pool \in BOOLEAN /\ flip[s].reveal \in BOOLEAN
  BY DEF FlipRow
<1>2. /\ r.kind # "confirm-stake" /\ r.kind # "commit-pool" /\ r.kind # "record-selection"
      /\ r.kind # "record-purchase" /\ r.kind # "record-transfer" /\ r.kind # "mark-reveal-ready"
  BY DEF RecoveryKinds
<1>3. PICK status \in SessionStatuses : status = Entered(r.kind)
  BY Edges DEF RecoveryKinds, SessionStatuses
<1>4. PICK reason \in Reasons : reason = TerminalReason(r.kind, flip[s].reason)
  BY <1>1 DEF RecoveryKinds, Reasons, TerminalReason
<1>5. /\ Resolved(s, r) \in FlipRow
      /\ Resolved(s, r).status = status /\ Resolved(s, r).version = flip[s].version + 1
      /\ Resolved(s, r).stake = flip[s].stake /\ Resolved(s, r).pool = (flip[s].pool \/ r.kind = "commit-pool")
      /\ Resolved(s, r).ordinal = flip[s].ordinal /\ Resolved(s, r).purchase = flip[s].purchase
      /\ Resolved(s, r).transfer = flip[s].transfer
      /\ Resolved(s, r).reveal = (flip[s].reveal \/ r.kind = "mark-reveal-ready")
      /\ Resolved(s, r).reason = reason
  BY <1>1, <1>2, <1>3, <1>4, ResolvedRow
<1>6. Resolved(s, r).pool = flip[s].pool /\ Resolved(s, r).reveal = flip[s].reveal
  BY <1>1, <1>2, <1>5, Zenon
<1> QED
  BY <1>3, <1>4, <1>5, <1>6 DEF Keeps

\* A recovery, and its end, keep the milestones and extend the ledger by their transition.
LEMMA RecoveryShape ==
  ASSUME NEW s \in Sessions, flip[s] \in FlipRow, flipLog[s] \in Seq(LogRow), SessionShaped(s),
         NEW r, RecoveryRequest(r), CanFlipTransition(s, r)
  PROVE  /\ Resolved(s, r) \in FlipRow /\ Keeps(Resolved(s, r), flip[s]) /\ Recorded(s, r) \in LogRow
         /\ \E n \in 1..8 : Shape(Resolved(s, r), Append(flipLog[s], Recorded(s, r)), n)
<1> DEFINE row == flip[s]
           log == flipLog[s]
           y == Resolved(s, r)
           e == Recorded(s, r)
<1>1. r.kind \in RecoveryKinds /\ r.key \in RecoveryKeys /\ r.ev \in FlipEvidence
  BY DEF RecoveryRequest
<1>2. /\ row.status \notin {"NONE", "SETTLED", "RECOVERED", "FAILED"}
      /\ (r.kind = "request-recovery") <=> (row.status # "RECOVERY_REQUIRED")
  BY RecoveryGuard
<1>3. PICK n \in 1..8 : Shape(row, log, n)
  BY <1>2 DEF SessionShaped, NoSession
<1>4. y \in FlipRow /\ Keeps(y, row) /\ y.status = Entered(r.kind) /\ y.reason = TerminalReason(r.kind, row.reason)
  BY <1>1, ResolvedRecovery
<1>5. /\ e \in LogRow
      /\ e.kind = r.kind /\ e.key = r.key /\ e.from = row.status /\ e.to = y.status
      /\ e.reason = y.reason
      /\ e.pool = (r.kind # "confirm-stake" /\ y.pool)
      /\ e.asset = IF r.kind \notin {"confirm-stake", "commit-pool"} THEN y.ordinal ELSE 0
  <2>1. r.kind \in Kinds /\ r.key \in Keys
    BY <1>1 DEF RecoveryKinds, RecoveryKeys, Kinds, Keys
  <2> QED
    BY <1>1, <1>4, <2>1, RecordedRow
<1>6. r.kind # "confirm-stake" /\ r.kind # "commit-pool"
  BY <1>1 DEF RecoveryKinds
<1>7. row.version \in Nat /\ row.pool \in BOOLEAN
  BY DEF FlipRow
<1> HIDE DEF row, log, y, e
<1>8. e.asset = y.ordinal /\ e.pool = (n >= 3)
  <2>1. y.pool = row.pool /\ row.pool = (n >= 3) /\ row.pool \in BOOLEAN
    BY <1>3, <1>4, <1>7 DEF Shape, Milestones, Keeps
  <2>2. e.pool = (n >= 3)
    BY <1>5, <1>6, <2>1, Zenon
  <2>3. e.asset = y.ordinal
    BY <1>5, <1>6
  <2> QED
    BY <2>2, <2>3
<1>9. log \in Seq(LogRow)
  BY DEF log
<1>10. ASSUME r.kind = "request-recovery" PROVE Shape(y, Append(log, e), n)
  <2>1. row.status # "RECOVERY_REQUIRED" /\ y.status = "RECOVERY_REQUIRED"
    BY <1>2, <1>4, <1>10, Edges
  <2>2. /\ row.status = FlipStatuses[n] /\ Len(log) = n
        /\ row.reason = IF n = 8 THEN "FIXTURE_SETTLED" ELSE "none"
    BY <1>2, <1>3, <2>1 DEF Shape
  <2>3. n # 8
    BY <1>2, <2>2, Tables
  <2>4. n \in 1..7
    BY <2>3
  <2>5. y.reason = "none"
    BY <1>4, <1>10, <2>2, <2>3 DEF TerminalReason
  <2>6. RecoveryFits(e, "request-recovery", FlipStatuses[n], "RECOVERY_REQUIRED", n, y)
    BY <1>1, <1>5, <1>8, <1>10, <2>1, <2>2, <2>5 DEF RecoveryFits, StoredReason
  <2>7. Shape(y, Append(log, e), n)
    BY <1>3, <1>4, <1>5, <1>7, <1>9, <2>1, <2>2, <2>4, <2>5, <2>6, RecoveryBegins
  <2> QED
    BY <2>7
<1>11. ASSUME r.kind # "request-recovery" PROVE Shape(y, Append(log, e), n)
  <2>1. row.status = "RECOVERY_REQUIRED"
    BY <1>2, <1>11
  <2>2. /\ y.status \in {"RECOVERED", "FAILED"}
        /\ y.reason = IF y.status = "RECOVERED" THEN "FIXTURE_RECOVERY_COMPLETED" ELSE "FIXTURE_TERMINATED"
        /\ r.kind = IF y.status = "RECOVERED" THEN "complete-recovery" ELSE "terminate"
    <3>1. CASE r.kind = "complete-recovery"
      BY <1>4, <3>1, Edges DEF TerminalReason
    <3>2. CASE r.kind = "terminate"
      BY <1>4, <3>2, Edges DEF TerminalReason
    <3> QED
      BY <1>1, <1>11, <3>1, <3>2 DEF RecoveryKinds
  <2>3. RecoveryFits(e, IF y.status = "RECOVERED" THEN "complete-recovery" ELSE "terminate",
                     "RECOVERY_REQUIRED", y.status, n, y)
    BY <1>1, <1>5, <1>8, <2>1, <2>2 DEF RecoveryFits, StoredReason
  <2>4. Shape(y, Append(log, e), n)
    BY <1>3, <1>4, <1>5, <1>7, <1>9, <2>1, <2>2, <2>3, RecoveryEnds
  <2> QED
    BY <2>4
<1>12. \E m \in 1..8 : Shape(y, Append(log, e), m)
  BY <1>10, <1>11
<1> QED
  BY <1>4, <1>5, <1>12 DEF row, log, y, e

-----------------------------------------------------------------------------
(***************************************************************************)
(* The steps of a session.                                                 *)
(***************************************************************************)
LEMMA TransitionWrites ==
  ASSUME RowsFit, NEW s \in Sessions, NEW r, FlipTransition(s, r), proof' = proof,
         Resolved(s, r) \in FlipRow, Recorded(s, r) \in LogRow,
         \E n \in 1..8 : Shape(Resolved(s, r), Append(flipLog[s], Recorded(s, r)), n)
  PROVE  /\ flip' \in [Sessions -> FlipRow] /\ flipLog' \in [Sessions -> Seq(LogRow)] /\ proof' \in [Sessions -> ProofRow]
         /\ \A x \in Sessions : SessionShaped(x)'
         /\ flip'[s] = Resolved(s, r)
         /\ \A x \in Sessions : x # s => flip'[x] = flip[x] /\ SelectionFits(x)'
<1>1. PICK y \in FlipRow : y = Resolved(s, r)
  OBVIOUS
<1>2. PICK after \in Seq(LogRow) : after = Append(flipLog[s], Recorded(s, r))
  <2>1. flipLog[s] \in Seq(LogRow)
    BY DEF RowsFit
  <2>2. Append(flipLog[s], Recorded(s, r)) \in Seq(LogRow)
    BY <2>1
  <2> QED
    BY <2>2
<1>3. flip' = [flip EXCEPT ![s] = y] /\ flipLog' = [flipLog EXCEPT ![s] = after]
  BY <1>1, <1>2 DEF FlipTransition
<1>4. \E n \in 1..8 : Shape(y, after, n)
  BY <1>1, <1>2
<1>5. /\ flip' \in [Sessions -> FlipRow] /\ flipLog' \in [Sessions -> Seq(LogRow)]
      /\ flip'[s] = y /\ flipLog'[s] = after
      /\ \A x \in Sessions : x # s => flip'[x] = flip[x] /\ flipLog'[x] = flipLog[x]
  BY <1>3 DEF RowsFit
<1>6. SessionShaped(s)'
  BY <1>4, <1>5 DEF SessionShaped
<1>7. ASSUME NEW x \in Sessions, x # s PROVE SessionShaped(x)' /\ SelectionFits(x)'
  <2>1. SessionShaped(x) /\ SelectionFits(x) /\ flip'[x] = flip[x] /\ flipLog'[x] = flipLog[x] /\ proof'[x] = proof[x]
    BY <1>5, <1>7 DEF RowsFit
  <2>2. SessionShaped(x)'
    BY <2>1 DEF SessionShaped
  <2>3. SelectionFits(x)'
    BY <2>1 DEF SelectionFits
  <2> QED
    BY <2>2, <2>3
<1>8. \A x \in Sessions : SessionShaped(x)'
  BY <1>6, <1>7
<1>9. proof' \in [Sessions -> ProofRow]
  BY DEF RowsFit
<1>10. \A x \in Sessions : x # s => flip'[x] = flip[x] /\ SelectionFits(x)'
  BY <1>5, <1>7
<1> QED
  BY <1>1, <1>5, <1>8, <1>9, <1>10

LEMMA MilestoneStep ==
  ASSUME RowsFit, NEW s \in Sessions, NEW r, NEW i \in 2..8, MilestoneRequest(r, i), FlipTransition(s, r),
         proof' = proof
  PROVE  /\ RowsFit' /\ MilestoneRow(flip'[s], flip[s], i, r.ev)
         /\ \A x \in Sessions : x # s => flip'[x] = flip[x]
<1>1. flip[s] \in FlipRow /\ flipLog[s] \in Seq(LogRow) /\ SessionShaped(s) /\ SelectionFits(s)
  BY DEF RowsFit
<1>2. CanFlipTransition(s, r)
  BY DEF FlipTransition
<1>3. /\ Recorded(s, r) \in LogRow /\ MilestoneRow(Resolved(s, r), flip[s], i, r.ev)
      /\ Shape(Resolved(s, r), Append(flipLog[s], Recorded(s, r)), i)
  BY <1>1, <1>2, MilestoneShape, ResolvedMilestone
<1>4. Resolved(s, r) \in FlipRow /\ i \in 1..8
  BY <1>3 DEF MilestoneRow
<1>5. /\ flip' \in [Sessions -> FlipRow] /\ flipLog' \in [Sessions -> Seq(LogRow)] /\ proof' \in [Sessions -> ProofRow]
      /\ \A x \in Sessions : SessionShaped(x)'
      /\ flip'[s] = Resolved(s, r)
      /\ \A x \in Sessions : x # s => flip'[x] = flip[x] /\ SelectionFits(x)'
  BY <1>3, <1>4, TransitionWrites
<1>6. MilestoneRow(flip'[s], flip[s], i, r.ev)
  BY <1>3, <1>5
<1>7. SelectionFits(s)'
  <2>1. /\ i = 4 => proof[s].entropy # 0 /\ r.ev = proof[s].ordinal
        /\ i # 4 => (proof[s].entropy # 0 => proof[s].final)
    BY <1>2, MilestoneGuard
  <2>2. flip'[s].ordinal = (IF i = 4 THEN r.ev ELSE flip[s].ordinal) /\ flip'[s].status = FlipStatuses[i]
    BY <1>6 DEF MilestoneRow
  <2>3. CASE i = 4
    BY <1>1, <2>1, <2>2, <2>3, Tables DEF SelectionFits
  <2>4. CASE i # 4
    BY <1>1, <2>1, <2>2, <2>4 DEF SelectionFits
  <2> QED
    BY <2>3, <2>4
<1> QED
  BY <1>5, <1>6, <1>7 DEF RowsFit

LEMMA RecoveryStep ==
  ASSUME RowsFit, NEW s \in Sessions, NEW r, RecoveryRequest(r), FlipTransition(s, r), proof' = proof
  PROVE  /\ RowsFit' /\ Keeps(flip'[s], flip[s]) /\ flip[s].status # "NONE"
         /\ \A x \in Sessions : x # s => flip'[x] = flip[x]
<1>1. flip[s] \in FlipRow /\ flipLog[s] \in Seq(LogRow) /\ SessionShaped(s) /\ SelectionFits(s)
  BY DEF RowsFit
<1>2. CanFlipTransition(s, r)
  BY DEF FlipTransition
<1>3. /\ Resolved(s, r) \in FlipRow /\ Keeps(Resolved(s, r), flip[s]) /\ Recorded(s, r) \in LogRow
      /\ \E n \in 1..8 : Shape(Resolved(s, r), Append(flipLog[s], Recorded(s, r)), n)
  BY <1>1, <1>2, RecoveryShape
<1>4. /\ flip' \in [Sessions -> FlipRow] /\ flipLog' \in [Sessions -> Seq(LogRow)] /\ proof' \in [Sessions -> ProofRow]
      /\ \A x \in Sessions : SessionShaped(x)'
      /\ flip'[s] = Resolved(s, r)
      /\ \A x \in Sessions : x # s => flip'[x] = flip[x] /\ SelectionFits(x)'
  BY <1>3, TransitionWrites
<1>5. (proof[s].entropy # 0 => proof[s].final) /\ flip[s].status # "NONE"
  BY <1>2, RecoveryGuard
<1>6. Keeps(flip'[s], flip[s])
  BY <1>3, <1>4
<1>7. SelectionFits(s)'
  BY <1>1, <1>5, <1>6 DEF SelectionFits, Keeps
<1> QED
  BY <1>4, <1>5, <1>6, <1>7 DEF RowsFit

LEMMA CreationStep ==
  ASSUME RowsFit, NEW s \in Sessions, CreateFixtureSession(s)
  PROVE  /\ RowsFit' /\ flip[s] = NoSession /\ flip'[s].purchase = 0 /\ flip'[s].transfer = 0
         /\ \A x \in Sessions : x # s => flip'[x] = flip[x]
<1>1. flip[s].status = "NONE" /\ SessionShaped(s) /\ SelectionFits(s)
  BY DEF RowsFit, CreateFixtureSession
<1>2. flip[s] = NoSession
  <2>1. ASSUME NEW n \in 1..8, Shape(flip[s], flipLog[s], n) PROVE FALSE
    BY <1>1, <2>1, StatusesDiffer DEF Shape
  <2> QED
    BY <1>1, <2>1 DEF SessionShaped
<1>3. PICK y \in FlipRow : y = [NoSession EXCEPT !.status = "AWAITING_STAKE", !.version = 1]
  <2>1. NoSession \in FlipRow
    BY DEF NoSession, FlipRow, SessionStatuses, Reasons
  <2> QED
    BY <2>1 DEF FlipRow, SessionStatuses
<1>4. /\ y.status = "AWAITING_STAKE" /\ y.version = 1 /\ y.stake = 0 /\ y.pool = FALSE /\ y.ordinal = 0
      /\ y.purchase = 0 /\ y.transfer = 0 /\ y.reveal = FALSE /\ y.reason = "none"
  BY <1>3 DEF NoSession
<1>5. PICK e \in LogRow : e = [kind |-> "session-started", key |-> "session-started", ev |-> 0, from |-> "NONE",
                             to |-> "AWAITING_STAKE", reason |-> "none", pool |-> FALSE, asset |-> 0]
  BY DEF LogRow, Kinds, Keys, FlipEvidence, SessionStatuses, Reasons
<1>6. PICK after \in Seq(LogRow) : after = <<e>>
  <2>1. <<e>> \in Seq(LogRow)
    OBVIOUS
  <2> QED
    BY <2>1
<1>7. flip' = [flip EXCEPT ![s] = y] /\ flipLog' = [flipLog EXCEPT ![s] = after] /\ proof' = proof
  BY <1>3, <1>5, <1>6 DEF CreateFixtureSession
<1>8. Shape(y, after, 1)
  <2>1. Len(after) = 1 /\ after[1] = e
    BY <1>6
  <2>2. EntryFits(e, 1, y)
    <3>1. /\ e.kind = FlipKinds[1] /\ e.key = FlipKeys[1] /\ e.to = FlipStatuses[1] /\ e.from = "NONE"
          /\ e.asset = 0 /\ e.pool = FALSE /\ e.reason = "none"
      BY <1>5, Tables
    <3>2. FALSE = (1 >= 3)
      OBVIOUS
    <3>3. e.pool = (1 >= 3)
      BY <3>1, <3>2, Zenon
    <3> QED
      BY <3>1, <3>3 DEF EntryFits
  <2>3. Milestones(y, 1)
    <3>1. y.stake = 0 /\ y.pool = FALSE /\ y.ordinal = 0 /\ y.purchase = 0 /\ y.transfer = 0 /\ y.reveal = FALSE
      BY <1>4
    <3>2. FALSE = (1 >= 3) /\ FALSE = (1 >= 7)
      OBVIOUS
    <3>3. y.pool = (1 >= 3) /\ y.reveal = (1 >= 7)
      BY <3>1, <3>2, Zenon
    <3>4. (y.ordinal # 0) = (1 >= 4)
      BY <3>1
    <3> QED
      BY <3>1, <3>3, <3>4 DEF Milestones
  <2>4. y.status = FlipStatuses[1] /\ y.reason = "none" /\ y.version = 1
    BY <1>4, Tables
  <2> QED
    BY <2>1, <2>2, <2>3, <2>4 DEF Shape
<1>9. /\ flip' \in [Sessions -> FlipRow] /\ flipLog' \in [Sessions -> Seq(LogRow)] /\ proof' \in [Sessions -> ProofRow]
      /\ flip'[s] = y /\ flipLog'[s] = after
      /\ \A x \in Sessions : x # s => flip'[x] = flip[x] /\ flipLog'[x] = flipLog[x]
  BY <1>7 DEF RowsFit
<1>10. SessionShaped(s)'
  BY <1>8, <1>9 DEF SessionShaped
<1>11. SelectionFits(s)'
  <2>1. flip[s].ordinal = 0 /\ flip[s].status = "NONE" /\ y.ordinal = 0
    BY <1>2, <1>4 DEF NoSession
  <2> QED
    BY <1>1, <1>7, <1>9, <2>1 DEF SelectionFits
<1>12. ASSUME NEW x \in Sessions, x # s PROVE SessionShaped(x)' /\ SelectionFits(x)'
  <2>1. SessionShaped(x) /\ SelectionFits(x) /\ flip'[x] = flip[x] /\ flipLog'[x] = flipLog[x] /\ proof'[x] = proof[x]
    BY <1>7, <1>9, <1>12 DEF RowsFit
  <2>2. SessionShaped(x)'
    BY <2>1 DEF SessionShaped
  <2>3. SelectionFits(x)'
    BY <2>1 DEF SelectionFits
  <2> QED
    BY <2>2, <2>3
<1>13. RowsFit'
  BY <1>9, <1>10, <1>11, <1>12 DEF RowsFit
<1> QED
  BY <1>2, <1>9, <1>13, <1>4

\* No purchase or transfer is recorded.
TradesKept ==
  \A s \in Sessions : flip'[s].purchase = flip[s].purchase /\ flip'[s].transfer = flip[s].transfer

LEMMA RowsUnchanged ==
  ASSUME RowsFit, flip' = flip, flipLog' = flipLog, proof' = proof
  PROVE  RowsFit' /\ TradesKept
<1>1. ASSUME NEW s \in Sessions PROVE SessionShaped(s)' /\ SelectionFits(s)'
  <2>1. SessionShaped(s) /\ SelectionFits(s)
    BY DEF RowsFit
  <2>2. SessionShaped(s)'
    BY <2>1 DEF SessionShaped
  <2>3. SelectionFits(s)'
    BY <2>1 DEF SelectionFits
  <2> QED
    BY <2>2, <2>3
<1> QED
  BY <1>1 DEF RowsFit, TradesKept

LEMMA CallsUnchanged ==
  ASSUME CallsFit, health' = health, flipTime' = flipTime, flipCall' = flipCall
  PROVE  CallsFit'
  BY DEF CallsFit

LEMMA CallWrites ==
  ASSUME CallsFit, NEW c \in FlipCalls, NEW x \in CallRow, CallKnows(x),
         flipCall' = [flipCall EXCEPT ![c] = x], health' = health, flipTime' = flipTime
  PROVE  CallsFit'
<1>1. flipCall' \in [FlipCalls -> CallRow] /\ \A d \in FlipCalls : flipCall'[d] = IF d = c THEN x ELSE flipCall[d]
  BY DEF CallsFit
<1>2. \A d \in FlipCalls : CallKnows(flipCall'[d])
  BY <1>1 DEF CallsFit
<1> QED
  BY <1>1, <1>2 DEF CallsFit

LEMMA CallEnds ==
  ASSUME CallsFit, NEW c \in FlipCalls, flipCall' = [flipCall EXCEPT ![c] = FlipIdle],
         health' = health, flipTime' = flipTime
  PROVE  CallsFit'
<1>1. PICK x \in CallRow : x = FlipIdle
  BY DEF CallRow, FlipIdle, HealthRow, NoHealth
<1>2. CallKnows(x)
  BY <1>1 DEF CallKnows, FlipIdle
<1> QED
  BY <1>1, <1>2, CallWrites

\* A call that goes on keeps what it was asked for.
LEMMA CallMoves ==
  ASSUME CallsFit, NEW c \in FlipCalls, NEW pc \in {"stake", "denied", "prepare", "record", "finalize"},
         flipCall[c].pc # "idle",
         pc \in {"record", "finalize"} => flipCall[c].pc \in {"prepare", "record"},
         pc \notin {"stake", "prepare"},
         flipCall' = [flipCall EXCEPT ![c].pc = pc], health' = health, flipTime' = flipTime
  PROVE  CallsFit'
<1>1. PICK y \in CallRow : y = flipCall[c]
  BY DEF CallsFit
<1>2. PICK x \in CallRow : x = [y EXCEPT !.pc = pc]
  BY DEF CallRow
<1>3. x.pc = pc /\ x.session = y.session /\ x.amount = y.amount
  BY <1>2 DEF CallRow
<1>4. CallKnows(y)
  BY <1>1 DEF CallsFit
<1>5. CallKnows(x)
  BY <1>1, <1>3, <1>4 DEF CallKnows
<1>6. flipCall' = [flipCall EXCEPT ![c] = x]
  BY <1>1, <1>2
<1> QED
  BY <1>5, <1>6, CallWrites

\* The requests of the API, by their milestone.
LEMMA RequestFields ==
  ASSUME NEW kind, NEW ev, NEW key
  PROVE  /\ FlipRequest(kind, ev, key).kind = kind /\ FlipRequest(kind, ev, key).ev = ev
         /\ FlipRequest(kind, ev, key).key = key
  BY DEF FlipRequest

LEMMA ConfirmStakeKeeps ==
  ASSUME LedgerInv, NEW c \in FlipCalls, ConfirmStake(c)
  PROVE  LedgerInv' /\ TradesKept
<1> DEFINE call == flipCall[c]
           s == call.session
           r == FlipRequest("confirm-stake", call.amount, "stake")
<1>1. RowsFit /\ CallsFit
  BY DEF LedgerInv
<1>2. call.pc = "stake" /\ s \in Sessions
  BY <1>1 DEF ConfirmStake, CallsFit, CallKnows
<1>3. proof' = proof /\ health' = health /\ flipTime' = flipTime
  BY DEF ConfirmStake
<1>4. \/ flip' = flip /\ flipLog' = flipLog /\ flipCall' = [flipCall EXCEPT ![c] = FlipIdle]
      \/ flip' = flip /\ flipLog' = flipLog /\ flipCall' = [flipCall EXCEPT ![c].pc = "denied"]
      \/ AdmissionReason(call) = "allowed" /\ FlipTransition(s, r) /\ flipCall' = [flipCall EXCEPT ![c] = FlipIdle]
  BY DEF ConfirmStake
<1>5. CASE flip' = flip /\ flipLog' = flipLog /\ flipCall' = [flipCall EXCEPT ![c] = FlipIdle]
  BY <1>1, <1>3, <1>5, RowsUnchanged, CallEnds DEF LedgerInv
<1>6. CASE flip' = flip /\ flipLog' = flipLog /\ flipCall' = [flipCall EXCEPT ![c].pc = "denied"]
  <2>1. CallsFit'
    BY <1>1, <1>2, <1>3, <1>6, CallMoves
  <2> QED
    BY <1>1, <1>3, <1>6, <2>1, RowsUnchanged DEF LedgerInv
<1>7. CASE AdmissionReason(call) = "allowed" /\ FlipTransition(s, r) /\ flipCall' = [flipCall EXCEPT ![c] = FlipIdle]
  <2>1. call.amount = 1
    BY <1>7 DEF AdmissionReason
  <2>2. MilestoneRequest(r, 2)
    BY <2>1, RequestFields, Tables DEF MilestoneRequest, FlipEvidence
  <2>3. /\ RowsFit' /\ MilestoneRow(flip'[s], flip[s], 2, r.ev)
        /\ \A x \in Sessions : x # s => flip'[x] = flip[x]
    <3> HIDE DEF s, r
    <3> QED
      BY <1>1, <1>2, <1>3, <1>7, <2>2, MilestoneStep
  <2>4. TradesKept
    BY <2>3 DEF TradesKept, MilestoneRow
  <2>5. CallsFit'
    BY <1>1, <1>3, <1>7, CallEnds
  <2> QED
    BY <2>3, <2>4, <2>5 DEF LedgerInv
<1> QED
  BY <1>4, <1>5, <1>6, <1>7

LEMMA RecordSelectionKeeps ==
  ASSUME LedgerInv, NEW c \in FlipCalls, RecordSelection(c)
  PROVE  LedgerInv' /\ TradesKept
<1> DEFINE call == flipCall[c]
           s == call.session
           r == FlipRequest("record-selection", OutcomeOf(call.amount), SelectionKey)
<1>1. RowsFit /\ CallsFit
  BY DEF LedgerInv
<1>2. call.pc = "record" /\ s \in Sessions
  BY <1>1 DEF RecordSelection, CallsFit, CallKnows
<1>3. proof' = proof /\ health' = health /\ flipTime' = flipTime
  BY DEF RecordSelection
<1>4. CallsFit'
  <2>1. \/ flipCall' = [flipCall EXCEPT ![c] = FlipIdle]
        \/ flipCall' = [flipCall EXCEPT ![c].pc = "finalize"]
    BY DEF RecordSelection, GotoFlip, EndFlipCall
  <2>2. CASE flipCall' = [flipCall EXCEPT ![c] = FlipIdle]
    BY <1>1, <1>3, <2>2, CallEnds
  <2>3. CASE flipCall' = [flipCall EXCEPT ![c].pc = "finalize"]
    BY <1>1, <1>2, <1>3, <2>3, CallMoves
  <2> QED
    BY <2>1, <2>2, <2>3
<1>5. (flip' = flip /\ flipLog' = flipLog) \/ FlipTransition(s, r)
  BY DEF RecordSelection
<1>6. CASE flip' = flip /\ flipLog' = flipLog
  BY <1>1, <1>3, <1>4, <1>6, RowsUnchanged DEF LedgerInv
<1>7. CASE FlipTransition(s, r)
  <2>1. r.kind = "record-selection" /\ r.key = "selection" /\ EvidenceOK(r)
    BY <1>7, RequestFields DEF FlipTransition, CanFlipTransition, SelectionKey
  <2>2. r.ev \in Ordinals
    BY <2>1 DEF EvidenceOK
  <2>3. MilestoneRequest(r, 4)
    BY <2>1, <2>2, Tables, FlipSessionConstants DEF MilestoneRequest, FlipEvidence
  <2>4. /\ RowsFit' /\ MilestoneRow(flip'[s], flip[s], 4, r.ev)
        /\ \A x \in Sessions : x # s => flip'[x] = flip[x]
    <3> HIDE DEF s, r
    <3> QED
      BY <1>1, <1>2, <1>3, <1>7, <2>3, MilestoneStep
  <2>5. TradesKept
    BY <2>4 DEF TradesKept, MilestoneRow
  <2> QED
    BY <1>4, <2>4, <2>5 DEF LedgerInv
<1> QED
  BY <1>5, <1>6, <1>7

LEMMA OrdinalsAreNaturals == \A o \in Ordinals \cup {0} : o \in Nat
  BY FlipSessionConstants

LEMMA OperatorKeeps ==
  ASSUME LedgerInv, NEW s \in Sessions, OperatorTransition(s)
  PROVE  LedgerInv' /\ TradesKept
<1>1. RowsFit /\ CallsFit /\ flip[s] \in FlipRow
  BY DEF LedgerInv, RowsFit
<1>2. proof' = proof /\ health' = health /\ flipTime' = flipTime /\ flipCall' = flipCall
  BY DEF OperatorTransition
<1>3. CallsFit'
  BY <1>1, <1>2, CallsUnchanged
<1>4. PICK r \in OperatorRequests(s) : FlipTransition(s, r)
  BY DEF OperatorTransition
<1>5. ASSUME NEW i \in {3, 8}, MilestoneRequest(r, i) PROVE RowsFit' /\ TradesKept
  <2>1. /\ RowsFit' /\ MilestoneRow(flip'[s], flip[s], i, r.ev)
        /\ \A x \in Sessions : x # s => flip'[x] = flip[x]
    BY <1>1, <1>2, <1>4, <1>5, MilestoneStep
  <2> QED
    BY <2>1 DEF TradesKept, MilestoneRow
<1>6. ASSUME RecoveryRequest(r) PROVE RowsFit' /\ TradesKept
  <2>1. /\ RowsFit' /\ Keeps(flip'[s], flip[s])
        /\ \A x \in Sessions : x # s => flip'[x] = flip[x]
    BY <1>1, <1>2, <1>4, <1>6, RecoveryStep
  <2> QED
    BY <2>1 DEF TradesKept, Keeps
<1>7. CASE r = FlipRequest("commit-pool", s, "pool")
  <2>1. MilestoneRequest(r, 3)
    BY <1>7, RequestFields, Tables DEF MilestoneRequest, FlipEvidence
  <2> QED
    BY <1>3, <1>5, <2>1 DEF LedgerInv
<1>8. CASE r = FlipRequest("settle", flip[s].ordinal, "settle")
  <2>1. flip[s].ordinal \in Nat
    <3>1. flip[s].ordinal \in Ordinals \cup {0}
      BY <1>1 DEF FlipRow
    <3> QED
      BY <3>1, OrdinalsAreNaturals
  <2>2. MilestoneRequest(r, 8)
    BY <1>8, <2>1, RequestFields, Tables DEF MilestoneRequest, FlipEvidence
  <2> QED
    BY <1>3, <1>5, <2>2 DEF LedgerInv
<1>9. CASE \E kind \in RecoveryKinds, key \in RecoveryKeys : r = FlipRequest(kind, 0, key)
  <2>1. RecoveryRequest(r)
    BY <1>9, RequestFields DEF RecoveryRequest, FlipEvidence
  <2> QED
    BY <1>3, <1>6, <2>1 DEF LedgerInv
<1> QED
  BY <1>4, <1>7, <1>8, <1>9 DEF OperatorRequests, RecoveryKinds, RecoveryKeys

LEMMA EnsurePreparedKeeps ==
  ASSUME LedgerInv, NEW c \in FlipCalls, EnsurePreparedProof(c)
  PROVE  LedgerInv' /\ TradesKept
<1> DEFINE call == flipCall[c]
           s == call.session
           mine == [entropy |-> call.amount, ordinal |-> OutcomeOf(call.amount), final |-> FALSE]
<1>1. RowsFit /\ CallsFit
  BY DEF LedgerInv
<1>2. call.pc = "prepare" /\ s \in Sessions /\ call.amount \in Entropies
  BY <1>1 DEF EnsurePreparedProof, CallsFit, CallKnows
<1>3. flip' = flip /\ flipLog' = flipLog /\ health' = health /\ flipTime' = flipTime
  BY DEF EnsurePreparedProof
<1>4. CallsFit'
  <2>1. \/ flipCall' = [flipCall EXCEPT ![c] = FlipIdle]
        \/ \E pc \in {"finalize", "record"} : flipCall' = [flipCall EXCEPT ![c].pc = pc]
    BY DEF EnsurePreparedProof, GotoFlip, EndFlipCall
  <2>2. CASE flipCall' = [flipCall EXCEPT ![c] = FlipIdle]
    BY <1>1, <1>3, <2>2, CallEnds
  <2>3. ASSUME NEW pc \in {"finalize", "record"}, flipCall' = [flipCall EXCEPT ![c].pc = pc] PROVE CallsFit'
    BY <1>1, <1>2, <1>3, <2>3, CallMoves
  <2> QED
    BY <2>1, <2>2, <2>3
<1>5. \/ proof' = proof
      \/ /\ flip[s].status = "POOL_COMMITTED" /\ ~Logged(s, SelectionKey)
         /\ proof' = [proof EXCEPT ![s] = IF @.entropy = 0 THEN mine ELSE @]
  BY DEF EnsurePreparedProof
<1>6. CASE proof' = proof
  BY <1>1, <1>3, <1>4, <1>6, RowsUnchanged DEF LedgerInv
<1>7. ASSUME flip[s].status = "POOL_COMMITTED",
             proof' = [proof EXCEPT ![s] = IF @.entropy = 0 THEN mine ELSE @]
      PROVE  LedgerInv' /\ TradesKept
  <2>1. CASE proof[s].entropy # 0
    <3>1. proof' = proof
      BY <1>1, <1>2, <1>7, <2>1 DEF RowsFit
    <3> QED
      BY <1>6, <3>1
  <2>2. CASE proof[s].entropy = 0
    <3>1. PICK y \in ProofRow : y = mine
      BY <1>2 DEF ProofRow
    <3>2. y.entropy = call.amount /\ y.ordinal = OutcomeOf(call.amount)
      BY <3>1
    <3>3. proof' = [proof EXCEPT ![s] = y]
      BY <1>7, <2>2, <3>1
    <3>4. PICK t \in Sessions : t = s
      BY <1>2
    <3> HIDE DEF mine, s
    <3>5. /\ proof' \in [Sessions -> ProofRow] /\ proof'[t] = y
          /\ \A x \in Sessions : x # t => proof'[x] = proof[x]
      BY <1>1, <3>3, <3>4 DEF RowsFit
    <3>6. \A x \in Sessions : SessionShaped(x)'
      <4>1. RowsFit
        BY <1>1
      <4>2. ASSUME NEW x \in Sessions PROVE SessionShaped(x)'
        BY <1>3, <4>1 DEF RowsFit, SessionShaped
      <4> QED
        BY <4>2
    <3>7. SelectionFits(t)'
      <4>1. SelectionFits(t) /\ flip[t].ordinal = 0 /\ flip[t].status = "POOL_COMMITTED"
        BY <1>1, <1>7, <2>2, <3>4 DEF RowsFit, SelectionFits
      <4>2. y.ordinal = OutcomeOf(y.entropy)
        BY <3>2
      <4> QED
        BY <1>3, <3>5, <4>1, <4>2 DEF SelectionFits
    <3>8. ASSUME NEW x \in Sessions, x # t PROVE SelectionFits(x)'
      <4>1. SelectionFits(x)
        BY <1>1 DEF RowsFit
      <4> QED
        BY <1>3, <3>5, <3>8, <4>1 DEF SelectionFits
    <3>9. RowsFit'
      BY <1>1, <1>3, <3>5, <3>6, <3>7, <3>8 DEF RowsFit
    <3> QED
      BY <1>3, <1>4, <3>9 DEF LedgerInv, TradesKept
  <2> QED
    BY <2>1, <2>2
<1> QED
  BY <1>5, <1>6, <1>7

LEMMA FinalizeProofKeeps ==
  ASSUME LedgerInv, NEW c \in FlipCalls, FinalizeProof(c)
  PROVE  LedgerInv' /\ TradesKept
<1> DEFINE s == flipCall[c].session
           final == proof[s].final \/ SelectedReplayMatches(s, flipCall[c].amount)
<1>1. RowsFit /\ CallsFit
  BY DEF LedgerInv
<1>2. s \in Sessions
  BY <1>1 DEF FinalizeProof, CallsFit, CallKnows
<1>3. flip' = flip /\ flipLog' = flipLog /\ health' = health /\ flipTime' = flipTime
  BY DEF FinalizeProof
<1>4. CallsFit'
  BY <1>1, <1>3, CallEnds DEF FinalizeProof, EndFlipCall
<1>5. PICK y \in ProofRow : y = proof[s]
  BY <1>1, <1>2 DEF RowsFit
<1>6. final \in BOOLEAN
  <2>1. proof[s].final \in BOOLEAN
    BY <1>5 DEF ProofRow
  <2> QED
    BY <2>1, Zenon DEF SelectedReplayMatches
<1>7. proof' = [proof EXCEPT ![s].final = final]
  BY DEF FinalizeProof
<1>8. proof[s].final => final
  OBVIOUS
<1> HIDE DEF s, final
<1>9. PICK z \in ProofRow : z = [y EXCEPT !.final = final]
  BY <1>6 DEF ProofRow
<1>10. z.entropy = y.entropy /\ z.ordinal = y.ordinal /\ (y.final => z.final)
  BY <1>5, <1>8, <1>9 DEF ProofRow
<1>11. proof' = [proof EXCEPT ![s] = z]
  BY <1>5, <1>7, <1>9
<1>12. /\ proof' \in [Sessions -> ProofRow] /\ proof'[s] = z
       /\ \A x \in Sessions : x # s => proof'[x] = proof[x]
  BY <1>1, <1>2, <1>11 DEF RowsFit
<1>13. ASSUME NEW x \in Sessions PROVE SessionShaped(x)' /\ SelectionFits(x)'
  <2>1. SessionShaped(x) /\ SelectionFits(x)
    BY <1>1 DEF RowsFit
  <2>2. SessionShaped(x)'
    BY <1>3, <2>1 DEF SessionShaped
  <2>3. /\ proof'[x].entropy = proof[x].entropy /\ proof'[x].ordinal = proof[x].ordinal
        /\ proof[x].final => proof'[x].final
    BY <1>5, <1>10, <1>12
  <2>4. SelectionFits(x)'
    BY <1>3, <2>1, <2>3 DEF SelectionFits
  <2> QED
    BY <2>2, <2>4
<1>14. RowsFit'
  BY <1>1, <1>3, <1>12, <1>13 DEF RowsFit
<1> QED
  BY <1>3, <1>4, <1>14 DEF LedgerInv, TradesKept

LEMMA ReadHealthKeeps ==
  ASSUME LedgerInv, NEW c \in FlipCalls, NEW s \in Sessions, ReadProviderHealth(c, s)
  PROVE  LedgerInv' /\ TradesKept
<1>1. RowsFit /\ CallsFit
  BY DEF LedgerInv
<1>2. PICK a \in FlipStakes : flipCall' = [flipCall EXCEPT ![c] =
        [pc |-> "stake", session |-> s, amount |-> a, at |-> flipTime, health |-> health]]
  BY DEF ReadProviderHealth
<1>3. PICK x \in CallRow : x = [pc |-> "stake", session |-> s, amount |-> a, at |-> flipTime, health |-> health]
  BY <1>1 DEF CallsFit, CallRow
<1>4. CallKnows(x)
  BY <1>3 DEF CallKnows
<1>5. flip' = flip /\ flipLog' = flipLog /\ proof' = proof /\ health' = health /\ flipTime' = flipTime
  BY DEF ReadProviderHealth
<1> QED
  BY <1>1, <1>2, <1>3, <1>4, <1>5, CallWrites, RowsUnchanged DEF LedgerInv

LEMMA SelectOutcomeKeeps ==
  ASSUME LedgerInv, NEW c \in FlipCalls, NEW s \in Sessions, SelectOutcome(c, s)
  PROVE  LedgerInv' /\ TradesKept
<1>1. RowsFit /\ CallsFit
  BY DEF LedgerInv
<1>2. PICK e \in Entropies : flipCall' = [flipCall EXCEPT ![c] =
        [FlipIdle EXCEPT !.pc = "prepare", !.session = s, !.amount = e]]
  BY DEF SelectOutcome
<1>3. FlipIdle \in CallRow
  BY DEF CallRow, FlipIdle, HealthRow, NoHealth
<1>4. PICK x \in CallRow : x = [FlipIdle EXCEPT !.pc = "prepare", !.session = s, !.amount = e]
  BY <1>3 DEF CallRow
<1>5. x.pc = "prepare" /\ x.session = s /\ x.amount = e
  BY <1>3, <1>4 DEF CallRow
<1>6. CallKnows(x)
  BY <1>5 DEF CallKnows
<1>7. flip' = flip /\ flipLog' = flipLog /\ proof' = proof /\ health' = health /\ flipTime' = flipTime
  BY DEF SelectOutcome
<1> QED
  BY <1>1, <1>2, <1>4, <1>6, <1>7, CallWrites, RowsUnchanged DEF LedgerInv

LEMMA SessionStep ==
  ASSUME LedgerInv, FlipSessionStep
  PROVE  LedgerInv' /\ TradesKept
<1>1. RowsFit /\ CallsFit
  BY DEF LedgerInv
<1>2. ASSUME NEW c \in FlipCalls, PersistRejected(c) \/ FlipCallDies(c) PROVE LedgerInv' /\ TradesKept
  <2>1. /\ flip' = flip /\ flipLog' = flipLog /\ proof' = proof /\ health' = health /\ flipTime' = flipTime
        /\ flipCall' = [flipCall EXCEPT ![c] = FlipIdle]
    BY <1>2 DEF PersistRejected, FlipCallDies, EndFlipCall
  <2> QED
    BY <1>1, <2>1, CallEnds, RowsUnchanged DEF LedgerInv
<1>3. ASSUME FlipTick \/ ProviderReports PROVE LedgerInv' /\ TradesKept
  <2>1. flip' = flip /\ flipLog' = flipLog /\ proof' = proof /\ flipCall' = flipCall
    BY <1>3 DEF FlipTick, ProviderReports
  <2>2. health' \in HealthRow /\ flipTime' \in Nat
    <3>1. health \in HealthRow /\ flipTime \in Nat
      BY <1>1 DEF CallsFit
    <3>2. CASE FlipTick
      BY <3>1, <3>2 DEF FlipTick
    <3>3. CASE ProviderReports
      <4>1. flipTime' = flipTime /\ health' \in [state : {"outage", "healthy"}, at : {flipTime}]
        BY <3>3 DEF ProviderReports
      <4> QED
        BY <3>1, <4>1 DEF HealthRow
    <3> QED
      BY <1>3, <3>2, <3>3
  <2>3. CallsFit'
    BY <1>1, <2>1, <2>2 DEF CallsFit
  <2> QED
    BY <1>1, <2>1, <2>3, RowsUnchanged DEF LedgerInv
<1>4. ASSUME NEW s \in Sessions, CreateFixtureSession(s) PROVE LedgerInv' /\ TradesKept
  <2>1. health' = health /\ flipTime' = flipTime /\ flipCall' = flipCall
    BY <1>4 DEF CreateFixtureSession
  <2>2. CallsFit'
    BY <1>1, <2>1, CallsUnchanged
  <2>3. /\ RowsFit' /\ flip[s] = NoSession /\ flip'[s].purchase = 0 /\ flip'[s].transfer = 0
        /\ \A x \in Sessions : x # s => flip'[x] = flip[x]
    BY <1>1, <1>4, CreationStep
  <2> QED
    BY <2>2, <2>3 DEF LedgerInv, TradesKept, NoSession
<1> QED
  BY <1>2, <1>3, <1>4, ConfirmStakeKeeps, RecordSelectionKeeps, OperatorKeeps, EnsurePreparedKeeps, FinalizeProofKeeps,
     ReadHealthKeeps, SelectOutcomeKeeps DEF FlipSessionStep, StakeSteps, SelectionSteps

-----------------------------------------------------------------------------
(***************************************************************************)
(* What the shape of a ledger means to its reader.                         *)
(***************************************************************************)
LEMMA StepEdges ==
  /\ FlipStep["confirm-stake"] = <<FlipStatuses[1], FlipStatuses[2]>>
  /\ FlipStep["commit-pool"] = <<FlipStatuses[2], FlipStatuses[3]>>
  /\ FlipStep["record-selection"] = <<FlipStatuses[3], FlipStatuses[4]>>
  /\ FlipStep["record-purchase"] = <<FlipStatuses[4], FlipStatuses[5]>>
  /\ FlipStep["record-transfer"] = <<FlipStatuses[5], FlipStatuses[6]>>
  /\ FlipStep["mark-reveal-ready"] = <<FlipStatuses[6], FlipStatuses[7]>>
  /\ FlipStep["settle"] = <<FlipStatuses[7], FlipStatuses[8]>>
  BY DEF FlipStep, FlipStatuses

LEMMA RankOfStatus == \A n \in 1..8 : RankOf(FlipStatuses[n]) = n
<1>1. DOMAIN FlipStatuses = 1..8
  BY DEF FlipStatuses
<1>2. ASSUME NEW n \in 1..8 PROVE RankOf(FlipStatuses[n]) = n
  <2>1. \A i \in DOMAIN FlipStatuses : FlipStatuses[i] = FlipStatuses[n] <=> i = n
    BY <1>1, StatusesDiffer
  <2> QED
    BY <1>1, <2>1 DEF RankOf
<1> QED
  BY <1>2

LEMMA MilestoneEntryValid ==
  ASSUME NEW s \in Sessions, NEW n \in 1..8, Milestones(flip[s], n), NEW i \in 1..n, NEW t, EntryFits(t, i, flip[s])
  PROVE  StoredEdgeValid(t) /\ StoredEvidenceValid(s, t)
<1>1. CASE i = 1
  BY <1>1, Tables, StepEdges DEF EntryFits, StoredEdgeValid, StoredEvidenceValid
<1>2. CASE i = 2
  BY <1>2, Tables, StepEdges DEF EntryFits, StoredEdgeValid, StoredEvidenceValid
<1>3. CASE i = 3
  BY <1>3, Tables, StepEdges DEF EntryFits, StoredEdgeValid, StoredEvidenceValid
<1>4. CASE i = 4
  BY <1>4, Tables, StepEdges DEF EntryFits, StoredEdgeValid, StoredEvidenceValid
<1>5. CASE i = 5
  BY <1>5, Tables, StepEdges DEF EntryFits, StoredEdgeValid, StoredEvidenceValid
<1>6. CASE i = 6
  BY <1>6, Tables, StepEdges DEF EntryFits, StoredEdgeValid, StoredEvidenceValid
<1>7. CASE i = 7
  BY <1>7, Tables, StepEdges DEF EntryFits, StoredEdgeValid, StoredEvidenceValid
<1>8. CASE i = 8
  BY <1>8, Tables, StepEdges DEF EntryFits, StoredEdgeValid, StoredEvidenceValid
<1> QED
  BY <1>1, <1>2, <1>3, <1>4, <1>5, <1>6, <1>7, <1>8

LEMMA MilestoneColumnsValid ==
  ASSUME NEW s \in Sessions, NEW n \in 1..8, Milestones(flip[s], n), NEW i \in 1..n, NEW t, EntryFits(t, i, flip[s])
  PROVE  /\ t.pool = (flip[s].pool /\ t.kind \notin {"session-started", "confirm-stake"})
         /\ t.asset = IF t.kind \in {"session-started", "confirm-stake", "commit-pool"} THEN 0
                      ELSE flip[s].ordinal
         /\ t.reason = StoredReason(t.kind)
<1>1. /\ t.kind \notin {"session-started", "confirm-stake"} <=> i >= 3
      /\ t.kind \in {"session-started", "confirm-stake", "commit-pool"} <=> i < 4
  <2>1. t.kind = FlipKinds[i]
    BY DEF EntryFits
  <2> QED
    BY <2>1, Tables
<1>2. t.pool = (i >= 3) /\ flip[s].pool = (n >= 3) /\ t.asset = IF i >= 4 THEN flip[s].ordinal ELSE 0
  BY DEF EntryFits, Milestones
<1>3. (i >= 3) = (n >= 3 /\ i >= 3)
  OBVIOUS
<1>4. t.pool = (flip[s].pool /\ t.kind \notin {"session-started", "confirm-stake"})
  BY <1>1, <1>2, <1>3, Zenon
<1>5. t.asset = IF t.kind \in {"session-started", "confirm-stake", "commit-pool"} THEN 0 ELSE flip[s].ordinal
  BY <1>1, <1>2
<1>6. t.reason = StoredReason(t.kind)
  BY Tables DEF EntryFits, StoredReason
<1> QED
  BY <1>4, <1>5, <1>6

LEMMA RecoveryEntryValid ==
  ASSUME NEW s \in Sessions, NEW n \in 1..8, Milestones(flip[s], n), NEW t, NEW kind \in RecoveryKinds, NEW from,
         RecoveryFits(t, kind, from, Entered(kind), n, flip[s]),
         kind # "request-recovery" => from = "RECOVERY_REQUIRED"
  PROVE  StoredTransitionValid(s, t)
<1>1. /\ t.kind = kind /\ t.from = from /\ t.to = Entered(kind) /\ t.pool = (n >= 3)
      /\ t.asset = flip[s].ordinal /\ t.reason = StoredReason(t.kind)
  BY DEF RecoveryFits
<1>2. StoredEdgeValid(t) /\ StoredEvidenceValid(s, t)
  <2>1. CASE kind = "request-recovery"
    BY <1>1, <2>1, Edges DEF StoredEdgeValid, StoredEvidenceValid
  <2>2. CASE kind = "complete-recovery"
    BY <1>1, <2>2, Edges DEF StoredEdgeValid, StoredEvidenceValid
  <2>3. CASE kind = "terminate"
    BY <1>1, <2>3, Edges DEF StoredEdgeValid, StoredEvidenceValid
  <2> QED
    BY <2>1, <2>2, <2>3 DEF RecoveryKinds
<1>3. t.kind \notin {"session-started", "confirm-stake", "commit-pool"}
  BY <1>1 DEF RecoveryKinds
<1>4. flip[s].pool = (n >= 3)
  BY DEF Milestones
<1>5. t.pool = (flip[s].pool /\ t.kind \notin {"session-started", "confirm-stake"})
  <2>1. (n >= 3) \in BOOLEAN
    OBVIOUS
  <2> QED
    BY <1>1, <1>3, <1>4, <2>1, Zenon
<1>6. t.asset = IF t.kind \in {"session-started", "confirm-stake", "commit-pool"} THEN 0 ELSE flip[s].ordinal
  BY <1>1, <1>3
<1> QED
  BY <1>1, <1>2, <1>5, <1>6 DEF StoredTransitionValid

\* The recovery of a session is the one transition of its kind.
LEMMA RecoveryFrom ==
  ASSUME RowsFit, NEW s \in Sessions, NEW n \in 1..8, Shape(flip[s], flipLog[s], n)
  PROVE  MilestoneStatus(s) = FlipStatuses[n]
<1> DEFINE log == flipLog[s]
<1>1. CASE flip[s].status \notin {"RECOVERY_REQUIRED", "RECOVERED", "FAILED"}
  BY <1>1 DEF Shape, MilestoneStatus
<1>2. CASE flip[s].status \in {"RECOVERY_REQUIRED", "RECOVERED", "FAILED"}
  <2>1. /\ Len(log) \in {n + 1, n + 2}
        /\ log[n + 1].kind = "request-recovery" /\ log[n + 1].from = FlipStatuses[n]
        /\ Len(log) = n + 2 => log[n + 2].kind # "request-recovery"
    BY <1>2, StatusesDiffer DEF Shape, RecoveryFits
  <2>2. \A i \in 1..n : log[i].kind # "request-recovery"
    <3>1. ASSUME NEW i \in 1..n PROVE log[i].kind # "request-recovery"
      <4>1. log[i].kind = FlipKinds[i] /\ i \in 1..8
        BY DEF Shape, EntryFits
      <4> QED
        BY <4>1, Tables, OneToEight
    <3> QED
      BY <3>1
  <2>3. DOMAIN log = 1..Len(log)
    BY DEF RowsFit
  <2> HIDE DEF log
  <2>4. DOMAIN log = 1..(n + 1) \/ (DOMAIN log = 1..(n + 2) /\ Len(log) = n + 2)
    BY <2>1, <2>3
  <2>5. \A i \in DOMAIN log : log[i].kind = "request-recovery" <=> i = n + 1
    <3>1. ASSUME NEW i \in DOMAIN log PROVE log[i].kind = "request-recovery" <=> i = n + 1
      <4>1. i \in 1..n \/ i = n + 1 \/ (i = n + 2 /\ Len(log) = n + 2)
        BY <2>4
      <4> QED
        BY <2>1, <2>2, <4>1
    <3> QED
      BY <3>1
  <2>6. n + 1 \in DOMAIN log
    BY <2>4
  <2>7. (CHOOSE i \in DOMAIN log : log[i].kind = "request-recovery") = n + 1
    BY <2>5, <2>6
  <2> QED
    BY <1>2, <2>1, <2>7 DEF MilestoneStatus, log
<1> QED
  BY <1>1, <1>2

LEMMA EntriesChain ==
  ASSUME RowsFit, NEW s \in Sessions, NEW n \in 1..8, Shape(flip[s], flipLog[s], n), NEW i \in 1..Len(flipLog[s])
  PROVE  /\ flipLog[s][i].from = IF i = 1 THEN "NONE" ELSE flipLog[s][i - 1].to
         /\ StoredTransitionValid(s, flipLog[s][i])
<1> DEFINE row == flip[s]
           log == flipLog[s]
<1>1. Milestones(row, n) /\ \A k \in 1..n : EntryFits(log[k], k, row)
  BY DEF Shape
<1>2. /\ Len(log) \in {n, n + 1, n + 2}
      /\ Len(log) >= n + 1 =>
           RecoveryFits(log[n + 1], "request-recovery", FlipStatuses[n], "RECOVERY_REQUIRED", n, row)
      /\ Len(log) = n + 2 =>
           \/ RecoveryFits(log[n + 2], "complete-recovery", "RECOVERY_REQUIRED", "RECOVERED", n, row)
           \/ RecoveryFits(log[n + 2], "terminate", "RECOVERY_REQUIRED", "FAILED", n, row)
  <2>1. CASE row.status \notin {"RECOVERY_REQUIRED", "RECOVERED", "FAILED"}
    BY <2>1 DEF Shape
  <2>2. CASE row.status \in {"RECOVERY_REQUIRED", "RECOVERED", "FAILED"}
    BY <2>2, StatusesDiffer DEF Shape
  <2> QED
    BY <2>1, <2>2
<1> HIDE DEF row, log
<1>3. i \in 1..n \/ (i = n + 1 /\ Len(log) >= n + 1) \/ (i = n + 2 /\ Len(log) = n + 2)
  <2>1. i \in 1..Len(log)
    BY DEF log
  <2> QED
    BY <1>2, <2>1
<1>4. ASSUME i \in 1..n
      PROVE  log[i].from = (IF i = 1 THEN "NONE" ELSE log[i - 1].to) /\ StoredTransitionValid(s, log[i])
  <2>1. EntryFits(log[i], i, row)
    BY <1>1, <1>4
  <2>2. log[i].from = (IF i = 1 THEN "NONE" ELSE log[i - 1].to)
    <3>1. i # 1 => EntryFits(log[i - 1], i - 1, row)
      BY <1>1, <1>4
    <3> QED
      BY <2>1, <3>1 DEF EntryFits
  <2>3. StoredTransitionValid(s, log[i])
    BY <1>1, <1>4, <2>1, MilestoneEntryValid, MilestoneColumnsValid DEF StoredTransitionValid, row
  <2> QED
    BY <2>2, <2>3
<1>5. ASSUME i = n + 1, Len(log) >= n + 1
      PROVE  log[i].from = (IF i = 1 THEN "NONE" ELSE log[i - 1].to) /\ StoredTransitionValid(s, log[i])
  <2>1. RecoveryFits(log[i], "request-recovery", FlipStatuses[n], "RECOVERY_REQUIRED", n, row)
    BY <1>2, <1>5
  <2>2. StoredTransitionValid(s, log[i])
    BY <1>1, <2>1, Edges, RecoveryEntryValid DEF RecoveryKinds, row
  <2>3. log[n].to = FlipStatuses[n]
    BY <1>1 DEF EntryFits
  <2> QED
    BY <1>5, <2>1, <2>2, <2>3 DEF RecoveryFits
<1>6. ASSUME i = n + 2, Len(log) = n + 2
      PROVE  log[i].from = (IF i = 1 THEN "NONE" ELSE log[i - 1].to) /\ StoredTransitionValid(s, log[i])
  <2>1. PICK kind \in {"complete-recovery", "terminate"} :
          RecoveryFits(log[i], kind, "RECOVERY_REQUIRED", Entered(kind), n, row)
    BY <1>2, <1>6, Edges
  <2>2. StoredTransitionValid(s, log[i])
    BY <1>1, <2>1, RecoveryEntryValid DEF RecoveryKinds, row
  <2>3. log[n + 1].to = "RECOVERY_REQUIRED"
    BY <1>2, <1>6 DEF RecoveryFits
  <2>4. i # 1 /\ i - 1 = n + 1
    BY <1>6
  <2>5. log[i].from = "RECOVERY_REQUIRED"
    BY <2>1 DEF RecoveryFits
  <2> QED
    BY <2>2, <2>3, <2>4, <2>5
<1> QED
  BY <1>3, <1>4, <1>5, <1>6 DEF log

LEMMA ShapeIsReadable ==
  ASSUME RowsFit, NEW s \in Sessions, NEW n \in 1..8, Shape(flip[s], flipLog[s], n)
  PROVE  SessionLedgerValid(s)
<1> DEFINE row == flip[s]
           log == flipLog[s]
<1>1. Milestones(row, n) /\ row.version = Len(log) /\ \A k \in 1..n : EntryFits(log[k], k, row)
  BY DEF Shape
<1>2. DOMAIN log = 1..Len(log) /\ Len(log) \in Nat
  BY DEF RowsFit
<1>3. ASSUME NEW i \in DOMAIN log
      PROVE  log[i].from = (IF i = 1 THEN "NONE" ELSE log[i - 1].to) /\ StoredTransitionValid(s, log[i])
  <2>1. i \in 1..Len(flipLog[s])
    BY <1>2
  <2> QED
    BY <2>1, EntriesChain
<1>4. log[1].kind = "session-started"
  BY <1>1, Tables DEF EntryFits
<1>5. log[Len(log)].to = row.status
  <2>1. log[n].to = FlipStatuses[n]
    BY <1>1 DEF EntryFits
  <2> QED
    BY <2>1, StatusesDiffer DEF Shape, RecoveryFits
<1>6. (row.status \in FlipTerminal) = (row.reason # "none")
  <2>1. row.status \in FlipTerminal <=> row.reason # "none"
    <3>1. FlipStatuses[n] \in FlipTerminal <=> n = 8
      <4>1. FlipStatuses[n] \notin {"RECOVERED", "FAILED"}
        BY StatusesDiffer
      <4>2. FlipStatuses[n] = "SETTLED" <=> n = 8
        BY Tables, StatusesDiffer
      <4> QED
        BY <4>1, <4>2 DEF FlipTerminal
    <3>2. CASE row.status = FlipStatuses[n]
      <4>1. row.reason = IF n = 8 THEN "FIXTURE_SETTLED" ELSE "none"
        BY <3>2, StatusesDiffer DEF Shape
      <4> QED
        BY <3>1, <3>2, <4>1
    <3>3. CASE row.status # FlipStatuses[n]
      BY <3>3 DEF Shape, FlipTerminal
    <3> QED
      BY <3>2, <3>3
  <2> QED
    BY <2>1
<1>7. CommitmentBound(s)
  <2>1. /\ n >= 3 => row.stake = 1
        /\ n < 3 => row.ordinal = 0
        /\ row.ordinal \in Ordinals \cup {0} /\ row.pool = (n >= 3)
    BY <1>1 DEF Milestones
  <2>2. CASE n >= 3
    <3>1. row.pool = TRUE
      BY <2>1, <2>2
    <3> QED
      BY <2>1, <2>2, <3>1 DEF CommitmentBound
  <2>3. CASE n < 3
    <3>1. row.pool = FALSE
      <4>1. (n >= 3) = FALSE
        BY <2>3
      <4> QED
        BY <2>1, <4>1, Zenon
    <3> QED
      BY <2>1, <2>3, <3>1 DEF CommitmentBound
  <2> QED
    BY <2>2, <2>3
<1>8. MilestonesValid(s)
  <2>1. RankOf(MilestoneStatus(s)) = n
    BY RecoveryFrom, RankOfStatus
  <2>2. /\ (row.stake # 0) = (n >= 2)
        /\ row.pool = (n >= 3) /\ (row.ordinal # 0) = (n >= 4)
        /\ (row.purchase # 0) = (n >= 5) /\ (row.transfer # 0) = (n >= 6)
        /\ row.reveal = (n >= 7)
    BY <1>1 DEF Milestones
  <2> QED
    BY <2>1, <2>2 DEF MilestonesValid
<1>9. Len(log) = row.version
  BY <1>1
<1> QED
  BY <1>3, <1>4, <1>5, <1>6, <1>7, <1>8, <1>9, Zenon DEF SessionLedgerValid

-----------------------------------------------------------------------------
(***************************************************************************)
(* The steps of the acquisition.  What a row, the marketplace or the       *)
(* ledger has once said stays said.                                        *)
(***************************************************************************)
Forward ==
  \A s \in Sessions :
    /\ flip[s].purchase # 0 => flip'[s].purchase # 0
    /\ flip[s].transfer # 0 => flip'[s].transfer # 0
    /\ \A i \in TradeOperations :
         /\ trade[s][i] = "applied" => trade'[s][i] = "applied"
         /\ trade[s][i] = "rejected" => trade'[s][i] = "rejected"
         /\ acq[s].op[i].status = "FINALIZED" => acq'[s].op[i].status = "FINALIZED"

\* No plan becomes v's, and none of v's becomes retryable.
OwnerKept(v) ==
  \A s \in Sessions : acq'[s].owner = v => acq[s].owner = v /\ (Retryable(s)' => Retryable(s))

LEMMA KnowledgeKept ==
  ASSUME Forward, NEW v, NEW y, WorkerKnows(y, v), OwnerKept(v)
  PROVE  WorkerKnows(y, v)'
<1>1. CASE y.pc = "idle"
  BY <1>1 DEF WorkerKnows, Trading
<1>2. CASE y.pc # "idle"
  <2>1. y.session \in Sessions
    BY <1>2 DEF WorkerKnows
  <2>2. y.pc \in Trading => y.op \in TradeOperations
    BY DEF WorkerKnows
  <2>3. y.pc \in {"finalize", "reviewed-tx", "lifecycle"} => y.pc \in Trading
    BY DEF Trading
  <2>4. y.pc \in Trading /\ acq'[y.session].owner = v => ~Retryable(y.session)'
    BY <2>1 DEF WorkerKnows, OwnerKept
  <2> QED
    BY <1>2, <2>1, <2>2, <2>3, <2>4 DEF WorkerKnows, Forward
<1> QED
  BY <1>1, <1>2

LEMMA WorkerMoves ==
  ASSUME AcquisitionInv, Forward, AcqTypes', NEW w \in Workers, NEW x \in WorkerRow,
         worker' = [worker EXCEPT ![w] = x], WorkerKnows(x, w)',
         \A v \in Workers \ {w} : OwnerKept(v), \A s \in Sessions : PlanFits(s)'
  PROVE  AcquisitionInv'
<1>1. worker \in [Workers -> WorkerRow]
  BY DEF AcquisitionInv, AcqTypes
<1>2. worker'[w] = x /\ \A v \in Workers \ {w} : worker'[v] = worker[v]
  BY <1>1
<1>3. ASSUME NEW v \in Workers PROVE WorkerKnows(worker[v], v)'
  <2>1. CASE v = w
    BY <1>2, <2>1
  <2>2. CASE v # w
    <3>1. PICK y \in WorkerRow : y = worker[v]
      BY <1>1
    <3>2. WorkerKnows(y, v) /\ OwnerKept(v)
      BY <2>2, <3>1 DEF AcquisitionInv
    <3>3. WorkerKnows(y, v)'
      BY <3>2, KnowledgeKept
    <3> QED
      BY <1>2, <2>2, <3>1, <3>3
  <2> QED
    BY <2>1, <2>2
<1> QED
  BY <1>3 DEF AcquisitionInv

\* A plan that nothing touches fits as before.
PlanKept(s) ==
  /\ acq'[s] = acq[s] /\ trade'[s] = trade[s]
  /\ flip'[s].purchase = flip[s].purchase /\ flip'[s].transfer = flip[s].transfer
  /\ s \in retained' <=> s \in retained

LEMMA PlanStays ==
  ASSUME NEW s \in Sessions, PlanFits(s), PlanKept(s)
  PROVE  PlanFits(s)'
  BY DEF PlanFits, PlanKept

LEMMA WorkerGoes ==
  ASSUME AcqTypes, NEW w \in Workers,
         NEW pc \in {"idle", "create", "claim", "leased", "snapshot", "operation", "lifecycle", "finalize", "execute",
                     "ambiguous", "reviewed-tx", "reviewed", "acquire", "release"},
         GotoWorker(w, pc)
  PROVE  \E x \in WorkerRow : /\ worker' = [worker EXCEPT ![w] = x]
                              /\ x.pc = pc /\ x.session = worker[w].session /\ x.op = worker[w].op
<1>1. PICK y \in WorkerRow : y = worker[w]
  BY DEF AcqTypes
<1>2. PICK x \in WorkerRow : x = [y EXCEPT !.pc = pc]
  BY DEF WorkerRow
<1>3. x.pc = pc /\ x.session = y.session /\ x.op = y.op
  BY <1>2 DEF WorkerRow
<1>4. worker' = [worker EXCEPT ![w] = x]
  BY <1>1, <1>2 DEF GotoWorker
<1> QED
  BY <1>1, <1>3, <1>4

LEMMA WorkerEnds ==
  ASSUME NEW w \in Workers, EndWorker(w)
  PROVE  \E x \in WorkerRow : worker' = [worker EXCEPT ![w] = x] /\ x.pc = "idle"
<1>1. PICK x \in WorkerRow : x = WorkerIdle
  BY DEF WorkerRow, WorkerIdle
<1>2. x.pc = "idle"
  BY <1>1 DEF WorkerIdle
<1> QED
  BY <1>1, <1>2 DEF EndWorker

\* A plan is written with the next version.
LEMMA PlanWrites ==
  ASSUME AcqTypes, NEW s \in Sessions, NEW plan \in PlanRow, SetPlan(s, plan)
  PROVE  /\ acq' \in [Sessions -> PlanRow] /\ \A x \in Sessions : x # s => acq'[x] = acq[x]
         /\ acq'[s].status = plan.status /\ acq'[s].owner = plan.owner /\ acq'[s].op = plan.op
<1>1. acq[s].version + 1 \in Nat
  <2>1. acq[s] \in PlanRow
    BY DEF AcqTypes
  <2>2. acq[s].version \in Nat
    BY <2>1 DEF PlanRow
  <2> QED
    BY <2>2
<1>2. PICK version \in Nat : version = acq[s].version + 1
  BY <1>1
<1>3. PICK x \in PlanRow : x = [plan EXCEPT !.version = version]
  BY DEF PlanRow
<1>4. x.status = plan.status /\ x.owner = plan.owner /\ x.op = plan.op
  BY <1>3 DEF PlanRow
<1>5. acq' = [acq EXCEPT ![s] = x]
  BY <1>2, <1>3 DEF SetPlan
<1>6. acq' \in [Sessions -> PlanRow] /\ acq'[s] = x /\ \A q \in Sessions : q # s => acq'[q] = acq[q]
  BY <1>5 DEF AcqTypes
<1> QED
  BY <1>4, <1>6

\* The lease of a plan ends, or is not w's to end: the plan says the same as before.
LEMMA LeaseEnds ==
  ASSUME AcqTypes, NEW w \in Workers, worker[w].session \in Sessions, Released(w)
  PROVE  /\ acq' \in [Sessions -> PlanRow]
         /\ \A s \in Sessions : /\ acq'[s].op = acq[s].op /\ acq'[s].status = acq[s].status
                                /\ acq'[s].owner \in {acq[s].owner, Nobody}
                                /\ (acq'[s] = acq[s] \/ acq[s].owner # Nobody)
<1>1. CASE acq' = acq
  BY <1>1 DEF AcqTypes
<1>2. CASE acq' # acq
  <2>1. PICK s \in Sessions : s = worker[w].session
    OBVIOUS
  <2>2. PICK y \in PlanRow : y = acq[s]
    BY DEF AcqTypes
  <2>3. SetPlan(s, [y EXCEPT !.owner = Nobody, !.expired = FALSE]) /\ acq[s].owner = w
    BY <1>2, <2>1, <2>2 DEF Released, Held
  <2>4. PICK plan \in PlanRow : plan = [y EXCEPT !.owner = Nobody, !.expired = FALSE]
    BY DEF PlanRow
  <2>5. plan.status = y.status /\ plan.owner = Nobody /\ plan.op = y.op
    BY <2>4 DEF PlanRow
  <2>6. /\ acq' \in [Sessions -> PlanRow] /\ \A x \in Sessions : x # s => acq'[x] = acq[x]
        /\ acq'[s].status = plan.status /\ acq'[s].owner = plan.owner /\ acq'[s].op = plan.op
    BY <2>3, <2>4, PlanWrites
  <2> QED
    BY <2>2, <2>3, <2>5, <2>6, FlipAcquisitionConstants
<1> QED
  BY <1>1, <1>2

LEMMA WorkerLearns ==
  ASSUME AcqTypes, NEW w \in Workers, NEW known \in BOOLEAN, NEW pc \in {"ambiguous", "finalize", "reviewed-tx"},
         worker' = [worker EXCEPT ![w].pc = pc, ![w].known = known]
  PROVE  \E x \in WorkerRow : /\ worker' = [worker EXCEPT ![w] = x]
                              /\ x.pc = pc /\ x.session = worker[w].session /\ x.op = worker[w].op
<1>1. PICK y \in WorkerRow : y = worker[w]
  BY DEF AcqTypes
<1>2. PICK x \in WorkerRow : x = [y EXCEPT !.pc = pc, !.known = known]
  BY DEF WorkerRow
<1>3. x.pc = pc /\ x.session = y.session /\ x.op = y.op
  BY <1>2 DEF WorkerRow
<1>4. worker' = [worker EXCEPT ![w] = x]
  BY <1>1, <1>2
<1> QED
  BY <1>1, <1>3, <1>4

LEMMA WorkerStarts ==
  ASSUME AcqTypes, NEW w \in Workers,
         worker' = [worker EXCEPT ![w].pc = "operation", ![w].op = 1]
  PROVE  \E x \in WorkerRow : /\ worker' = [worker EXCEPT ![w] = x]
                              /\ x.pc = "operation" /\ x.session = worker[w].session /\ x.op = 1
<1>1. PICK y \in WorkerRow : y = worker[w]
  BY DEF AcqTypes
<1>2. PICK x \in WorkerRow : x = [y EXCEPT !.pc = "operation", !.op = 1]
  <2>1. PICK first \in TradeOperations : first = 1
    BY DEF TradeOperations
  <2>2. PICK x \in WorkerRow : x = [y EXCEPT !.pc = "operation", !.op = first]
    BY DEF WorkerRow
  <2> QED
    BY <2>1, <2>2
<1>3. x.pc = "operation" /\ x.session = y.session /\ x.op = 1
  BY <1>2 DEF WorkerRow
<1>4. worker' = [worker EXCEPT ![w] = x]
  BY <1>1, <1>2
<1> QED
  BY <1>1, <1>3, <1>4

LEMMA WorkerPlans ==
  ASSUME AcqTypes, NEW w \in Workers, NEW version \in Nat,
         worker' = [worker EXCEPT ![w].pc = "claim", ![w].version = version]
  PROVE  \E x \in WorkerRow : /\ worker' = [worker EXCEPT ![w] = x]
                              /\ x.pc = "claim" /\ x.session = worker[w].session
<1>1. PICK y \in WorkerRow : y = worker[w]
  BY DEF AcqTypes
<1>2. PICK x \in WorkerRow : x = [y EXCEPT !.pc = "claim", !.version = version]
  BY DEF WorkerRow
<1>3. x.pc = "claim" /\ x.session = y.session
  BY <1>2 DEF WorkerRow
<1>4. worker' = [worker EXCEPT ![w] = x]
  BY <1>1, <1>2
<1> QED
  BY <1>1, <1>3, <1>4

LEMMA LedgerUnchanged ==
  ASSUME LedgerInv, UNCHANGED flipVars
  PROVE  LedgerInv' /\ flip' = flip
<1>1. /\ flip' = flip /\ flipLog' = flipLog /\ proof' = proof /\ health' = health /\ flipTime' = flipTime
      /\ flipCall' = flipCall
  BY DEF flipVars
<1> QED
  BY <1>1, RowsUnchanged, CallsUnchanged DEF LedgerInv

\* A worker moves and the rows stay.
LEMMA QuietMove ==
  ASSUME FlipInv, NEW w \in Workers, NEW x \in WorkerRow, worker' = [worker EXCEPT ![w] = x], WorkerKnows(x, w),
         UNCHANGED <<flipVars, acq, trade, retained>>
  PROVE  FlipInv'
<1>1. LedgerInv /\ AcquisitionInv /\ acq' = acq /\ trade' = trade /\ retained' = retained
  BY DEF FlipInv
<1>2. LedgerInv' /\ flip' = flip
  BY <1>1, LedgerUnchanged
<1>3. Forward /\ \A v \in Workers : OwnerKept(v)
  BY <1>1, <1>2 DEF Forward, OwnerKept, Retryable
<1>4. WorkerKnows(x, w)'
  BY <1>3, KnowledgeKept
<1>5. AcqTypes'
  BY <1>1 DEF AcquisitionInv, AcqTypes
<1>6. \A s \in Sessions : PlanFits(s)'
  <2>1. ASSUME NEW s \in Sessions PROVE PlanFits(s)'
    <3>1. PlanFits(s) /\ PlanKept(s)
      BY <1>1, <1>2 DEF AcquisitionInv, PlanKept
    <3> QED
      BY <3>1, PlanStays
  <2> QED
    BY <2>1
<1> QED
  BY <1>1, <1>2, <1>3, <1>4, <1>5, <1>6, WorkerMoves DEF FlipInv

\* A worker lets go of the lease, if it is its own.
LEMMA ReleasingMove ==
  ASSUME FlipInv, NEW w \in Workers, worker[w].session \in Sessions, Released(w),
         NEW x \in WorkerRow, worker' = [worker EXCEPT ![w] = x],
         x.pc = "idle" \/ (x.pc = "snapshot" /\ x.session = worker[w].session),
         UNCHANGED <<flipVars, trade, retained>>
  PROVE  FlipInv'
<1>1. LedgerInv /\ AcquisitionInv /\ AcqTypes /\ trade' = trade /\ retained' = retained
  BY DEF FlipInv, AcquisitionInv
<1>2. LedgerInv' /\ flip' = flip
  BY <1>1, LedgerUnchanged
<1>3. /\ acq' \in [Sessions -> PlanRow]
      /\ \A s \in Sessions : /\ acq'[s].op = acq[s].op /\ acq'[s].status = acq[s].status
                             /\ acq'[s].owner \in {acq[s].owner, Nobody}
                             /\ (acq'[s] = acq[s] \/ acq[s].owner # Nobody)
  BY <1>1, LeaseEnds
<1>4. Forward
  BY <1>1, <1>2, <1>3 DEF Forward
<1>5. \A v \in Workers : OwnerKept(v)
  BY <1>3, FlipAcquisitionConstants DEF OwnerKept, Retryable
<1>6. AcqTypes'
  BY <1>1, <1>3 DEF AcqTypes
<1>7. WorkerKnows(x, w)'
  BY DEF WorkerKnows, Trading
<1>8. ASSUME NEW s \in Sessions PROVE PlanFits(s)'
  <2>1. PlanFits(s)
    BY <1>1 DEF AcquisitionInv
  <2>2. acq[s].status = "NONE" => acq'[s] = NoPlan
    BY <1>3, <2>1 DEF PlanFits, NoPlan
  <2> QED
    BY <1>1, <1>2, <1>3, <2>1, <2>2 DEF PlanFits
<1>9. AcquisitionInv'
  BY <1>1, <1>4, <1>5, <1>6, <1>7, <1>8, WorkerMoves
<1> QED
  BY <1>2, <1>9 DEF FlipInv

\* A worker goes where it needs to know no more than it does.
LEMMA QuietGoto ==
  ASSUME FlipInv, NEW w \in Workers, worker[w].pc # "idle",
         NEW pc \in {"snapshot", "leased", "claim", "reviewed", "release", "lifecycle", "finalize", "execute"},
         GotoWorker(w, pc),
         pc \in Trading => worker[w].pc \in Trading,
         pc = "finalize" => trade[worker[w].session][worker[w].op] = "applied",
         pc = "lifecycle" => acq[worker[w].session].op[worker[w].op].status = "FINALIZED",
         UNCHANGED <<flipVars, acq, trade, retained>>
  PROVE  FlipInv'
<1>1. AcqTypes /\ WorkerKnows(worker[w], w)
  BY DEF FlipInv, AcquisitionInv
<1>2. PICK x \in WorkerRow : /\ worker' = [worker EXCEPT ![w] = x]
                             /\ x.pc = pc /\ x.session = worker[w].session /\ x.op = worker[w].op
  BY <1>1, WorkerGoes
<1>3. WorkerKnows(x, w)
  BY <1>1, <1>2 DEF WorkerKnows, Trading
<1> QED
  BY <1>2, <1>3, QuietMove

LEMMA QuietEnd ==
  ASSUME FlipInv, NEW w \in Workers, EndWorker(w), UNCHANGED <<flipVars, acq, trade, retained>>
  PROVE  FlipInv'
<1>1. PICK x \in WorkerRow : worker' = [worker EXCEPT ![w] = x] /\ x.pc = "idle"
  BY WorkerEnds
<1>2. WorkerKnows(x, w)
  BY <1>1 DEF WorkerKnows, Trading
<1> QED
  BY <1>1, <1>2, QuietMove

LEMMA ReadPlanKeeps ==
  ASSUME FlipInv, NEW w \in Workers, NEW s \in Sessions, ReadPlan(w, s)
  PROVE  FlipInv'
<1>1. LedgerInv /\ AcqTypes
  BY DEF FlipInv, AcquisitionInv
<1>2. flip[s].version \in Nat /\ acq[s].version \in Nat
  <2>1. flip[s] \in FlipRow /\ acq[s] \in PlanRow
    BY <1>1 DEF LedgerInv, RowsFit, AcqTypes
  <2> QED
    BY <2>1 DEF FlipRow, PlanRow
<1>3. WorkerIdle \in WorkerRow
  BY DEF WorkerRow, WorkerIdle
<1>4. \E pc \in {"create", "reviewed", "claim"}, version \in Nat :
        worker' = [worker EXCEPT ![w] = [WorkerIdle EXCEPT !.pc = pc, !.session = s, !.version = version]]
  BY <1>2 DEF ReadPlan
<1>5. PICK pc \in {"create", "reviewed", "claim"}, version \in Nat :
        worker' = [worker EXCEPT ![w] = [WorkerIdle EXCEPT !.pc = pc, !.session = s, !.version = version]]
  BY <1>4
<1>6. PICK x \in WorkerRow : x = [WorkerIdle EXCEPT !.pc = pc, !.session = s, !.version = version]
  BY <1>3 DEF WorkerRow
<1>7. x.pc = pc /\ x.session = s
  BY <1>3, <1>6 DEF WorkerRow
<1>8. WorkerKnows(x, w)
  BY <1>7 DEF WorkerKnows, Trading
<1>9. worker' = [worker EXCEPT ![w] = x]
  BY <1>5, <1>6
<1> QED
  BY <1>8, <1>9, QuietMove DEF ReadPlan

LEMMA SnapshotKeeps ==
  ASSUME FlipInv, NEW w \in Workers, Snapshot(w)
  PROVE  FlipInv'
<1>1. worker[w].pc = "snapshot" /\ UNCHANGED <<flipVars, acq, trade, retained>>
  BY DEF Snapshot
<1>2. GotoWorker(w, "reviewed") \/ EndWorker(w)
  BY DEF Snapshot
<1>3. "reviewed" \notin Trading
  BY DEF Trading
<1> QED
  BY <1>1, <1>2, <1>3, QuietGoto, QuietEnd

LEMMA CheckLeaseKeeps ==
  ASSUME FlipInv, NEW w \in Workers, CheckLease(w)
  PROVE  FlipInv'
<1>1. worker[w].pc = "leased" /\ UNCHANGED <<flipVars, trade, retained>>
  BY DEF CheckLease
<1>2. AcqTypes /\ WorkerKnows(worker[w], w)
  BY DEF FlipInv, AcquisitionInv
<1>3. worker[w].session \in Sessions
  BY <1>1, <1>2 DEF WorkerKnows
<1>4. CASE GotoWorker(w, "snapshot") /\ UNCHANGED acq
  <2>1. "snapshot" \notin Trading
    BY DEF Trading
  <2> QED
    BY <1>1, <1>4, <2>1, QuietGoto
<1>5. CASE Released(w) /\ GotoWorker(w, "snapshot")
  <2>1. PICK x \in WorkerRow : /\ worker' = [worker EXCEPT ![w] = x]
                               /\ x.pc = "snapshot" /\ x.session = worker[w].session
    BY <1>2, <1>5, WorkerGoes
  <2> QED
    BY <1>1, <1>3, <1>5, <2>1, ReleasingMove
<1>6. CASE ~Retryable(worker[w].session) /\ UNCHANGED acq
           /\ worker' = [worker EXCEPT ![w].pc = "operation", ![w].op = 1]
  <2>1. PICK x \in WorkerRow : /\ worker' = [worker EXCEPT ![w] = x]
                               /\ x.pc = "operation" /\ x.session = worker[w].session /\ x.op = 1
    BY <1>2, <1>6, WorkerStarts
  <2>2. WorkerKnows(x, w)
    BY <1>3, <1>6, <2>1 DEF WorkerKnows, TradeOperations
  <2> QED
    BY <1>1, <1>6, <2>1, <2>2, QuietMove
<1> QED
  BY <1>4, <1>5, <1>6 DEF CheckLease

LEMMA ReadOperationKeeps ==
  ASSUME FlipInv, NEW w \in Workers, ReadOperation(w)
  PROVE  FlipInv'
<1> DEFINE s == worker[w].session
           o == acq[s].op[worker[w].op]
<1>1. worker[w].pc = "operation" /\ UNCHANGED <<flipVars, trade, retained>> /\ "operation" \in Trading
  BY DEF ReadOperation, Trading
<1>2. AcqTypes /\ WorkerKnows(worker[w], w)
  BY DEF FlipInv, AcquisitionInv
<1>3. s \in Sessions /\ worker[w].op \in TradeOperations
  BY <1>1, <1>2 DEF WorkerKnows
<1>4. o.known \in BOOLEAN
  <2>1. acq[s] \in PlanRow
    BY <1>2, <1>3 DEF AcqTypes
  <2>2. o \in OperationRow
    BY <1>3, <2>1 DEF PlanRow
  <2> QED
    BY <2>2 DEF OperationRow
<1>5. \/ o.status = "FINALIZED" /\ GotoWorker(w, "lifecycle") /\ UNCHANGED acq
      \/ trade[s][worker[w].op] = "applied" /\ GotoWorker(w, "finalize") /\ UNCHANGED acq
      \/ worker' = [worker EXCEPT ![w].pc = "ambiguous", ![w].known = o.known] /\ UNCHANGED acq
      \/ Released(w) /\ EndWorker(w)
      \/ GotoWorker(w, "execute") /\ UNCHANGED acq
  BY DEF ReadOperation
<1>6. CASE o.status = "FINALIZED" /\ GotoWorker(w, "lifecycle") /\ UNCHANGED acq
  BY <1>1, <1>6, QuietGoto
<1>7. CASE trade[s][worker[w].op] = "applied" /\ GotoWorker(w, "finalize") /\ UNCHANGED acq
  BY <1>1, <1>7, QuietGoto
<1>8. CASE worker' = [worker EXCEPT ![w].pc = "ambiguous", ![w].known = o.known] /\ UNCHANGED acq
  <2>1. PICK known \in BOOLEAN : known = o.known
    BY <1>4
  <2>2. PICK x \in WorkerRow : /\ worker' = [worker EXCEPT ![w] = x]
                               /\ x.pc = "ambiguous" /\ x.session = worker[w].session /\ x.op = worker[w].op
    BY <1>2, <1>8, <2>1, WorkerLearns
  <2>3. WorkerKnows(x, w)
    BY <1>1, <1>2, <2>2 DEF WorkerKnows, Trading
  <2> QED
    BY <1>1, <1>8, <2>2, <2>3, QuietMove
<1>9. CASE Released(w) /\ EndWorker(w)
  <2>1. PICK x \in WorkerRow : worker' = [worker EXCEPT ![w] = x] /\ x.pc = "idle"
    BY <1>9, WorkerEnds
  <2> QED
    BY <1>1, <1>3, <1>9, <2>1, ReleasingMove
<1>10. CASE GotoWorker(w, "execute") /\ UNCHANGED acq
  BY <1>1, <1>10, QuietGoto
<1> QED
  BY <1>5, <1>6, <1>7, <1>8, <1>9, <1>10

LEMMA ReleaseLeaseKeeps ==
  ASSUME FlipInv, NEW w \in Workers, ReleaseLease(w)
  PROVE  FlipInv'
<1>1. worker[w].session \in Sessions
  BY DEF FlipInv, AcquisitionInv, WorkerKnows, ReleaseLease
<1>2. PICK x \in WorkerRow : worker' = [worker EXCEPT ![w] = x] /\ x.pc = "idle"
  BY WorkerEnds DEF ReleaseLease
<1> QED
  BY <1>1, <1>2, ReleasingMove DEF ReleaseLease

\* Plan of session s is rewritten by a worker that moves to x.
PlanRewritten(s, plan) ==
  /\ acq' \in [Sessions -> PlanRow] /\ \A q \in Sessions : q # s => acq'[q] = acq[q]
  /\ acq'[s].status = plan.status /\ acq'[s].owner = plan.owner /\ acq'[s].op = plan.op
PlanSound(s, plan) ==
  /\ plan.status # "NONE" /\ (plan.status = "ACQUIRED" => flip[s].transfer # 0)
  /\ \A i \in TradeOperations :
       /\ acq[s].op[i].status = "FINALIZED" => plan.op[i].status = "FINALIZED"
       /\ plan.op[i].status = "FINALIZED" => trade[s][i] = "applied"
       /\ plan.op[i].mode = "RETRYABLE" => trade[s][i] = "rejected"
\* Another worker's lease is still its own, and no operation became retryable under it.
LeaseSound(s, plan, w) ==
  plan.owner \in Workers \ {w} =>
    /\ plan.owner = acq[s].owner
    /\ \A i \in TradeOperations : plan.op[i].mode = "RETRYABLE" => acq[s].op[i].mode = "RETRYABLE"

LEMMA PlanningMove ==
  ASSUME FlipInv, NEW w \in Workers, NEW x \in WorkerRow, worker' = [worker EXCEPT ![w] = x], WorkerKnows(x, w)',
         NEW s \in Sessions, NEW plan, PlanRewritten(s, plan), PlanSound(s, plan), LeaseSound(s, plan, w),
         retained' \subseteq Sessions, (s \in retained') <=> (plan.op[2].mode = "RETRYABLE"),
         \A q \in Sessions : q # s => (q \in retained' <=> q \in retained),
         UNCHANGED <<flipVars, trade>>
  PROVE  FlipInv'
<1>1. LedgerInv /\ AcquisitionInv /\ AcqTypes /\ trade' = trade
  BY DEF FlipInv, AcquisitionInv
<1>2. LedgerInv' /\ flip' = flip
  BY <1>1, LedgerUnchanged
<1>3. Forward
  BY <1>1, <1>2 DEF Forward, PlanRewritten, PlanSound
<1>4. ASSUME NEW v \in Workers \ {w} PROVE OwnerKept(v)
  <2>1. ASSUME NEW q \in Sessions, acq'[q].owner = v PROVE acq[q].owner = v /\ (Retryable(q)' => Retryable(q))
    <3>1. CASE q # s
      BY <2>1, <3>1 DEF PlanRewritten, Retryable
    <3>2. CASE q = s
      <4>1. plan.owner = v
        BY <2>1, <3>2 DEF PlanRewritten
      <4>2. /\ plan.owner = acq[s].owner
            /\ \A i \in TradeOperations : plan.op[i].mode = "RETRYABLE" => acq[s].op[i].mode = "RETRYABLE"
        BY <4>1 DEF LeaseSound
      <4> QED
        BY <3>2, <4>1, <4>2 DEF PlanRewritten, Retryable
    <3> QED
      BY <3>1, <3>2
  <2> QED
    BY <2>1 DEF OwnerKept
<1>5. AcqTypes'
  <2>1. worker' \in [Workers -> WorkerRow]
    BY <1>1 DEF AcqTypes
  <2> QED
    BY <1>1, <2>1 DEF AcqTypes, PlanRewritten
<1>6. ASSUME NEW q \in Sessions PROVE PlanFits(q)'
  <2>1. PlanFits(q)
    BY <1>1 DEF AcquisitionInv
  <2>2. CASE q # s
    <3>1. PlanKept(q)
      BY <1>1, <1>2, <2>2 DEF PlanKept, PlanRewritten
    <3> QED
      BY <2>1, <3>1, PlanStays
  <2>3. CASE q = s
    <3>1. PlanFits(s)
      BY <2>1, <2>3
    <3>2. PlanFits(s)'
      BY <1>1, <1>2, <3>1 DEF PlanFits, PlanRewritten, PlanSound, TradeOperations
    <3> QED
      BY <2>3, <3>2
  <2> QED
    BY <2>2, <2>3
<1>7. AcquisitionInv'
  BY <1>1, <1>3, <1>4, <1>5, <1>6, WorkerMoves
<1> QED
  BY <1>2, <1>7 DEF FlipInv

LEMMA ClaimLeaseKeeps ==
  ASSUME FlipInv, NEW w \in Workers, ClaimLease(w)
  PROVE  FlipInv'
<1>1. worker[w].pc = "claim" /\ UNCHANGED <<flipVars, trade, retained>>
  BY DEF ClaimLease
<1>2. AcqTypes /\ WorkerKnows(worker[w], w) /\ AcquisitionInv
  BY DEF FlipInv, AcquisitionInv
<1>3. PICK s \in Sessions : s = worker[w].session
  BY <1>1, <1>2 DEF WorkerKnows
<1>4. CASE GotoWorker(w, "snapshot") /\ UNCHANGED acq
  <2>1. "snapshot" \notin Trading
    BY DEF Trading
  <2> QED
    BY <1>1, <1>4, <2>1, QuietGoto
<1>5. CASE /\ acq[s].status \in {"PENDING", "RECOVERY_REQUIRED"} /\ GotoWorker(w, "leased")
           /\ SetPlan(s, [acq[s] EXCEPT !.owner = w, !.expired = FALSE])
  <2>1. PICK x \in WorkerRow : /\ worker' = [worker EXCEPT ![w] = x]
                               /\ x.pc = "leased" /\ x.session = worker[w].session
    BY <1>2, <1>5, WorkerGoes
  <2>2. PICK y \in PlanRow : y = acq[s]
    BY <1>2 DEF AcqTypes
  <2>3. PICK plan \in PlanRow : plan = [y EXCEPT !.owner = w, !.expired = FALSE]
    BY DEF PlanRow
  <2>4. plan.status = y.status /\ plan.owner = w /\ plan.op = y.op
    BY <2>3 DEF PlanRow
  <2>5. PlanRewritten(s, plan)
    <3>1. SetPlan(s, plan)
      BY <1>5, <2>2, <2>3
    <3> QED
      BY <1>2, <3>1, PlanWrites DEF PlanRewritten
  <2>6. PlanFits(s)
    BY <1>2 DEF AcquisitionInv
  <2>7. PlanSound(s, plan) /\ LeaseSound(s, plan, w)
    BY <1>5, <2>2, <2>4, <2>6 DEF PlanSound, PlanFits, LeaseSound
  <2>8. (s \in retained') <=> (plan.op[2].mode = "RETRYABLE")
    BY <1>1, <2>2, <2>4, <2>6 DEF PlanFits
  <2>9. WorkerKnows(x, w)'
    BY <1>3, <2>1 DEF WorkerKnows, Trading
  <2>10. retained' \subseteq Sessions /\ \A q \in Sessions : q # s => (q \in retained' <=> q \in retained)
    BY <1>1, <1>2 DEF AcqTypes
  <2> QED
    BY <1>1, <2>1, <2>5, <2>7, <2>8, <2>9, <2>10, PlanningMove
<1> QED
  BY <1>3, <1>4, <1>5 DEF ClaimLease

LEMMA FinalizeOperationKeeps ==
  ASSUME FlipInv, NEW w \in Workers, FinalizeOperation(w)
  PROVE  FlipInv'
<1>1. worker[w].pc = "finalize" /\ UNCHANGED <<flipVars, trade, retained>> /\ "finalize" \in Trading /\ "lifecycle" \in Trading
      /\ GotoWorker(w, "lifecycle")
  BY DEF FinalizeOperation, Trading
<1>2. AcqTypes /\ WorkerKnows(worker[w], w) /\ AcquisitionInv
  BY DEF FlipInv, AcquisitionInv
<1>3. PICK s \in Sessions, i \in TradeOperations : s = worker[w].session /\ i = worker[w].op
  BY <1>1, <1>2 DEF WorkerKnows
<1>4. CASE acq[s].op[i].status = "FINALIZED" /\ UNCHANGED acq
  BY <1>1, <1>3, <1>4, QuietGoto
<1>5. CASE SetPlan(s, [acq[s] EXCEPT !.op[i] = [status |-> "FINALIZED", mode |-> "NONE", known |-> TRUE],
                                     !.status = "PENDING", !.branch = FALSE, !.count = @ + 1])
  <2>1. PICK x \in WorkerRow : /\ worker' = [worker EXCEPT ![w] = x]
                               /\ x.pc = "lifecycle" /\ x.session = worker[w].session /\ x.op = worker[w].op
    BY <1>1, <1>2, WorkerGoes
  <2>2. PICK y \in PlanRow : y = acq[s]
    BY <1>2 DEF AcqTypes
  <2>3. PICK o \in OperationRow : o = [status |-> "FINALIZED", mode |-> "NONE", known |-> TRUE]
    BY DEF OperationRow
  <2>4. PICK op \in [TradeOperations -> OperationRow] : op = [y.op EXCEPT ![i] = o]
    <3>1. y.op \in [TradeOperations -> OperationRow]
      BY DEF PlanRow
    <3> QED
      BY <3>1
  <2>5. PICK count \in Nat : count = y.count + 1
    <3>1. y.count \in Nat
      BY DEF PlanRow
    <3> QED
      BY <3>1
  <2>6. PICK plan \in PlanRow : plan = [y EXCEPT !.op = op, !.status = "PENDING", !.branch = FALSE, !.count = count]
    BY DEF PlanRow
  <2>7. plan.status = "PENDING" /\ plan.owner = y.owner /\ plan.op = op
    BY <2>6 DEF PlanRow
  <2>8. PlanRewritten(s, plan)
    <3>1. SetPlan(s, plan)
      BY <1>5, <2>2, <2>3, <2>4, <2>5, <2>6
    <3> QED
      BY <1>2, <3>1, PlanWrites DEF PlanRewritten
  <2>9. PlanFits(s) /\ trade[s][i] = "applied"
    BY <1>1, <1>2, <1>3 DEF AcquisitionInv, WorkerKnows
  <2>10. /\ op[i].status = "FINALIZED" /\ op[i].mode = "NONE"
         /\ \A k \in TradeOperations : k # i => op[k] = y.op[k]
    <3>1. y.op \in [TradeOperations -> OperationRow]
      BY DEF PlanRow
    <3> QED
      BY <2>3, <2>4, <3>1
  <2>11. PlanSound(s, plan)
    BY <2>2, <2>7, <2>9, <2>10 DEF PlanSound, PlanFits
  <2>12. LeaseSound(s, plan, w)
    BY <2>2, <2>7, <2>10 DEF LeaseSound
  <2>13. (s \in retained') <=> (plan.op[2].mode = "RETRYABLE")
    <3>1. CASE i = 2
      BY <1>1, <2>2, <2>7, <2>9, <2>10, <3>1 DEF PlanFits, TradeOperations
    <3>2. CASE i # 2
      BY <1>1, <2>2, <2>7, <2>9, <2>10, <3>2 DEF PlanFits, TradeOperations
    <3> QED
      BY <3>1, <3>2
  <2>14. Retryable(s)' => Retryable(s)
    BY <2>2, <2>7, <2>8, <2>10 DEF Retryable, PlanRewritten
  <2>15. WorkerKnows(x, w)'
    <3>1. x.session = s /\ x.op = i /\ x.pc = "lifecycle" /\ acq'[s].op[i].status = "FINALIZED" /\ flip' = flip
      BY <1>1, <1>3, <2>1, <2>7, <2>8, <2>10 DEF PlanRewritten, flipVars
    <3>2. i = 2 => flip[s].purchase # 0
      BY <1>1, <1>2, <1>3 DEF WorkerKnows
    <3>3. acq'[s].owner = w => ~Retryable(s)'
      BY <1>1, <1>2, <1>3, <2>2, <2>7, <2>8, <2>14 DEF WorkerKnows, PlanRewritten
    <3> QED
      BY <3>1, <3>2, <3>3 DEF WorkerKnows, Trading
  <2>16. retained' \subseteq Sessions /\ \A q \in Sessions : q # s => (q \in retained' <=> q \in retained)
    BY <1>1, <1>2 DEF AcqTypes
  <2> QED
    BY <1>1, <2>1, <2>8, <2>11, <2>12, <2>13, <2>15, <2>16, PlanningMove
<1> QED
  BY <1>3, <1>4, <1>5 DEF FinalizeOperation, FirstReport

LEMMA CreatePlanKeeps ==
  ASSUME FlipInv, NEW w \in Workers, CreatePlan(w)
  PROVE  FlipInv'
<1>1. worker[w].pc = "create" /\ UNCHANGED <<flipVars, trade, retained>>
  BY DEF CreatePlan
<1>2. AcqTypes /\ WorkerKnows(worker[w], w) /\ AcquisitionInv
  BY DEF FlipInv, AcquisitionInv
<1>3. PICK s \in Sessions : s = worker[w].session
  BY <1>1, <1>2 DEF WorkerKnows
<1>4. PICK y \in PlanRow : y = acq[s]
  BY <1>2 DEF AcqTypes
<1>5. CASE EndWorker(w) /\ UNCHANGED acq
  BY <1>1, <1>5, QuietEnd
<1>6. CASE worker' = [worker EXCEPT ![w].pc = "claim", ![w].version = acq[s].version] /\ UNCHANGED acq
  <2>1. PICK version \in Nat : version = acq[s].version
    BY <1>4 DEF PlanRow
  <2>2. PICK x \in WorkerRow : /\ worker' = [worker EXCEPT ![w] = x]
                               /\ x.pc = "claim" /\ x.session = worker[w].session
    BY <1>2, <1>6, <2>1, WorkerPlans
  <2>3. WorkerKnows(x, w)
    BY <1>3, <2>2 DEF WorkerKnows, Trading
  <2> QED
    BY <1>1, <1>6, <2>2, <2>3, QuietMove
<1>7. CASE /\ acq[s].status = "NONE" /\ worker' = [worker EXCEPT ![w].pc = "claim", ![w].version = 1]
           /\ acq' = [acq EXCEPT ![s] = [NoPlan EXCEPT !.status = "PENDING", !.version = 1,
                !.sessionVersion = worker[w].version,
                !.op = [i \in TradeOperations |-> [status |-> "PREPARED", mode |-> "NONE", known |-> FALSE]]]]
  <2>1. PICK x \in WorkerRow : /\ worker' = [worker EXCEPT ![w] = x]
                               /\ x.pc = "claim" /\ x.session = worker[w].session
    <3>1. PICK version \in Nat : version = 1
      OBVIOUS
    <3>2. worker' = [worker EXCEPT ![w].pc = "claim", ![w].version = version]
      BY <1>7, <3>1
    <3> QED
      BY <1>2, <3>2, WorkerPlans
  <2>2. PlanFits(s) /\ y = NoPlan
    BY <1>2, <1>4, <1>7 DEF AcquisitionInv, PlanFits
  <2>3. PICK op \in [TradeOperations -> OperationRow] :
          op = [i \in TradeOperations |-> [status |-> "PREPARED", mode |-> "NONE", known |-> FALSE]]
    <3>1. [status |-> "PREPARED", mode |-> "NONE", known |-> FALSE] \in OperationRow
      BY DEF OperationRow
    <3> QED
      BY <3>1
  <2>4. PICK version \in Nat : version = worker[w].version
    <3>1. worker[w] \in WorkerRow
      BY <1>2 DEF AcqTypes
    <3> QED
      BY <3>1 DEF WorkerRow
  <2>5. PICK plan \in PlanRow : plan = [y EXCEPT !.status = "PENDING", !.version = 1, !.sessionVersion = version,
                                                !.op = op]
    BY DEF PlanRow
  <2>6. plan.status = "PENDING" /\ plan.owner = y.owner /\ plan.op = op
    BY <2>5 DEF PlanRow
  <2>7. acq' = [acq EXCEPT ![s] = plan]
    BY <1>7, <2>2, <2>3, <2>4, <2>5
  <2>8. PlanRewritten(s, plan)
    BY <1>2, <2>7 DEF PlanRewritten, AcqTypes
  <2>9. \A i \in TradeOperations : op[i].status = "PREPARED" /\ op[i].mode = "NONE"
    BY <2>3
  <2>10. \A i \in TradeOperations : y.op[i].status = "NONE" /\ y.op[i].mode = "NONE"
    BY <2>2 DEF NoPlan
  <2>11. PlanSound(s, plan)
    BY <1>4, <2>6, <2>9, <2>10 DEF PlanSound
  <2>12. LeaseSound(s, plan, w)
    BY <1>4, <2>6, <2>9 DEF LeaseSound
  <2>13. (s \in retained') <=> (plan.op[2].mode = "RETRYABLE")
    BY <1>1, <1>4, <2>2, <2>6, <2>9, <2>10 DEF PlanFits, TradeOperations
  <2>14. WorkerKnows(x, w)'
    BY <1>3, <2>1 DEF WorkerKnows, Trading
  <2>15. retained' \subseteq Sessions /\ \A q \in Sessions : q # s => (q \in retained' <=> q \in retained)
    BY <1>1, <1>2 DEF AcqTypes
  <2> QED
    BY <1>1, <2>1, <2>8, <2>11, <2>12, <2>13, <2>14, <2>15, PlanningMove
<1> QED
  BY <1>3, <1>5, <1>6, <1>7 DEF CreatePlan

LEMMA RecordReviewedKeeps ==
  ASSUME FlipInv, NEW w \in Workers, RecordReviewedRecovery(w)
  PROVE  FlipInv'
<1>1. worker[w].pc = "reviewed-tx" /\ UNCHANGED <<flipVars, trade>> /\ "reviewed-tx" \in Trading
      /\ "release" \notin Trading /\ "reviewed" \notin Trading
  BY DEF RecordReviewedRecovery, Trading
<1>2. AcqTypes /\ WorkerKnows(worker[w], w) /\ AcquisitionInv
  BY DEF FlipInv, AcquisitionInv
<1>3. PICK s \in Sessions, i \in TradeOperations : s = worker[w].session /\ i = worker[w].op
  BY <1>1, <1>2 DEF WorkerKnows
<1>4. CASE GotoWorker(w, "release") /\ UNCHANGED <<acq, retained>>
  BY <1>1, <1>4, QuietGoto
<1>5. CASE /\ acq[s].op[i].status # "FINALIZED" /\ GotoWorker(w, "reviewed")
           /\ SetPlan(s, [acq[s] EXCEPT
                 !.op[i] = [@ EXCEPT !.status = "RECOVERY_REQUIRED", !.mode = "RETRYABLE"],
                 !.owner = Nobody, !.expired = FALSE, !.branch = TRUE, !.status = "RECOVERY_REQUIRED"])
           /\ retained' = IF i = 2 /\ acq[s].op[1].status = "FINALIZED" THEN retained \cup {s} ELSE retained
  <2>1. PICK x \in WorkerRow : /\ worker' = [worker EXCEPT ![w] = x]
                               /\ x.pc = "reviewed" /\ x.session = worker[w].session /\ x.op = worker[w].op
    BY <1>2, <1>5, WorkerGoes
  <2>2. PICK y \in PlanRow : y = acq[s]
    BY <1>2 DEF AcqTypes
  <2>3. y.op \in [TradeOperations -> OperationRow]
    BY DEF PlanRow
  <2>4. PICK p \in OperationRow : p = y.op[i]
    BY <2>3
  <2>5. PICK o \in OperationRow : o = [p EXCEPT !.status = "RECOVERY_REQUIRED", !.mode = "RETRYABLE"]
    BY DEF OperationRow
  <2>6. PICK op \in [TradeOperations -> OperationRow] : op = [y.op EXCEPT ![i] = o]
    BY <2>3
  <2>7. PICK plan \in PlanRow : plan = [y EXCEPT !.op = op, !.owner = Nobody, !.expired = FALSE, !.branch = TRUE,
                                                !.status = "RECOVERY_REQUIRED"]
    BY DEF PlanRow
  <2>8. plan.status = "RECOVERY_REQUIRED" /\ plan.owner = Nobody /\ plan.op = op
    BY <2>7 DEF PlanRow
  <2>9. PlanRewritten(s, plan)
    <3>1. SetPlan(s, plan)
      BY <1>5, <2>2, <2>4, <2>5, <2>6, <2>7
    <3> QED
      BY <1>2, <3>1, PlanWrites DEF PlanRewritten
  <2>10. /\ op[i].status = "RECOVERY_REQUIRED" /\ op[i].mode = "RETRYABLE"
         /\ \A k \in TradeOperations : k # i => op[k] = y.op[k]
    <3>1. o.status = "RECOVERY_REQUIRED" /\ o.mode = "RETRYABLE"
      BY <2>5 DEF OperationRow
    <3> QED
      BY <2>3, <2>6, <3>1
  <2>11. PlanFits(s) /\ trade[s][i] = "rejected" /\ (i = 2 => flip[s].purchase # 0)
    BY <1>1, <1>2, <1>3 DEF AcquisitionInv, WorkerKnows
  <2>12. PlanSound(s, plan)
    BY <1>5, <2>2, <2>8, <2>10, <2>11 DEF PlanSound, PlanFits
  <2>13. LeaseSound(s, plan, w)
    BY <2>8, FlipAcquisitionConstants DEF LeaseSound
  <2>14. (s \in retained') <=> (plan.op[2].mode = "RETRYABLE")
    <3>1. CASE i = 2
      BY <1>5, <2>8, <2>10, <2>11, <3>1 DEF PlanFits
    <3>2. CASE i # 2
      BY <1>5, <2>2, <2>8, <2>10, <2>11, <3>2 DEF PlanFits, TradeOperations
    <3> QED
      BY <3>1, <3>2
  <2>15. WorkerKnows(x, w)'
    BY <1>3, <2>1 DEF WorkerKnows, Trading
  <2>16. retained' \subseteq Sessions /\ \A q \in Sessions : q # s => (q \in retained' <=> q \in retained)
    BY <1>2, <1>5 DEF AcqTypes
  <2> QED
    BY <1>1, <2>1, <2>9, <2>12, <2>13, <2>14, <2>15, <2>16, PlanningMove
<1> QED
  BY <1>3, <1>4, <1>5 DEF RecordReviewedRecovery

LEMMA RecordAmbiguousKeeps ==
  ASSUME FlipInv, NEW w \in Workers, RecordAmbiguous(w)
  PROVE  FlipInv'
<1>1. worker[w].pc = "ambiguous" /\ UNCHANGED <<flipVars, trade, retained>> /\ "ambiguous" \in Trading
      /\ "release" \notin Trading
  BY DEF RecordAmbiguous, Trading
<1>2. AcqTypes /\ WorkerKnows(worker[w], w) /\ AcquisitionInv
  BY DEF FlipInv, AcquisitionInv
<1>3. PICK s \in Sessions, i \in TradeOperations : s = worker[w].session /\ i = worker[w].op
  BY <1>1, <1>2 DEF WorkerKnows
<1>4. CASE GotoWorker(w, "release") /\ UNCHANGED acq
  BY <1>1, <1>4, QuietGoto
<1>5. CASE /\ acq[s].op[i].status # "FINALIZED" /\ EndWorker(w) /\ acq[s].owner = w
           /\ SetPlan(s, [acq[s] EXCEPT
                 !.op[i] = [status |-> "RECOVERY_REQUIRED", mode |-> "RECONCILE_ONLY", known |-> worker[w].known],
                 !.owner = Nobody, !.expired = FALSE, !.branch = FALSE, !.status = "RECOVERY_REQUIRED"])
  <2>1. PICK x \in WorkerRow : worker' = [worker EXCEPT ![w] = x] /\ x.pc = "idle"
    BY <1>5, WorkerEnds
  <2>2. PICK y \in PlanRow : y = acq[s]
    BY <1>2 DEF AcqTypes
  <2>3. y.op \in [TradeOperations -> OperationRow]
    BY DEF PlanRow
  <2>4. PICK o \in OperationRow :
          o = [status |-> "RECOVERY_REQUIRED", mode |-> "RECONCILE_ONLY", known |-> worker[w].known]
    <3>1. worker[w] \in WorkerRow
      BY <1>2 DEF AcqTypes
    <3>2. worker[w].known \in BOOLEAN
      BY <3>1 DEF WorkerRow
    <3> QED
      BY <3>2 DEF OperationRow
  <2>5. PICK op \in [TradeOperations -> OperationRow] : op = [y.op EXCEPT ![i] = o]
    BY <2>3
  <2>6. PICK plan \in PlanRow : plan = [y EXCEPT !.op = op, !.owner = Nobody, !.expired = FALSE, !.branch = FALSE,
                                                !.status = "RECOVERY_REQUIRED"]
    BY DEF PlanRow
  <2>7. plan.status = "RECOVERY_REQUIRED" /\ plan.owner = Nobody /\ plan.op = op
    BY <2>6 DEF PlanRow
  <2>8. PlanRewritten(s, plan)
    <3>1. SetPlan(s, plan)
      BY <1>5, <2>2, <2>4, <2>5, <2>6
    <3> QED
      BY <1>2, <3>1, PlanWrites DEF PlanRewritten
  <2>9. /\ op[i].status = "RECOVERY_REQUIRED" /\ op[i].mode = "RECONCILE_ONLY"
        /\ \A k \in TradeOperations : k # i => op[k] = y.op[k]
    BY <2>3, <2>4, <2>5
  <2>10. PlanFits(s) /\ ~Retryable(s)
    BY <1>1, <1>2, <1>3, <1>5 DEF AcquisitionInv, WorkerKnows
  <2>11. PlanSound(s, plan)
    BY <1>5, <2>2, <2>7, <2>9, <2>10 DEF PlanSound, PlanFits
  <2>12. LeaseSound(s, plan, w)
    BY <2>7, FlipAcquisitionConstants DEF LeaseSound
  <2>13. (s \in retained') <=> (plan.op[2].mode = "RETRYABLE")
    BY <1>1, <2>2, <2>7, <2>9, <2>10 DEF PlanFits, TradeOperations, Retryable
  <2>14. WorkerKnows(x, w)'
    BY <2>1 DEF WorkerKnows, Trading
  <2>15. retained' \subseteq Sessions /\ \A q \in Sessions : q # s => (q \in retained' <=> q \in retained)
    BY <1>1, <1>2 DEF AcqTypes
  <2> QED
    BY <1>1, <2>1, <2>8, <2>11, <2>12, <2>13, <2>14, <2>15, PlanningMove
<1> QED
  BY <1>3, <1>4, <1>5 DEF RecordAmbiguous, Held

LEMMA FinalizeAcquisitionKeeps ==
  ASSUME FlipInv, NEW w \in Workers, FinalizeAcquisition(w)
  PROVE  FlipInv'
<1>1. worker[w].pc = "acquire" /\ UNCHANGED <<flipVars, trade, retained>> /\ "release" \notin Trading
  BY DEF FinalizeAcquisition, Trading
<1>2. AcqTypes /\ WorkerKnows(worker[w], w) /\ AcquisitionInv
  BY DEF FlipInv, AcquisitionInv
<1>3. PICK s \in Sessions : s = worker[w].session
  BY <1>1, <1>2 DEF WorkerKnows
<1>4. CASE GotoWorker(w, "release") /\ UNCHANGED acq
  BY <1>1, <1>4, QuietGoto
<1>5. CASE EndWorker(w) /\ UNCHANGED acq
  BY <1>1, <1>5, QuietEnd
<1>6. CASE /\ EndWorker(w)
           /\ SetPlan(s, [acq[s] EXCEPT !.status = "ACQUIRED", !.owner = Nobody, !.branch = FALSE, !.expired = FALSE])
  <2>1. PICK x \in WorkerRow : worker' = [worker EXCEPT ![w] = x] /\ x.pc = "idle"
    BY <1>6, WorkerEnds
  <2>2. PICK y \in PlanRow : y = acq[s]
    BY <1>2 DEF AcqTypes
  <2>3. PICK plan \in PlanRow : plan = [y EXCEPT !.status = "ACQUIRED", !.owner = Nobody, !.branch = FALSE,
                                                !.expired = FALSE]
    BY DEF PlanRow
  <2>4. plan.status = "ACQUIRED" /\ plan.owner = Nobody /\ plan.op = y.op
    BY <2>3 DEF PlanRow
  <2>5. PlanRewritten(s, plan)
    <3>1. SetPlan(s, plan)
      BY <1>6, <2>2, <2>3
    <3> QED
      BY <1>2, <3>1, PlanWrites DEF PlanRewritten
  <2>6. PlanFits(s) /\ flip[s].transfer # 0
    BY <1>1, <1>2, <1>3 DEF AcquisitionInv, WorkerKnows
  <2>7. PlanSound(s, plan)
    BY <2>2, <2>4, <2>6 DEF PlanSound, PlanFits
  <2>8. LeaseSound(s, plan, w)
    BY <2>4, FlipAcquisitionConstants DEF LeaseSound
  <2>9. (s \in retained') <=> (plan.op[2].mode = "RETRYABLE")
    BY <1>1, <2>2, <2>4, <2>6 DEF PlanFits
  <2>10. WorkerKnows(x, w)'
    BY <2>1 DEF WorkerKnows, Trading
  <2>11. retained' \subseteq Sessions /\ \A q \in Sessions : q # s => (q \in retained' <=> q \in retained)
    BY <1>1, <1>2 DEF AcqTypes
  <2> QED
    BY <1>1, <2>1, <2>5, <2>7, <2>8, <2>9, <2>10, <2>11, PlanningMove
<1> QED
  BY <1>3, <1>4, <1>5, <1>6 DEF FinalizeAcquisition

LEMMA WorkersStay ==
  ASSUME AcquisitionInv, Forward, AcqTypes', worker' = worker, \A v \in Workers : OwnerKept(v),
         \A s \in Sessions : PlanFits(s)'
  PROVE  AcquisitionInv'
<1>1. ASSUME NEW v \in Workers PROVE WorkerKnows(worker[v], v)'
  <2>1. PICK y \in WorkerRow : y = worker[v]
    BY DEF AcquisitionInv, AcqTypes
  <2>2. WorkerKnows(y, v) /\ OwnerKept(v)
    BY <2>1 DEF AcquisitionInv
  <2>3. WorkerKnows(y, v)'
    BY <2>2, KnowledgeKept
  <2> QED
    BY <2>1, <2>3
<1> QED
  BY <1>1 DEF AcquisitionInv

\* The marketplace decides about operation i of session s, once.
LEMMA MarketMoves ==
  ASSUME FlipInv, NEW s \in Sessions, NEW i \in TradeOperations, NEW done \in {"sent", "applied", "rejected"},
         trade' = [trade EXCEPT ![s][i] = done], UNCHANGED <<flipVars, acq, retained>>,
         trade[s][i] \in {"none", "sent", done}, i = 2 => flip[s].purchase # 0
  PROVE  /\ LedgerInv' /\ Forward /\ \A v \in Workers : OwnerKept(v)
         /\ \A q \in Sessions : PlanFits(q)'
         /\ trade' \in [Sessions -> [TradeOperations -> {"none", "sent", "applied", "rejected"}]]
         /\ flip' = flip /\ trade'[s][i] = done
<1>1. LedgerInv /\ AcquisitionInv /\ AcqTypes /\ acq' = acq /\ retained' = retained
  BY DEF FlipInv, AcquisitionInv
<1>2. LedgerInv' /\ flip' = flip
  BY <1>1, LedgerUnchanged
<1>3. PICK row \in [TradeOperations -> {"none", "sent", "applied", "rejected"}] : row = trade[s]
  BY <1>1 DEF AcqTypes
<1>4. PICK new \in [TradeOperations -> {"none", "sent", "applied", "rejected"}] : new = [row EXCEPT ![i] = done]
  OBVIOUS
<1>5. trade' = [trade EXCEPT ![s] = new]
  BY <1>3, <1>4
<1>6. /\ trade' \in [Sessions -> [TradeOperations -> {"none", "sent", "applied", "rejected"}]]
      /\ trade'[s] = new /\ \A q \in Sessions : q # s => trade'[q] = trade[q]
  BY <1>1, <1>5 DEF AcqTypes
<1>7. new[i] = done /\ \A k \in TradeOperations : k # i => new[k] = trade[s][k]
  BY <1>3, <1>4
<1>8. \A q \in Sessions, k \in TradeOperations :
        /\ trade[q][k] = "applied" => trade'[q][k] = "applied"
        /\ trade[q][k] = "rejected" => trade'[q][k] = "rejected"
  <2>1. ASSUME NEW q \in Sessions, NEW k \in TradeOperations
        PROVE  /\ trade[q][k] = "applied" => trade'[q][k] = "applied"
               /\ trade[q][k] = "rejected" => trade'[q][k] = "rejected"
    BY <1>6, <1>7
  <2> QED
    BY <2>1
<1>9. Forward /\ \A v \in Workers : OwnerKept(v)
  BY <1>1, <1>2, <1>8 DEF Forward, OwnerKept, Retryable
<1>10. ASSUME NEW q \in Sessions PROVE PlanFits(q)'
  <2>1. PlanFits(q)
    BY <1>1 DEF AcquisitionInv
  <2>2. trade'[q][2] # "none" => flip[q].purchase # 0
    BY <1>6, <1>7, <2>1 DEF PlanFits, TradeOperations
  <2> QED
    BY <1>1, <1>2, <1>8, <2>1, <2>2 DEF PlanFits
<1> QED
  BY <1>2, <1>6, <1>7, <1>9, <1>10

LEMMA ExecuteKeeps ==
  ASSUME FlipInv, NEW w \in Workers, Execute(w)
  PROVE  FlipInv'
<1>1. worker[w].pc = "execute" /\ UNCHANGED <<flipVars, acq, retained>> /\ "execute" \in Trading
  BY DEF Execute, Trading
<1>2. AcqTypes /\ WorkerKnows(worker[w], w) /\ AcquisitionInv
  BY DEF FlipInv, AcquisitionInv
<1>3. PICK s \in Sessions, i \in TradeOperations : s = worker[w].session /\ i = worker[w].op
  BY <1>1, <1>2 DEF WorkerKnows
<1>4. PICK done \in {"sent", "applied", "rejected"}, pc \in {"ambiguous", "finalize", "reviewed-tx"}, known \in BOOLEAN :
        /\ trade[s][i] \in {"none", "sent", done} /\ trade' = [trade EXCEPT ![s][i] = done]
        /\ worker' = [worker EXCEPT ![w].pc = pc, ![w].known = known]
        /\ pc = "finalize" => done = "applied"
        /\ pc = "reviewed-tx" => done = "rejected"
  <2>1. AfterError("not-applied") = "reviewed-tx" /\ AfterError("lost") = "ambiguous"
    BY DEF AfterError
  <2>2. \/ trade[s][i] \in {"none", "sent", "applied"} /\ trade' = [trade EXCEPT ![s][i] = "applied"]
             /\ worker' = [worker EXCEPT ![w].pc = "finalize", ![w].known = TRUE]
        \/ trade[s][i] \in {"none", "sent", "rejected"} /\ trade' = [trade EXCEPT ![s][i] = "rejected"]
             /\ worker' = [worker EXCEPT ![w].pc = "reviewed-tx", ![w].known = FALSE]
        \/ \E known \in BOOLEAN, done \in {"sent", "applied"} :
             /\ trade[s][i] \in {"none", "sent", done} /\ trade' = [trade EXCEPT ![s][i] = done]
             /\ worker' = [worker EXCEPT ![w].pc = "ambiguous", ![w].known = known]
    BY <1>3, <2>1 DEF Execute
  <2> QED
    BY <2>2
<1>5. PICK x \in WorkerRow : /\ worker' = [worker EXCEPT ![w] = x]
                             /\ x.pc = pc /\ x.session = worker[w].session /\ x.op = worker[w].op
  <2>1. PICK y \in WorkerRow : y = worker[w]
    BY <1>2 DEF AcqTypes
  <2>2. PICK x \in WorkerRow : x = [y EXCEPT !.pc = pc, !.known = known]
    BY DEF WorkerRow
  <2>3. x.pc = pc /\ x.session = y.session /\ x.op = y.op
    BY <2>2 DEF WorkerRow
  <2>4. worker' = [worker EXCEPT ![w] = x]
    BY <1>4, <2>1, <2>2
  <2> QED
    BY <2>1, <2>3, <2>4
<1>6. i = 2 => flip[s].purchase # 0
  BY <1>1, <1>2, <1>3 DEF WorkerKnows
<1>7. /\ LedgerInv' /\ Forward /\ \A v \in Workers : OwnerKept(v)
      /\ \A q \in Sessions : PlanFits(q)'
      /\ trade' \in [Sessions -> [TradeOperations -> {"none", "sent", "applied", "rejected"}]]
      /\ flip' = flip /\ trade'[s][i] = done
  BY <1>1, <1>4, <1>6, MarketMoves
<1>8. AcqTypes'
  BY <1>1, <1>2, <1>5, <1>7 DEF AcqTypes
<1>9. WorkerKnows(x, w)'
  <2>1. acq' = acq /\ (acq[s].owner = w => ~Retryable(s))
    BY <1>1, <1>2, <1>3 DEF WorkerKnows
  <2>2. acq'[s].owner = w => ~Retryable(s)'
    BY <2>1 DEF Retryable
  <2>3. x.session = s /\ x.op = i /\ x.pc \in {"ambiguous", "finalize", "reviewed-tx"}
    BY <1>3, <1>5
  <2> QED
    BY <1>4, <1>5, <1>6, <1>7, <2>2, <2>3 DEF WorkerKnows
<1>10. AcquisitionInv'
  BY <1>2, <1>5, <1>7, <1>8, <1>9, WorkerMoves
<1> QED
  BY <1>7, <1>10 DEF FlipInv

LEMMA MarketDecidesKeeps ==
  ASSUME FlipInv, NEW s \in Sessions, MarketDecides(s)
  PROVE  FlipInv'
<1>1. PICK i \in TradeOperations, done \in {"applied", "rejected"} :
        trade[s][i] = "sent" /\ trade' = [trade EXCEPT ![s][i] = done]
  BY DEF MarketDecides
<1>2. UNCHANGED <<flipVars, acq, worker, retained>> /\ AcquisitionInv /\ AcqTypes
  BY DEF MarketDecides, FlipInv, AcquisitionInv
<1>3. i = 2 => flip[s].purchase # 0
  BY <1>1, <1>2 DEF AcquisitionInv, PlanFits
<1>4. /\ LedgerInv' /\ Forward /\ \A v \in Workers : OwnerKept(v)
      /\ \A q \in Sessions : PlanFits(q)'
      /\ trade' \in [Sessions -> [TradeOperations -> {"none", "sent", "applied", "rejected"}]]
  BY <1>1, <1>2, <1>3, MarketMoves
<1>5. AcqTypes'
  BY <1>2, <1>4 DEF AcqTypes
<1>6. AcquisitionInv'
  BY <1>2, <1>4, <1>5, WorkersStay
<1> QED
  BY <1>4, <1>6 DEF FlipInv

LEMMA LeaseExpiresKeeps ==
  ASSUME FlipInv, NEW s \in Sessions, LeaseExpires(s)
  PROVE  FlipInv'
<1>1. LedgerInv /\ AcquisitionInv /\ AcqTypes /\ UNCHANGED <<flipVars, worker, trade, retained>>
  BY DEF LeaseExpires, FlipInv, AcquisitionInv
<1>2. LedgerInv' /\ flip' = flip
  BY <1>1, LedgerUnchanged
<1>3. PICK y \in PlanRow : y = acq[s]
  BY <1>1 DEF AcqTypes
<1>4. PICK plan \in PlanRow : plan = [y EXCEPT !.expired = TRUE]
  BY DEF PlanRow
<1>5. plan.status = y.status /\ plan.owner = y.owner /\ plan.op = y.op
  BY <1>4 DEF PlanRow
<1>6. acq' = [acq EXCEPT ![s] = plan]
  BY <1>3, <1>4 DEF LeaseExpires
<1>7. /\ acq' \in [Sessions -> PlanRow] /\ acq'[s] = plan
      /\ \A q \in Sessions : q # s => acq'[q] = acq[q]
  BY <1>1, <1>6 DEF AcqTypes
<1>8. \A q \in Sessions : acq'[q].status = acq[q].status /\ acq'[q].owner = acq[q].owner /\ acq'[q].op = acq[q].op
  BY <1>3, <1>5, <1>7
<1>9. Forward /\ \A v \in Workers : OwnerKept(v)
  BY <1>1, <1>2, <1>8 DEF Forward, OwnerKept, Retryable
<1>10. acq[s].status # "NONE"
  <2>1. acq[s].owner # Nobody /\ PlanFits(s)
    BY <1>1 DEF LeaseExpires, AcquisitionInv
  <2>2. NoPlan.owner = Nobody
    BY DEF NoPlan
  <2> QED
    BY <2>1, <2>2 DEF PlanFits
<1>11. ASSUME NEW q \in Sessions PROVE PlanFits(q)'
  <2>1. PlanFits(q) /\ trade' = trade /\ retained' = retained
    BY <1>1 DEF AcquisitionInv
  <2>2. acq[q].status = "NONE" => acq'[q] = acq[q]
    BY <1>7, <1>10
  <2> QED
    BY <1>2, <1>8, <2>1, <2>2 DEF PlanFits
<1>12. AcqTypes'
  BY <1>1, <1>7 DEF AcqTypes
<1>13. AcquisitionInv'
  BY <1>1, <1>9, <1>11, <1>12, WorkersStay
<1> QED
  BY <1>2, <1>13 DEF FlipInv

\* A milestone of the acquisition that is logged is on the row.
LEMMA LoggedMilestone ==
  ASSUME RowsFit, NEW s \in Sessions, NEW i \in {5, 6}, Logged(s, FlipKeys[i])
  PROVE  /\ i = 5 => flip[s].purchase # 0
         /\ i = 6 => flip[s].transfer # 0
<1>1. flipLog[s] \in Seq(LogRow) /\ SessionShaped(s)
  BY DEF RowsFit
<1>2. PICK row : row = flip[s]
  OBVIOUS
<1>3. PICK log \in Seq(LogRow) : log = flipLog[s]
  BY <1>1
<1>4. PICK j \in 1..Len(log) : log[j].key = FlipKeys[i]
  <2>1. PICK j \in DOMAIN log : log[j].key = FlipKeys[i]
    BY <1>3 DEF Logged
  <2> QED
    BY <2>1
<1>5. PICK n \in 1..8 : Shape(row, log, n)
  <2>1. log # <<>>
    BY <1>4
  <2> QED
    BY <1>1, <1>2, <1>3, <2>1 DEF SessionShaped
<1>6. FlipKeys[i] \notin RecoveryKeys /\ \A k \in 1..8 : FlipKeys[k] = FlipKeys[i] => k = i
  BY Tables, OneToEight DEF RecoveryKeys
<1>7. j <= n
  <2>1. CASE Len(log) = n
    BY <1>4, <2>1
  <2>2. CASE Len(log) = n + 1 /\ log[n + 1].key \in RecoveryKeys
    BY <1>4, <1>6, <2>2
  <2>3. CASE Len(log) = n + 2 /\ log[n + 1].key \in RecoveryKeys /\ log[n + 2].key \in RecoveryKeys
    <3>1. j <= n \/ j = n + 1 \/ j = n + 2
      BY <1>4, <2>3
    <3> QED
      BY <1>4, <1>6, <2>3, <3>1
  <2> QED
    BY <1>5, <2>1, <2>2, <2>3 DEF Shape, RecoveryFits
<1>8. log[j].key = FlipKeys[j] /\ j \in 1..8
  <2>1. j \in 1..n
    BY <1>4, <1>7
  <2>2. EntryFits(log[j], j, row)
    BY <1>5, <2>1 DEF Shape
  <2> QED
    BY <2>1, <2>2 DEF EntryFits
<1>9. i <= n
  BY <1>4, <1>6, <1>7, <1>8
<1> QED
  BY <1>2, <1>5, <1>9 DEF Shape, Milestones

\* The rows of the sessions go on, and what they newly record is finalized in their plans.
LEMMA LedgerGoes ==
  ASSUME AcquisitionInv, acq' = acq, trade' = trade, retained' = retained,
         \A q \in Sessions : /\ flip[q].purchase # 0 => flip'[q].purchase # 0
                             /\ flip[q].transfer # 0 => flip'[q].transfer # 0
                             /\ flip'[q].purchase # 0 => acq[q].op[1].status = "FINALIZED"
                             /\ flip'[q].transfer # 0 => acq[q].op[2].status = "FINALIZED"
  PROVE  /\ Forward /\ \A v \in Workers : OwnerKept(v)
         /\ \A q \in Sessions : PlanFits(q)'
<1>1. Forward /\ \A v \in Workers : OwnerKept(v)
  BY DEF Forward, OwnerKept, Retryable
<1>2. ASSUME NEW q \in Sessions PROVE PlanFits(q)'
  <2>1. PlanFits(q)
    BY DEF AcquisitionInv
  <2> QED
    BY <2>1 DEF PlanFits
<1> QED
  BY <1>1, <1>2

LEMMA WorkerLedger ==
  ASSUME FlipInv, RowsFit', proof' = proof, health' = health, flipTime' = flipTime, flipCall' = flipCall,
         UNCHANGED <<acq, trade, retained>>,
         \A q \in Sessions : /\ flip[q].purchase # 0 => flip'[q].purchase # 0
                             /\ flip[q].transfer # 0 => flip'[q].transfer # 0
                             /\ flip'[q].purchase # 0 => acq[q].op[1].status = "FINALIZED"
                             /\ flip'[q].transfer # 0 => acq[q].op[2].status = "FINALIZED",
         \/ worker' = worker
         \/ \E w \in Workers, x \in WorkerRow : worker' = [worker EXCEPT ![w] = x] /\ WorkerKnows(x, w)'
  PROVE  FlipInv'
<1>1. LedgerInv /\ AcquisitionInv /\ AcqTypes
  BY DEF FlipInv, AcquisitionInv
<1>2. LedgerInv'
  BY <1>1, CallsUnchanged DEF LedgerInv
<1>3. /\ Forward /\ \A v \in Workers : OwnerKept(v)
      /\ \A q \in Sessions : PlanFits(q)'
  BY <1>1, LedgerGoes
<1>4. CASE worker' = worker
  <2>1. AcqTypes'
    BY <1>1, <1>4 DEF AcqTypes
  <2>2. AcquisitionInv'
    BY <1>1, <1>3, <1>4, <2>1, WorkersStay
  <2> QED
    BY <1>2, <2>2 DEF FlipInv
<1>5. CASE \E w \in Workers, x \in WorkerRow : worker' = [worker EXCEPT ![w] = x] /\ WorkerKnows(x, w)'
  <2>1. PICK w \in Workers, x \in WorkerRow : worker' = [worker EXCEPT ![w] = x] /\ WorkerKnows(x, w)'
    BY <1>5
  <2>2. AcqTypes'
    BY <1>1, <2>1 DEF AcqTypes
  <2>3. AcquisitionInv'
    BY <1>1, <1>3, <2>1, <2>2, WorkerMoves
  <2> QED
    BY <1>2, <2>3 DEF FlipInv
<1> QED
  BY <1>4, <1>5

LEMMA LifecycleTransitionKeeps ==
  ASSUME FlipInv, NEW w \in Workers, LifecycleTransition(w)
  PROVE  FlipInv'
<1>1. /\ worker[w].pc = "lifecycle" /\ proof' = proof /\ health' = health /\ flipTime' = flipTime /\ flipCall' = flipCall
      /\ flipTier' = flipTier /\ UNCHANGED <<acq, trade, retained>> /\ "lifecycle" \in Trading /\ "release" \notin Trading
  BY DEF LifecycleTransition, Trading
<1>2. AcqTypes /\ WorkerKnows(worker[w], w) /\ AcquisitionInv /\ RowsFit
  BY DEF FlipInv, AcquisitionInv, LedgerInv
<1>3. PICK y \in WorkerRow : y = worker[w]
  BY <1>2 DEF AcqTypes
<1>4. PICK s \in Sessions, i \in TradeOperations : s = y.session /\ i = y.op
  BY <1>1, <1>2, <1>3 DEF WorkerKnows
<1>5. /\ acq[s].op[i].status = "FINALIZED"
      /\ i = 2 => flip[s].purchase # 0
      /\ acq[s].owner = w => ~Retryable(s)
  BY <1>1, <1>2, <1>3, <1>4 DEF WorkerKnows
<1>6. \A q \in Sessions : /\ flip[q].purchase # 0 => acq[q].op[1].status = "FINALIZED"
                          /\ flip[q].transfer # 0 => acq[q].op[2].status = "FINALIZED"
  BY <1>2 DEF AcquisitionInv, PlanFits
<1>7. PICK x \in WorkerRow : x = IF i = 1 THEN [y EXCEPT !.pc = "operation", !.op = 2] ELSE [y EXCEPT !.pc = "acquire"]
  <2>1. PICK second \in TradeOperations : second = 2
    BY DEF TradeOperations
  <2>2. [y EXCEPT !.pc = "operation", !.op = second] \in WorkerRow /\ [y EXCEPT !.pc = "acquire"] \in WorkerRow
    BY DEF WorkerRow
  <2> QED
    BY <2>1, <2>2
<1>8. /\ i = 1 => x.pc = "operation" /\ x.session = s /\ x.op = 2
      /\ i = 2 => x.pc = "acquire" /\ x.session = s
  BY <1>4, <1>7 DEF WorkerRow
<1>9. i = 1 \/ i = 2
  BY DEF TradeOperations
\* Whoever goes on has seen the milestone.
<1>10. ASSUME worker' = [worker EXCEPT ![w] = x], RowsFit',
              \A q \in Sessions : q # s => flip'[q] = flip[q],
              /\ flip[s].purchase # 0 => flip'[s].purchase # 0
              /\ flip[s].transfer # 0 => flip'[s].transfer # 0,
              i = 1 => flip'[s].purchase # 0 /\ flip'[s].transfer = flip[s].transfer,
              i = 2 => flip'[s].transfer # 0 /\ flip'[s].purchase = flip[s].purchase
       PROVE  FlipInv'
  <2>1. acq' = acq /\ (acq'[s].owner = w => ~Retryable(s)')
    BY <1>1, <1>5 DEF Retryable
  <2>2. CASE i = 1
    <3>1. WorkerKnows(x, w)'
      BY <1>8, <1>10, <2>1, <2>2 DEF WorkerKnows, Trading, TradeOperations
    <3>2. \A q \in Sessions : /\ flip[q].purchase # 0 => flip'[q].purchase # 0
                              /\ flip[q].transfer # 0 => flip'[q].transfer # 0
                              /\ flip'[q].purchase # 0 => acq[q].op[1].status = "FINALIZED"
                              /\ flip'[q].transfer # 0 => acq[q].op[2].status = "FINALIZED"
      BY <1>5, <1>6, <1>10, <2>2
    <3>3. \E v \in Workers, z \in WorkerRow : worker' = [worker EXCEPT ![v] = z] /\ WorkerKnows(z, v)'
      BY <1>10, <3>1
    <3>4. RowsFit'
      BY <1>10
    <3> HIDE <1>10
    <3> QED
      BY <1>1, <3>2, <3>3, <3>4, WorkerLedger
  <2>3. CASE i = 2
    <3>1. WorkerKnows(x, w)'
      BY <1>8, <1>10, <2>1, <2>3 DEF WorkerKnows, Trading, TradeOperations
    <3>2. \A q \in Sessions : /\ flip[q].purchase # 0 => flip'[q].purchase # 0
                              /\ flip[q].transfer # 0 => flip'[q].transfer # 0
                              /\ flip'[q].purchase # 0 => acq[q].op[1].status = "FINALIZED"
                              /\ flip'[q].transfer # 0 => acq[q].op[2].status = "FINALIZED"
      BY <1>5, <1>6, <1>10, <2>3
    <3>3. \E v \in Workers, z \in WorkerRow : worker' = [worker EXCEPT ![v] = z] /\ WorkerKnows(z, v)'
      BY <1>10, <3>1
    <3>4. RowsFit'
      BY <1>10
    <3> HIDE <1>10
    <3> QED
      BY <1>1, <3>2, <3>3, <3>4, WorkerLedger
  <2> QED
    BY <1>9, <2>2, <2>3
<1>11. PICK r : r = FlipRequest(LifecycleKind[i], <<flip[s].ordinal, ReferenceOf(i)>>, OperationKey[i])
  OBVIOUS
<1>12. OperationKey[i] = FlipKeys[4 + i] /\ LifecycleKind[i] = FlipKinds[4 + i] /\ 4 + i \in 2..8 /\ 4 + i \in {5, 6}
  BY <1>9, Tables DEF OperationKey, LifecycleKind
<1>13. MilestoneRequest(r, 4 + i)
  <2>1. flip[s].ordinal \in Nat
    <3>1. flip[s] \in FlipRow
      BY <1>2 DEF RowsFit
    <3>2. flip[s].ordinal \in Ordinals \cup {0}
      BY <3>1 DEF FlipRow
    <3> QED
      BY <3>2, OrdinalsAreNaturals
  <2>2. r.kind = FlipKinds[4 + i] /\ r.key = FlipKeys[4 + i] /\ r.ev = <<flip[s].ordinal, i>>
    BY <1>11, <1>12, RequestFields DEF ReferenceOf
  <2>3. r.ev \in Nat \X Nat /\ r.ev[2] = i
    BY <1>9, <2>1, <2>2
  <2>4. r.ev \in FlipEvidence
    BY <2>3 DEF FlipEvidence
  <2> QED
    BY <1>9, <2>2, <2>3, <2>4 DEF MilestoneRequest
<1>14. \/ FlipTransition(s, r) /\ worker' = [worker EXCEPT ![w] = x]
       \/ Logged(s, OperationKey[i]) /\ worker' = [worker EXCEPT ![w] = x] /\ UNCHANGED <<flip, flipLog>>
       \/ GotoWorker(w, "release") /\ UNCHANGED <<flip, flipLog>>
  BY <1>3, <1>4, <1>7, <1>11 DEF LifecycleTransition
<1>15. CASE FlipTransition(s, r) /\ worker' = [worker EXCEPT ![w] = x]
  <2>1. PICK m \in 2..8 : m = 4 + i
    BY <1>12
  <2>2. /\ RowsFit' /\ MilestoneRow(flip'[s], flip[s], m, r.ev)
        /\ \A q \in Sessions : q # s => flip'[q] = flip[q]
    BY <1>1, <1>2, <1>13, <1>15, <2>1, MilestoneStep
  <2>3. /\ flip'[s].purchase = (IF m = 5 THEN 1 ELSE flip[s].purchase)
        /\ flip'[s].transfer = (IF m = 6 THEN 2 ELSE flip[s].transfer)
    BY <2>2 DEF MilestoneRow
  <2> QED
    BY <1>9, <1>10, <1>15, <2>1, <2>2, <2>3
<1>16. CASE Logged(s, OperationKey[i]) /\ worker' = [worker EXCEPT ![w] = x] /\ UNCHANGED <<flip, flipLog>>
  <2>1. (4 + i = 5 => flip[s].purchase # 0) /\ (4 + i = 6 => flip[s].transfer # 0)
    <3>1. PICK m \in {5, 6} : m = 4 + i
      BY <1>12
    <3>2. Logged(s, FlipKeys[m])
      BY <1>12, <1>16, <3>1
    <3> QED
      BY <1>2, <3>1, <3>2, LoggedMilestone
  <2>2. RowsFit'
    BY <1>1, <1>2, <1>16, RowsUnchanged
  <2>3. flip' = flip
    BY <1>16
  <2> QED
    BY <1>9, <1>10, <1>16, <2>1, <2>2, <2>3
<1>17. CASE GotoWorker(w, "release") /\ UNCHANGED <<flip, flipLog>>
  <2>1. UNCHANGED <<flipVars, acq, trade, retained>> /\ GotoWorker(w, "release")
    BY <1>1, <1>17 DEF flipVars
  <2> QED
    BY <1>1, <2>1, QuietGoto
<1> QED
  BY <1>14, <1>15, <1>16, <1>17

LEMMA ReviewedRecoveryTransitionKeeps ==
  ASSUME FlipInv, NEW w \in Workers, ReviewedRecoveryTransition(w)
  PROVE  FlipInv'
<1>1. /\ worker[w].pc = "reviewed" /\ proof' = proof /\ health' = health /\ flipTime' = flipTime /\ flipCall' = flipCall
      /\ flipTier' = flipTier /\ UNCHANGED <<acq, trade, retained>> /\ "release" \notin Trading
  BY DEF ReviewedRecoveryTransition, Trading
<1>2. AcqTypes /\ WorkerKnows(worker[w], w) /\ AcquisitionInv /\ RowsFit
  BY DEF FlipInv, AcquisitionInv, LedgerInv
<1>3. PICK s \in Sessions : s = worker[w].session
  BY <1>1, <1>2 DEF WorkerKnows
<1>4. PICK r : r = FlipRequest("request-recovery", 0, "flip-acquisition-recovery")
  OBVIOUS
<1>5. \/ FlipTransition(s, r) /\ EndWorker(w)
      \/ EndWorker(w) /\ UNCHANGED <<flip, flipLog>>
      \/ GotoWorker(w, "release") /\ UNCHANGED <<flip, flipLog>>
  BY <1>3, <1>4 DEF ReviewedRecoveryTransition
<1>6. CASE FlipTransition(s, r) /\ EndWorker(w)
  <2>1. RecoveryRequest(r)
    BY <1>4, RequestFields DEF RecoveryRequest, RecoveryKinds, RecoveryKeys, FlipEvidence
  <2>2. /\ RowsFit' /\ Keeps(flip'[s], flip[s])
        /\ \A q \in Sessions : q # s => flip'[q] = flip[q]
    BY <1>1, <1>2, <1>6, <2>1, RecoveryStep
  <2>3. \A q \in Sessions : flip'[q].purchase = flip[q].purchase /\ flip'[q].transfer = flip[q].transfer
    BY <2>2 DEF Keeps
  <2>4. \A q \in Sessions : /\ flip[q].purchase # 0 => acq[q].op[1].status = "FINALIZED"
                            /\ flip[q].transfer # 0 => acq[q].op[2].status = "FINALIZED"
    BY <1>2 DEF AcquisitionInv, PlanFits
  <2>5. PICK x \in WorkerRow : worker' = [worker EXCEPT ![w] = x] /\ x.pc = "idle"
    BY <1>6, WorkerEnds
  <2>6. WorkerKnows(x, w)'
    BY <2>5 DEF WorkerKnows, Trading
  <2> QED
    BY <1>1, <2>2, <2>3, <2>4, <2>5, <2>6, WorkerLedger
<1>7. CASE EndWorker(w) /\ UNCHANGED <<flip, flipLog>>
  <2>1. UNCHANGED <<flipVars, acq, trade, retained>>
    BY <1>1, <1>7 DEF flipVars
  <2> QED
    BY <1>7, <2>1, QuietEnd
<1>8. CASE GotoWorker(w, "release") /\ UNCHANGED <<flip, flipLog>>
  <2>1. UNCHANGED <<flipVars, acq, trade, retained>> /\ GotoWorker(w, "release")
    BY <1>1, <1>8 DEF flipVars
  <2> QED
    BY <1>1, <2>1, QuietGoto
<1> QED
  BY <1>5, <1>6, <1>7, <1>8

LEMMA MarkRevealReadyKeeps ==
  ASSUME FlipInv, NEW s \in Sessions, MarkRevealReady(s)
  PROVE  FlipInv'
<1>1. /\ proof' = proof /\ health' = health /\ flipTime' = flipTime /\ flipCall' = flipCall
      /\ UNCHANGED <<acq, trade, retained>> /\ worker' = worker
  BY DEF MarkRevealReady, acqVars
<1>2. AcquisitionInv /\ RowsFit
  BY DEF FlipInv, LedgerInv
<1>3. PICK r : r = FlipRequest("mark-reveal-ready", <<flip[s].purchase, flip[s].transfer>>, "reveal")
  OBVIOUS
<1>4. MilestoneRequest(r, 7)
  <2>1. flip[s] \in FlipRow
    BY <1>2 DEF RowsFit
  <2>2. flip[s].purchase \in Nat /\ flip[s].transfer \in Nat
    BY <2>1 DEF FlipRow
  <2>3. r.kind = FlipKinds[7] /\ r.key = FlipKeys[7] /\ r.ev = <<flip[s].purchase, flip[s].transfer>>
    BY <1>3, RequestFields, Tables
  <2>4. r.ev \in Nat \X Nat
    BY <2>2, <2>3
  <2> QED
    BY <2>3, <2>4 DEF MilestoneRequest, FlipEvidence
<1>5. FlipTransition(s, r)
  BY <1>3 DEF MarkRevealReady
<1>6. /\ RowsFit' /\ MilestoneRow(flip'[s], flip[s], 7, r.ev)
      /\ \A q \in Sessions : q # s => flip'[q] = flip[q]
  BY <1>1, <1>2, <1>4, <1>5, MilestoneStep
<1>7. \A q \in Sessions : flip'[q].purchase = flip[q].purchase /\ flip'[q].transfer = flip[q].transfer
  BY <1>6 DEF MilestoneRow
<1>8. \A q \in Sessions : /\ flip[q].purchase # 0 => acq[q].op[1].status = "FINALIZED"
                          /\ flip[q].transfer # 0 => acq[q].op[2].status = "FINALIZED"
  BY <1>2 DEF AcquisitionInv, PlanFits
<1> QED
  BY <1>1, <1>6, <1>7, <1>8, WorkerLedger

LEMMA WorkerDiesKeeps ==
  ASSUME FlipInv, NEW w \in Workers, WorkerDies(w)
  PROVE  FlipInv'
  BY QuietEnd DEF WorkerDies

\* What the API does with the sessions leaves their acquisitions alone.
LEMMA SessionStepKeeps ==
  ASSUME FlipInv, FlipSessionStep, UNCHANGED acqVars
  PROVE  FlipInv'
<1>1. LedgerInv /\ AcquisitionInv /\ acq' = acq /\ trade' = trade /\ retained' = retained /\ worker' = worker
  BY DEF FlipInv, acqVars
<1>2. LedgerInv' /\ TradesKept
  BY <1>1, SessionStep
<1>3. \A q \in Sessions : /\ flip[q].purchase # 0 => acq[q].op[1].status = "FINALIZED"
                          /\ flip[q].transfer # 0 => acq[q].op[2].status = "FINALIZED"
  BY <1>1 DEF AcquisitionInv, PlanFits
<1>4. /\ Forward /\ \A v \in Workers : OwnerKept(v)
      /\ \A q \in Sessions : PlanFits(q)'
  BY <1>1, <1>2, <1>3, LedgerGoes DEF TradesKept
<1>5. AcqTypes'
  BY <1>1 DEF AcquisitionInv, AcqTypes
<1>6. AcquisitionInv'
  BY <1>1, <1>4, <1>5, WorkersStay
<1> QED
  BY <1>2, <1>6 DEF FlipInv

-----------------------------------------------------------------------------
(***************************************************************************)
(* The invariant and what follows from it.                                 *)
(***************************************************************************)
LEMMA FlipInitially ==
  ASSUME FlipInit
  PROVE  FlipInv
<1>1. RowsFit
  <2>1. NoSession \in FlipRow
    BY DEF NoSession, FlipRow, SessionStatuses, Reasons
  <2>2. NoProof \in ProofRow
    BY DEF NoProof, ProofRow
  <2>3. <<>> \in Seq(LogRow)
    OBVIOUS
  <2>4. flip \in [Sessions -> FlipRow] /\ flipLog \in [Sessions -> Seq(LogRow)] /\ proof \in [Sessions -> ProofRow]
    BY <2>1, <2>2, <2>3 DEF FlipInit
  <2>5. ASSUME NEW s \in Sessions PROVE SessionShaped(s) /\ SelectionFits(s)
    <3>1. flip[s] = NoSession /\ flipLog[s] = <<>> /\ proof[s] = NoProof
      BY DEF FlipInit
    <3>2. NoSession.ordinal = 0 /\ NoProof.entropy = 0
      BY DEF NoSession, NoProof
    <3> QED
      BY <3>1, <3>2 DEF SessionShaped, SelectionFits
  <2> QED
    BY <2>4, <2>5 DEF RowsFit
<1>2. CallsFit
  <2>1. health \in HealthRow /\ flipTime \in Nat
    BY DEF FlipInit, FlipSessionInit, HealthRow, NoHealth
  <2>2. FlipIdle \in CallRow /\ CallKnows(FlipIdle)
    BY DEF FlipIdle, CallRow, CallKnows, HealthRow, NoHealth
  <2>3. flipCall = [c \in FlipCalls |-> FlipIdle]
    BY DEF FlipInit, FlipSessionInit
  <2>4. flipCall \in [FlipCalls -> CallRow] /\ \A c \in FlipCalls : flipCall[c] = FlipIdle
    BY <2>2, <2>3
  <2> QED
    BY <2>1, <2>2, <2>4 DEF CallsFit
<1>3. AcqTypes
  <2>1. NoPlan \in PlanRow
    BY DEF NoPlan, PlanRow, OperationRow, TradeOperations
  <2>2. WorkerIdle \in WorkerRow
    BY DEF WorkerIdle, WorkerRow
  <2> QED
    BY <2>1, <2>2 DEF AcqTypes, FlipInit, AcquisitionInit
<1>4. ASSUME NEW s \in Sessions PROVE PlanFits(s)
  <2>1. flip[s] = NoSession /\ acq[s] = NoPlan /\ retained = {} /\ \A i \in TradeOperations : trade[s][i] = "none"
    BY DEF FlipInit, AcquisitionInit
  <2>2. /\ NoPlan.status = "NONE"
        /\ \A i \in TradeOperations : NoPlan.op[i].status = "NONE" /\ NoPlan.op[i].mode = "NONE"
    BY DEF NoPlan
  <2>3. NoSession.purchase = 0 /\ NoSession.transfer = 0 /\ 1 \in TradeOperations /\ 2 \in TradeOperations
    BY DEF NoSession, TradeOperations
  <2> QED
    BY <2>1, <2>2, <2>3 DEF PlanFits
<1>5. ASSUME NEW w \in Workers PROVE WorkerKnows(worker[w], w)
  <2>1. worker[w].pc = "idle"
    BY DEF FlipInit, AcquisitionInit, WorkerIdle
  <2> QED
    BY <2>1 DEF WorkerKnows, Trading
<1> QED
  BY <1>1, <1>2, <1>3, <1>4, <1>5 DEF FlipInv, LedgerInv, AcquisitionInv

LEMMA AcquisitionStepKeeps ==
  ASSUME FlipInv, AcquisitionStep
  PROVE  FlipInv'
<1>1. ASSUME NEW w \in Workers, WorkerStep(w) PROVE FlipInv'
  BY <1>1, ReadPlanKeeps, CreatePlanKeeps, ClaimLeaseKeeps, CheckLeaseKeeps, SnapshotKeeps, ReadOperationKeeps,
     ExecuteKeeps, FinalizeOperationKeeps, LifecycleTransitionKeeps, RecordReviewedKeeps,
     ReviewedRecoveryTransitionKeeps, RecordAmbiguousKeeps, FinalizeAcquisitionKeeps, ReleaseLeaseKeeps,
     WorkerDiesKeeps DEF WorkerStep
<1> QED
  BY <1>1, MarketDecidesKeeps, LeaseExpiresKeeps, MarkRevealReadyKeeps DEF AcquisitionStep

\* FlipInv is inductive: every ledger is a prefix of the milestones with at most one
\* recovery behind it, every selection carries its proof, every plan says no more than the
\* marketplace and the ledger do, and every worker knows what its next step relies on.
THEOREM FlipInvariant == FlipSpec => []FlipInv
<1>1. FlipInit => FlipInv
  BY FlipInitially
<1>2. FlipInv /\ [FlipNext]_<<flipVars, acqVars>> => FlipInv'
  <2>1. ASSUME FlipInv, FlipNext PROVE FlipInv'
    BY <2>1, SessionStepKeeps, AcquisitionStepKeeps DEF FlipNext
  <2>2. ASSUME FlipInv, UNCHANGED <<flipVars, acqVars>> PROVE FlipInv'
    <3>1. /\ flip' = flip /\ acq' = acq /\ trade' = trade /\ retained' = retained /\ worker' = worker
          /\ UNCHANGED flipVars /\ LedgerInv /\ AcquisitionInv
      BY <2>2 DEF acqVars, flipVars, FlipInv
    <3>2. LedgerInv'
      BY <3>1, LedgerUnchanged
    <3>3. \A q \in Sessions : /\ flip[q].purchase # 0 => acq[q].op[1].status = "FINALIZED"
                              /\ flip[q].transfer # 0 => acq[q].op[2].status = "FINALIZED"
      BY <3>1 DEF AcquisitionInv, PlanFits
    <3>4. /\ Forward /\ \A v \in Workers : OwnerKept(v)
          /\ \A q \in Sessions : PlanFits(q)'
      BY <3>1, <3>3, LedgerGoes
    <3>5. AcqTypes'
      BY <3>1 DEF AcquisitionInv, AcqTypes
    <3>6. AcquisitionInv'
      BY <3>1, <3>4, <3>5, WorkersStay
    <3> QED
      BY <3>2, <3>6 DEF FlipInv
  <2> QED
    BY <2>1, <2>2
<1> QED
  BY <1>1, <1>2, PTL DEF FlipSpec

\* The outcome of a session is the one its proof derives, and a prepared proof is
\* finalized before anything else happens to the session: selectFixtureOutcome, whatever
\* calls race it, for every outcome space and every entropy.
THEOREM SelectionProven == FlipSpec => []SelectionIsProven
<1>1. FlipInv => SelectionIsProven
  BY DEF FlipInv, LedgerInv, RowsFit, SelectionFits, SelectionIsProven
<1> QED
  BY <1>1, FlipInvariant, PTL

\* The rows say where the asset is, whatever the marketplace answers and however many
\* workers hold, lose and retake the lease.
THEOREM AssetAccounted == FlipSpec => []FlipAssetIsAccounted
<1>1. ASSUME FlipInv PROVE FlipAssetIsAccounted
  <2>1. ASSUME NEW s \in Sessions
        PROVE  /\ flip[s].purchase # 0 => trade[s][1] = "applied"
               /\ flip[s].transfer # 0 => trade[s][2] = "applied"
               /\ trade[s][2] # "none" => flip[s].purchase # 0
               /\ acq[s].status = "ACQUIRED" => flip[s].transfer # 0
               /\ \A i \in TradeOperations : acq[s].op[i].mode = "RETRYABLE" => trade[s][i] = "rejected"
               /\ s \in retained <=> acq[s].op[2].mode = "RETRYABLE"
               /\ s \in retained => trade[s][1] = "applied" /\ flip[s].transfer = 0
    <3>1. PlanFits(s) /\ 1 \in TradeOperations /\ 2 \in TradeOperations
      BY <1>1 DEF FlipInv, AcquisitionInv, TradeOperations
    <3> QED
      BY <3>1 DEF PlanFits
  <2> QED
    BY <2>1 DEF FlipAssetIsAccounted
<1> QED
  BY <1>1, FlipInvariant, PTL

\* findSession never refuses a session: row, milestones and transitions agree in every
\* state that stakes, selections, acquisitions and recoveries can reach together.
THEOREM SessionsReadable == FlipSpec => []FlipSessionsStayReadable
<1>1. ASSUME FlipInv PROVE FlipSessionsStayReadable
  <2>1. ASSUME NEW s \in Sessions, flip[s].status # "NONE" PROVE SessionLedgerValid(s)
    <3>1. RowsFit
      BY <1>1 DEF FlipInv, LedgerInv
    <3>2. SessionShaped(s) /\ NoSession.status = "NONE"
      BY <3>1 DEF RowsFit, NoSession
    <3>3. PICK n \in 1..8 : Shape(flip[s], flipLog[s], n)
      BY <2>1, <3>2 DEF SessionShaped
    <3> QED
      BY <3>1, <3>3, ShapeIsReadable
  <2> QED
    BY <2>1 DEF FlipSessionsStayReadable
<1> QED
  BY <1>1, FlipInvariant, PTL

(*****************************************************************************)
(* Gacha.                                                                   *)
(*****************************************************************************)

PaymentRow == [status : PaymentStatuses, payer : Payers \cup {0}, signature : Signatures \cup {0},
               late : BOOLEAN, rip : Nat]
TransferRow == [state : TransferStates, fresh : BOOLEAN]
GachaCallRow == [pc : GachaPcs, payer : Payers \cup {0}, intent : Intents \cup {0},
            signature : Signatures \cup {0}, rip : Rips \cup {0}, snapshot : Snapshots \cup {0}]
RipRow == [status : INCOMPLETE_RIP_STATUSES \cup {"NONE", "SETTLED", "FAILED"},
           payer : Payers \cup {0}, card : Cards \cup {0}, key : RipKeys,
           seed : Seeds \cup {0}, payment : Intents \cup {0},
           snapshot : Snapshots \cup {0}, owner : GachaCalls \cup {0}, stale : BOOLEAN]
SeedRow == [status : {"NONE", "OPEN", "CONSUMED"}, snapshot : Snapshots \cup {0}, late : BOOLEAN]
HandedRow == [state : {"no", "sent", "yes", "refused"}, card : Cards \cup {0}]

\* The type invariants in terms of these rows.
LEMMA PaymentTypes ==
  PaymentTypeOK <=> /\ payment \in [Intents -> PaymentRow]
                    /\ transfer \in [Intents -> [Signatures -> TransferRow]]
  BY DEF PaymentTypeOK, PaymentRow, TransferRow

LEMMA RipTypes ==
  RipTypeOK <=> /\ gcall \in [GachaCalls -> GachaCallRow]
                /\ rip \in [Rips -> RipRow]
                /\ seed \in [Seeds -> SeedRow]
                /\ handed \in [Rips -> HandedRow]
                /\ odds \in Snapshots \cup {0} /\ sealed \in Seq(Snapshots)
  BY DEF RipTypeOK, GachaCallRow, RipRow, SeedRow, HandedRow

\* No signature, intent or rip is numbered 0.
LEMMA Numbered == 0 \notin Signatures /\ 0 \notin Intents /\ 0 \notin Rips
  BY GachaPaymentConstants, GachaRipConstants

LEMMA InitialRows ==
  /\ NoPayment \in PaymentRow /\ NoTransfer \in TransferRow /\ GachaIdle \in GachaCallRow
  /\ NoRip \in RipRow /\ NoSeed \in SeedRow /\ NotHanded \in HandedRow
<1>1. NoPayment \in PaymentRow
  BY DEF NoPayment, PaymentRow, PaymentStatuses
<1>2. NoTransfer \in TransferRow
  BY DEF NoTransfer, TransferRow, TransferStates
<1>3. GachaIdle \in GachaCallRow
  BY DEF GachaIdle, GachaCallRow, GachaPcs
<1>4. NoRip \in RipRow
  BY GachaRipConstants DEF NoRip, RipRow
<1>5. NoSeed \in SeedRow /\ NotHanded \in HandedRow
  BY DEF NoSeed, SeedRow, NotHanded, HandedRow
<1> QED
  BY <1>1, <1>2, <1>3, <1>4, <1>5

-----------------------------------------------------------------------------
(***************************************************************************)
(* Requests.                                                               *)
(***************************************************************************)
ClaimPcs == {"statuses", "blockhash", "history", "release", "fetch", "verified", "failed"}
RipPcs == {"lease", "read", "reveal", "acquire", "acquired", "fail", "settle", "unlease", "seal", "odds"}

\* Request c becomes x.
CallBecomes(c, x) == /\ gcall' \in [GachaCalls -> GachaCallRow] /\ gcall'[c] = x
                     /\ \A d \in GachaCalls : d # c => gcall'[d] = gcall[d]

LEMMA CallWritten ==
  ASSUME GachaInv, NEW c \in GachaCalls, NEW x \in GachaCallRow, gcall' = [gcall EXCEPT ![c] = x]
  PROVE  CallBecomes(c, x)
  BY RipTypes DEF GachaInv, RipInv, CallBecomes

LEMMA CallEnded ==
  ASSUME GachaInv, NEW c \in GachaCalls, EndGachaCall(c)
  PROVE  CallBecomes(c, GachaIdle) /\ GachaIdle.pc = "idle"
  BY CallWritten, InitialRows DEF EndGachaCall, GachaIdle

LEMMA CallGoes ==
  ASSUME GachaInv, NEW c \in GachaCalls, NEW pc \in GachaPcs, GotoGacha(c, pc)
  PROVE  \E x \in GachaCallRow : /\ CallBecomes(c, x) /\ x.pc = pc
                            /\ x.intent = gcall[c].intent /\ x.signature = gcall[c].signature
                            /\ x.payer = gcall[c].payer /\ x.rip = gcall[c].rip
                            /\ x.snapshot = gcall[c].snapshot
<1> DEFINE y == gcall[c]
           x == [y EXCEPT !.pc = pc]
<1>1. y \in GachaCallRow /\ gcall' = [gcall EXCEPT ![c] = x]
  BY RipTypes DEF GachaInv, RipInv, GotoGacha
<1> HIDE DEF y
<1>2. /\ x \in GachaCallRow /\ x.pc = pc /\ x.intent = y.intent /\ x.signature = y.signature
      /\ x.payer = y.payer /\ x.rip = y.rip /\ x.snapshot = y.snapshot
  BY <1>1 DEF GachaCallRow
<1>3. CallBecomes(c, x)
  BY <1>1, <1>2, CallWritten
<1> QED
  BY <1>2, <1>3 DEF y

-----------------------------------------------------------------------------
(***************************************************************************)
(* What one half of the system leaves of the invariant of the other.       *)
(***************************************************************************)
\* The payment steps touch no spent payment, and no request that is about a rip.
LEMMA RipsKept ==
  ASSUME GachaInv, UNCHANGED ripVars, gcall' \in [GachaCalls -> GachaCallRow],
         \A i \in Intents : /\ payment[i].status = "CONSUMED" => payment'[i] = payment[i]
                            /\ payment'[i].status = "CONSUMED" => payment'[i] = payment[i]
                            /\ payment'[i].rip \in {0, payment[i].rip},
         \A c \in GachaCalls : gcall'[c] = gcall[c] \/ gcall'[c].pc \notin RipPcs
  PROVE  RipInv'
<1>1. RipTypeOK'
  BY RipTypes DEF GachaInv, RipInv, ripVars, RipTypeOK, GachaCallRow, RipRow, SeedRow, HandedRow
<1>2. RipsAndSpending'
  BY DEF GachaInv, RipInv, RipsAndSpending, Made, ripVars
<1>3. HandedFollowsRip'
  BY DEF GachaInv, RipInv, HandedFollowsRip, ripVars
<1>4. \A c \in GachaCalls : KnowsTheRip(gcall[c])'
  BY DEF GachaInv, RipInv, KnowsTheRip, Made, ripVars, RipPcs
<1> QED
  BY <1>1, <1>2, <1>3, <1>4 DEF RipInv

\* The rip steps spend verified payments, and touch no transfer and no claim.
LEMMA PaymentsKept ==
  ASSUME GachaInv, UNCHANGED transfer, payment' \in [Intents -> PaymentRow],
         \A i \in Intents :
           \/ payment'[i] = payment[i]
           \/ /\ payment[i].status = "VERIFIED" /\ payment'[i].status = "CONSUMED"
              /\ payment'[i].signature = payment[i].signature,
         \A c \in GachaCalls : gcall'[c] = gcall[c] \/ gcall'[c].pc \notin ClaimPcs
  PROVE  PaymentInv'
<1>1. PaymentTypeOK'
  BY PaymentTypes DEF GachaInv, PaymentInv, PaymentTypeOK, PaymentRow, TransferRow
<1>2. ClaimedAloneMoves'
  BY DEF GachaInv, PaymentInv, ClaimedAloneMoves
<1>3. StatusTellsClaim'
  BY DEF GachaInv, PaymentInv, StatusTellsClaim
<1>4. OneOpenIntent'
  BY DEF GachaInv, PaymentInv, OneOpenIntent, Active
<1>5. \A c \in GachaCalls : KnowsTheTransfer(gcall[c])'
  BY DEF GachaInv, PaymentInv, KnowsTheTransfer, ClaimPcs
<1> QED
  BY <1>1, <1>2, <1>3, <1>4, <1>5 DEF PaymentInv

\* What the chain does not take back.
ChainKeeps == \A i \in Intents, s \in Signatures :
  LET t == transfer[i][s]
      u == transfer'[i][s]
  IN  /\ t.state \in {"final", "finalError"} => u.state = t.state
      /\ ~t.fresh => ~u.fresh
      /\ ~t.fresh /\ t.state \in {"signed", "sent"} => u.state \in {"signed", "sent"}

\* A payment step keeps the invariant if its rows agree with the chain.
LEMMA PaymentStepKeeps ==
  ASSUME GachaInv, UNCHANGED ripVars, gcall' \in [GachaCalls -> GachaCallRow],
         payment' \in [Intents -> PaymentRow],
         transfer' \in [Intents -> [Signatures -> TransferRow]],
         ChainKeeps, ClaimedAloneMoves', StatusTellsClaim', OneOpenIntent',
         \A i \in Intents : /\ payment'[i].rip \in {0, payment[i].rip}
                            /\ "CONSUMED" \in {payment[i].status, payment'[i].status} =>
                                 payment'[i] = payment[i],
         \A c \in GachaCalls : \/ gcall'[c] = gcall[c]
                               \/ gcall'[c].pc \notin RipPcs /\ KnowsTheTransfer(gcall[c])'
  PROVE  GachaInv'
<1>1. PaymentTypeOK'
  BY DEF PaymentTypeOK, PaymentRow, TransferRow
<1>2. ASSUME NEW c \in GachaCalls, gcall'[c] = gcall[c] PROVE KnowsTheTransfer(gcall[c])'
  BY <1>2 DEF GachaInv, PaymentInv, KnowsTheTransfer, ChainKeeps
<1>3. PaymentInv'
  BY <1>1, <1>2 DEF PaymentInv
<1>4. RipInv'
  BY RipsKept
<1> QED
  BY <1>3, <1>4 DEF GachaInv

-----------------------------------------------------------------------------
(***************************************************************************)
(* Steps of the chain.                                                     *)
(***************************************************************************)
\* Transaction s of intent i becomes x, as the chain lets it.
TransferMay(i, s, x) ==
  LET t == transfer[i][s]
  IN  /\ s # payment[i].signature => x.state \in {"none", "signed"}
      /\ ~x.fresh => x.state \in {"signed", "sent", "final", "finalError"}
      /\ t.state \in {"final", "finalError"} => x.state = t.state
      /\ ~t.fresh => ~x.fresh
      /\ ~t.fresh /\ t.state \in {"signed", "sent"} => x.state \in {"signed", "sent"}

TransferBecomes(i, s, x) == transfer' = [transfer EXCEPT ![i][s] = x]
StateBecomes(i, s, st) == transfer' = [transfer EXCEPT ![i][s].state = st]

LEMMA TransferStep ==
  ASSUME GachaInv, UNCHANGED <<payment, gcall>>, UNCHANGED ripVars,
         NEW i \in Intents, NEW s \in Signatures, NEW x \in TransferRow,
         TransferBecomes(i, s, x), TransferMay(i, s, x)
  PROVE  GachaInv'
<1> USE DEF TransferBecomes
<1>1. /\ transfer \in [Intents -> [Signatures -> TransferRow]]
      /\ payment \in [Intents -> PaymentRow] /\ gcall \in [GachaCalls -> GachaCallRow]
  BY PaymentTypes, RipTypes DEF GachaInv, PaymentInv, RipInv
<1>2. transfer' \in [Intents -> [Signatures -> TransferRow]]
  BY <1>1
<1>3. \A j \in Intents, r \in Signatures :
        transfer'[j][r] = IF j = i /\ r = s THEN x ELSE transfer[j][r]
  BY <1>1
<1>4. ChainKeeps
  BY <1>3 DEF ChainKeeps, TransferMay
<1>5. ClaimedAloneMoves'
  BY <1>3 DEF GachaInv, PaymentInv, ClaimedAloneMoves, TransferMay
<1>6. StatusTellsClaim'
  BY <1>3, <1>4 DEF GachaInv, PaymentInv, StatusTellsClaim, ChainKeeps, NeverLands
<1>7. OneOpenIntent'
  BY DEF GachaInv, PaymentInv, OneOpenIntent, Active
<1> QED
  BY <1>1, <1>2, <1>4, <1>5, <1>6, <1>7, PaymentStepKeeps

\* A transaction keeps its blockhash and moves on.
LEMMA StateWritten ==
  ASSUME GachaInv, NEW i \in Intents, NEW s \in Signatures, NEW st \in TransferStates,
         StateBecomes(i, s, st)
  PROVE  \E x \in TransferRow : /\ x.state = st /\ x.fresh = transfer[i][s].fresh
                                /\ TransferBecomes(i, s, x)
<1> DEFINE t == transfer[i][s]
           x == [t EXCEPT !.state = st]
<1>1. t \in TransferRow /\ TransferBecomes(i, s, x)
  BY PaymentTypes DEF GachaInv, PaymentInv, StateBecomes, TransferBecomes
<1> HIDE DEF t
<1>2. x \in TransferRow /\ x.state = st /\ x.fresh = t.fresh
  BY <1>1 DEF TransferRow
<1> QED
  BY <1>1, <1>2 DEF t

LEMMA TransferLandsStep ==
  ASSUME GachaInv, UNCHANGED ripVars, NEW i \in Intents, NEW s \in Signatures,
         TransferLands(i, s) \/ TransferFinalizes(i, s)
  PROVE  GachaInv'
<1>1. PICK st \in {"landed", "landedError", "final", "finalError"} :
        /\ StateBecomes(i, s, st) /\ UNCHANGED <<payment, gcall>>
        /\ st \in {"landed", "landedError"} =>
             transfer[i][s].state = "sent" /\ transfer[i][s].fresh
        /\ st \in {"final", "finalError"} => transfer[i][s].state \in {"landed", "landedError"}
  BY DEF TransferLands, TransferFinalizes, StateBecomes
<1>2. PICK x \in TransferRow : /\ x.state = st /\ x.fresh = transfer[i][s].fresh
                               /\ TransferBecomes(i, s, x)
  BY <1>1, StateWritten DEF TransferStates
<1>3. s = payment[i].signature
  BY <1>1 DEF GachaInv, PaymentInv, ClaimedAloneMoves
<1>4. TransferMay(i, s, x)
  BY <1>1, <1>2, <1>3 DEF TransferMay, GachaInv, PaymentInv, ClaimedAloneMoves
<1> QED
  BY <1>1, <1>2, <1>4, TransferStep

LEMMA BlockhashExpiresStep ==
  ASSUME GachaInv, UNCHANGED ripVars, NEW i \in Intents, NEW s \in Signatures,
         BlockhashExpires(i, s)
  PROVE  GachaInv'
<1> DEFINE t == transfer[i][s]
           x == [t EXCEPT !.fresh = FALSE]
<1>1. /\ TransferBecomes(i, s, x) /\ UNCHANGED <<payment, gcall>>
      /\ t.state \in {"signed", "sent", "final", "finalError"} /\ t.fresh /\ t \in TransferRow
  BY PaymentTypes DEF GachaInv, PaymentInv, BlockhashExpires, TransferBecomes
<1>2. x \in TransferRow /\ ~x.fresh /\ x.state = t.state
  <2> HIDE DEF t
  <2> QED
    BY <1>1 DEF TransferRow
<1> HIDE DEF x
<1>3. TransferMay(i, s, x)
  BY <1>1, <1>2 DEF TransferMay, GachaInv, PaymentInv, ClaimedAloneMoves
<1> QED
  BY <1>1, <1>2, <1>3, TransferStep

-----------------------------------------------------------------------------
(***************************************************************************)
(* Steps that write payment rows.                                          *)
(***************************************************************************)
\* Row j becomes x under the claim it has: it is not a spent row, and its new status tells
\* the truth about its claim.
PaymentMay(j, x) ==
  LET t == transfer[j][x.signature]
  IN  /\ "CONSUMED" \notin {payment[j].status, x.status}
      /\ x.signature = payment[j].signature /\ x.rip \in {0, payment[j].rip}
      /\ x.status \in {"NONE", "EXPIRED"} => x.signature = 0
      /\ x.status = "VERIFIED" => x.signature \in Signatures /\ t.state = "final"
      /\ x.status = "FAILED" => x.signature \in Signatures /\ NeverLands(t)

LEMMA PaymentRowsStep ==
  ASSUME GachaInv, UNCHANGED transfer, UNCHANGED ripVars, gcall' \in [GachaCalls -> GachaCallRow],
         payment' \in [Intents -> PaymentRow], OneOpenIntent',
         \A j \in Intents : payment'[j] = payment[j] \/ PaymentMay(j, payment'[j]),
         \A c \in GachaCalls : \/ gcall'[c] = gcall[c]
                               \/ gcall'[c].pc \notin RipPcs /\ KnowsTheTransfer(gcall[c])'
  PROVE  GachaInv'
<1>1. transfer' \in [Intents -> [Signatures -> TransferRow]] /\ ChainKeeps
  BY PaymentTypes DEF GachaInv, PaymentInv, ChainKeeps
<1>2. ClaimedAloneMoves'
  BY DEF GachaInv, PaymentInv, ClaimedAloneMoves, PaymentMay
<1>3. StatusTellsClaim'
  BY DEF GachaInv, PaymentInv, StatusTellsClaim, PaymentMay
<1>4. \A i \in Intents : /\ payment'[i].rip \in {0, payment[i].rip}
                         /\ "CONSUMED" \in {payment[i].status, payment'[i].status} =>
                              payment'[i] = payment[i]
  BY DEF PaymentMay
<1> QED
  BY <1>1, <1>2, <1>3, <1>4, PaymentStepKeeps

\* Rows that only leave the wallet's slot, or stay in it, leave one open intent.
LEMMA OneOpenKept ==
  ASSUME GachaInv,
         \A j \in Intents : Active(j)' => Active(j) /\ payment'[j].payer = payment[j].payer
  PROVE  OneOpenIntent'
  BY DEF GachaInv, PaymentInv, OneOpenIntent

\* An open row without a claim expires.
LEMMA ExpiredRow ==
  ASSUME GachaInv, NEW j \in Intents, Active(j), payment[j].signature = 0
  PROVE  LET x == [payment[j] EXCEPT !.status = "EXPIRED"]
         IN  x \in PaymentRow /\ x.status = "EXPIRED" /\ PaymentMay(j, x)
<1> DEFINE row == payment[j]
           x == [row EXCEPT !.status = "EXPIRED"]
<1>1. row \in PaymentRow /\ row.status # "CONSUMED" /\ row.signature = 0
      /\ "EXPIRED" \in PaymentStatuses
  BY PaymentTypes DEF GachaInv, PaymentInv, Active, PaymentStatuses
<1>2. x \in PaymentRow /\ x.status = "EXPIRED" /\ x.signature = row.signature /\ x.rip = row.rip
  <2> HIDE DEF row
  <2> QED
    BY <1>1 DEF PaymentRow
<1> HIDE DEF x
<1>3. PaymentMay(j, x)
  BY <1>1, <1>2 DEF PaymentMay
<1> QED
  BY <1>2, <1>3 DEF x

\* One row is written, and it does not enter the slot of its wallet.
LEMMA OneRowStep ==
  ASSUME GachaInv, UNCHANGED transfer, UNCHANGED ripVars, gcall' \in [GachaCalls -> GachaCallRow],
         NEW j \in Intents, NEW x \in PaymentRow, payment' = [payment EXCEPT ![j] = x],
         PaymentMay(j, x),
         x.status \in {"PENDING", "VERIFIED"} => Active(j) /\ x.payer = payment[j].payer,
         \A c \in GachaCalls : \/ gcall'[c] = gcall[c]
                               \/ gcall'[c].pc \notin RipPcs /\ KnowsTheTransfer(gcall[c])'
  PROVE  GachaInv'
<1>1. /\ payment' \in [Intents -> PaymentRow] /\ payment'[j] = x
      /\ \A i \in Intents : i # j => payment'[i] = payment[i]
  BY PaymentTypes DEF GachaInv, PaymentInv
<1>2. OneOpenIntent'
  BY <1>1, OneOpenKept DEF Active
<1> QED
  BY <1>1, <1>2, PaymentRowsStep

\* A request that asks the chain nothing.
LEMMA QuietCall ==
  ASSUME NEW c \in GachaCalls, NEW x \in GachaCallRow, CallBecomes(c, x),
         x.pc \in {"idle", "create"}
  PROVE  /\ gcall' \in [GachaCalls -> GachaCallRow]
         /\ \A d \in GachaCalls : \/ gcall'[d] = gcall[d]
                                  \/ gcall'[d].pc \notin RipPcs /\ KnowsTheTransfer(gcall[d])'
  BY DEF CallBecomes, KnowsTheTransfer, RipPcs

LEMMA IntentIsLateStep ==
  ASSUME GachaInv, UNCHANGED ripVars, NEW i \in Intents, IntentIsLate(i)
  PROVE  GachaInv'
<1> DEFINE row == payment[i]
           x == [row EXCEPT !.late = TRUE]
<1>1. /\ row \in PaymentRow /\ row.status = "PENDING" /\ UNCHANGED <<transfer, gcall>>
      /\ payment' = [payment EXCEPT ![i] = x] /\ gcall \in [GachaCalls -> GachaCallRow]
  BY PaymentTypes, RipTypes DEF GachaInv, PaymentInv, RipInv, IntentIsLate
<1>2. /\ x \in PaymentRow /\ x.status = row.status /\ x.signature = row.signature
      /\ x.payer = row.payer /\ x.rip = row.rip
  <2> HIDE DEF row
  <2> QED
    BY <1>1 DEF PaymentRow
<1> HIDE DEF x
<1>3. PaymentMay(i, x) /\ Active(i)
  BY <1>1, <1>2 DEF PaymentMay, Active
<1> QED
  BY <1>1, <1>2, <1>3, OneRowStep

LEMMA PrepareTransactionStep ==
  ASSUME GachaInv, UNCHANGED ripVars, NEW i \in Intents, NEW s \in Signatures,
         PrepareTransaction(i, s)
  PROVE  GachaInv'
<1>1. /\ Active(i) /\ payment[i].signature = 0 /\ transfer[i][s].state = "none"
      /\ UNCHANGED gcall /\ gcall \in [GachaCalls -> GachaCallRow]
  BY RipTypes DEF GachaInv, RipInv, PrepareTransaction, Active
<1>2. CASE payment' = [payment EXCEPT ![i].status = "EXPIRED"] /\ UNCHANGED transfer
  <2> DEFINE x == [payment[i] EXCEPT !.status = "EXPIRED"]
  <2>1. x \in PaymentRow /\ x.status = "EXPIRED" /\ PaymentMay(i, x)
    BY <1>1, ExpiredRow
  <2>2. payment' = [payment EXCEPT ![i] = x]
    BY <1>2
  <2> HIDE DEF x
  <2> QED
    BY <1>1, <1>2, <2>1, <2>2, OneRowStep
<1>3. CASE StateBecomes(i, s, "signed") /\ UNCHANGED payment
  <2>1. "signed" \in TransferStates
    BY DEF TransferStates
  <2>2. PICK x \in TransferRow : /\ x.state = "signed" /\ x.fresh = transfer[i][s].fresh
                                 /\ TransferBecomes(i, s, x)
    BY <1>3, <2>1, StateWritten
  <2>3. TransferMay(i, s, x)
    BY <1>1, <2>2 DEF TransferMay, GachaInv, PaymentInv, ClaimedAloneMoves
  <2> QED
    BY <1>1, <1>3, <2>2, <2>3, TransferStep
<1> QED
  BY <1>2, <1>3 DEF PrepareTransaction, StateBecomes

\* The wallet's open row is resumed, or examined, or the ones past their time leave the slot.
LEMMA BeginIntentStep ==
  ASSUME GachaInv, UNCHANGED ripVars, NEW c \in GachaCalls, NEW w \in Payers, BeginIntent(c, w)
  PROVE  GachaInv'
<1>1. /\ UNCHANGED transfer /\ gcall \in [GachaCalls -> GachaCallRow] /\ payment \in [Intents -> PaymentRow]
      /\ transfer \in [Intents -> [Signatures -> TransferRow]]
  BY PaymentTypes, RipTypes DEF GachaInv, PaymentInv, RipInv, BeginIntent
<1>2. CASE \E i \in ActivePayments(w) : ~UnclaimedIntentExpired(i)
  <2> DEFINE i == CHOOSE j \in ActivePayments(w) : TRUE
             x == [GachaIdle EXCEPT !.pc = "statuses", !.payer = w, !.intent = i,
                                    !.signature = payment[i].signature]
  <2>1. /\ UNCHANGED payment
        /\ gcall' = [gcall EXCEPT ![c] = IF MayBeReleased(i) THEN x ELSE gcall[c]]
    BY <1>2 DEF BeginIntent
  <2>2. i \in Intents
    BY <1>2 DEF ActivePayments
  <2> HIDE DEF i
  <2>3. OneOpenIntent'
    BY <2>1 DEF GachaInv, PaymentInv, OneOpenIntent, Active
  <2>4. CASE ~MayBeReleased(i)
    <3>1. gcall' = gcall
      BY <1>1, <2>1, <2>4
    <3> QED
      BY <1>1, <2>1, <2>3, <3>1, PaymentRowsStep
  <2>5. CASE MayBeReleased(i)
    <3> DEFINE g == payment[i].signature
    <3>1. g \in Signatures /\ gcall' = [gcall EXCEPT ![c] = x] /\ "statuses" \in GachaPcs
      BY <1>1, <2>1, <2>2, <2>5 DEF MayBeReleased, PaymentRow, GachaPcs
    <3> HIDE DEF g
    <3>2. x \in GachaCallRow /\ x.pc = "statuses" /\ x.intent = i /\ x.signature = g
      BY <2>2, <3>1, InitialRows DEF GachaCallRow, g
    <3> HIDE DEF x
    <3>3. CallBecomes(c, x)
      BY <3>1, <3>2, CallWritten
    <3>4. KnowsTheTransfer(gcall[c])' /\ gcall'[c].pc \notin RipPcs
      BY <2>2, <3>1, <3>2, <3>3 DEF KnowsTheTransfer, CallBecomes, RipPcs
    <3> QED
      BY <1>1, <2>1, <2>3, <3>3, <3>4, PaymentRowsStep DEF CallBecomes
  <2> QED
    BY <2>4, <2>5
<1>3. CASE \A i \in ActivePayments(w) : UnclaimedIntentExpired(i)
  <2> DEFINE x == [GachaIdle EXCEPT !.pc = "create", !.payer = w]
  <2>1. /\ payment' = [i \in Intents |->
              IF i \in ActivePayments(w) THEN [payment[i] EXCEPT !.status = "EXPIRED"] ELSE payment[i]]
        /\ gcall' = [gcall EXCEPT ![c] = x]
    BY <1>3 DEF BeginIntent
  <2>2. x \in GachaCallRow /\ x.pc = "create"
    BY InitialRows DEF GachaCallRow, GachaPcs
  <2> HIDE DEF x
  <2>3. CallBecomes(c, x)
    BY <2>1, <2>2, CallWritten
  <2>4. ASSUME NEW j \in Intents
        PROVE  /\ payment'[j] \in PaymentRow
               /\ payment'[j] = payment[j] \/ PaymentMay(j, payment'[j])
               /\ payment'[j] = payment[j] \/ payment'[j].status = "EXPIRED"
    <3>1. CASE j \in ActivePayments(w)
      <4>1. Active(j) /\ payment[j].signature = 0
        BY <1>3, <3>1 DEF ActivePayments, UnclaimedIntentExpired
      <4>2. payment'[j] = [payment[j] EXCEPT !.status = "EXPIRED"]
        BY <2>1, <3>1
      <4> QED
        BY <4>1, <4>2, ExpiredRow
    <3>2. CASE j \notin ActivePayments(w)
      BY <1>1, <2>1, <3>2
    <3> QED
      BY <3>1, <3>2
  <2>5. payment' \in [Intents -> PaymentRow]
    BY <2>1, <2>4
  <2>6. OneOpenIntent'
    BY <2>4, OneOpenKept DEF Active
  <2> QED
    BY <1>1, <2>2, <2>3, <2>4, <2>5, <2>6, QuietCall, PaymentRowsStep
<1> QED
  BY <1>2, <1>3

\* A new intent takes the slot that the wallet's late rows leave.
LEMMA CreateIntentStep ==
  ASSUME GachaInv, UNCHANGED ripVars, NEW c \in GachaCalls, CreateIntent(c)
  PROVE  GachaInv'
<1> DEFINE w == gcall[c].payer
           free == {i \in Intents : payment[i].status = "NONE"}
           fresh == [NoPayment EXCEPT !.status = "PENDING", !.payer = w]
<1>1. /\ UNCHANGED transfer /\ payment \in [Intents -> PaymentRow] /\ w \in Payers \cup {0}
      /\ CallBecomes(c, GachaIdle) /\ GachaIdle.pc = "idle" /\ GachaIdle \in GachaCallRow
  BY PaymentTypes, RipTypes, CallEnded, InitialRows
  DEF GachaInv, PaymentInv, RipInv, CreateIntent, GachaCallRow
<1>2. CASE UNCHANGED payment
  <2>1. OneOpenIntent'
    BY <1>2 DEF GachaInv, PaymentInv, OneOpenIntent, Active
  <2> QED
    BY <1>1, <1>2, <2>1, QuietCall, PaymentRowsStep
<1>3. ASSUME \A i \in ActivePayments(w) : UnclaimedIntentExpired(i),
             NEW new \in free,
             payment' = [i \in Intents |->
                  IF i \in ActivePayments(w) THEN [payment[i] EXCEPT !.status = "EXPIRED"]
                  ELSE IF i = new THEN fresh ELSE payment[i]]
      PROVE  GachaInv'
  <2>1. /\ fresh \in PaymentRow /\ fresh.status = "PENDING" /\ fresh.signature = 0
        /\ fresh.payer = w /\ fresh.rip = 0
    <3> HIDE DEF w
    <3> QED
      BY <1>1, InitialRows DEF NoPayment, PaymentRow, PaymentStatuses
  <2> HIDE DEF fresh
  <2>2. payment[new].status = "NONE" /\ payment[new].signature = 0 /\ new \in Intents
    BY <1>3 DEF GachaInv, PaymentInv, StatusTellsClaim
  <2>3. ASSUME NEW j \in Intents
        PROVE  /\ payment'[j] \in PaymentRow
               /\ payment'[j] = payment[j] \/ PaymentMay(j, payment'[j])
               /\ \/ payment'[j].status = "EXPIRED"
                  \/ j = new /\ payment'[j].payer = w
                  \/ payment'[j] = payment[j] /\ j \notin ActivePayments(w)
    <3>1. CASE j \in ActivePayments(w)
      <4>1. Active(j) /\ payment[j].signature = 0
        BY <1>3, <3>1 DEF ActivePayments, UnclaimedIntentExpired
      <4>2. payment'[j] = [payment[j] EXCEPT !.status = "EXPIRED"]
        BY <1>3, <3>1
      <4> QED
        BY <4>1, <4>2, ExpiredRow
    <3>2. CASE j \notin ActivePayments(w) /\ j = new
      <4>1. payment'[j] = fresh
        BY <1>3, <3>2
      <4>2. PaymentMay(j, fresh)
        BY <2>1, <2>2, <3>2 DEF PaymentMay
      <4> QED
        BY <2>1, <3>2, <4>1, <4>2
    <3>3. CASE j \notin ActivePayments(w) /\ j # new
      BY <1>1, <1>3, <3>3
    <3> QED
      BY <3>1, <3>2, <3>3
  <2>4. payment' \in [Intents -> PaymentRow]
    BY <1>3, <2>3
  <2>5. OneOpenIntent'
    <3> SUFFICES ASSUME NEW i \in Intents, NEW j \in Intents, Active(i)', Active(j)',
                        payment'[i].payer = payment'[j].payer
                 PROVE  i = j
      BY DEF OneOpenIntent
    <3>1. \A k \in {i, j} : \/ k = new /\ payment'[k].payer = w
                            \/ Active(k) /\ payment'[k] = payment[k] /\ payment[k].payer # w
      BY <2>3 DEF Active, ActivePayments
    <3> QED
      BY <3>1 DEF GachaInv, PaymentInv, OneOpenIntent
  <2> QED
    BY <1>1, <2>3, <2>4, <2>5, QuietCall, PaymentRowsStep
<1> QED
  BY <1>2, <1>3 DEF CreateIntent

\* The three reads that prove the absence of a claimed transaction.
LEMMA ReadChainStep ==
  ASSUME GachaInv, UNCHANGED ripVars, NEW c \in GachaCalls, ReadChain(c)
  PROVE  GachaInv'
<1>1. /\ UNCHANGED <<payment, transfer>> /\ payment \in [Intents -> PaymentRow]
      /\ KnowsTheTransfer(gcall[c])
  BY PaymentTypes DEF GachaInv, PaymentInv, ReadChain
<1>2. PICK pc \in {"blockhash", "history", "release"} :
        /\ GotoGacha(c, pc) /\ gcall[c].pc \in {"statuses", "blockhash", "history"}
        /\ pc = "history" => ~Claimed(c).fresh
        /\ pc = "release" => /\ gcall[c].pc = "history"
                             /\ Claimed(c).state \notin {"final", "finalError"}
  BY DEF ReadChain, AbsenceIsProven
<1>3. pc \in GachaPcs
  BY DEF GachaPcs
<1>4. PICK x \in GachaCallRow : /\ CallBecomes(c, x) /\ x.pc = pc
                           /\ x.intent = gcall[c].intent /\ x.signature = gcall[c].signature
  BY <1>2, <1>3, CallGoes
<1>5. x.intent \in Intents /\ x.signature \in Signatures
  BY <1>1, <1>2, <1>4 DEF KnowsTheTransfer
<1>6. /\ pc \in {"history", "release"} => ~transfer[x.intent][x.signature].fresh
      /\ pc = "release" => transfer[x.intent][x.signature].state \in {"signed", "sent"}
  BY <1>1, <1>2, <1>4, <1>5 DEF KnowsTheTransfer, Claimed, GachaInv, PaymentInv, ClaimedAloneMoves
<1>7. KnowsTheTransfer(gcall[c])' /\ gcall'[c].pc \notin RipPcs
  BY <1>1, <1>2, <1>4, <1>5, <1>6 DEF KnowsTheTransfer, CallBecomes, RipPcs
<1>8. OneOpenIntent'
  BY <1>1 DEF GachaInv, PaymentInv, OneOpenIntent, Active
<1> QED
  BY <1>1, <1>4, <1>7, <1>8, PaymentRowsStep DEF CallBecomes

LEMMA ReleaseClaimedStep ==
  ASSUME GachaInv, UNCHANGED ripVars, NEW c \in GachaCalls, ReleaseClaimed(c)
  PROVE  GachaInv'
<1> DEFINE i == gcall[c].intent
           s == gcall[c].signature
           row == payment[i]
           x == [row EXCEPT !.status = "FAILED"]
<1>1. /\ UNCHANGED transfer /\ payment \in [Intents -> PaymentRow] /\ i \in Intents /\ s \in Signatures
      /\ ~transfer[i][s].fresh /\ transfer[i][s].state \in {"signed", "sent"} /\ row \in PaymentRow
  BY PaymentTypes DEF GachaInv, PaymentInv, ReleaseClaimed, KnowsTheTransfer
<1>2. CASE UNCHANGED payment /\ EndGachaCall(c)
  <2>1. OneOpenIntent'
    BY <1>2 DEF GachaInv, PaymentInv, OneOpenIntent, Active
  <2>2. CallBecomes(c, GachaIdle) /\ GachaIdle.pc = "idle" /\ GachaIdle \in GachaCallRow
    BY <1>2, CallEnded, InitialRows
  <2> QED
    BY <1>1, <1>2, <2>1, <2>2, QuietCall, PaymentRowsStep
<1>3. CASE SameClaim(c) /\ payment' = [payment EXCEPT ![i].status = "FAILED"] /\ GotoGacha(c, "create")
  <2>1. row.status = "PENDING" /\ row.signature = s /\ "FAILED" \in PaymentStatuses
    BY <1>3 DEF SameClaim, PaymentStatuses
  <2>2. payment' = [payment EXCEPT ![i] = x]
    BY <1>1, <1>3
  <2>3. x \in PaymentRow /\ x.status = "FAILED" /\ x.signature = row.signature /\ x.rip = row.rip
    <3> HIDE DEF row
    <3> QED
      BY <1>1, <2>1 DEF PaymentRow
  <2> HIDE DEF x
  <2>4. PaymentMay(i, x)
    BY <1>1, <2>1, <2>3 DEF PaymentMay, NeverLands
  <2>5. "create" \in GachaPcs
    BY DEF GachaPcs
  <2>6. PICK y \in GachaCallRow : CallBecomes(c, y) /\ y.pc = "create"
    BY <1>3, <2>5, CallGoes
  <2> HIDE DEF i, s
  <2> QED
    BY <1>1, <2>2, <2>3, <2>4, <2>6, QuietCall, OneRowStep
<1> QED
  BY <1>2, <1>3 DEF ReleaseClaimed

\* A claim is the first signature of an open intent; the broadcast is of that one.
LEMMA ClaimSignatureStep ==
  ASSUME GachaInv, UNCHANGED ripVars, NEW i \in Intents, NEW s \in Signatures,
         ClaimSignature(i, s)
  PROVE  GachaInv'
<1> DEFINE row == payment[i]
           x == [row EXCEPT !.status = "EXPIRED"]
           y == [row EXCEPT !.signature = s]
<1>1. /\ UNCHANGED gcall /\ gcall \in [GachaCalls -> GachaCallRow] /\ row \in PaymentRow
      /\ payment \in [Intents -> PaymentRow]
      /\ transfer \in [Intents -> [Signatures -> TransferRow]]
      /\ transfer[i][s].state \in {"signed", "sent"}
  BY PaymentTypes, RipTypes DEF GachaInv, PaymentInv, RipInv, ClaimSignature, SignedFor
<1>2. row.status = "PENDING" /\ row.signature \in {0, s}
  BY <1>1 DEF ClaimSignature, Active, GachaInv, PaymentInv, StatusTellsClaim
<1>3. CASE row.signature = 0 /\ row.late
  <2>1. payment' = [payment EXCEPT ![i] = x] /\ UNCHANGED transfer /\ Active(i)
    BY <1>2, <1>3 DEF ClaimSignature, Active
  <2>2. x \in PaymentRow /\ x.status = "EXPIRED" /\ PaymentMay(i, x)
    BY <1>3, <2>1, ExpiredRow
  <2> HIDE DEF x
  <2> QED
    BY <1>1, <2>1, <2>2, OneRowStep
<1>4. CASE ~(row.signature = 0 /\ row.late)
  <2>1. payment' = [payment EXCEPT ![i] = y] /\ (StateBecomes(i, s, "sent") \/ UNCHANGED transfer)
    BY <1>2, <1>4 DEF ClaimSignature, StateBecomes
  <2>2. /\ y \in PaymentRow /\ y.status = "PENDING" /\ y.signature = s
        /\ y.payer = row.payer /\ y.rip = row.rip
    <3> HIDE DEF row
    <3> QED
      BY <1>1, <1>2 DEF PaymentRow
  <2> HIDE DEF y
  <2>3. /\ payment' \in [Intents -> PaymentRow] /\ payment'[i] = y
        /\ \A j \in Intents : j # i => payment'[j] = payment[j]
    BY <1>1, <2>1, <2>2
  <2>4. PICK z \in TransferRow : /\ z.state \in {"signed", "sent"} /\ z.fresh = transfer[i][s].fresh
                                 /\ TransferBecomes(i, s, z)
    <3>1. CASE StateBecomes(i, s, "sent")
      BY <3>1, StateWritten DEF TransferStates
    <3>2. CASE UNCHANGED transfer
      <4>1. transfer[i][s] \in TransferRow /\ TransferBecomes(i, s, transfer[i][s])
        BY <1>1, <3>2 DEF TransferBecomes
      <4> QED
        BY <1>1, <4>1
    <3> QED
      BY <2>1, <3>1, <3>2
  <2>5. /\ transfer' \in [Intents -> [Signatures -> TransferRow]]
        /\ \A j \in Intents, r \in Signatures :
             transfer'[j][r] = IF j = i /\ r = s THEN z ELSE transfer[j][r]
    BY <1>1, <2>4 DEF TransferBecomes
  <2>6. ChainKeeps
    BY <1>1, <2>4, <2>5 DEF ChainKeeps
  <2>7. ClaimedAloneMoves'
    BY <1>2, <2>2, <2>3, <2>4, <2>5, Numbered DEF GachaInv, PaymentInv, ClaimedAloneMoves
  <2>8. StatusTellsClaim'
    BY <2>2, <2>3, <2>5 DEF GachaInv, PaymentInv, StatusTellsClaim, NeverLands
  <2>9. OneOpenIntent'
    BY <1>2, <2>2, <2>3, OneOpenKept DEF Active
  <2> QED
    BY <1>1, <1>2, <2>2, <2>3, <2>5, <2>6, <2>7, <2>8, <2>9, PaymentStepKeeps
<1> QED
  BY <1>3, <1>4

-----------------------------------------------------------------------------
(***************************************************************************)
(* Verification.                                                           *)
(***************************************************************************)
\* A step of a request that writes no row.
LEMMA CallStep ==
  ASSUME GachaInv, UNCHANGED ripVars, UNCHANGED <<payment, transfer>>,
         NEW c \in GachaCalls, NEW x \in GachaCallRow, CallBecomes(c, x),
         x.pc \notin RipPcs, KnowsTheTransfer(x)
  PROVE  GachaInv'
<1>1. KnowsTheTransfer(gcall[c])'
  BY DEF CallBecomes, KnowsTheTransfer
<1>2. OneOpenIntent'
  BY DEF GachaInv, PaymentInv, OneOpenIntent, Active
<1>3. payment' \in [Intents -> PaymentRow]
  BY PaymentTypes DEF GachaInv, PaymentInv
<1> QED
  BY <1>1, <1>2, <1>3, PaymentRowsStep DEF CallBecomes

LEMMA CallEndsStep ==
  ASSUME GachaInv, UNCHANGED ripVars, UNCHANGED <<payment, transfer>>,
         NEW c \in GachaCalls, EndGachaCall(c)
  PROVE  GachaInv'
<1>1. CallBecomes(c, GachaIdle) /\ GachaIdle.pc = "idle" /\ GachaIdle \in GachaCallRow
  BY CallEnded, InitialRows
<1> QED
  BY <1>1, CallStep DEF KnowsTheTransfer, RipPcs

LEMMA BeginVerifyStep ==
  ASSUME GachaInv, UNCHANGED ripVars, NEW c \in GachaCalls, NEW i \in Intents,
         NEW s \in Signatures, BeginVerify(c, i, s)
  PROVE  GachaInv'
<1>1. CASE /\ gcall' = [gcall EXCEPT ![c] = [GachaIdle EXCEPT !.pc = "fetch", !.intent = i, !.signature = s]]
           /\ UNCHANGED <<payment, transfer>>
  <2> DEFINE x == [GachaIdle EXCEPT !.pc = "fetch", !.intent = i, !.signature = s]
  <2>1. x \in GachaCallRow /\ x.pc = "fetch" /\ x.intent = i /\ x.signature = s
    BY InitialRows DEF GachaCallRow, GachaPcs
  <2>2. gcall' = [gcall EXCEPT ![c] = x]
    BY <1>1
  <2> HIDE DEF x
  <2>3. CallBecomes(c, x)
    BY <2>1, <2>2, CallWritten
  <2> QED
    BY <1>1, <2>1, <2>3, CallStep DEF KnowsTheTransfer, RipPcs
<1>2. CASE /\ UnclaimedIntentExpired(i) /\ payment' = [payment EXCEPT ![i].status = "EXPIRED"]
           /\ UNCHANGED gcall /\ UNCHANGED transfer
  <2> DEFINE x == [payment[i] EXCEPT !.status = "EXPIRED"]
  <2>1. Active(i) /\ payment[i].signature = 0
    BY <1>2 DEF UnclaimedIntentExpired, Active
  <2>2. x \in PaymentRow /\ x.status = "EXPIRED" /\ PaymentMay(i, x)
    BY <2>1, ExpiredRow
  <2>3. payment' = [payment EXCEPT ![i] = x] /\ gcall' \in [GachaCalls -> GachaCallRow]
    BY <1>2, RipTypes DEF GachaInv, RipInv
  <2> HIDE DEF x
  <2> QED
    BY <1>2, <2>2, <2>3, OneRowStep
<1> QED
  BY <1>1, <1>2 DEF BeginVerify

LEMMA FetchTransactionStep ==
  ASSUME GachaInv, UNCHANGED ripVars, NEW c \in GachaCalls, FetchTransaction(c)
  PROVE  GachaInv'
<1>1. UNCHANGED <<payment, transfer>> /\ KnowsTheTransfer(gcall[c]) /\ gcall[c].pc = "fetch"
  BY DEF GachaInv, PaymentInv, FetchTransaction
<1>2. CASE EndGachaCall(c)
  BY <1>1, <1>2, CallEndsStep
<1>3. ASSUME NEW pc \in {"verified", "failed"}, GotoGacha(c, pc),
             Claimed(c).state = IF pc = "verified" THEN "final" ELSE "finalError"
      PROVE  GachaInv'
  <2>1. PICK x \in GachaCallRow : /\ CallBecomes(c, x) /\ x.pc = pc
                             /\ x.intent = gcall[c].intent /\ x.signature = gcall[c].signature
    BY <1>3, CallGoes DEF GachaPcs
  <2>2. KnowsTheTransfer(x) /\ x.pc \notin RipPcs
    BY <1>1, <1>3, <2>1 DEF KnowsTheTransfer, Claimed, RipPcs
  <2> QED
    BY <1>1, <2>1, <2>2, CallStep
<1> QED
  BY <1>2, <1>3 DEF FetchTransaction, Evidence

LEMMA WriteVerificationStep ==
  ASSUME GachaInv, UNCHANGED ripVars, NEW c \in GachaCalls, WriteVerification(c)
  PROVE  GachaInv'
<1> DEFINE i == gcall[c].intent
           s == gcall[c].signature
           row == payment[i]
           outcome == IF gcall[c].pc = "verified" THEN "VERIFIED" ELSE "FAILED"
           x == [row EXCEPT !.status = outcome]
<1>1. /\ UNCHANGED transfer /\ i \in Intents /\ s \in Signatures /\ row \in PaymentRow
      /\ outcome = "VERIFIED" => transfer[i][s].state = "final"
      /\ outcome = "FAILED" => transfer[i][s].state = "finalError"
      /\ outcome \in {"VERIFIED", "FAILED"} /\ EndGachaCall(c)
  BY PaymentTypes DEF GachaInv, PaymentInv, WriteVerification, KnowsTheTransfer
<1>2. CASE ~SameClaim(c)
  BY <1>1, <1>2, CallEndsStep DEF WriteVerification
<1>3. CASE SameClaim(c)
  <2>1. row.status = "PENDING" /\ row.signature = s /\ payment' = [payment EXCEPT ![i] = x]
    BY <1>1, <1>3 DEF SameClaim, WriteVerification
  <2>2. /\ x \in PaymentRow /\ x.status = outcome /\ x.signature = s
        /\ x.payer = row.payer /\ x.rip = row.rip
    <3> HIDE DEF row, outcome, s
    <3> QED
      BY <1>1, <2>1 DEF PaymentRow, PaymentStatuses
  <2> HIDE DEF x
  <2>3. PaymentMay(i, x) /\ Active(i)
    <3> HIDE DEF outcome
    <3> QED
      BY <1>1, <2>1, <2>2 DEF PaymentMay, NeverLands, Active
  <2>4. CallBecomes(c, GachaIdle) /\ GachaIdle.pc = "idle" /\ GachaIdle \in GachaCallRow
    BY <1>1, CallEnded, InitialRows
  <2>5. x.payer = payment[i].payer
    BY <2>2
  <2> HIDE DEF i, s, row, outcome
  <2> QED
    BY <1>1, <2>1, <2>2, <2>3, <2>4, <2>5, QuietCall, OneRowStep
<1> QED
  BY <1>2, <1>3

LEMMA PaymentStepsKeep ==
  ASSUME GachaInv, UNCHANGED ripVars, PaymentStep(Payers)
  PROVE  GachaInv'
<1>1. ASSUME NEW c \in GachaCalls, PaymentCallEnds(c) PROVE GachaInv'
  BY <1>1, CallEndsStep DEF PaymentCallEnds
<1>2. CASE \E c \in GachaCalls :
             \/ \E w \in Payers : BeginIntent(c, w)
             \/ \E i \in Intents, s \in Signatures : BeginVerify(c, i, s)
             \/ ReadChain(c) \/ ReleaseClaimed(c) \/ CreateIntent(c)
             \/ FetchTransaction(c) \/ WriteVerification(c) \/ PaymentCallEnds(c)
  BY <1>1, <1>2, BeginIntentStep, BeginVerifyStep, ReadChainStep, ReleaseClaimedStep,
     CreateIntentStep, FetchTransactionStep, WriteVerificationStep
<1>3. CASE \E i \in Intents :
             \/ IntentIsLate(i)
             \/ \E s \in Signatures :
                  \/ PrepareTransaction(i, s) \/ ClaimSignature(i, s)
                  \/ TransferLands(i, s) \/ TransferFinalizes(i, s) \/ BlockhashExpires(i, s)
  BY <1>3, IntentIsLateStep, PrepareTransactionStep, ClaimSignatureStep, TransferLandsStep,
     BlockhashExpiresStep
<1> QED
  BY <1>2, <1>3 DEF PaymentStep

-----------------------------------------------------------------------------
(***************************************************************************)
(* Rips.                                                                   *)
(***************************************************************************)
\* What a request may know of a rip stays true of it.
RipsProceed == \A r \in Rips :
  /\ Made(r) => rip'[r].status # "NONE"
  /\ Made(r) /\ rip[r].status # "SELECTED" => rip'[r].status # "SELECTED"
  /\ handed[r].state \in {"yes", "refused"} => handed'[r].state = handed[r].state

LEMMA RipStepKeeps ==
  ASSUME GachaInv, UNCHANGED transfer, RipTypeOK', RipsAndSpending', HandedFollowsRip', RipsProceed,
         payment' \in [Intents -> PaymentRow],
         \A i \in Intents :
           \/ payment'[i] = payment[i]
           \/ /\ payment[i].status = "VERIFIED" /\ payment'[i].status = "CONSUMED"
              /\ payment'[i].signature = payment[i].signature,
         \A c \in GachaCalls : \/ gcall'[c] = gcall[c]
                               \/ gcall'[c].pc \notin ClaimPcs /\ KnowsTheRip(gcall[c])'
  PROVE  GachaInv'
<1>1. PaymentInv'
  BY PaymentsKept
<1>2. ASSUME NEW c \in GachaCalls, gcall'[c] = gcall[c] PROVE KnowsTheRip(gcall[c])'
  <2>1. KnowsTheRip(gcall[c])
    BY DEF GachaInv, RipInv
  <2> QED
    BY <1>2, <2>1 DEF KnowsTheRip, RipsProceed, Made
<1>3. RipInv'
  BY <1>2 DEF RipInv
<1> QED
  BY <1>1, <1>3 DEF GachaInv

\* A request, or a step of none, whose payments all stay as they are.
LEMMA RipRowsStep ==
  ASSUME GachaInv, UNCHANGED <<payment, transfer>>, RipTypeOK', RipsAndSpending',
         HandedFollowsRip', RipsProceed,
         \A c \in GachaCalls : \/ gcall'[c] = gcall[c]
                               \/ gcall'[c].pc \notin ClaimPcs /\ KnowsTheRip(gcall[c])'
  PROVE  GachaInv'
<1>1. payment' \in [Intents -> PaymentRow]
  BY PaymentTypes DEF GachaInv, PaymentInv
<1> QED
  BY <1>1, RipStepKeeps

\* Only the request moves, or the contents of the machine are sealed and committed to.
LEMMA MachineStep ==
  ASSUME GachaInv, UNCHANGED <<payment, transfer, rip, seed, handed>>,
         odds' \in Snapshots \cup {0}, odds # 0 => odds' = odds, sealed' \in Seq(Snapshots),
         NEW c \in GachaCalls, NEW x \in GachaCallRow, CallBecomes(c, x),
         x.pc \notin ClaimPcs, KnowsTheRip(x)
  PROVE  GachaInv'
<1>1. RipTypeOK'
  BY RipTypes DEF GachaInv, RipInv, RipTypeOK, GachaCallRow, RipRow, SeedRow, HandedRow, CallBecomes
<1>2. RipsAndSpending'
  BY DEF GachaInv, RipInv, RipsAndSpending, Made
<1>3. HandedFollowsRip' /\ RipsProceed
  BY DEF GachaInv, RipInv, HandedFollowsRip, RipsProceed, Made
<1>4. KnowsTheRip(gcall[c])'
  BY DEF CallBecomes, KnowsTheRip, Made
<1> QED
  BY <1>1, <1>2, <1>3, <1>4, RipRowsStep DEF CallBecomes

LEMMA RipCallEndsStep ==
  ASSUME GachaInv, UNCHANGED <<payment, transfer, rip, seed, handed>>,
         odds' \in Snapshots \cup {0}, odds # 0 => odds' = odds, sealed' \in Seq(Snapshots),
         NEW c \in GachaCalls, EndGachaCall(c)
  PROVE  GachaInv'
<1>1. CallBecomes(c, GachaIdle) /\ GachaIdle.pc = "idle" /\ GachaIdle \in GachaCallRow
  BY CallEnded, InitialRows
<1> QED
  BY <1>1, MachineStep DEF KnowsTheRip, ClaimPcs

LEMMA BeginReadinessStep ==
  ASSUME GachaInv, NEW c \in GachaCalls, BeginReadiness(c)
  PROVE  GachaInv'
<1>1. /\ UNCHANGED <<payment, transfer, ripVars>>
      /\ odds \in Snapshots \cup {0} /\ sealed \in Seq(Snapshots)
  BY RipTypes DEF GachaInv, RipInv, BeginReadiness
<1>2. PICK pc \in {"seal", "odds"}, content \in Snapshots :
        gcall' = [gcall EXCEPT ![c] = [GachaIdle EXCEPT !.pc = pc, !.snapshot = content]]
  <2>1. CASE sealed = <<>>
    BY <2>1 DEF BeginReadiness
  <2>2. CASE sealed # <<>>
    <3>1. sealed[Len(sealed)] \in Snapshots
      BY <1>1, <2>2
    <3> QED
      BY <2>2, <3>1 DEF BeginReadiness
  <2> QED
    BY <2>1, <2>2
<1> DEFINE x == [GachaIdle EXCEPT !.pc = pc, !.snapshot = content]
<1>3. x \in GachaCallRow /\ x.pc = pc /\ x.snapshot = content
  BY InitialRows DEF GachaCallRow, GachaPcs
<1>4. gcall' = [gcall EXCEPT ![c] = x]
  BY <1>2
<1> HIDE DEF x
<1>5. CallBecomes(c, x)
  BY <1>3, <1>4, CallWritten
<1> QED
  BY <1>1, <1>3, <1>5, MachineStep DEF KnowsTheRip, ClaimPcs, ripVars

LEMMA CreateFixtureSnapshotStep ==
  ASSUME GachaInv, NEW c \in GachaCalls, CreateFixtureSnapshot(c)
  PROVE  GachaInv'
<1> DEFINE y == gcall[c]
           last == sealed'[Len(sealed')]
           z == [y EXCEPT !.pc = "odds"]
           x == [z EXCEPT !.snapshot = last]
<1>1. /\ UNCHANGED <<payment, transfer, rip, seed, odds, handed>> /\ y.snapshot \in Snapshots
      /\ odds \in Snapshots \cup {0} /\ sealed \in Seq(Snapshots) /\ y \in GachaCallRow
  BY RipTypes DEF GachaInv, RipInv, CreateFixtureSnapshot, KnowsTheRip
<1>2. sealed' \in Seq(Snapshots) /\ sealed' # <<>>
  BY <1>1 DEF CreateFixtureSnapshot
<1>3. last \in Snapshots
  BY <1>2
<1>4. gcall' = [gcall EXCEPT ![c] = x]
  <2>1. gcall' = [[gcall EXCEPT ![c].pc = "odds"] EXCEPT ![c].snapshot = last]
    BY DEF CreateFixtureSnapshot
  <2>2. gcall \in [GachaCalls -> GachaCallRow]
    BY RipTypes DEF GachaInv, RipInv
  <2> HIDE DEF last
  <2> QED
    BY <2>1, <2>2
<1> HIDE DEF y, last
<1>5. z \in GachaCallRow /\ z.pc = "odds"
  BY <1>1 DEF GachaCallRow, GachaPcs
<1> HIDE DEF z
<1>6. x \in GachaCallRow /\ x.pc = "odds" /\ x.snapshot = last
  BY <1>3, <1>5 DEF GachaCallRow
<1> HIDE DEF x
<1>7. CallBecomes(c, x)
  BY <1>4, <1>6, CallWritten
<1> QED
  BY <1>1, <1>2, <1>3, <1>6, <1>7, MachineStep DEF KnowsTheRip, ClaimPcs

LEMMA CommitOddsStep ==
  ASSUME GachaInv, NEW c \in GachaCalls, CommitOdds(c)
  PROVE  GachaInv'
<1>1. /\ UNCHANGED <<payment, transfer, rip, seed, sealed, handed>> /\ EndGachaCall(c)
      /\ sealed \in Seq(Snapshots) /\ gcall[c].snapshot \in Snapshots
      /\ odds \in Snapshots \cup {0} /\ odds' = OddsWinner(gcall[c].snapshot)
  BY RipTypes DEF GachaInv, RipInv, CommitOdds, KnowsTheRip
<1> QED
  BY <1>1, RipCallEndsStep DEF OddsWinner

\* A seed row changes, of the machine's odds, and is neither consumed nor was.
LEMMA SeedStep ==
  ASSUME GachaInv, UNCHANGED <<payVars, rip, sealed, odds, handed>>,
         NEW s \in Seeds, NEW y \in SeedRow, seed' = [seed EXCEPT ![s] = y],
         "CONSUMED" \notin {seed[s].status, y.status}, odds # 0, y.snapshot = odds
  PROVE  GachaInv'
<1>1. seed' \in [Seeds -> SeedRow] /\ \A t \in Seeds : seed'[t] = IF t = s THEN y ELSE seed[t]
  BY RipTypes DEF GachaInv, RipInv
<1>2. UNCHANGED <<payment, transfer, gcall>>
  BY DEF payVars
<1>3. RipTypeOK'
  BY <1>1, <1>2 DEF GachaInv, RipInv, RipTypeOK, SeedRow
<1>4. RipsAndSpending'
  BY <1>1, <1>2 DEF GachaInv, RipInv, RipsAndSpending, Made
<1>5. HandedFollowsRip' /\ RipsProceed
  BY DEF GachaInv, RipInv, HandedFollowsRip, RipsProceed, Made
<1> QED
  BY <1>2, <1>3, <1>4, <1>5, RipRowsStep

LEMMA SeedStepsKeep ==
  ASSUME GachaInv, NEW s \in Seeds, CreateSeedCommitment(s) \/ SeedIsLate(s)
  PROVE  GachaInv'
<1>1. odds \in Snapshots \cup {0} /\ seed[s] \in SeedRow
  BY RipTypes DEF GachaInv, RipInv
<1>2. CASE CreateSeedCommitment(s)
  <2> DEFINE y == [NoSeed EXCEPT !.status = "OPEN", !.snapshot = odds]
  <2>1. y \in SeedRow /\ y.status = "OPEN" /\ y.snapshot = odds
    BY <1>1 DEF NoSeed, SeedRow
  <2>2. /\ UNCHANGED <<payVars, rip, sealed, odds, handed>>
        /\ seed' = [seed EXCEPT ![s] = y] /\ seed[s].status = "NONE" /\ odds # 0
    BY <1>2 DEF CreateSeedCommitment
  <2> HIDE DEF y
  <2> QED
    BY <2>1, <2>2, SeedStep
<1>3. CASE SeedIsLate(s)
  <2> DEFINE row == seed[s]
             y == [row EXCEPT !.late = TRUE]
  <2>1. /\ UNCHANGED <<payVars, rip, sealed, odds, handed>>
        /\ seed' = [seed EXCEPT ![s] = y] /\ row.status = "OPEN" /\ row \in SeedRow
    BY <1>1, <1>3 DEF SeedIsLate
  <2>2. odds # 0 /\ row.snapshot = odds
    BY <2>1 DEF GachaInv, RipInv, RipsAndSpending
  <2>3. y \in SeedRow /\ y.status = "OPEN" /\ y.snapshot = row.snapshot
    <3> HIDE DEF row
    <3> QED
      BY <2>1 DEF SeedRow
  <2> HIDE DEF y
  <2> QED
    BY <2>1, <2>2, <2>3, SeedStep
<1> QED
  BY <1>2, <1>3

-----------------------------------------------------------------------------
(***************************************************************************)
(* The lifecycle of a rip.                                                 *)
(***************************************************************************)
\* Row r becomes y: it keeps what it spent, and its status agrees with the provider.
RipMay(r, y) ==
  /\ Made(r) <=> y.status # "NONE"
  /\ y.seed = rip[r].seed /\ y.payment = rip[r].payment /\ y.snapshot = rip[r].snapshot
  /\ rip[r].status = "FAILED" => y.status = "FAILED"
  /\ y.status # "FAILED" => y.card = rip[r].card
  /\ y.status = "SELECTED" => rip[r].status = "SELECTED"
  /\ handed[r].state = "sent" => y.status = "REVEALED"
  /\ handed[r].state = "yes" => y.status \in {"REVEALED", "ACQUIRED", "SETTLED"}
  /\ y.status \in {"ACQUIRED", "SETTLED"} => handed[r].state = "yes"
  /\ y.status = "FAILED" => handed[r].state = "refused"

LEMMA RipRowStep ==
  ASSUME GachaInv, UNCHANGED <<payment, transfer, seed, sealed, odds, handed>>,
         NEW r \in Rips, NEW y \in RipRow, rip' = [rip EXCEPT ![r] = y], RipMay(r, y),
         gcall' \in [GachaCalls -> GachaCallRow],
         \A c \in GachaCalls : \/ gcall'[c] = gcall[c]
                               \/ gcall'[c].pc \notin ClaimPcs /\ KnowsTheRip(gcall[c])'
  PROVE  GachaInv'
<1>1. rip' \in [Rips -> RipRow] /\ \A q \in Rips : rip'[q] = IF q = r THEN y ELSE rip[q]
  BY RipTypes DEF GachaInv, RipInv
<1>2. RipTypeOK'
  BY <1>1 DEF GachaInv, RipInv, RipTypeOK, RipRow, GachaCallRow
<1>3. \A q \in Rips : /\ Made(q)' <=> Made(q)
                      /\ rip'[q].seed = rip[q].seed /\ rip'[q].payment = rip[q].payment
                      /\ rip'[q].snapshot = rip[q].snapshot
                      /\ rip[q].status = "FAILED" => rip'[q].status = "FAILED"
                      /\ rip'[q].status # "FAILED" => rip'[q].card = rip[q].card
  BY <1>1 DEF RipMay, Made
<1>4. RipsAndSpending'
  <2> USE DEF RipsAndSpending
  <2>1. RipsAndSpending
    BY DEF GachaInv, RipInv
  <2> QED
    BY <1>3, <2>1
<1>5. HandedFollowsRip'
  BY <1>1 DEF GachaInv, RipInv, HandedFollowsRip, RipMay
<1>6. RipsProceed
  BY <1>1 DEF RipsProceed, RipMay, Made
<1> QED
  BY <1>2, <1>4, <1>5, <1>6, RipRowsStep

\* A request writes its rip and goes on.
LEMMA RipWritten ==
  ASSUME GachaInv, UNCHANGED <<payment, transfer, seed, sealed, odds, handed>>,
         NEW c \in GachaCalls, gcall[c].rip \in Rips, Made(gcall[c].rip),
         NEW y \in RipRow, SetRip(c, y),
         RipMay(gcall[c].rip, y), NEW x \in GachaCallRow, CallBecomes(c, x), x.rip = gcall[c].rip,
         x.pc \in {"read", "end", "unlease", "idle"}
  PROVE  GachaInv'
<1> DEFINE r == gcall[c].rip
<1>1. rip' = [rip EXCEPT ![r] = y] /\ r \in Rips
  BY DEF SetRip
<1>2. rip'[r].status # "NONE"
  <2>1. rip'[r] = y
    BY <1>1, RipTypes DEF GachaInv, RipInv
  <2> QED
    BY <2>1 DEF RipMay, Made
<1>3. KnowsTheRip(gcall[c])' /\ gcall'[c].pc \notin ClaimPcs
  BY <1>1, <1>2 DEF CallBecomes, KnowsTheRip, ClaimPcs, Made
<1> HIDE DEF r
<1>4. RipMay(r, y)
  BY DEF r
<1> QED
  BY <1>1, <1>3, <1>4, RipRowStep DEF CallBecomes

\* A request goes on to its next step and writes nothing.
LEMMA RipCallGoesStep ==
  ASSUME GachaInv, UNCHANGED <<payment, transfer, rip, seed, sealed, odds, handed>>,
         NEW c \in GachaCalls, NEW pc \in {"read", "end", "unlease", "reveal", "acquire", "settle"},
         GotoGacha(c, pc), gcall[c].rip \in Rips, Made(gcall[c].rip),
         pc = "acquire" => rip[gcall[c].rip].status # "SELECTED"
  PROVE  GachaInv'
<1>1. /\ pc \in GachaPcs /\ pc \notin ClaimPcs
      /\ odds \in Snapshots \cup {0} /\ sealed \in Seq(Snapshots)
  BY RipTypes DEF GachaPcs, ClaimPcs, GachaInv, RipInv
<1>2. PICK x \in GachaCallRow : CallBecomes(c, x) /\ x.pc = pc /\ x.rip = gcall[c].rip
  BY <1>1, CallGoes
<1>3. KnowsTheRip(x)
  BY <1>2 DEF KnowsTheRip
<1> QED
  BY <1>1, <1>2, <1>3, MachineStep

\* What a request about a rip has in its hands.
LEMMA ItsRip ==
  ASSUME GachaInv, NEW c \in GachaCalls,
         gcall[c].pc \in {"lease", "read", "reveal", "acquire", "acquired", "fail", "settle", "unlease"}
  PROVE  /\ gcall[c].rip \in Rips /\ Made(gcall[c].rip) /\ RipOf(c) \in RipRow
         /\ RipOf(c) = rip[gcall[c].rip] /\ KnowsTheRip(gcall[c])
  BY RipTypes DEF GachaInv, RipInv, KnowsTheRip, RipOf

LEMMA ClaimRipLeaseStep ==
  ASSUME GachaInv, NEW c \in GachaCalls, ClaimRipLease(c)
  PROVE  GachaInv'
<1> DEFINE r == gcall[c].rip
           row == rip[r]
           y == [row EXCEPT !.owner = c, !.stale = FALSE]
<1>1. /\ UNCHANGED <<payment, transfer, seed, sealed, odds, handed>>
      /\ r \in Rips /\ Made(r) /\ row \in RipRow /\ RipOf(c) = row
      /\ odds \in Snapshots \cup {0} /\ sealed \in Seq(Snapshots)
  BY ItsRip, RipTypes DEF ClaimRipLease, GachaInv, RipInv
<1>2. CASE EndGachaCall(c) /\ UNCHANGED rip
  BY <1>1, <1>2, RipCallEndsStep
<1>3. CASE SetRip(c, y) /\ GotoGacha(c, "read")
  <2>1. /\ y \in RipRow /\ y.status = row.status /\ y.seed = row.seed /\ y.payment = row.payment
        /\ y.snapshot = row.snapshot /\ y.card = row.card
    <3> HIDE DEF row
    <3> QED
      BY <1>1 DEF RipRow
  <2> HIDE DEF y
  <2>2. RipMay(r, y)
    BY <1>1, <2>1 DEF RipMay, Made, GachaInv, RipInv, HandedFollowsRip
  <2>3. PICK x \in GachaCallRow : CallBecomes(c, x) /\ x.pc = "read" /\ x.rip = r
    BY <1>3, CallGoes DEF GachaPcs
  <2> QED
    BY <1>1, <1>3, <2>1, <2>2, <2>3, RipWritten
<1> QED
  BY <1>1, <1>2, <1>3 DEF ClaimRipLease

LEMMA ReadRipStep ==
  ASSUME GachaInv, NEW c \in GachaCalls, ReadRip(c)
  PROVE  GachaInv'
<1>1. /\ UNCHANGED <<payment, transfer, rip, seed, sealed, odds, handed>>
      /\ gcall[c].rip \in Rips /\ Made(gcall[c].rip) /\ RipOf(c) = rip[gcall[c].rip]
  BY ItsRip DEF ReadRip, ripVars
<1>2. PICK pc \in {"reveal", "acquire", "settle", "end"} :
        GotoGacha(c, pc) /\ (pc = "acquire" => RipOf(c).status = "REVEALED")
  BY DEF ReadRip
<1> QED
  BY <1>1, <1>2, RipCallGoesStep

\* The rip leaves status from for status to, or the request gives its lease back.
LEMMA AdvanceStep ==
  ASSUME GachaInv, UNCHANGED <<payment, transfer, seed, sealed, odds, handed>>,
         NEW c \in GachaCalls, gcall[c].rip \in Rips, Made(gcall[c].rip),
         NEW from, NEW to \in {"REVEALED", "ACQUIRED", "SETTLED"}, NEW next \in {"read", "end"},
         AdvanceLeasedRip(c, from, to, next),
         RipOf(c).status = from => /\ from # "FAILED"
                                   /\ to = "REVEALED" => from = "SELECTED"
                                   /\ to # "REVEALED" => handed[gcall[c].rip].state = "yes"
  PROVE  GachaInv'
<1> DEFINE r == gcall[c].rip
           row == rip[r]
           owner == IF to = "SETTLED" THEN 0 ELSE c
           u == [row EXCEPT !.status = to]
           v == [u EXCEPT !.stale = FALSE]
           y == [v EXCEPT !.owner = owner]
<1>1. /\ r \in Rips /\ Made(r) /\ row \in RipRow /\ RipOf(c) = row
      /\ odds \in Snapshots \cup {0} /\ sealed \in Seq(Snapshots)
  BY RipTypes DEF GachaInv, RipInv, RipOf
<1>2. CASE UNCHANGED rip /\ GotoGacha(c, "unlease")
  BY <1>1, <1>2, RipCallGoesStep
<1>3. CASE SetRip(c, y) /\ GotoGacha(c, next) /\ row.status = from
  <2>1. u \in RipRow /\ u.status = to
    <3> HIDE DEF row
    <3> QED
      BY <1>1 DEF RipRow, INCOMPLETE_RIP_STATUSES
  <2>2. u.seed = row.seed /\ u.payment = row.payment /\ u.snapshot = row.snapshot /\ u.card = row.card
    <3> HIDE DEF row
    <3> QED
      BY <1>1 DEF RipRow
  <2> HIDE DEF u
  <2>3. /\ v \in RipRow /\ v.status = to /\ v.seed = u.seed /\ v.payment = u.payment
        /\ v.snapshot = u.snapshot /\ v.card = u.card
    BY <2>1 DEF RipRow
  <2>4. owner \in GachaCalls \cup {0}
    OBVIOUS
  <2> HIDE DEF v, owner
  <2>5. /\ y \in RipRow /\ y.status = to /\ y.seed = v.seed /\ y.payment = v.payment
        /\ y.snapshot = v.snapshot /\ y.card = v.card
    BY <2>3, <2>4 DEF RipRow
  <2> HIDE DEF y
  <2>6. RipMay(r, y)
    <3>1. y.status = to /\ y.seed = row.seed /\ y.payment = row.payment /\ y.snapshot = row.snapshot
          /\ y.card = row.card
      BY <2>2, <2>3, <2>5
    <3>2. HandedFollowsRip
      BY DEF GachaInv, RipInv
    <3> QED
      BY <1>1, <1>3, <3>1, <3>2 DEF RipMay, Made, HandedFollowsRip
  <2>7. PICK x \in GachaCallRow : CallBecomes(c, x) /\ x.pc = next /\ x.rip = r
    BY <1>3, CallGoes DEF GachaPcs
  <2> QED
    BY <1>1, <1>3, <2>5, <2>6, <2>7, RipWritten
<1> QED
  BY <1>1, <1>2, <1>3 DEF AdvanceLeasedRip

LEMMA RevealStep ==
  ASSUME GachaInv, NEW c \in GachaCalls, Reveal(c)
  PROVE  GachaInv'
<1>1. /\ UNCHANGED <<payment, transfer, seed, sealed, odds, handed>>
      /\ gcall[c].rip \in Rips /\ Made(gcall[c].rip)
      /\ AdvanceLeasedRip(c, "SELECTED", "REVEALED", "read")
  BY ItsRip DEF Reveal
<1> QED
  BY <1>1, AdvanceStep

LEMMA CardAcquiredStep ==
  ASSUME GachaInv, NEW c \in GachaCalls, CardAcquired(c)
  PROVE  GachaInv'
<1>1. /\ UNCHANGED <<payment, transfer, seed, sealed, odds, handed>>
      /\ gcall[c].rip \in Rips /\ Made(gcall[c].rip)
      /\ AdvanceLeasedRip(c, "REVEALED", "ACQUIRED", "read")
      /\ handed[gcall[c].rip].state = "yes"
  BY ItsRip DEF CardAcquired, KnowsTheRip
<1> QED
  BY <1>1, AdvanceStep

LEMMA SettleStep ==
  ASSUME GachaInv, NEW c \in GachaCalls, Settle(c)
  PROVE  GachaInv'
<1>1. /\ UNCHANGED <<payment, transfer, seed, sealed, odds, handed>>
      /\ gcall[c].rip \in Rips /\ Made(gcall[c].rip) /\ RipOf(c) = rip[gcall[c].rip]
  BY ItsRip DEF Settle
<1>2. CASE UNCHANGED rip /\ GotoGacha(c, "unlease")
  BY <1>1, <1>2, RipCallGoesStep
<1>3. CASE AdvanceLeasedRip(c, "ACQUIRED", "SETTLED", "end")
  <2>1. RipOf(c).status = "ACQUIRED" => handed[gcall[c].rip].state = "yes"
    BY <1>1 DEF GachaInv, RipInv, HandedFollowsRip
  <2> QED
    BY <1>1, <1>3, <2>1, AdvanceStep
<1> QED
  BY <1>2, <1>3 DEF Settle

LEMMA FailLeasedRipStep ==
  ASSUME GachaInv, NEW c \in GachaCalls, FailLeasedRip(c)
  PROVE  GachaInv'
<1> DEFINE r == gcall[c].rip
           row == rip[r]
           u == [row EXCEPT !.status = "FAILED", !.owner = 0]
           y == [u EXCEPT !.stale = FALSE, !.card = 0]
           z == [row EXCEPT !.status = "FAILED", !.owner = 0, !.stale = FALSE, !.card = 0]
<1>1. /\ UNCHANGED <<payment, transfer, seed, sealed, odds, handed>>
      /\ r \in Rips /\ Made(r) /\ row \in RipRow /\ RipOf(c) = row
      /\ handed[r].state = "refused" /\ GotoGacha(c, "unlease")
  BY ItsRip DEF FailLeasedRip, KnowsTheRip
<1>2. CASE UNCHANGED rip
  BY <1>1, <1>2, RipCallGoesStep
<1>3. CASE SetRip(c, z)
  <2>1. /\ u \in RipRow /\ u.status = "FAILED" /\ u.seed = row.seed
        /\ u.payment = row.payment /\ u.snapshot = row.snapshot
    <3> HIDE DEF row
    <3> QED
      BY <1>1 DEF RipRow
  <2>2. SetRip(c, y)
    BY <1>3
  <2> HIDE DEF u
  <2>3. /\ y \in RipRow /\ y.status = "FAILED" /\ y.seed = u.seed /\ y.payment = u.payment
        /\ y.snapshot = u.snapshot
    BY <2>1 DEF RipRow
  <2> HIDE DEF y
  <2>4. RipMay(r, y)
    BY <1>1, <2>1, <2>3 DEF RipMay, Made
  <2>5. PICK x \in GachaCallRow : CallBecomes(c, x) /\ x.pc = "unlease" /\ x.rip = r
    BY <1>1, CallGoes DEF GachaPcs
  <2> QED
    BY <1>1, <2>2, <2>3, <2>4, <2>5, RipWritten
<1> QED
  BY <1>1, <1>2, <1>3 DEF FailLeasedRip

LEMMA ReleaseRipLeaseStep ==
  ASSUME GachaInv, NEW c \in GachaCalls, ReleaseRipLease(c)
  PROVE  GachaInv'
<1> DEFINE r == gcall[c].rip
           row == rip[r]
           y == [row EXCEPT !.owner = 0, !.stale = FALSE]
<1>1. /\ UNCHANGED <<payment, transfer, seed, sealed, odds, handed>>
      /\ r \in Rips /\ Made(r) /\ row \in RipRow /\ RipOf(c) = row /\ EndGachaCall(c)
      /\ odds \in Snapshots \cup {0} /\ sealed \in Seq(Snapshots)
  BY ItsRip, RipTypes DEF ReleaseRipLease, GachaInv, RipInv
<1>2. CASE UNCHANGED rip
  BY <1>1, <1>2, RipCallEndsStep
<1>3. CASE SetRip(c, y)
  <2>1. /\ y \in RipRow /\ y.status = row.status /\ y.seed = row.seed /\ y.payment = row.payment
        /\ y.snapshot = row.snapshot /\ y.card = row.card
    <3> HIDE DEF row
    <3> QED
      BY <1>1 DEF RipRow
  <2> HIDE DEF y
  <2>2. RipMay(r, y)
    BY <1>1, <2>1 DEF RipMay, Made, GachaInv, RipInv, HandedFollowsRip
  <2>3. CallBecomes(c, GachaIdle) /\ GachaIdle.pc = "idle" /\ GachaIdle \in GachaCallRow
    BY <1>1, CallEnded, InitialRows
  <2>4. KnowsTheRip(gcall[c])' /\ gcall'[c].pc \notin ClaimPcs
    BY <2>3 DEF CallBecomes, KnowsTheRip, ClaimPcs
  <2>5. rip' = [rip EXCEPT ![r] = y]
    BY <1>3 DEF SetRip
  <2> HIDE DEF r
  <2> QED
    BY <1>1, <2>1, <2>2, <2>3, <2>4, <2>5, RipRowStep DEF CallBecomes
<1> QED
  BY <1>1, <1>2, <1>3 DEF ReleaseRipLease

LEMMA RipLeaseExpiresStep ==
  ASSUME GachaInv, NEW r \in Rips, RipLeaseExpires(r)
  PROVE  GachaInv'
<1> DEFINE row == rip[r]
           y == [row EXCEPT !.stale = TRUE]
<1>1. /\ UNCHANGED <<payment, transfer, gcall, seed, sealed, odds, handed>> /\ row \in RipRow
      /\ rip' = [rip EXCEPT ![r] = y] /\ gcall \in [GachaCalls -> GachaCallRow]
  BY RipTypes DEF RipLeaseExpires, payVars, GachaInv, RipInv
<1>2. /\ y \in RipRow /\ y.status = row.status /\ y.seed = row.seed /\ y.payment = row.payment
      /\ y.snapshot = row.snapshot /\ y.card = row.card
  <2> HIDE DEF row
  <2> QED
    BY <1>1 DEF RipRow
<1> HIDE DEF y
<1>3. RipMay(r, y)
  BY <1>2 DEF RipMay, Made, GachaInv, RipInv, HandedFollowsRip
<1> QED
  BY <1>1, <1>2, <1>3, RipRowStep

-----------------------------------------------------------------------------
(***************************************************************************)
(* The provider.                                                           *)
(***************************************************************************)
\* What the provider did with rip r becomes h; it takes nothing back, and acts on rips that
\* are revealed.
HandedMay(r, h) ==
  /\ handed[r].state \in {"yes", "refused"} => h.state = handed[r].state
  /\ h.state = "sent" => rip[r].status = "REVEALED"
  /\ h.state = "yes" => rip[r].status \in {"REVEALED", "ACQUIRED", "SETTLED"}
  /\ h.state \in {"sent", "yes"} => h.card = rip[r].card
  /\ rip[r].status \in {"ACQUIRED", "SETTLED"} => h.state = "yes"
  /\ rip[r].status = "FAILED" => h.state = "refused"

LEMMA HandedStep ==
  ASSUME GachaInv, UNCHANGED <<payment, transfer, rip, seed, sealed, odds>>,
         NEW r \in Rips, NEW h \in HandedRow, handed' = [handed EXCEPT ![r] = h], HandedMay(r, h),
         gcall' \in [GachaCalls -> GachaCallRow],
         \A c \in GachaCalls : \/ gcall'[c] = gcall[c]
                               \/ gcall'[c].pc \notin ClaimPcs /\ KnowsTheRip(gcall[c])'
  PROVE  GachaInv'
<1>1. handed' \in [Rips -> HandedRow] /\ \A q \in Rips : handed'[q] = IF q = r THEN h ELSE handed[q]
  BY RipTypes DEF GachaInv, RipInv
<1>2. RipTypeOK'
  BY <1>1 DEF GachaInv, RipInv, RipTypeOK, HandedRow, GachaCallRow
<1>3. RipsAndSpending'
  BY DEF GachaInv, RipInv, RipsAndSpending, Made
<1>4. HandedFollowsRip'
  BY <1>1 DEF GachaInv, RipInv, HandedFollowsRip, HandedMay
<1>5. RipsProceed
  BY <1>1 DEF RipsProceed, HandedMay, Made
<1> QED
  BY <1>2, <1>3, <1>4, <1>5, RipRowsStep

LEMMA AcquireCardStep ==
  ASSUME GachaInv, NEW c \in GachaCalls, AcquireCard(c)
  PROVE  GachaInv'
<1> DEFINE r == gcall[c].rip
<1>1. /\ UNCHANGED <<payment, transfer, rip, seed, sealed, odds>>
      /\ r \in Rips /\ Made(r) /\ rip[r].status # "SELECTED" /\ rip[r] \in RipRow
      /\ handed[r] \in HandedRow /\ RipOf(c) = rip[r] /\ gcall[c].pc = "acquire"
  BY ItsRip, RipTypes DEF AcquireCard, KnowsTheRip, GachaInv, RipInv
<1>2. PICK st \in {"sent", "yes", "refused"}, pc \in {"acquired", "fail", "unlease"} :
        /\ handed' = [handed EXCEPT ![r] = [state |-> st, card |-> rip[r].card]]
        /\ GotoGacha(c, pc)
        /\ st = "yes" => handed[r].state # "refused"
        /\ st = "refused" => handed[r].state # "yes"
        /\ st = "sent" => handed[r].state \in {"no", "sent"}
        /\ pc = "acquired" => st = "yes"
        /\ pc = "fail" => st = "refused"
  BY <1>1 DEF AcquireCard, AfterProviderError
<1> DEFINE h == [state |-> st, card |-> rip[r].card]
<1>3. h \in HandedRow /\ h.state = st /\ h.card = rip[r].card
  BY <1>1, <1>2 DEF HandedRow, RipRow
<1>4. handed' = [handed EXCEPT ![r] = h]
  BY <1>2
<1> HIDE DEF h
<1>5. rip[r].status \in {"REVEALED", "ACQUIRED", "SETTLED", "FAILED"}
  BY <1>1 DEF RipRow, Made, INCOMPLETE_RIP_STATUSES
<1>6. HandedMay(r, h)
  BY <1>1, <1>2, <1>3, <1>5 DEF HandedMay, HandedRow, GachaInv, RipInv, HandedFollowsRip
<1>7. PICK x \in GachaCallRow : CallBecomes(c, x) /\ x.pc = pc /\ x.rip = r
  BY <1>2, CallGoes DEF GachaPcs
<1>8. handed'[r].state = st
  BY <1>1, <1>3, <1>4, RipTypes DEF GachaInv, RipInv
<1>9. KnowsTheRip(gcall[c])' /\ gcall'[c].pc \notin ClaimPcs
  BY <1>1, <1>2, <1>7, <1>8 DEF CallBecomes, KnowsTheRip, ClaimPcs, Made
<1> HIDE DEF r
<1> QED
  BY <1>1, <1>3, <1>4, <1>6, <1>7, <1>9, HandedStep DEF CallBecomes

LEMMA ProviderHandsOverStep ==
  ASSUME GachaInv, NEW r \in Rips, ProviderHandsOver(r)
  PROVE  GachaInv'
<1> DEFINE row == handed[r]
           h == [row EXCEPT !.state = "yes"]
<1>1. /\ UNCHANGED <<payment, transfer, gcall, rip, seed, sealed, odds>> /\ row \in HandedRow
      /\ handed' = [handed EXCEPT ![r] = h] /\ gcall \in [GachaCalls -> GachaCallRow] /\ row.state = "sent"
  BY RipTypes DEF ProviderHandsOver, payVars, GachaInv, RipInv
<1>2. h \in HandedRow /\ h.state = "yes" /\ h.card = row.card
  <2> HIDE DEF row
  <2> QED
    BY <1>1 DEF HandedRow
<1> HIDE DEF h
<1>3. HandedMay(r, h)
  BY <1>1, <1>2 DEF HandedMay, GachaInv, RipInv, HandedFollowsRip
<1> QED
  BY <1>1, <1>2, <1>3, HandedStep

-----------------------------------------------------------------------------
(***************************************************************************)
(* A rip is created.                                                       *)
(***************************************************************************)
\* A rip that exists answers a request of its wallet.
LEMMA ReplayedStep ==
  ASSUME GachaInv, NEW c \in GachaCalls, UNCHANGED <<payment, transfer, rip, seed, sealed, odds, handed>>,
         NEW i \in Intents, NEW w, NEW k, NEW r \in ReplayedRip(i, w, k),
         gcall' = [gcall EXCEPT ![c] = [GachaIdle EXCEPT !.pc = "lease", !.rip = r]]
  PROVE  GachaInv'
<1> DEFINE x == [GachaIdle EXCEPT !.pc = "lease", !.rip = r]
<1>1. r \in Rips /\ Made(r)
  <2>1. CASE payment[i].rip # 0
    BY <2>1 DEF ReplayedRip, GachaInv, RipInv, RipsAndSpending
  <2>2. CASE payment[i].rip = 0
    BY <2>2 DEF ReplayedRip, Made
  <2> QED
    BY <2>1, <2>2
<1>2. x \in GachaCallRow /\ x.pc = "lease" /\ x.rip = r
  BY <1>1, InitialRows DEF GachaCallRow, GachaPcs
<1> HIDE DEF x
<1>3. gcall' = [gcall EXCEPT ![c] = x]
  BY DEF x
<1>4. CallBecomes(c, x)
  BY <1>2, <1>3, CallWritten
<1>5. odds \in Snapshots \cup {0} /\ sealed \in Seq(Snapshots)
  BY RipTypes DEF GachaInv, RipInv
<1> QED
  BY <1>1, <1>2, <1>4, <1>5, MachineStep DEF KnowsTheRip, ClaimPcs

\* The rows that one transaction writes: rip r spends intent i and seed s on a card.
LEMMA SpendingStep ==
  ASSUME GachaInv, UNCHANGED <<transfer, sealed, odds, handed>>, odds # 0,
         NEW c \in GachaCalls, NEW i \in Intents, NEW s \in Seeds, NEW r \in Rips,
         NEW card \in Cards \ ExcludedCards,
         NEW y \in RipRow, rip' = [rip EXCEPT ![r] = y],
         y.status = "SELECTED" /\ y.card = card /\ y.seed = s /\ y.payment = i /\ y.snapshot = odds,
         NEW p \in PaymentRow, payment' = [payment EXCEPT ![i] = p],
         p.status = "CONSUMED" /\ p.signature = payment[i].signature /\ p.rip = r,
         NEW z \in SeedRow, seed' = [seed EXCEPT ![s] = z],
         z.status = "CONSUMED" /\ z.snapshot = odds,
         NEW x \in GachaCallRow, CallBecomes(c, x), x.pc = "lease" /\ x.rip = r,
         rip[r].status = "NONE", payment[i].status = "VERIFIED", seed[s].status = "OPEN"
  PROVE  GachaInv'
<1>1. rip' \in [Rips -> RipRow] /\ \A q \in Rips : rip'[q] = IF q = r THEN y ELSE rip[q]
  BY RipTypes DEF GachaInv, RipInv
<1>2. payment' \in [Intents -> PaymentRow] /\ \A j \in Intents : payment'[j] = IF j = i THEN p ELSE payment[j]
  BY PaymentTypes DEF GachaInv, PaymentInv
<1>3. seed' \in [Seeds -> SeedRow] /\ \A t \in Seeds : seed'[t] = IF t = s THEN z ELSE seed[t]
  BY RipTypes DEF GachaInv, RipInv
<1>4. RipTypeOK'
  BY <1>1, <1>3 DEF GachaInv, RipInv, RipTypeOK, RipRow, SeedRow, GachaCallRow, CallBecomes
<1>5. RipsAndSpending
  BY DEF GachaInv, RipInv
<1>6. \A q \in Rips : Made(q)' <=> q = r \/ Made(q)
  BY <1>1 DEF Made
<1>7. ~Made(r)
  BY DEF Made
<1>8. \A q \in Rips : Made(q) =>
        /\ q # r /\ rip'[q] = rip[q] /\ rip[q].payment # i /\ rip[q].seed # s
        /\ rip[q].status # "FAILED" => rip[q].card # card
  <2> SUFFICES ASSUME NEW q \in Rips, Made(q)
               PROVE  /\ q # r /\ rip'[q] = rip[q] /\ rip[q].payment # i /\ rip[q].seed # s
                      /\ rip[q].status # "FAILED" => rip[q].card # card
    OBVIOUS
  <2>1. q # r /\ rip'[q] = rip[q]
    BY <1>1, <1>7
  <2>2. rip[q].payment # i /\ rip[q].seed # s /\ rip[q].snapshot = odds
    BY <1>5 DEF RipsAndSpending
  <2>3. rip[q].status # "FAILED" => rip[q].card \in ExcludedCards
    BY <2>2 DEF ExcludedCards, Made
  <2> QED
    BY <2>1, <2>2, <2>3
<1>9. RipsAndSpending'
  <2>1. \A j \in Intents : payment[j].rip # 0 => payment[j].status = "CONSUMED"
    BY <1>5 DEF RipsAndSpending
  <2>2. \A j \in Intents : payment[j].status = "CONSUMED" =>
          payment[j].rip \in Rips /\ Made(payment[j].rip) /\ rip[payment[j].rip].payment = j
    BY <1>5 DEF RipsAndSpending
  <2>3. \A j \in Intents : payment'[j].status = "CONSUMED" =>
          /\ payment'[j].rip \in Rips /\ rip'[payment'[j].rip].status # "NONE"
          /\ rip'[payment'[j].rip].payment = j
    <3> SUFFICES ASSUME NEW j \in Intents, payment'[j].status = "CONSUMED"
                 PROVE  /\ payment'[j].rip \in Rips /\ rip'[payment'[j].rip].status # "NONE"
                        /\ rip'[payment'[j].rip].payment = j
      OBVIOUS
    <3>1. CASE j = i
      BY <1>1, <1>2, <3>1
    <3>2. CASE j # i
      <4>1. payment'[j] = payment[j] /\ payment[j].status = "CONSUMED"
        BY <1>2, <3>2
      <4>2. payment[j].rip \in Rips /\ Made(payment[j].rip) /\ rip[payment[j].rip].payment = j
        BY <2>2, <4>1
      <4>3. rip'[payment[j].rip] = rip[payment[j].rip]
        BY <1>8, <4>2
      <4> QED
        BY <4>1, <4>2, <4>3 DEF Made
    <3> QED
      BY <3>1, <3>2
  <2>4. \A t \in Seeds : seed'[t].status = "CONSUMED" =>
          \E q \in Rips : rip'[q].status # "NONE" /\ rip'[q].seed = t
    <3> SUFFICES ASSUME NEW t \in Seeds, seed'[t].status = "CONSUMED"
                 PROVE  \E q \in Rips : rip'[q].status # "NONE" /\ rip'[q].seed = t
      OBVIOUS
    <3>1. CASE t = s
      BY <1>1, <3>1
    <3>2. CASE t # s
      <4>1. PICK q \in Rips : Made(q) /\ rip[q].seed = t
        BY <1>3, <1>5, <3>2 DEF RipsAndSpending
      <4> QED
        BY <1>8, <4>1 DEF Made
    <3> QED
      BY <3>1, <3>2
  <2>5. \A t \in Seeds : seed'[t].status # "NONE" => odds' # 0 /\ seed'[t].snapshot = odds'
    BY <1>3, <1>5 DEF RipsAndSpending
  <2>6. \A q \in Rips : rip'[q].status # "NONE" =>
          /\ rip'[q].payment \in Intents /\ payment'[rip'[q].payment].status = "CONSUMED"
          /\ payment'[rip'[q].payment].rip = q
          /\ rip'[q].seed \in Seeds /\ seed'[rip'[q].seed].status = "CONSUMED"
          /\ odds' # 0 /\ rip'[q].snapshot = odds'
    <3> SUFFICES ASSUME NEW q \in Rips, rip'[q].status # "NONE"
                 PROVE  /\ rip'[q].payment \in Intents /\ payment'[rip'[q].payment].status = "CONSUMED"
                        /\ payment'[rip'[q].payment].rip = q
                        /\ rip'[q].seed \in Seeds /\ seed'[rip'[q].seed].status = "CONSUMED"
                        /\ odds' # 0 /\ rip'[q].snapshot = odds'
      OBVIOUS
    <3>1. CASE q = r
      BY <1>1, <1>2, <1>3, <3>1
    <3>2. CASE q # r
      <4>1. Made(q)
        BY <1>1, <3>2 DEF Made
      <4> QED
        BY <1>2, <1>3, <1>5, <1>8, <4>1 DEF RipsAndSpending
    <3> QED
      BY <3>1, <3>2
  <2>7. \A a, q \in Rips : a # q /\ rip'[a].status # "NONE" /\ rip'[q].status # "NONE" =>
          /\ rip'[a].seed # rip'[q].seed
          /\ "FAILED" \notin {rip'[a].status, rip'[q].status} => rip'[a].card # rip'[q].card
    <3> SUFFICES ASSUME NEW a \in Rips, NEW q \in Rips, a # q, rip'[a].status # "NONE",
                        rip'[q].status # "NONE"
                 PROVE  /\ rip'[a].seed # rip'[q].seed
                        /\ "FAILED" \notin {rip'[a].status, rip'[q].status} =>
                             rip'[a].card # rip'[q].card
      OBVIOUS
    <3>1. \A b \in {a, q} : b = r \/ Made(b)
      BY <1>1 DEF Made
    <3>2. CASE a = r
      BY <1>1, <1>8, <3>1, <3>2
    <3>3. CASE q = r
      BY <1>1, <1>8, <3>1, <3>3
    <3>4. CASE a # r /\ q # r
      BY <1>5, <1>8, <3>1, <3>4 DEF RipsAndSpending
    <3> QED
      BY <3>2, <3>3, <3>4
  <2>8. \A j \in Intents : payment'[j].rip # 0 => payment'[j].status = "CONSUMED"
    BY <1>2, <2>1
  <2> QED
    BY <2>3, <2>4, <2>5, <2>6, <2>7, <2>8 DEF RipsAndSpending, Made
<1>10. HandedFollowsRip'
  BY <1>1 DEF GachaInv, RipInv, HandedFollowsRip
<1>11. RipsProceed
  BY <1>1, <1>7 DEF RipsProceed, Made
<1>12. KnowsTheRip(gcall[c])' /\ gcall'[c].pc \notin ClaimPcs
  BY <1>6 DEF CallBecomes, KnowsTheRip, ClaimPcs, Made
<1> QED
  BY <1>2, <1>4, <1>9, <1>10, <1>11, <1>12, RipStepKeeps DEF CallBecomes

LEMMA CreateFixtureRipStep ==
  ASSUME GachaInv, NEW c \in GachaCalls, NEW i \in Intents, NEW w \in Payers, NEW s \in Seeds,
         NEW k \in RipKeys, CreateFixtureRip(c, i, w, s, k)
  PROVE  GachaInv'
<1>1. CASE \E r \in ReplayedRip(i, w, k) :
             /\ rip[r].payer = w
             /\ gcall' = [gcall EXCEPT ![c] = [GachaIdle EXCEPT !.pc = "lease", !.rip = r]]
             /\ UNCHANGED <<payment, rip, seed>>
  BY <1>1, ReplayedStep DEF CreateFixtureRip
<1> DEFINE fresh(r, card) ==
             [NoRip EXCEPT !.status = "SELECTED", !.payer = w, !.card = card,
                           !.key = k, !.seed = s, !.payment = i, !.snapshot = odds]
<1>2. ASSUME seed[s].status = "OPEN", seed[s].snapshot = odds, PaymentIsVerified(i, w), odds # 0,
             UNCHANGED <<transfer, sealed, odds, handed>>,
             NEW card \in Cards \ ExcludedCards, NEW r \in Rips, rip[r].status = "NONE",
             rip' = [rip EXCEPT ![r] = fresh(r, card)],
             payment' = [payment EXCEPT ![i].status = "CONSUMED", ![i].rip = r],
             seed' = [seed EXCEPT ![s].status = "CONSUMED"],
             gcall' = [gcall EXCEPT ![c] = [GachaIdle EXCEPT !.pc = "lease", !.rip = r]]
      PROVE  GachaInv'
  <2> DEFINE a == payment[i]
             b == seed[s]
             y == fresh(r, card)
             u == [a EXCEPT !.status = "CONSUMED"]
             p == [u EXCEPT !.rip = r]
             z == [b EXCEPT !.status = "CONSUMED"]
             x == [GachaIdle EXCEPT !.pc = "lease", !.rip = r]
  <2>1. a \in PaymentRow /\ b \in SeedRow /\ odds \in Snapshots \cup {0} /\ r \in Nat
        /\ b.snapshot = odds /\ a.status = "VERIFIED"
    BY <1>2, PaymentTypes, RipTypes, GachaRipConstants DEF GachaInv, PaymentInv, RipInv, PaymentIsVerified
  <2>2. /\ y \in RipRow /\ y.status = "SELECTED" /\ y.card = card /\ y.seed = s /\ y.payment = i
        /\ y.snapshot = odds
    BY <1>2, <2>1 DEF NoRip, RipRow, INCOMPLETE_RIP_STATUSES
  <2>3. u \in PaymentRow /\ u.status = "CONSUMED" /\ u.signature = a.signature
    <3> HIDE DEF a
    <3> QED
      BY <2>1 DEF PaymentRow, PaymentStatuses
  <2>4. payment' = [payment EXCEPT ![i] = p]
    <3>1. payment \in [Intents -> PaymentRow]
      BY PaymentTypes DEF GachaInv, PaymentInv
    <3> QED
      BY <1>2, <3>1
  <2> HIDE DEF u
  <2>5. p \in PaymentRow /\ p.status = "CONSUMED" /\ p.signature = a.signature /\ p.rip = r
    BY <2>1, <2>3 DEF PaymentRow
  <2>6. z \in SeedRow /\ z.status = "CONSUMED" /\ z.snapshot = odds
    <3> HIDE DEF b
    <3> QED
      BY <2>1 DEF SeedRow
  <2>7. seed' = [seed EXCEPT ![s] = z] /\ rip' = [rip EXCEPT ![r] = y] /\ gcall' = [gcall EXCEPT ![c] = x]
    BY <1>2
  <2>8. x \in GachaCallRow /\ x.pc = "lease" /\ x.rip = r
    BY InitialRows DEF GachaCallRow, GachaPcs
  <2> HIDE DEF p, z, x, y
  <2>9. CallBecomes(c, x)
    BY <2>7, <2>8, CallWritten
  <2>10. /\ UNCHANGED <<transfer, sealed, odds, handed>> /\ odds # 0 /\ r \in Rips
         /\ card \in Cards \ ExcludedCards /\ rip[r].status = "NONE"
         /\ payment[i].status = "VERIFIED" /\ seed[s].status = "OPEN"
    BY <1>2 DEF PaymentIsVerified
  <2>11. p.signature = payment[i].signature
    BY <2>5
  <2> HIDE DEF a, b
  <2> QED
    BY <2>2, <2>4, <2>5, <2>6, <2>7, <2>8, <2>9, <2>10, <2>11, SpendingStep
<1>3. CASE /\ seed[s].status = "OPEN" /\ seed[s].snapshot = odds
           /\ PaymentIsVerified(i, w)
           /\ \E card \in Cards \ ExcludedCards, r \in {q \in Rips : rip[q].status = "NONE"} :
                /\ rip' = [rip EXCEPT ![r] = fresh(r, card)]
                /\ payment' = [payment EXCEPT ![i].status = "CONSUMED", ![i].rip = r]
                /\ seed' = [seed EXCEPT ![s].status = "CONSUMED"]
                /\ gcall' = [gcall EXCEPT ![c] = [GachaIdle EXCEPT !.pc = "lease", !.rip = r]]
  <2>1. PICK card \in Cards \ ExcludedCards, r \in {q \in Rips : rip[q].status = "NONE"} :
                /\ rip' = [rip EXCEPT ![r] = fresh(r, card)]
                /\ payment' = [payment EXCEPT ![i].status = "CONSUMED", ![i].rip = r]
                /\ seed' = [seed EXCEPT ![s].status = "CONSUMED"]
                /\ gcall' = [gcall EXCEPT ![c] = [GachaIdle EXCEPT !.pc = "lease", !.rip = r]]
    BY <1>3
  <2>2. odds # 0 /\ UNCHANGED <<transfer, sealed, odds, handed>>
    BY DEF CreateFixtureRip
  <2>3. r \in Rips /\ rip[r].status = "NONE"
    OBVIOUS
  <2> HIDE DEF fresh
  <2> QED
    BY <1>2, <1>3, <2>1, <2>2, <2>3
<1> QED
  BY <1>1, <1>3 DEF CreateFixtureRip

LEMMA RipStepsKeep ==
  ASSUME GachaInv, RipStep
  PROVE  GachaInv'
<1>1. ASSUME NEW c \in GachaCalls, RipCallEnds(c) PROVE GachaInv'
  <2>1. /\ UNCHANGED <<payment, transfer, rip, seed, sealed, odds, handed>> /\ EndGachaCall(c)
        /\ odds \in Snapshots \cup {0} /\ sealed \in Seq(Snapshots)
    BY <1>1, RipTypes DEF RipCallEnds, ripVars, GachaInv, RipInv
  <2> QED
    BY <2>1, RipCallEndsStep
<1>2. CASE \E c \in GachaCalls :
             \/ BeginReadiness(c) \/ CreateFixtureSnapshot(c) \/ CommitOdds(c)
             \/ \E i \in Intents, w \in Payers, s \in Seeds, k \in RipKeys :
                  CreateFixtureRip(c, i, w, s, k)
             \/ ClaimRipLease(c) \/ ReadRip(c) \/ Reveal(c) \/ AcquireCard(c) \/ CardAcquired(c)
             \/ FailLeasedRip(c) \/ Settle(c) \/ ReleaseRipLease(c) \/ RipCallEnds(c)
  BY <1>1, <1>2, BeginReadinessStep, CreateFixtureSnapshotStep, CommitOddsStep,
     CreateFixtureRipStep, ClaimRipLeaseStep, ReadRipStep, RevealStep, AcquireCardStep,
     CardAcquiredStep, FailLeasedRipStep, SettleStep, ReleaseRipLeaseStep
<1>3. CASE \E s \in Seeds : CreateSeedCommitment(s) \/ SeedIsLate(s)
  BY <1>3, SeedStepsKeep
<1>4. CASE \E r \in Rips : ProviderHandsOver(r) \/ RipLeaseExpires(r)
  BY <1>4, ProviderHandsOverStep, RipLeaseExpiresStep
<1> QED
  BY <1>2, <1>3, <1>4 DEF RipStep

-----------------------------------------------------------------------------
(***************************************************************************)
(* The theorems.                                                           *)
(***************************************************************************)
LEMMA InitiallyGachaInv ==
  ASSUME PaymentInit, RipInit
  PROVE  GachaInv
<1>1. /\ \A i \in Intents : payment[i] = NoPayment
      /\ \A i \in Intents, s \in Signatures : transfer[i][s] = NoTransfer
      /\ \A c \in GachaCalls : gcall[c] = GachaIdle
      /\ \A r \in Rips : rip[r] = NoRip /\ handed[r] = NotHanded
      /\ \A s \in Seeds : seed[s] = NoSeed
  BY DEF PaymentInit, RipInit
<1>2. PaymentTypeOK /\ RipTypeOK
  <2>1. payment \in [Intents -> PaymentRow] /\ transfer \in [Intents -> [Signatures -> TransferRow]]
    BY InitialRows DEF PaymentInit
  <2>2. /\ gcall \in [GachaCalls -> GachaCallRow] /\ rip \in [Rips -> RipRow]
        /\ seed \in [Seeds -> SeedRow] /\ handed \in [Rips -> HandedRow]
    BY InitialRows DEF PaymentInit, RipInit
  <2>3. odds \in Snapshots \cup {0} /\ sealed \in Seq(Snapshots)
    BY DEF RipInit
  <2> QED
    BY <2>1, <2>2, <2>3, PaymentTypes, RipTypes
<1>3. ClaimedAloneMoves /\ StatusTellsClaim /\ OneOpenIntent
  BY <1>1 DEF ClaimedAloneMoves, StatusTellsClaim, OneOpenIntent, Active, NoPayment, NoTransfer
<1>4. \A c \in GachaCalls : KnowsTheTransfer(gcall[c]) /\ KnowsTheRip(gcall[c])
  BY <1>1 DEF KnowsTheTransfer, KnowsTheRip, GachaIdle
<1>5. RipsAndSpending /\ HandedFollowsRip
  BY <1>1 DEF RipsAndSpending, HandedFollowsRip, Made, NoPayment, NoSeed, NoRip, NotHanded
<1> QED
  BY <1>2, <1>3, <1>4, <1>5 DEF GachaInv, PaymentInv, RipInv

\* The inductive invariant: what a row says of the chain and of the provider, and what every
\* request in flight knows of both.
THEOREM GachaInvariant == GachaSpec => []GachaInv
<1>1. PaymentInit /\ RipInit => GachaInv
  BY InitiallyGachaInv
<1>2. GachaInv /\ [(PaymentStep(Payers) /\ UNCHANGED ripVars) \/ RipStep]_GachaVars => GachaInv'
  <2> SUFFICES ASSUME GachaInv,
                      [(PaymentStep(Payers) /\ UNCHANGED ripVars) \/ RipStep]_GachaVars
               PROVE  GachaInv'
    OBVIOUS
  <2>1. CASE PaymentStep(Payers) /\ UNCHANGED ripVars
    BY <2>1, PaymentStepsKeep
  <2>2. CASE RipStep
    BY <2>2, RipStepsKeep
  <2>3. CASE UNCHANGED GachaVars
    <3>1. UNCHANGED <<payment, transfer, gcall, rip, seed, sealed, odds, handed>>
      BY <2>3 DEF GachaVars, payVars, ripVars
    <3>2. RipTypeOK' /\ RipsAndSpending' /\ HandedFollowsRip' /\ RipsProceed
      BY <3>1 DEF GachaInv, RipInv, RipTypeOK, RipsAndSpending, HandedFollowsRip, RipsProceed, Made
    <3> QED
      BY <3>1, <3>2, RipRowsStep
  <2> QED
    BY <2>1, <2>2, <2>3
<1> QED
  BY <1>1, <1>2, PTL DEF GachaSpec

\* Every row, request and transfer has its type in every reachable state.
THEOREM GachaTypeCorrect == GachaSpec => [](PaymentTypeOK /\ RipTypeOK)
<1>1. GachaInv => PaymentTypeOK /\ RipTypeOK
  BY DEF GachaInv, PaymentInv, RipInv
<1> QED
  BY <1>1, GachaInvariant, PTL

\* Money that moved or may move belongs to the claim of an open or spent intent.
LEMMA MoneyIsClaimed ==
  ASSUME GachaInv, NEW i \in Intents, NEW s \in Signatures, MayMoveMoney(i, s)
  PROVE  s = payment[i].signature /\ (Active(i) \/ payment[i].status = "CONSUMED")
<1>1. s = payment[i].signature /\ payment[i].signature # 0
  BY Numbered DEF GachaInv, PaymentInv, ClaimedAloneMoves, MayMoveMoney
<1>2. payment[i].status \in PaymentStatuses
  BY PaymentTypes DEF GachaInv, PaymentInv, PaymentRow
<1> QED
  BY <1>1, <1>2 DEF GachaInv, PaymentInv, StatusTellsClaim, NeverLands, MayMoveMoney, Active, PaymentStatuses

\* An intent that ended without a rip took no money, and a wallet never has two transfers that
\* no rip answers for.
THEOREM GachaPaymentAccounted == GachaSpec => []GachaPaymentIsAccounted
<1>1. GachaInv => GachaPaymentIsAccounted
  <2> SUFFICES ASSUME GachaInv PROVE GachaPaymentIsAccounted
    OBVIOUS
  <2>1. ASSUME NEW i \in Intents
        PROVE  /\ payment[i].status \in {"VERIFIED", "CONSUMED"} =>
                    transfer[i][payment[i].signature].state = "final"
               /\ payment[i].status \in {"EXPIRED", "FAILED"} =>
                    \A s \in Signatures : ~MayMoveMoney(i, s)
    BY MoneyIsClaimed DEF GachaInv, PaymentInv, StatusTellsClaim, Active
  <2>2. ASSUME NEW w \in Payers
        PROVE  Cardinality({m \in Intents \X Signatures : /\ payment[m[1]].payer = w
                                                          /\ payment[m[1]].status # "CONSUMED"
                                                          /\ MayMoveMoney(m[1], m[2])}) <= 1
    <3> DEFINE S == {m \in Intents \X Signatures : /\ payment[m[1]].payer = w
                                                   /\ payment[m[1]].status # "CONSUMED"
                                                   /\ MayMoveMoney(m[1], m[2])}
    <3> SUFFICES Cardinality(S) <= 1
      OBVIOUS
    <3>1. \A m, n \in S : m = n
      <4> SUFFICES ASSUME NEW m \in S, NEW n \in S PROVE m = n
        OBVIOUS
      <4>1. ASSUME NEW o \in S
            PROVE  /\ o[1] \in Intents /\ o[2] \in Signatures /\ o = <<o[1], o[2]>>
                   /\ Active(o[1]) /\ payment[o[1]].payer = w /\ o[2] = payment[o[1]].signature
        <5>1. o[1] \in Intents /\ o[2] \in Signatures /\ o = <<o[1], o[2]>>
          OBVIOUS
        <5> QED
          BY <5>1, MoneyIsClaimed
      <4>2. m[1] = n[1]
        BY <4>1 DEF GachaInv, PaymentInv, OneOpenIntent
      <4> QED
        BY <4>1, <4>2
    <3> HIDE DEF S
    <3>2. CASE S = {}
      BY <3>2, FS_EmptySet
    <3>3. CASE S # {}
      <4>1. PICK m \in S : TRUE
        BY <3>3
      <4>2. S = {m}
        BY <3>1, <4>1
      <4> QED
        BY <4>2, FS_Singleton
    <3> QED
      BY <3>2, <3>3
  <2> QED
    BY <2>1, <2>2 DEF GachaPaymentIsAccounted
<1> QED
  BY <1>1, GachaInvariant, PTL

LEMMA AtMostOneRip ==
  ASSUME NEW S, NEW b \in BOOLEAN, b <=> \E r \in S : TRUE, \A r, q \in S : r = q
  PROVE  Cardinality(S) = IF b THEN 1 ELSE 0
<1>1. CASE S = {}
  BY <1>1, FS_EmptySet
<1>2. CASE S # {}
  <2>1. PICK r \in S : TRUE
    BY <1>2
  <2>2. S = {r}
    BY <2>1
  <2> QED
    BY <2>1, <2>2, FS_Singleton
<1> QED
  BY <1>1, <1>2

\* A spent payment and a consumed seed have exactly one rip, of the committed snapshot, and a
\* card is in the hands of one rip at most, never of a failed one.
THEOREM GachaCardAccounted == GachaSpec => []GachaCardIsAccounted
<1>1. GachaInv => GachaCardIsAccounted
  <2> SUFFICES ASSUME GachaInv PROVE GachaCardIsAccounted
    OBVIOUS
  <2>1. ASSUME NEW i \in Intents
        PROVE  Cardinality(RipsOf(LAMBDA r : rip[r].payment = i)) =
                 IF payment[i].status = "CONSUMED" THEN 1 ELSE 0
    <3> DEFINE S == {r \in Rips : rip[r].status # "NONE" /\ rip[r].payment = i}
               b == payment[i].status = "CONSUMED"
    <3>1. RipsOf(LAMBDA r : rip[r].payment = i) = S
      BY DEF RipsOf
    <3>2. b <=> \E r \in S : TRUE
      BY DEF GachaInv, RipInv, RipsAndSpending, Made
    <3>3. \A r, q \in S : r = q
      BY DEF GachaInv, RipInv, RipsAndSpending, Made
    <3>4. b \in BOOLEAN
      OBVIOUS
    <3>5. Cardinality(S) = IF b THEN 1 ELSE 0
      <4> HIDE DEF S, b
      <4> QED
        BY <3>2, <3>3, <3>4, AtMostOneRip
    <3> QED
      BY <3>1, <3>5
  <2>2. ASSUME NEW s \in Seeds
        PROVE  /\ Cardinality(RipsOf(LAMBDA r : rip[r].seed = s)) =
                    IF seed[s].status = "CONSUMED" THEN 1 ELSE 0
               /\ seed[s].status # "NONE" => seed[s].snapshot = odds
               /\ SeedRevealed(s) => seed[s].status = "CONSUMED"
    <3> DEFINE S == {r \in Rips : rip[r].status # "NONE" /\ rip[r].seed = s}
               b == seed[s].status = "CONSUMED"
    <3>1. RipsOf(LAMBDA r : rip[r].seed = s) = S
      BY DEF RipsOf
    <3>2. b <=> \E r \in S : TRUE
      BY DEF GachaInv, RipInv, RipsAndSpending, Made
    <3>3. \A r, q \in S : r = q
      BY DEF GachaInv, RipInv, RipsAndSpending, Made
    <3>4. b \in BOOLEAN
      OBVIOUS
    <3>5. Cardinality(S) = IF b THEN 1 ELSE 0
      <4> HIDE DEF S, b
      <4> QED
        BY <3>2, <3>3, <3>4, AtMostOneRip
    <3>6. seed[s].status # "NONE" => seed[s].snapshot = odds
      BY DEF GachaInv, RipInv, RipsAndSpending
    <3>7. SeedRevealed(s) => seed[s].status = "CONSUMED"
      BY DEF GachaInv, RipInv, RipsAndSpending, SeedRevealed, Made
    <3> QED
      BY <3>1, <3>5, <3>6, <3>7
  <2>3. ASSUME NEW r \in Rips
        PROVE  /\ rip[r].status # "NONE" => rip[r].snapshot = odds
               /\ rip[r].status \in {"ACQUIRED", "SETTLED"} =>
                    handed[r].state = "yes" /\ handed[r].card = rip[r].card
               /\ rip[r].status = "FAILED" => handed[r].state # "yes"
               /\ \A q \in Rips \ {r} :
                    handed[r].state = "yes" /\ handed[q].state = "yes" => handed[r].card # handed[q].card
    <3>1. RipsAndSpending /\ HandedFollowsRip
      BY DEF GachaInv, RipInv
    <3>2. \A q \in Rips : handed[q].state = "yes" =>
            Made(q) /\ rip[q].status # "FAILED" /\ handed[q].card = rip[q].card
      BY <3>1 DEF HandedFollowsRip, Made
    <3>3. \A q \in Rips \ {r} :
            handed[r].state = "yes" /\ handed[q].state = "yes" => handed[r].card # handed[q].card
      BY <3>1, <3>2 DEF RipsAndSpending
    <3> QED
      BY <3>1, <3>3 DEF RipsAndSpending, HandedFollowsRip, Made
  <2> QED
    BY <2>1, <2>2, <2>3 DEF GachaCardIsAccounted
<1> QED
  BY <1>1, GachaInvariant, PTL

(*****************************************************************************)
(* The tabs that pay for rips.                                               *)
(*****************************************************************************)

SendStates == {"none", "signed", "sent", "landed", "error", "dead"}
OrderStatuses == {"NONE", "PENDING", "VERIFIED", "CONSUMED", "EXPIRED", "FAILED"}
TxRow == [state : SendStates, intent : Orders \cup {0}]
OrderRow == [status : OrderStatuses, bytes : SignedBytes \cup {0}]
RecoveryRow == [status : {"empty", "invalid", "awaiting-signature", "signed-claim-pending", "signature-known"},
                intent : Orders \cup {0}, bytes : SignedBytes \cup {0}]
ClientOpRow == [pc : {"idle", "intent", "transaction", "lock", "sign", "claim", "reclaim", "broadcast", "track",
                      "verify", "verifyFailed", "rip", "refresh"},
                resumes : BOOLEAN, intent : Orders \cup {0}, bytes : SignedBytes \cup {0}]
TabRow == [recovery : RecoveryRow, ref : RecoveryRow, signature : SignedBytes \cup {0}, invalid : BOOLEAN,
           phase : {"idle", "working", "recovering"}, intent : Orders \cup {0}, prepared : BOOLEAN,
           result : BOOLEAN, told : {"none", "declined", "failedOnChain", "ripped", "replaced"},
           of : SignedBytes \cup {0}, op : ClientOpRow]

\* The rows of the API and of the wallet.
PayTypes == order \in [Orders -> OrderRow] /\ bytes \in [SignedBytes -> TxRow]
ClientTypes ==
  /\ PayTypes /\ record \in RecoveryRow /\ gtab \in [Tabs -> TabRow]
  /\ event \in [Tabs -> BOOLEAN] /\ tabFaults \in Nat

\* A signed transaction pays one intent, the API claims a transaction for the intent it
\* pays, and none but a claimed one was sent.
ClaimsFit ==
  /\ \A i \in Orders :
       /\ order[i].bytes # 0 => bytes[order[i].bytes].state # "none" /\ bytes[order[i].bytes].intent = i
       /\ order[i].status = "NONE" => order[i].bytes = 0
       /\ order[i].status \in {"VERIFIED", "CONSUMED"} =>
            order[i].bytes # 0 /\ bytes[order[i].bytes].state = "landed"
  /\ \A b \in SignedBytes :
       /\ bytes[b].state # "none" => bytes[b].intent \in Orders
       /\ bytes[b].state \in {"sent", "landed", "error"} => order[bytes[b].intent].bytes = b

\* Bytes the wallet has signed.
Signed(b) == b \in SignedBytes /\ bytes[b].state # "none"

\* A record, in the storage or in a tab.
RecordFits(r) ==
  /\ r.status = "empty" => r = NoRecord
  /\ r.status \in {"awaiting-signature", "signed-claim-pending", "signature-known"} => r.intent \in Orders
  /\ r.status \in {"signed-claim-pending", "signature-known"} => Signed(r.bytes)
  /\ r.status = "signed-claim-pending" => bytes[r.bytes].intent = r.intent

\* What an operation knows between its awaits.
ClientOpFits(op) ==
  /\ op.pc \notin {"idle", "intent"} => op.intent \in Orders
  /\ op.pc \in {"lock", "sign"} => op.bytes = 0
  /\ op.pc \in {"claim", "reclaim", "broadcast", "track", "verify", "verifyFailed", "rip"} => Signed(op.bytes)
  /\ op.pc \in {"claim", "reclaim", "broadcast"} => bytes[op.bytes].intent = op.intent
  /\ op.pc \in {"broadcast", "rip"} => order[op.intent].bytes = op.bytes
  /\ op.pc = "verifyFailed" => bytes[op.bytes].state = "error"
  /\ op.pc = "rip" => order[op.intent].status \in {"VERIFIED", "CONSUMED"}

\* What the page tells the player.
ToldFits(told, b) ==
  /\ told = "declined" => b = 0
  /\ told \in {"failedOnChain", "ripped"} => Signed(b)
  /\ told = "failedOnChain" => bytes[b].state = "error"
  /\ told = "ripped" => bytes[b].state = "landed" /\ order[bytes[b].intent].status = "CONSUMED"

TabFits(s) ==
  /\ RecordFits(s.recovery) /\ RecordFits(s.ref) /\ s.recovery.status # "invalid" /\ s.ref.status # "invalid"
  /\ s.signature # 0 => Signed(s.signature)
  /\ s.prepared => s.intent \in Orders
  /\ ClientOpFits(s.op) /\ ToldFits(s.told, s.of)

TabsFit == RecordFits(record) /\ \A t \in Tabs : TabFits(gtab[t])

\* The inductive invariant of the tabs.
ClientInv == ClientTypes /\ ClaimsFit /\ TabsFit


ClientSpec == ClientInit /\ [][ClientStep]_clientVars

PayFits == PayTypes /\ ClaimsFit

\* What no step takes back.
Grows ==
  /\ \A b \in SignedBytes :
       /\ bytes[b].state # "none" => bytes'[b].state # "none" /\ bytes'[b].intent = bytes[b].intent
       /\ bytes[b].state \in {"landed", "error"} => bytes'[b].state = bytes[b].state
  /\ \A i \in Orders :
       /\ order[i].bytes # 0 => order'[i].bytes = order[i].bytes
       /\ order[i].status \in {"VERIFIED", "CONSUMED"} => order'[i].status \in {"VERIFIED", "CONSUMED"}
       /\ order[i].status = "CONSUMED" => order'[i].status = "CONSUMED"

\* The API and the chain go on as they may.
PaysOn == PayFits' /\ Grows

LEMMA PayRests ==
  ASSUME PayFits, UNCHANGED <<order, bytes>>
  PROVE  PaysOn
<1>1. PayFits'
  BY DEF PayFits, PayTypes, ClaimsFit
<1>2. Grows
  BY DEF Grows
<1> QED BY <1>1, <1>2 DEF PaysOn

\* One transaction becomes another, which its intent allows.
LEMMA BytesMove ==
  ASSUME PayFits, NEW b \in SignedBytes, NEW x \in TxRow, bytes' = [bytes EXCEPT ![b] = x], UNCHANGED order,
         x.state # "none", x.intent \in Orders,
         bytes[b].state # "none" => x.intent = bytes[b].intent,
         bytes[b].state \in {"landed", "error"} => x.state = bytes[b].state,
         x.state \in {"sent", "landed", "error"} => order[x.intent].bytes = b
  PROVE  PaysOn
<1>1. /\ bytes' \in [SignedBytes -> TxRow] /\ bytes'[b] = x
      /\ \A y \in SignedBytes : y # b => bytes'[y] = bytes[y]
  BY DEF PayFits, PayTypes
<1>2. PayTypes'
  BY <1>1 DEF PayFits, PayTypes
<1>3. ClaimsFit'
  BY <1>1 DEF PayFits, PayTypes, ClaimsFit, OrderRow
<1>4. Grows
  BY <1>1 DEF Grows
<1> QED BY <1>2, <1>3, <1>4 DEF PaysOn, PayFits

\* One order becomes another, with a transaction that pays it.
LEMMA OrderMoves ==
  ASSUME PayFits, NEW i \in Orders, NEW x \in OrderRow, order' = [order EXCEPT ![i] = x], UNCHANGED bytes,
         order[i].bytes # 0 => x.bytes = order[i].bytes,
         x.bytes # 0 => bytes[x.bytes].state # "none" /\ bytes[x.bytes].intent = i,
         x.status # "NONE",
         x.status \in {"VERIFIED", "CONSUMED"} => x.bytes # 0 /\ bytes[x.bytes].state = "landed",
         order[i].status \in {"VERIFIED", "CONSUMED"} => x.status \in {"VERIFIED", "CONSUMED"},
         order[i].status = "CONSUMED" => x.status = "CONSUMED"
  PROVE  PaysOn
<1>1. /\ order' \in [Orders -> OrderRow] /\ order'[i] = x
      /\ \A j \in Orders : j # i => order'[j] = order[j]
  BY DEF PayFits, PayTypes
<1>2. PayTypes'
  BY <1>1 DEF PayFits, PayTypes
<1>3. Grows
  BY <1>1 DEF Grows
<1>4. 0 \notin SignedBytes
  BY GachaClientConstants
<1>5. \A j \in Orders :
        /\ order'[j].bytes # 0 => bytes[order'[j].bytes].state # "none" /\ bytes[order'[j].bytes].intent = j
        /\ order'[j].status = "NONE" => order'[j].bytes = 0
        /\ order'[j].status \in {"VERIFIED", "CONSUMED"} =>
             order'[j].bytes # 0 /\ bytes[order'[j].bytes].state = "landed"
  BY <1>1 DEF PayFits, ClaimsFit
<1>6. \A b \in SignedBytes :
        /\ bytes[b].state # "none" => bytes[b].intent \in Orders
        /\ bytes[b].state \in {"sent", "landed", "error"} => order'[bytes[b].intent].bytes = b
  <2> SUFFICES ASSUME NEW b \in SignedBytes, bytes[b].state \in {"sent", "landed", "error"}
               PROVE  order'[bytes[b].intent].bytes = b
    BY DEF PayFits, ClaimsFit
  <2>1. bytes[b].intent \in Orders /\ order[bytes[b].intent].bytes = b
    BY DEF PayFits, ClaimsFit
  <2> QED BY <1>3, <1>4, <2>1 DEF Grows
<1>7. ClaimsFit'
  BY <1>5, <1>6 DEF ClaimsFit
<1> QED BY <1>2, <1>3, <1>7 DEF PaysOn, PayFits

LEMMA TransactionEndsPays ==
  ASSUME PayFits, NEW b \in SignedBytes, TransactionEnds(b)
  PROVE  PaysOn
<1>1. /\ bytes[b].state \in {"signed", "sent"} /\ UNCHANGED order
      /\ \E s \in {"landed", "error", "dead"} :
           bytes' = [bytes EXCEPT ![b].state = s] /\ (s # "dead" => bytes[b].state = "sent")
  BY DEF TransactionEnds
<1>2. PICK s \in {"landed", "error", "dead"} :
        bytes' = [bytes EXCEPT ![b].state = s] /\ (s # "dead" => bytes[b].state = "sent")
  BY <1>1
<1>3. PICK x \in TxRow : bytes' = [bytes EXCEPT ![b] = x] /\ x.state = s /\ x.intent = bytes[b].intent
  <2>1. PICK x : x = [bytes[b] EXCEPT !.state = s]
    OBVIOUS
  <2>2. bytes[b] \in TxRow
    BY DEF PayFits, PayTypes
  <2>3. x \in TxRow /\ x.state = s /\ x.intent = bytes[b].intent
    BY <2>1, <2>2 DEF TxRow, SendStates
  <2>4. bytes' = [bytes EXCEPT ![b] = x]
    BY <1>2, <2>1
  <2> QED BY <2>3, <2>4
<1>4. x.intent \in Orders /\ (x.state \in {"sent", "landed", "error"} => order[x.intent].bytes = b)
  BY <1>1, <1>2, <1>3 DEF PayFits, ClaimsFit
<1> QED BY <1>1, <1>3, <1>4, BytesMove

LEMMA BroadcastPays ==
  ASSUME PayFits, NEW b \in SignedBytes, bytes[b].state # "none", order[bytes[b].intent].bytes = b,
         bytes' = [bytes EXCEPT ![b].state = IF @ = "signed" THEN "sent" ELSE @], UNCHANGED order
  PROVE  PaysOn
<1>1. CASE bytes[b].state = "signed"
  <2>1. PICK x : x = [bytes[b] EXCEPT !.state = "sent"]
    OBVIOUS
  <2>2. bytes[b] \in TxRow
    BY DEF PayFits, PayTypes
  <2>3. x \in TxRow /\ x.state = "sent" /\ x.intent = bytes[b].intent
    BY <2>1, <2>2 DEF TxRow, SendStates
  <2>4. bytes' = [bytes EXCEPT ![b] = x]
    BY <1>1, <2>1
  <2>5. x.intent \in Orders
    BY <2>3 DEF PayFits, ClaimsFit
  <2> QED BY <1>1, <2>3, <2>4, <2>5, BytesMove
<1>2. CASE bytes[b].state # "signed"
  <2>1. bytes[b] \in TxRow /\ bytes \in [SignedBytes -> TxRow]
    BY DEF PayFits, PayTypes
  <2>2. bytes' = bytes
    BY <1>2, <2>1 DEF TxRow
  <2> QED BY <2>2, PayRests
<1> QED BY <1>1, <1>2

LEMMA SigningPays ==
  ASSUME PayFits, NEW b \in SignedBytes, bytes[b].state = "none", NEW i \in Orders,
         bytes' = [bytes EXCEPT ![b] = [state |-> "signed", intent |-> i]], UNCHANGED order
  PROVE  PaysOn /\ bytes'[b].state # "none" /\ bytes'[b].intent = i
<1>1. PICK x : x = [state |-> "signed", intent |-> i]
  OBVIOUS
<1>2. x \in TxRow /\ x.state = "signed" /\ x.intent = i
  BY <1>1 DEF TxRow, SendStates
<1>3. bytes' = [bytes EXCEPT ![b] = x]
  BY <1>1
<1>4. bytes'[b] = x
  BY <1>3 DEF PayFits, PayTypes
<1> QED BY <1>2, <1>3, <1>4, BytesMove

\* A claim, a verification, a rejection and a rip each change one field of one row.
LEMMA ClaimPays ==
  ASSUME PayFits, NEW b \in SignedBytes, NEW i \in Orders, bytes[b].state # "none", bytes[b].intent = i,
         ClaimAccepted(b), order' = [order EXCEPT ![i].bytes = b], UNCHANGED bytes
  PROVE  PaysOn /\ order'[i].bytes = b
<1>1. PICK x : x = [order[i] EXCEPT !.bytes = b]
  OBVIOUS
<1>2. order[i] \in OrderRow
  BY DEF PayFits, PayTypes
<1>3. x \in OrderRow /\ x.bytes = b /\ x.status = order[i].status
  BY <1>1, <1>2 DEF OrderRow
<1>4. order' = [order EXCEPT ![i] = x] /\ order'[i] = x
  BY <1>1 DEF PayFits, PayTypes
<1>5. x.status \in {"PENDING", "VERIFIED"} /\ (order[i].bytes # 0 => order[i].bytes = b)
      /\ (x.status = "VERIFIED" => order[i].bytes = b)
  BY <1>3, GachaClientConstants DEF ClaimAccepted
<1>6. x.status \in {"VERIFIED", "CONSUMED"} => x.bytes # 0 /\ bytes[x.bytes].state = "landed"
  BY <1>3, <1>5 DEF PayFits, ClaimsFit
<1> QED BY <1>3, <1>4, <1>5, <1>6, OrderMoves

LEMMA StatusPays ==
  ASSUME PayFits, NEW i \in Orders, NEW status \in OrderStatuses, order' = [order EXCEPT ![i].status = status],
         UNCHANGED bytes, status # "NONE",
         status \in {"VERIFIED", "CONSUMED"} => order[i].bytes # 0 /\ bytes[order[i].bytes].state = "landed",
         order[i].status \in {"VERIFIED", "CONSUMED"} => status \in {"VERIFIED", "CONSUMED"},
         order[i].status = "CONSUMED" => status = "CONSUMED"
  PROVE  PaysOn /\ order'[i].status = status
<1>1. PICK x : x = [order[i] EXCEPT !.status = status]
  OBVIOUS
<1>2. order[i] \in OrderRow
  BY DEF PayFits, PayTypes
<1>3. x \in OrderRow /\ x.bytes = order[i].bytes /\ x.status = status
  BY <1>1, <1>2 DEF OrderRow
<1>4. order' = [order EXCEPT ![i] = x] /\ order'[i] = x
  BY <1>1 DEF PayFits, PayTypes
<1>5. x.bytes # 0 => bytes[x.bytes].state # "none" /\ bytes[x.bytes].intent = i
  BY <1>3 DEF PayFits, ClaimsFit
<1> QED BY <1>3, <1>4, <1>5, OrderMoves

\* The least of the rows nobody has used.
LEMMA LeastOrder ==
  ASSUME NEW i, i \in {j \in FreeOrders : \A k \in FreeOrders : j <= k}
  PROVE  i \in Orders /\ order[i].status = "NONE"
BY DEF FreeOrders

LEMMA LeastOf ==
  ASSUME NEW S \in SUBSET Nat, S # {}
  PROVE  \E n \in S : \A k \in S : n <= k
<1>1. IsWellFoundedOn(OpToRel(<, Nat), Nat)
  BY NatLessThanWellFounded
<1>2. PICK n \in S : \A k \in S : <<k, n>> \notin OpToRel(<, Nat)
  BY <1>1, WFMin
<1>3. \A k \in S : ~(k < n)
  BY <1>2 DEF OpToRel
<1>4. \A k \in S : n <= k
  <2> SUFFICES ASSUME NEW k \in S PROVE n <= k
    OBVIOUS
  <2>1. n \in Nat /\ k \in Nat
    BY <1>2
  <2>2. ~(k < n)
    BY <1>3
  <2> QED BY <2>1, <2>2
<1> QED BY <1>2, <1>4

LEMMA LeastBytes ==
  ASSUME \E x \in SignedBytes : bytes[x].state = "none",
         NEW b, b = CHOOSE x \in SignedBytes :
                      bytes[x].state = "none" /\ \A y \in SignedBytes : bytes[y].state = "none" => x <= y
  PROVE  b \in SignedBytes /\ bytes[b].state = "none"
<1> DEFINE S == {x \in SignedBytes : bytes[x].state = "none"}
<1>1. S \in SUBSET Nat /\ S # {}
  BY GachaClientConstants
<1>2. \E n \in S : \A k \in S : n <= k
  BY <1>1, LeastOf
<1>3. \E x \in SignedBytes : bytes[x].state = "none" /\ \A y \in SignedBytes : bytes[y].state = "none" => x <= y
  BY <1>2
<1> QED BY <1>3

\* createIntent leaves an open row, or creates the next one, which nobody has claimed.
LEMMA RowIsCreated ==
  ASSUME PayFits, NEW rows \in [Orders -> OrderRow], NEW i \in Orders, order[i].status = "NONE",
         \A j \in Orders : rows[j].bytes = order[j].bytes,
         \A j \in Orders : rows[j].status \in {"NONE", "VERIFIED", "CONSUMED"} => rows[j].status = order[j].status,
         \A j \in Orders : order[j].status \in {"NONE", "VERIFIED", "CONSUMED"} => rows[j].status = order[j].status,
         order' = [rows EXCEPT ![i] = [status |-> "PENDING", bytes |-> 0]], UNCHANGED bytes
  PROVE  PaysOn /\ \A j \in Orders : order'[j].bytes = order[j].bytes
<1>1. PICK x : x = [status |-> "PENDING", bytes |-> 0]
  OBVIOUS
<1>2. x \in OrderRow /\ x.status = "PENDING" /\ x.bytes = 0
  BY <1>1 DEF OrderRow, OrderStatuses
<1>3. order[i].bytes = 0
  BY DEF PayFits, ClaimsFit
<1>4. /\ order' \in [Orders -> OrderRow] /\ order'[i] = x
      /\ \A j \in Orders : j # i => order'[j] = rows[j]
  BY <1>1, <1>2
<1>5. \A j \in Orders : order'[j].bytes = order[j].bytes
  BY <1>2, <1>3, <1>4
<1>6. \A j \in Orders : order[j].status \in {"VERIFIED", "CONSUMED"} <=> order'[j].status \in {"VERIFIED", "CONSUMED"}
  BY <1>2, <1>4
<1>7. \A j \in Orders : order[j].status = "CONSUMED" => order'[j].status = "CONSUMED"
  BY <1>2, <1>4
<1>8. \A j \in Orders : order'[j].status = "NONE" => order[j].status = "NONE"
  BY <1>2, <1>4
<1>9. PayTypes'
  BY <1>4 DEF PayFits, PayTypes
<1>10. Grows
  BY <1>5, <1>6, <1>7 DEF Grows
<1>11. ClaimsFit'
  BY <1>5, <1>6, <1>8 DEF PayFits, ClaimsFit
<1> QED BY <1>5, <1>9, <1>10, <1>11 DEF PaysOn, PayFits

LEMMA CreatedPays ==
  ASSUME PayFits, NEW c \in CreatedOrders, order' = c[1], UNCHANGED bytes
  PROVE  PaysOn /\ c[2] \in Orders /\ \A j \in Orders : order'[j].bytes = order[j].bytes
<1> DEFINE Create(rows) == {<<[rows EXCEPT ![i] = [status |-> "PENDING", bytes |-> 0]], i>> :
                             i \in {j \in FreeOrders : \A k \in FreeOrders : j <= k}}
           Left(i) == IF order[i].status # "PENDING" THEN {}
                      ELSE IF order[i].bytes = 0 THEN Create([order EXCEPT ![i].status = "EXPIRED"])
                      ELSE IF bytes[order[i].bytes].state = "dead" THEN Create([order EXCEPT ![i].status = "FAILED"])
                      ELSE {}
<1>1. order \in [Orders -> OrderRow]
  BY DEF PayFits, PayTypes
<1>2. ASSUME NEW rows \in [Orders -> OrderRow], c \in Create(rows),
             \A j \in Orders : rows[j].bytes = order[j].bytes,
             \A j \in Orders : rows[j].status \in {"NONE", "VERIFIED", "CONSUMED"} => rows[j].status = order[j].status,
             \A j \in Orders : order[j].status \in {"NONE", "VERIFIED", "CONSUMED"} => rows[j].status = order[j].status
      PROVE  PaysOn /\ c[2] \in Orders /\ \A j \in Orders : order'[j].bytes = order[j].bytes
  <2>1. PICK i \in {j \in FreeOrders : \A k \in FreeOrders : j <= k} :
          c = <<[rows EXCEPT ![i] = [status |-> "PENDING", bytes |-> 0]], i>>
    BY <1>2
  <2>2. i \in Orders /\ order[i].status = "NONE"
    BY <2>1, LeastOrder
  <2>3. c[2] = i /\ order' = [rows EXCEPT ![i] = [status |-> "PENDING", bytes |-> 0]]
    BY <2>1
  <2> QED BY <1>2, <2>2, <2>3, RowIsCreated
<1>3. ASSUME NEW i \in Orders, order[i].status = "PENDING", NEW status \in {"EXPIRED", "FAILED"},
             c \in Create([order EXCEPT ![i].status = status])
      PROVE  PaysOn /\ c[2] \in Orders /\ \A j \in Orders : order'[j].bytes = order[j].bytes
  <2>1. PICK rows : rows = [order EXCEPT ![i].status = status]
    OBVIOUS
  <2>2. rows \in [Orders -> OrderRow] /\ rows[i].status = status /\ rows[i].bytes = order[i].bytes
        /\ \A j \in Orders : j # i => rows[j] = order[j]
    BY <1>1, <2>1 DEF OrderRow, OrderStatuses
  <2>3. /\ \A j \in Orders : rows[j].bytes = order[j].bytes
        /\ \A j \in Orders : rows[j].status \in {"NONE", "VERIFIED", "CONSUMED"} => rows[j].status = order[j].status
        /\ \A j \in Orders : order[j].status \in {"NONE", "VERIFIED", "CONSUMED"} => rows[j].status = order[j].status
    BY <1>3, <2>2
  <2>4. c \in Create(rows)
    BY <1>3, <2>1
  <2> QED BY <1>2, <2>2, <2>3, <2>4
<1>4. CASE c \in Create(order)
  BY <1>1, <1>2, <1>4
<1>5. ASSUME NEW i \in OpenOrders, c = <<order, i>>
      PROVE  PaysOn /\ c[2] \in Orders /\ \A j \in Orders : order'[j].bytes = order[j].bytes
  <2>1. UNCHANGED order /\ c[2] = i /\ i \in Orders
    BY <1>5 DEF OpenOrders
  <2> QED BY <2>1, PayRests
<1>6. ASSUME NEW i \in OpenOrders, c \in Left(i)
      PROVE  PaysOn /\ c[2] \in Orders /\ \A j \in Orders : order'[j].bytes = order[j].bytes
  <2>1. i \in Orders
    BY DEF OpenOrders
  <2>2. /\ order[i].status = "PENDING"
        /\ c \in Create([order EXCEPT ![i].status = "EXPIRED"]) \/ c \in Create([order EXCEPT ![i].status = "FAILED"])
    <3> HIDE DEF Create
    <3> QED BY <1>6
  <2> QED
    <3> HIDE DEF Create
    <3> QED BY <1>3, <2>1, <2>2
<1>7. c \in Create(order) \/ \E i \in OpenOrders : c = <<order, i>> \/ c \in Left(i)
  <2> HIDE DEF Create, Left
  <2>1. CreatedOrders = IF OpenOrders = {} THEN Create(order) ELSE UNION {{<<order, i>>} \cup Left(i) : i \in OpenOrders}
    BY DEF CreatedOrders, Create, Left
  <2> QED BY <2>1
<1> QED BY <1>4, <1>5, <1>6, <1>7

(***************************************************************************)
(* What a record, an operation and a page know stays true.                 *)
(***************************************************************************)
LEMMA SignedStays ==
  ASSUME Grows, NEW b, Signed(b)
  PROVE  Signed(b)' /\ bytes'[b].intent = bytes[b].intent
BY DEF Grows, Signed

LEMMA RecordStays ==
  ASSUME Grows, NEW r \in RecoveryRow, RecordFits(r)
  PROVE  RecordFits(r)'
<1>1. Signed(r.bytes) => Signed(r.bytes)' /\ bytes'[r.bytes].intent = bytes[r.bytes].intent
  BY SignedStays
<1> QED BY <1>1 DEF RecordFits

LEMMA OpStays ==
  ASSUME PayFits, Grows, NEW op \in ClientOpRow, ClientOpFits(op)
  PROVE  ClientOpFits(op)'
<1>1. Signed(op.bytes) => Signed(op.bytes)' /\ bytes'[op.bytes].intent = bytes[op.bytes].intent
  BY SignedStays
<1>2. Signed(op.bytes) /\ bytes[op.bytes].state = "error" => bytes'[op.bytes].state = "error"
  BY DEF Signed, Grows
<1>3. op.intent \in Orders /\ order[op.intent].status \in {"VERIFIED", "CONSUMED"} =>
        order'[op.intent].status \in {"VERIFIED", "CONSUMED"}
  BY DEF Grows
<1>4. op.intent \in Orders /\ Signed(op.bytes) /\ order[op.intent].bytes = op.bytes => order'[op.intent].bytes = op.bytes
  BY GachaClientConstants DEF Signed, Grows
<1>5. /\ op.pc \notin {"idle", "intent"} => op.intent \in Orders
      /\ op.pc \in {"lock", "sign"} => op.bytes = 0
  BY DEF ClientOpFits
<1>6. op.pc \in {"claim", "reclaim", "broadcast", "track", "verify", "verifyFailed", "rip"} => Signed(op.bytes)'
  BY <1>1 DEF ClientOpFits
<1>7. op.pc \in {"claim", "reclaim", "broadcast"} => bytes'[op.bytes].intent = op.intent
  BY <1>1 DEF ClientOpFits
<1>8. op.pc \in {"broadcast", "rip"} => order'[op.intent].bytes = op.bytes
  BY <1>4, <1>5 DEF ClientOpFits
<1>9. op.pc = "verifyFailed" => bytes'[op.bytes].state = "error"
  BY <1>2 DEF ClientOpFits
<1>10. op.pc = "rip" => order'[op.intent].status \in {"VERIFIED", "CONSUMED"}
  BY <1>3, <1>5 DEF ClientOpFits
<1> QED BY <1>5, <1>6, <1>7, <1>8, <1>9, <1>10 DEF ClientOpFits

LEMMA ToldStays ==
  ASSUME PayFits, Grows, NEW told, NEW b, ToldFits(told, b)
  PROVE  ToldFits(told, b)'
<1>1. Signed(b) => Signed(b)' /\ bytes'[b].intent = bytes[b].intent
  BY SignedStays
<1>2. Signed(b) /\ bytes[b].state \in {"landed", "error"} => bytes'[b].state = bytes[b].state
  BY DEF Signed, Grows
<1>3. Signed(b) /\ order[bytes[b].intent].status = "CONSUMED" => order'[bytes[b].intent].status = "CONSUMED"
  BY DEF Signed, Grows, PayFits, ClaimsFit
<1> QED BY <1>1, <1>2, <1>3 DEF ToldFits

LEMMA TabGoesOn ==
  ASSUME PayFits, Grows, NEW s \in TabRow, TabFits(s)
  PROVE  TabFits(s)'
<1>1. /\ s.recovery \in RecoveryRow /\ s.ref \in RecoveryRow /\ s.op \in ClientOpRow
      /\ RecordFits(s.recovery) /\ RecordFits(s.ref) /\ ClientOpFits(s.op) /\ ToldFits(s.told, s.of)
  BY DEF TabRow, TabFits
<1>2. RecordFits(s.recovery)' /\ RecordFits(s.ref)' /\ ClientOpFits(s.op)' /\ ToldFits(s.told, s.of)'
  BY <1>1, RecordStays, OpStays, ToldStays
<1>3. s.signature # 0 => Signed(s.signature)'
  BY SignedStays DEF TabFits
<1> QED BY <1>2, <1>3 DEF TabFits

\* One tab moves, and the record with it.
LEMMA TabIsWritten ==
  ASSUME ClientInv, PaysOn, NEW t \in Tabs, NEW q \in TabRow, TabBecomes(t, q), TabFits(q)',
         record' \in RecoveryRow, RecordFits(record)', event' \in [Tabs -> BOOLEAN], tabFaults' \in Nat
  PROVE  ClientInv'
<1>1. /\ gtab' \in [Tabs -> TabRow] /\ gtab'[t] = q
      /\ \A u \in Tabs : u # t => gtab'[u] = gtab[u]
  BY DEF TabBecomes, ClientInv, ClientTypes
<1>2. ASSUME NEW u \in Tabs PROVE TabFits(gtab[u])'
  <2>1. CASE u = t
    BY <1>1, <2>1 DEF TabFits
  <2>2. CASE u # t
    <3>1. PICK s \in TabRow : s = gtab[u]
      BY DEF ClientInv, ClientTypes
    <3>2. TabFits(s)
      BY <3>1 DEF ClientInv, TabsFit
    <3>3. TabFits(s)'
      BY <3>1, <3>2, TabGoesOn DEF ClientInv, PayFits, PaysOn, ClientTypes
    <3>4. gtab'[u] = s
      BY <1>1, <2>2, <3>1
    <3> QED BY <3>3, <3>4 DEF TabFits
  <2> QED BY <2>1, <2>2
<1>3. ClientTypes' /\ ClaimsFit'
  BY <1>1 DEF ClientTypes, PaysOn, PayFits
<1>4. TabsFit'
  BY <1>2 DEF TabsFit
<1> QED BY <1>3, <1>4 DEF ClientInv

\* The row of a tab, before the step and as it fits after it.
LEMMA TabRowOf ==
  ASSUME ClientInv, NEW t \in Tabs
  PROVE  \E s \in TabRow : /\ s = gtab[t] /\ TabFits(s) /\ (PaysOn => TabFits(s)')
                           /\ s.op \in ClientOpRow /\ ClientOpFits(s.op)
<1>1. PICK s \in TabRow : s = gtab[t]
  BY DEF ClientInv, ClientTypes
<1>2. TabFits(s)
  BY <1>1 DEF ClientInv, TabsFit
<1>3. PaysOn => TabFits(s)'
  BY <1>1, <1>2, TabGoesOn DEF ClientInv, PayFits, PaysOn, ClientTypes
<1>4. s.op \in ClientOpRow /\ ClientOpFits(s.op)
  BY <1>2 DEF TabFits, TabRow
<1> QED BY <1>1, <1>2, <1>3, <1>4

\* What the record may become.
LEMMA RecordRests ==
  ASSUME ClientInv, PaysOn, KeepsRecord
  PROVE  record' \in RecoveryRow /\ RecordFits(record)' /\ event' \in [Tabs -> BOOLEAN]
<1>1. PICK r \in RecoveryRow : r = record
  BY DEF ClientInv, ClientTypes
<1>2. RecordFits(r)'
  BY <1>1, RecordStays DEF ClientInv, TabsFit, PaysOn
<1>3. record' = r /\ event' = event
  BY <1>1 DEF KeepsRecord
<1>4. RecordFits(record)'
  BY <1>2, <1>3 DEF RecordFits
<1> QED BY <1>3, <1>4 DEF ClientInv, ClientTypes

LEMMA RecordIsStored ==
  ASSUME ClientInv, NEW t \in Tabs, NEW r \in RecoveryRow, RecordFits(r)', Stores(t, r)
  PROVE  record' \in RecoveryRow /\ RecordFits(record)' /\ event' \in [Tabs -> BOOLEAN]
<1>1. record' = r
  BY DEF Stores
<1>2. RecordFits(record)'
  BY <1>1 DEF RecordFits
<1>3. event' = event \/ event' = [u \in Tabs |-> u # t \/ event[u]]
  BY DEF Stores
<1>4. event' \in [Tabs -> BOOLEAN]
  <2>1. event \in [Tabs -> BOOLEAN]
    BY DEF ClientInv, ClientTypes
  <2>2. [u \in Tabs |-> u # t \/ event[u]] \in [Tabs -> BOOLEAN]
    BY Zenon
  <2> QED BY <1>3, <2>1, <2>2
<1> QED BY <1>1, <1>2, <1>4

(***************************************************************************)
(* The ends of an operation.                                               *)
(***************************************************************************)
LEMMA IdleOps ==
  /\ ClientIdle \in ClientOpRow /\ ClientIdle.pc = "idle" /\ ClientIdle.bytes = 0 /\ ClientIdle.intent = 0
  /\ ClientIdle.resumes = FALSE /\ ClientOpFits(ClientIdle)'
BY DEF ClientIdle, ClientOpRow, ClientOpFits

LEMMA NoRecordFits ==
  NoRecord \in RecoveryRow /\ NoRecord.status = "empty" /\ NoRecord.bytes = 0 /\ RecordFits(NoRecord)'
BY DEF NoRecord, RecoveryRow, RecordFits

\* The tab keeps what it knows, and its operation goes on to op.
LEMMA OpRow ==
  ASSUME NEW s \in TabRow, TabFits(s)', NEW op \in ClientOpRow, ClientOpFits(op)', NEW q, q = [s EXCEPT !.op = op]
  PROVE  q \in TabRow /\ TabFits(q)' /\ q.op = op
BY DEF TabRow, TabFits

LEMMA FailedRow ==
  ASSUME NEW s \in TabRow, TabFits(s)', NEW q, q = Failed(s)
  PROVE  /\ q \in TabRow /\ TabFits(q)'
         /\ q.ref = s.ref /\ q.op = ClientIdle
<1>1. /\ q \in TabRow /\ q.op = ClientIdle /\ q.recovery = s.recovery /\ q.ref = s.ref /\ q.signature = s.signature
      /\ q.prepared = s.prepared /\ q.intent = s.intent /\ q.told = s.told /\ q.of = s.of
  BY IdleOps DEF Failed, TabRow
<1> QED BY <1>1, IdleOps DEF TabFits

LEMMA EndsFailedKeeps ==
  ASSUME ClientInv, PaysOn, NEW t \in Tabs, EndsFailed(t), tabFaults' \in Nat
  PROVE  ClientInv'
<1>1. PICK s \in TabRow : s = gtab[t] /\ TabFits(s)'
  BY TabRowOf
<1>2. PICK q : q = Failed(s)
  OBVIOUS
<1>3. TabBecomes(t, q) /\ KeepsRecord
  BY <1>1, <1>2 DEF EndsFailed
<1> QED BY <1>1, <1>2, <1>3, FailedRow, RecordRests, TabIsWritten

LEMMA EndsWithKeeps ==
  ASSUME ClientInv, PaysOn, NEW t \in Tabs, NEW told \in {"declined", "failedOnChain", "ripped", "replaced"},
         NEW phase \in {"idle", "recovering"}, EndsWith(t, told, phase), tabFaults' \in Nat,
         NEW b, b = gtab[t].op.bytes, ToldFits(told, b)'
  PROVE  ClientInv'
<1>1. PICK s \in TabRow : s = gtab[t] /\ TabFits(s)'
  BY TabRowOf
<1>2. PICK q : q = Terminal(s, told, phase)
  OBVIOUS
<1>3. TabBecomes(t, q) /\ Stores(t, NoRecord)
  BY <1>1, <1>2 DEF EndsWith
<1>4. s.op.bytes \in SignedBytes \cup {0}
  BY DEF TabRow, ClientOpRow
<1>5. /\ q \in TabRow /\ q.op = ClientIdle /\ q.recovery = NoRecord /\ q.ref = NoRecord /\ q.signature = 0
      /\ q.prepared = s.prepared /\ q.intent = s.intent /\ q.told = told /\ q.of = b
  <2>1. PICK shown \in BOOLEAN : shown = (told = "ripped")
    BY Zenon
  <2>2. q = [s EXCEPT !.op = ClientIdle, !.recovery = NoRecord, !.ref = NoRecord, !.signature = 0, !.invalid = FALSE,
                      !.phase = phase, !.told = told, !.of = b, !.result = shown]
    BY <1>1, <1>2, <2>1, Zenon DEF Terminal
  <2>3. b \in SignedBytes \cup {0}
    BY <1>1, <1>4
  <2>4. /\ q.op = ClientIdle /\ q.recovery = NoRecord /\ q.ref = NoRecord /\ q.signature = 0
        /\ q.prepared = s.prepared /\ q.intent = s.intent /\ q.told = told /\ q.of = b
    BY <2>2 DEF TabRow
  <2>5. q \in TabRow
    BY <2>1, <2>2, <2>3, IdleOps, NoRecordFits DEF TabRow
  <2> QED BY <2>4, <2>5
<1>6. TabFits(q)'
  BY <1>1, <1>5, IdleOps, NoRecordFits DEF TabFits
<1> QED BY <1>3, <1>5, <1>6, NoRecordFits, RecordIsStored, TabIsWritten

\* The tab goes on, the record stays.
LEMMA OpKeeps ==
  ASSUME ClientInv, PaysOn, NEW t \in Tabs, NEW op \in ClientOpRow, ClientOpFits(op)',
         TabBecomes(t, [gtab[t] EXCEPT !.op = op]), KeepsRecord, tabFaults' \in Nat
  PROVE  ClientInv'
<1>1. PICK s \in TabRow : s = gtab[t] /\ TabFits(s)'
  BY TabRowOf
<1>2. PICK q : q = [s EXCEPT !.op = op]
  OBVIOUS
<1>3. TabBecomes(t, q)
  BY <1>1, <1>2
<1> QED BY <1>1, <1>2, <1>3, OpRow, RecordRests, TabIsWritten

\* The tab's operation goes on to pc.
LEMMA GoesKeeps ==
  ASSUME ClientInv, PaysOn, NEW t \in Tabs, NEW op \in ClientOpRow, op = gtab[t].op,
         NEW pc \in {"broadcast", "reclaim", "verify", "verifyFailed", "rip"},
         op.intent \in Orders, Signed(op.bytes)',
         pc \in {"reclaim", "broadcast"} => bytes'[op.bytes].intent = op.intent,
         pc \in {"broadcast", "rip"} => order'[op.intent].bytes = op.bytes,
         pc = "verifyFailed" => bytes'[op.bytes].state = "error",
         pc = "rip" => order'[op.intent].status \in {"VERIFIED", "CONSUMED"},
         TabBecomes(t, Goes(gtab[t], pc)), KeepsRecord, tabFaults' \in Nat
  PROVE  ClientInv'
<1>1. PICK n : n = [op EXCEPT !.pc = pc]
  OBVIOUS
<1>2. n \in ClientOpRow /\ n.pc = pc /\ n.intent = op.intent /\ n.bytes = op.bytes
  BY <1>1 DEF ClientOpRow
<1>3. ClientOpFits(n)'
  BY <1>2 DEF ClientOpFits
<1>4. TabBecomes(t, [gtab[t] EXCEPT !.op = n])
  BY <1>1 DEF Goes
<1> QED BY <1>2, <1>3, <1>4, OpKeeps

\* The tab and the record become r, the operation goes on to op.
LEMMA SynchronizedRow ==
  ASSUME NEW s \in TabRow, TabFits(s)', NEW r \in RecoveryRow, RecordFits(r)', r.status # "invalid",
         r.bytes # 0 => Signed(r.bytes)', NEW p, p = Synchronized(s, r)
  PROVE  p \in TabRow /\ TabFits(p)' /\ p.op = s.op /\ p.ref = r /\ p.recovery = r
<1>1. /\ p \in TabRow /\ p.op = s.op /\ p.recovery = r /\ p.ref = r /\ p.signature = r.bytes
      /\ p.prepared = s.prepared /\ p.intent = s.intent /\ p.told = s.told /\ p.of = s.of
  BY DEF Synchronized, TabRow, RecoveryRow
<1> QED BY <1>1 DEF TabFits

LEMMA ClearedRow ==
  ASSUME NEW s \in TabRow, TabFits(s)', NEW p, p = Cleared(s)
  PROVE  p \in TabRow /\ TabFits(p)'
<1>1. /\ p \in TabRow /\ p.op = s.op /\ p.recovery = NoRecord /\ p.ref = NoRecord /\ p.signature = 0
      /\ p.prepared = s.prepared /\ p.intent = s.intent /\ p.told = s.told /\ p.of = s.of
  BY NoRecordFits DEF Cleared, TabRow
<1> QED BY <1>1, NoRecordFits DEF TabFits

LEMMA InvalidRow ==
  ASSUME NEW s \in TabRow, TabFits(s)', NEW p, p = RecoveryInvalid(s)
  PROVE  p \in TabRow /\ TabFits(p)'
<1>1. /\ p \in TabRow /\ p.op = s.op /\ p.recovery = NoRecord /\ p.ref = NoRecord /\ p.signature = 0
      /\ p.prepared = s.prepared /\ p.intent = s.intent /\ p.told = s.told /\ p.of = s.of
  BY NoRecordFits DEF RecoveryInvalid, TabRow
<1> QED BY <1>1, NoRecordFits DEF TabFits

\* The phase and what a tab shows are the page's own.
LEMMA PhaseRow ==
  ASSUME NEW s \in TabRow, TabFits(s)', NEW phase \in {"idle", "working", "recovering"},
         NEW p, p = [s EXCEPT !.phase = phase]
  PROVE  p \in TabRow /\ TabFits(p)' /\ p.op = s.op
<1>1. /\ p \in TabRow /\ p.op = s.op /\ p.recovery = s.recovery /\ p.ref = s.ref /\ p.signature = s.signature
      /\ p.prepared = s.prepared /\ p.intent = s.intent /\ p.told = s.told /\ p.of = s.of
  BY DEF TabRow
<1> QED BY <1>1 DEF TabFits

LEMMA UntoldRow ==
  ASSUME NEW s \in TabRow, TabFits(s)', NEW p, p = [s EXCEPT !.told = "none"]
  PROVE  p \in TabRow /\ TabFits(p)' /\ p.op = s.op
<1>1. /\ p \in TabRow /\ p.op = s.op /\ p.recovery = s.recovery /\ p.ref = s.ref /\ p.signature = s.signature
      /\ p.prepared = s.prepared /\ p.intent = s.intent /\ p.told = "none"
  BY DEF TabRow
<1> QED BY <1>1 DEF TabFits, ToldFits

LEMMA FreshTabFits ==
  FreshTab \in TabRow /\ TabFits(FreshTab)'
<1>1. PICK q : q = FreshTab
  OBVIOUS
<1>2. /\ q \in TabRow /\ q.op = ClientIdle /\ q.recovery = NoRecord /\ q.ref = NoRecord /\ q.signature = 0
      /\ q.prepared = FALSE /\ q.told = "none"
  BY <1>1, IdleOps, NoRecordFits DEF FreshTab, TabRow
<1>3. TabFits(q)'
  BY <1>2, IdleOps, NoRecordFits DEF TabFits, ToldFits
<1> QED BY <1>1, <1>2, <1>3 DEF FreshTab, NoRecord, ClientIdle

(***************************************************************************)
(* The actions.                                                            *)
(***************************************************************************)
LEMMA ClientPays ==
  ASSUME ClientInv
  PROVE  /\ PayFits
         /\ UNCHANGED <<order, bytes>> => PaysOn
         /\ tabFaults \in Nat /\ (tabFaults' = tabFaults \/ tabFaults' = tabFaults + 1 => tabFaults' \in Nat)
BY PayRests DEF ClientInv, ClientTypes, PayFits

LEMMA HydratedKeeps ==
  ASSUME ClientInv, UNCHANGED <<order, bytes>>, tabFaults' \in Nat, NEW t \in Tabs,
         NEW s \in TabRow, TabFits(s)', HydratedFrom(t, s)
  PROVE  ClientInv'
<1>1. PaysOn
  BY ClientPays
<1>2. PICK r \in RecoveryRow : r = record /\ RecordFits(r) /\ RecordFits(r)'
  BY <1>1, RecordStays DEF ClientInv, ClientTypes, TabsFit, PaysOn
<1>3. \E q \in TabRow, n \in RecoveryRow : TabFits(q)' /\ RecordFits(n)' /\ Hydrated(s) = <<q, n>>
  <2>1. CASE r.status = "awaiting-signature"
    <3>1. Hydrated(s) = <<Cleared(s), NoRecord>>
      BY <1>2, <2>1 DEF Hydrated
    <3> QED BY <3>1, ClearedRow, NoRecordFits
  <2>2. CASE r.status = "invalid"
    <3>1. Hydrated(s) = <<RecoveryInvalid(s), r>>
      BY <1>2, <2>2 DEF Hydrated
    <3> QED BY <1>2, <3>1, InvalidRow
  <2>3. CASE r.status = "empty"
    <3>1. Hydrated(s) = <<IF s.ref # NoRecord THEN Cleared(s) ELSE s, r>>
      BY <1>2, <2>3 DEF Hydrated
    <3> QED BY <1>2, <3>1, ClearedRow
  <2>4. CASE r.status \in {"signed-claim-pending", "signature-known"}
    <3>1. Hydrated(s) = <<[Synchronized(s, r) EXCEPT !.phase = "recovering"], r>>
      BY <1>2, <2>4 DEF Hydrated
    <3>2. PICK p : p = Synchronized(s, r)
      OBVIOUS
    <3>3. Signed(r.bytes)'
      BY <1>2, <2>4 DEF RecordFits
    <3>4. p \in TabRow /\ TabFits(p)'
      BY <1>2, <2>4, <3>2, <3>3, SynchronizedRow
    <3>5. PICK q : q = [p EXCEPT !.phase = "recovering"]
      OBVIOUS
    <3>6. q \in TabRow /\ TabFits(q)'
      BY <3>4, <3>5, PhaseRow
    <3> QED BY <1>2, <3>1, <3>2, <3>5, <3>6
  <2> QED BY <2>1, <2>2, <2>3, <2>4 DEF RecoveryRow
<1>4. PICK q, n : q \in TabRow /\ n \in RecoveryRow /\ TabFits(q)' /\ RecordFits(n)' /\ Hydrated(s) = <<q, n>>
  BY <1>3
<1>5. TabBecomes(t, q) /\ record' = n
  BY <1>4 DEF HydratedFrom
<1>6. RecordFits(record)'
  BY <1>4, <1>5 DEF RecordFits
<1>7. event' \in [Tabs -> BOOLEAN]
  <2>1. event' = [u \in Tabs |-> IF u = t THEN FALSE ELSE event[u] \/ record' # record]
    BY DEF HydratedFrom
  <2>2. \A u \in Tabs : (IF u = t THEN FALSE ELSE event[u] \/ record' # record) \in BOOLEAN
    BY Zenon
  <2> QED BY <2>1, <2>2, Zenon
<1> QED BY <1>1, <1>4, <1>5, <1>6, <1>7, TabIsWritten

LEMMA HydrateRecoveryKeeps ==
  ASSUME ClientInv, NEW t \in Tabs, HydrateRecovery(t)
  PROVE  ClientInv'
<1>1. UNCHANGED <<order, bytes>> /\ tabFaults' \in Nat /\ HydratedFrom(t, gtab[t])
  BY ClientPays DEF HydrateRecovery
<1>2. PICK s \in TabRow : s = gtab[t] /\ TabFits(s)'
  BY <1>1, ClientPays, TabRowOf
<1>3. HydratedFrom(t, s)
  BY <1>1, <1>2
<1> QED BY <1>1, <1>2, <1>3, HydratedKeeps

LEMMA ReloadTabKeeps ==
  ASSUME ClientInv, NEW t \in Tabs, ReloadTab(t)
  PROVE  ClientInv'
<1>1. UNCHANGED <<order, bytes>> /\ tabFaults' \in Nat /\ HydratedFrom(t, FreshTab)
  BY ClientPays DEF ReloadTab
<1> QED BY <1>1, FreshTabFits, HydratedKeeps

LEMMA HandlePrepareKeeps ==
  ASSUME ClientInv, NEW t \in Tabs, HandlePrepare(t)
  PROVE  ClientInv'
<1>1. PaysOn /\ KeepsRecord /\ tabFaults' \in Nat
  BY ClientPays DEF HandlePrepare, KeepsRecord
<1>2. PICK s \in TabRow : s = gtab[t] /\ TabFits(s)' /\ s.op \in ClientOpRow
  BY <1>1, TabRowOf
<1>3. PICK op : op = [s.op EXCEPT !.pc = "intent"]
  OBVIOUS
<1>4. op \in ClientOpRow /\ op.pc = "intent"
  BY <1>2, <1>3 DEF ClientOpRow
<1>5. ClientOpFits(op)'
  BY <1>4 DEF ClientOpFits
<1>6. PICK p : p = [s EXCEPT !.told = "none"]
  OBVIOUS
<1>7. p \in TabRow /\ TabFits(p)'
  BY <1>2, <1>6, UntoldRow
<1>8. PICK q : q = [p EXCEPT !.op = op]
  OBVIOUS
<1>9. TabBecomes(t, q)
  BY <1>2, <1>3, <1>6, <1>8 DEF HandlePrepare, TabRow
<1> QED BY <1>1, <1>4, <1>5, <1>7, <1>8, <1>9, OpRow, RecordRests, TabIsWritten

LEMMA IntentAnswersKeeps ==
  ASSUME ClientInv, NEW t \in Tabs, IntentAnswers(t)
  PROVE  ClientInv'
<1>1. PICK s \in TabRow : s = gtab[t] /\ TabFits(s) /\ (PaysOn => TabFits(s)') /\ s.op \in ClientOpRow
  BY TabRowOf
<1>2. UNCHANGED <<bytes, tabFaults>> /\ tabFaults' \in Nat /\ PayFits
  BY ClientPays DEF IntentAnswers
<1>3. PICK c \in CreatedOrders \cup {<<order, 0>>} :
        /\ order' = c[1]
        /\ CASE c[2] = 0 -> TabBecomes(t, [s EXCEPT !.op = ClientIdle]) /\ KeepsRecord
             [] c[2] # 0 /\ c[1][c[2]].bytes = 0 ->
                  TabBecomes(t, [s EXCEPT !.op.pc = "transaction", !.op.intent = c[2]]) /\ KeepsRecord
             [] OTHER ->
                  /\ TabBecomes(t, [Synchronized(s, SignatureKnown(c[2], order[c[2]].bytes))
                                      EXCEPT !.op = ClientIdle, !.phase = "recovering"])
                  /\ Stores(t, SignatureKnown(c[2], order[c[2]].bytes))
  BY <1>1 DEF IntentAnswers
<1>4. CASE c[2] = 0
  <2>1. PaysOn
    <3>1. 0 \notin Orders
      BY GachaClientConstants
    <3>2. c \notin CreatedOrders
      BY <1>2, <1>3, <1>4, <3>1, CreatedPays
    <3> QED BY <1>2, <1>3, <3>2, PayRests
  <2>2. TabBecomes(t, [s EXCEPT !.op = ClientIdle]) /\ KeepsRecord
    BY <1>3, <1>4
  <2> QED BY <1>1, <1>2, <2>1, <2>2, IdleOps, OpKeeps
<1>5. CASE c[2] # 0
  <2>1. c \in CreatedOrders
    BY <1>3, <1>5
  <2>2. PICK i \in Orders : i = c[2]
    BY <1>2, <1>3, <2>1, CreatedPays
  <2>3. PaysOn /\ order'[i].bytes = order[i].bytes
    BY <1>2, <1>3, <2>1, <2>2, CreatedPays
  <2>4. CASE order'[i].bytes = 0
    <3>1. TabBecomes(t, [s EXCEPT !.op.pc = "transaction", !.op.intent = i]) /\ KeepsRecord
      BY <1>3, <1>5, <2>2, <2>4
    <3>2. PICK op : op = [s.op EXCEPT !.pc = "transaction", !.intent = i]
      OBVIOUS
    <3>3. op \in ClientOpRow /\ op.pc = "transaction" /\ op.intent = i
      BY <1>1, <3>2 DEF ClientOpRow
    <3>4. ClientOpFits(op)'
      BY <3>3 DEF ClientOpFits
    <3>5. TabBecomes(t, [gtab[t] EXCEPT !.op = op])
      BY <1>1, <3>1, <3>2
    <3> QED BY <1>2, <2>3, <3>1, <3>3, <3>4, <3>5, OpKeeps
  <2>5. CASE order'[i].bytes # 0
    <3>1. PICK r : r = SignatureKnown(i, order[i].bytes)
      OBVIOUS
    <3>2. TabBecomes(t, [Synchronized(s, r) EXCEPT !.op = ClientIdle, !.phase = "recovering"]) /\ Stores(t, r)
      BY <1>3, <1>5, <2>2, <2>5, <3>1
    <3>3. PICK b \in SignedBytes : b = order[i].bytes /\ Signed(b)
      BY <1>2, <2>3, <2>5 DEF PayFits, PayTypes, OrderRow, ClaimsFit, Signed
    <3>4. Signed(b)'
      BY <1>2, <3>3 DEF Signed
    <3>5. r \in RecoveryRow /\ r.status = "signature-known" /\ r.intent = i /\ r.bytes = b
      BY <3>1, <3>3 DEF SignatureKnown, RecoveryRow
    <3>6. RecordFits(r)' /\ Signed(r.bytes)'
      BY <3>4, <3>5 DEF RecordFits, Signed
    <3>7. PICK p : p = Synchronized(s, r)
      OBVIOUS
    <3>8. p \in TabRow /\ TabFits(p)'
      BY <1>1, <2>3, <3>5, <3>6, <3>7, SynchronizedRow
    <3>9. PICK u : u = [p EXCEPT !.phase = "recovering"]
      OBVIOUS
    <3>10. u \in TabRow /\ TabFits(u)'
      BY <3>8, <3>9, PhaseRow
    <3>11. PICK q : q = [u EXCEPT !.op = ClientIdle]
      OBVIOUS
    <3>12. TabBecomes(t, q)
      BY <3>2, <3>7, <3>8, <3>9, <3>11 DEF TabRow
    <3>13. q \in TabRow /\ TabFits(q)'
      BY <3>10, <3>11, IdleOps, OpRow
    <3> QED BY <1>2, <2>3, <3>2, <3>5, <3>6, <3>12, <3>13, RecordIsStored, TabIsWritten
  <2> QED BY <2>4, <2>5
<1> QED BY <1>4, <1>5

LEMMA TransactionAnswersKeeps ==
  ASSUME ClientInv, NEW t \in Tabs, TransactionAnswers(t)
  PROVE  ClientInv'
<1>1. PaysOn /\ KeepsRecord /\ tabFaults' \in Nat
  BY ClientPays DEF TransactionAnswers, KeepsRecord
<1>2. PICK s \in TabRow : s = gtab[t] /\ TabFits(s) /\ TabFits(s)' /\ s.op.intent \in Orders
  BY <1>1, TabRowOf DEF TransactionAnswers, At, ClientOpFits
<1>3. CASE TabBecomes(t, [s EXCEPT !.op = ClientIdle])
  BY <1>1, <1>2, <1>3, IdleOps, OpKeeps
<1>4. CASE TabBecomes(t, PrepareSucceeded(s, s.op.intent))
  <2>1. PICK i \in Orders : i = s.op.intent
    BY <1>2
  <2>2. PICK q : q = [s EXCEPT !.op = ClientIdle, !.intent = i, !.prepared = TRUE, !.recovery = NoRecord, !.invalid = FALSE]
    OBVIOUS
  <2>3. /\ q \in TabRow /\ q.op = ClientIdle /\ q.recovery = NoRecord /\ q.ref = s.ref /\ q.signature = s.signature
        /\ q.prepared = TRUE /\ q.intent = i /\ q.told = s.told /\ q.of = s.of
    BY <2>2, IdleOps, NoRecordFits DEF TabRow
  <2>4. TabFits(q)'
    BY <1>2, <2>3, IdleOps, NoRecordFits DEF TabFits
  <2>5. TabBecomes(t, q)
    BY <1>4, <2>1, <2>2 DEF PrepareSucceeded
  <2> QED BY <1>1, <2>3, <2>4, <2>5, RecordRests, TabIsWritten
<1> QED BY <1>2, <1>3, <1>4 DEF TransactionAnswers

LEMMA HandleConfirmKeeps ==
  ASSUME ClientInv, NEW t \in Tabs, HandleConfirm(t)
  PROVE  ClientInv'
<1>1. PaysOn /\ KeepsRecord /\ tabFaults' \in Nat
  BY ClientPays DEF HandleConfirm, KeepsRecord
<1>2. PICK s \in TabRow : s = gtab[t] /\ TabFits(s) /\ TabFits(s)' /\ s.intent \in Orders
  BY <1>1, TabRowOf DEF HandleConfirm, TabFits
<1>3. PICK op : op = [ClientIdle EXCEPT !.pc = "lock", !.intent = s.intent]
  OBVIOUS
<1>4. op \in ClientOpRow /\ op.pc = "lock" /\ op.intent = s.intent /\ op.bytes = 0
  BY <1>2, <1>3, IdleOps DEF ClientOpRow, ClientIdle
<1>5. ClientOpFits(op)'
  BY <1>2, <1>4 DEF ClientOpFits
<1>6. PICK p : p = [s EXCEPT !.told = "none"]
  OBVIOUS
<1>7. p \in TabRow /\ TabFits(p)'
  BY <1>2, <1>6, UntoldRow
<1>8. PICK u : u = [p EXCEPT !.phase = "working"]
  OBVIOUS
<1>9. u \in TabRow /\ TabFits(u)'
  BY <1>7, <1>8, PhaseRow
<1>10. PICK q : q = [u EXCEPT !.op = op]
  OBVIOUS
<1>11. TabBecomes(t, q)
  <2>1. TabBecomes(t, [s EXCEPT !.op = op, !.phase = "working", !.told = "none"])
    BY <1>2, <1>3 DEF HandleConfirm
  <2>2. q = [s EXCEPT !.op = op, !.phase = "working", !.told = "none"]
    BY <1>2, <1>6, <1>7, <1>8, <1>9, <1>10 DEF TabRow
  <2> QED BY <2>1, <2>2
<1> QED BY <1>1, <1>4, <1>5, <1>9, <1>10, <1>11, OpRow, RecordRests, TabIsWritten

\* The record and the tab become r, and the operation op.
LEMMA SynchronizedKeeps ==
  ASSUME ClientInv, PaysOn, NEW t \in Tabs, NEW r \in RecoveryRow, RecordFits(r)', r.status # "invalid",
         r.bytes # 0 => Signed(r.bytes)', NEW op \in ClientOpRow, ClientOpFits(op)',
         TabBecomes(t, [Synchronized(gtab[t], r) EXCEPT !.op = op]), Stores(t, r), tabFaults' \in Nat
  PROVE  ClientInv'
<1>1. PICK s \in TabRow : s = gtab[t] /\ TabFits(s)'
  BY TabRowOf
<1>2. PICK p : p = Synchronized(s, r)
  OBVIOUS
<1>3. p \in TabRow /\ TabFits(p)'
  BY <1>1, <1>2, SynchronizedRow
<1>4. PICK q : q = [p EXCEPT !.op = op]
  OBVIOUS
<1>5. TabBecomes(t, q)
  BY <1>1, <1>2, <1>4
<1> QED BY <1>3, <1>4, <1>5, OpRow, RecordIsStored, TabIsWritten

LEMMA LockBroadcastKeeps ==
  ASSUME ClientInv, NEW t \in Tabs, LockBroadcast(t)
  PROVE  ClientInv'
<1>1. PaysOn /\ tabFaults' \in Nat
  BY ClientPays DEF LockBroadcast
<1>2. PICK s \in TabRow : /\ s = gtab[t] /\ TabFits(s)' /\ s.op \in ClientOpRow
                          /\ s.op.intent \in Orders /\ s.op.bytes = 0
  BY <1>1, TabRowOf DEF LockBroadcast, At, ClientOpFits
<1>3. CASE EndsFailed(t)
  BY <1>1, <1>3, EndsFailedKeeps
<1>4. CASE EndsWith(t, "declined", "idle")
  <2>1. PICK b : b = 0
    OBVIOUS
  <2>2. ToldFits("declined", b)'
    BY <2>1 DEF ToldFits
  <2>3. b = gtab[t].op.bytes
    BY <1>2, <2>1
  <2> QED BY <1>1, <1>4, <2>2, <2>3, EndsWithKeeps
<1>5. CASE TabBecomes(t, Goes(Synchronized(s, Awaiting(s.op.intent)), "sign")) /\ Stores(t, Awaiting(s.op.intent))
  <2>1. PICK r : r = Awaiting(s.op.intent)
    OBVIOUS
  <2>2. r \in RecoveryRow /\ r.status = "awaiting-signature" /\ r.intent = s.op.intent /\ r.bytes = 0
    BY <1>2, <2>1 DEF Awaiting, RecoveryRow
  <2>3. RecordFits(r)'
    BY <1>2, <2>2 DEF RecordFits
  <2>4. PICK op : op = [s.op EXCEPT !.pc = "sign"]
    OBVIOUS
  <2>5. op \in ClientOpRow /\ op.pc = "sign" /\ op.intent = s.op.intent /\ op.bytes = 0
    BY <1>2, <2>4 DEF ClientOpRow
  <2>6. ClientOpFits(op)'
    BY <1>2, <2>5 DEF ClientOpFits
  <2>7. TabBecomes(t, [Synchronized(gtab[t], r) EXCEPT !.op = op]) /\ Stores(t, r)
    <3>1. PICK p : p = Synchronized(s, r)
      OBVIOUS
    <3>2. p.op = s.op
      BY <3>1 DEF Synchronized, TabRow
    <3>3. Goes(p, "sign") = [p EXCEPT !.op = op]
      BY <2>4, <3>2 DEF Goes
    <3> QED BY <1>2, <1>5, <2>1, <3>1, <3>3
  <2> QED BY <1>1, <2>2, <2>3, <2>5, <2>6, <2>7, SynchronizedKeeps
<1> QED BY <1>2, <1>3, <1>4, <1>5 DEF LockBroadcast

LEMMA WalletSignsKeeps ==
  ASSUME ClientInv, NEW t \in Tabs, WalletSigns(t)
  PROVE  ClientInv'
<1>1. UNCHANGED order /\ tabFaults' \in Nat /\ PayFits
  BY ClientPays DEF WalletSigns
<1>2. PICK s \in TabRow : /\ s = gtab[t] /\ TabFits(s) /\ (PaysOn => TabFits(s)') /\ s.op \in ClientOpRow
                          /\ s.op.intent \in Orders /\ s.op.bytes = 0
  BY TabRowOf DEF WalletSigns, At, ClientOpFits
<1>3. CASE EndsWith(t, "declined", "idle") /\ UNCHANGED bytes
  <2>1. PICK b : b = 0
    OBVIOUS
  <2>2. ToldFits("declined", b)'
    BY <2>1 DEF ToldFits
  <2>3. b = gtab[t].op.bytes
    BY <1>2, <2>1
  <2> QED BY <1>1, <1>3, <2>2, <2>3, PayRests, EndsWithKeeps
<1>4. CASE \E x \in SignedBytes : bytes[x].state = "none"
  <2>1. PICK b : b = CHOOSE x \in SignedBytes : bytes[x].state = "none"
                       /\ \A y \in SignedBytes : bytes[y].state = "none" => x <= y
    OBVIOUS
  <2>2. b \in SignedBytes /\ bytes[b].state = "none"
    BY <1>4, <2>1, LeastBytes
  <2>3. CASE /\ bytes' = [bytes EXCEPT ![b] = [state |-> "signed", intent |-> s.op.intent]]
             /\ \/ EndsFailed(t)
                \/ /\ TabBecomes(t, [Synchronized(s, SignedPending(s.op.intent, b)) EXCEPT !.op.pc = "claim", !.op.bytes = b])
                   /\ Stores(t, SignedPending(s.op.intent, b))
    <3>1. PaysOn /\ Signed(b)' /\ bytes'[b].intent = s.op.intent
      BY <1>1, <1>2, <2>2, <2>3, SigningPays DEF Signed
    <3>2. CASE EndsFailed(t)
      BY <1>1, <3>1, <3>2, EndsFailedKeeps
    <3>3. CASE /\ TabBecomes(t, [Synchronized(s, SignedPending(s.op.intent, b)) EXCEPT !.op.pc = "claim", !.op.bytes = b])
               /\ Stores(t, SignedPending(s.op.intent, b))
      <4>1. PICK r : r = SignedPending(s.op.intent, b)
        OBVIOUS
      <4>2. r \in RecoveryRow /\ r.status = "signed-claim-pending" /\ r.intent = s.op.intent /\ r.bytes = b
        BY <1>2, <2>2, <4>1 DEF SignedPending, RecoveryRow
      <4>3. RecordFits(r)' /\ Signed(r.bytes)'
        BY <1>2, <3>1, <4>2 DEF RecordFits
      <4>4. PICK op : op = [s.op EXCEPT !.pc = "claim", !.bytes = b]
        OBVIOUS
      <4>5. op \in ClientOpRow /\ op.pc = "claim" /\ op.intent = s.op.intent /\ op.bytes = b
        BY <1>2, <2>2, <4>4 DEF ClientOpRow
      <4>6. ClientOpFits(op)'
        BY <1>2, <3>1, <4>5 DEF ClientOpFits
      <4>7. TabBecomes(t, [Synchronized(gtab[t], r) EXCEPT !.op = op]) /\ Stores(t, r)
        <5>1. PICK p : p = Synchronized(s, r)
          OBVIOUS
        <5>2. p.op = s.op
          BY <5>1 DEF Synchronized, TabRow
        <5>3. [p EXCEPT !.op.pc = "claim", !.op.bytes = b] = [p EXCEPT !.op = op]
          BY <4>4, <5>2
        <5> QED BY <1>2, <3>3, <4>1, <5>1, <5>3
      <4> QED BY <1>1, <3>1, <4>2, <4>3, <4>5, <4>6, <4>7, SynchronizedKeeps
    <3> QED BY <2>3, <3>2, <3>3
  <2> QED BY <1>2, <1>3, <2>1, <2>3, Zenon DEF WalletSigns
<1> QED BY <1>2, <1>3, <1>4, Zenon DEF WalletSigns

\* A tab that has learnt a signature: what it shows, and what it may store.
LEMMA ShownRow ==
  ASSUME NEW s \in TabRow, TabFits(s)', NEW b \in SignedBytes, Signed(b)', NEW p, p = [s EXCEPT !.signature = b]
  PROVE  p \in TabRow /\ TabFits(p)' /\ p.ref = s.ref
<1>1. /\ p \in TabRow /\ p.op = s.op /\ p.recovery = s.recovery /\ p.ref = s.ref /\ p.signature = b
      /\ p.prepared = s.prepared /\ p.intent = s.intent /\ p.told = s.told /\ p.of = s.of
  BY DEF TabRow
<1> QED BY <1>1 DEF TabFits

LEMMA KnownKeeps ==
  ASSUME ClientInv, PaysOn, NEW t \in Tabs, NEW s \in TabRow, TabFits(s)',
         NEW b \in SignedBytes, Signed(b)', Known(t, s, b)
  PROVE  ClientInv'
<1>1. tabFaults' \in Nat
  BY ClientPays DEF Known
<1>2. PICK p : p = [s EXCEPT !.signature = b]
  OBVIOUS
<1>3. p \in TabRow /\ TabFits(p)' /\ p.ref = s.ref
  BY <1>2, ShownRow
<1>4. CASE TabBecomes(t, p) /\ KeepsRecord
  BY <1>1, <1>3, <1>4, RecordRests, TabIsWritten
<1>5. PICK r : r = SignatureKnown(s.ref.intent, b)
  OBVIOUS
<1>6. CASE /\ s.ref # NoRecord
           /\ TabBecomes(t, [p EXCEPT !.ref = r, !.recovery = r]) /\ Stores(t, r)
  <2>1. s.ref \in RecoveryRow /\ s.ref.intent \in Orders
    BY <1>6 DEF TabFits, TabRow, RecordFits, RecoveryRow
  <2>2. r \in RecoveryRow /\ r.status = "signature-known" /\ r.intent = s.ref.intent /\ r.bytes = b
    BY <1>5, <2>1 DEF SignatureKnown, RecoveryRow
  <2>3. RecordFits(r)'
    BY <2>1, <2>2 DEF RecordFits
  <2>4. PICK q : q = [p EXCEPT !.ref = r, !.recovery = r]
    OBVIOUS
  <2>5. /\ q \in TabRow /\ q.op = p.op /\ q.recovery = r /\ q.ref = r /\ q.signature = p.signature
        /\ q.prepared = p.prepared /\ q.intent = p.intent /\ q.told = p.told /\ q.of = p.of
    BY <1>3, <2>2, <2>4 DEF TabRow
  <2>6. TabFits(q)'
    BY <1>3, <2>2, <2>3, <2>5 DEF TabFits
  <2>7. TabBecomes(t, q)
    BY <1>6, <2>4
  <2> QED BY <1>1, <1>6, <2>2, <2>3, <2>5, <2>6, <2>7, RecordIsStored, TabIsWritten
<1> QED BY <1>2, <1>4, <1>5, <1>6 DEF Known

LEMMA ClaimSignatureOfKeeps ==
  ASSUME ClientInv, NEW t \in Tabs, ClaimSignatureOf(t)
  PROVE  ClientInv'
<1>1. UNCHANGED bytes /\ KeepsRecord /\ tabFaults' \in Nat /\ PayFits
  BY ClientPays DEF ClaimSignatureOf, KeepsRecord
<1>2. PICK s \in TabRow : /\ s = gtab[t] /\ s.op \in ClientOpRow
                          /\ s.op.intent \in Orders /\ Signed(s.op.bytes) /\ bytes[s.op.bytes].intent = s.op.intent
  BY TabRowOf DEF ClaimSignatureOf, At, ClientOpFits
<1>3. PICK i \in Orders, b \in SignedBytes : i = s.op.intent /\ b = s.op.bytes
  BY <1>2 DEF Signed
<1>4. bytes[b].state # "none" /\ bytes[b].intent = i
  BY <1>2, <1>3 DEF Signed
<1>5. \/ /\ ClaimAccepted(b) /\ order' = [order EXCEPT ![i].bytes = b] /\ TabBecomes(t, Goes(s, "broadcast"))
      \/ /\ TabBecomes(t, Goes(s, "reclaim"))
         /\ UNCHANGED order \/ (ClaimAccepted(b) /\ order' = [order EXCEPT ![i].bytes = b])
  BY <1>2, <1>3 DEF ClaimSignatureOf
<1>6. PaysOn /\ (ClaimAccepted(b) /\ order' = [order EXCEPT ![i].bytes = b] => order'[i].bytes = b)
  BY <1>1, <1>4, <1>5, ClaimPays, PayRests
<1>7. PICK op \in ClientOpRow : op = gtab[t].op /\ op.intent = i /\ op.bytes = b
  BY <1>2, <1>3
<1>8. Signed(b)' /\ bytes'[b].intent = i
  BY <1>1, <1>4 DEF Signed
<1>9. CASE order'[i].bytes = b /\ TabBecomes(t, Goes(s, "broadcast"))
  BY <1>1, <1>2, <1>6, <1>7, <1>8, <1>9, GoesKeeps
<1>10. CASE TabBecomes(t, Goes(s, "reclaim"))
  BY <1>1, <1>2, <1>6, <1>7, <1>8, <1>10, GoesKeeps
<1> QED BY <1>5, <1>6, <1>9, <1>10

\* What a tab does with the row c that a refused or lost claim is followed by.
Recovered(t, s, b, c) ==
  CASE c[2] = s.op.intent /\ Authority(c[1][c[2]].bytes, b) ->
         TabBecomes(t, Goes(s, "broadcast")) /\ KeepsRecord /\ UNCHANGED tabFaults
    [] c[2] = s.op.intent /\ c[1][c[2]].bytes \notin {0, b} ->
         IF s.op.resumes
         THEN Known(t, [s EXCEPT !.op.pc = "track", !.op.bytes = c[1][c[2]].bytes], c[1][c[2]].bytes)
         ELSE Known(t, Failed(s), c[1][c[2]].bytes)
    [] c[2] # s.op.intent /\ c[1][c[2]].bytes = 0 -> EndsWith(t, "replaced", "recovering") /\ UNCHANGED tabFaults
    [] OTHER -> EndsFailed(t) /\ UNCHANGED tabFaults

LEMMA RecoverSignatureKeeps ==
  ASSUME ClientInv, NEW t \in Tabs, RecoverSignature(t)
  PROVE  ClientInv'
<1>1. UNCHANGED bytes /\ PayFits
  BY ClientPays DEF RecoverSignature
<1>2. PICK s \in TabRow : /\ s = gtab[t] /\ TabFits(s) /\ (PaysOn => TabFits(s)') /\ s.op \in ClientOpRow
                          /\ s.op.intent \in Orders /\ Signed(s.op.bytes) /\ bytes[s.op.bytes].intent = s.op.intent
  BY TabRowOf DEF RecoverSignature, At, ClientOpFits
<1>3. PICK b \in SignedBytes : b = s.op.bytes
  BY <1>2 DEF Signed
<1>4. Signed(b)' /\ bytes'[b].intent = s.op.intent
  BY <1>1, <1>2, <1>3 DEF Signed
<1>5. CASE EndsFailed(t) /\ UNCHANGED <<order, tabFaults>>
  BY <1>1, <1>5, ClientPays, EndsFailedKeeps
<1>6. ASSUME NEW c \in CreatedOrders, order' = c[1], Recovered(t, s, b, c)
      PROVE  ClientInv'
  <2>1. PICK i \in Orders : i = c[2] /\ PaysOn /\ order'[i].bytes = order[i].bytes
    BY <1>1, <1>6, CreatedPays
  <2>2. PICK claimed \in SignedBytes \cup {0} : claimed = order'[i].bytes /\ claimed = c[1][c[2]].bytes
    BY <1>6, <2>1 DEF PaysOn, PayFits, PayTypes, OrderRow
  <2>3. CASE i = s.op.intent /\ claimed = b
    <3>1. TabBecomes(t, Goes(gtab[t], "broadcast")) /\ KeepsRecord /\ UNCHANGED tabFaults
      BY <1>2, <1>6, <2>1, <2>2, <2>3 DEF Recovered, Authority
    <3>2. PICK op \in ClientOpRow : op = gtab[t].op /\ op.intent = i /\ op.bytes = b
      BY <1>2, <1>3, <2>3
    <3> QED BY <1>4, <2>1, <2>2, <2>3, <3>1, <3>2, ClientPays, GoesKeeps
  <2>4. CASE i = s.op.intent /\ claimed \notin {0, b}
    <3>1. IF s.op.resumes THEN Known(t, [s EXCEPT !.op.pc = "track", !.op.bytes = claimed], claimed)
          ELSE Known(t, Failed(s), claimed)
      BY <1>6, <2>1, <2>2, <2>4 DEF Recovered, Authority
    <3>2. claimed \in SignedBytes /\ Signed(claimed)'
      <4>1. claimed \in SignedBytes /\ bytes[claimed].state # "none"
        BY <1>1, <2>1, <2>2, <2>4 DEF PayFits, ClaimsFit
      <4> QED BY <1>1, <4>1 DEF Signed
    <3>3. TabFits(s)'
      BY <1>2, <2>1
    <3>4. CASE s.op.resumes
      <4>1. PICK op : op = [s.op EXCEPT !.pc = "track", !.bytes = claimed]
        OBVIOUS
      <4>2. op \in ClientOpRow /\ op.pc = "track" /\ op.intent = s.op.intent /\ op.bytes = claimed
        BY <1>2, <4>1 DEF ClientOpRow
      <4>3. ClientOpFits(op)'
        BY <1>2, <3>2, <4>2 DEF ClientOpFits
      <4>4. PICK q : q = [s EXCEPT !.op = op]
        OBVIOUS
      <4>5. q \in TabRow /\ TabFits(q)'
        BY <3>3, <4>2, <4>3, <4>4, OpRow
      <4>6. q = [s EXCEPT !.op.pc = "track", !.op.bytes = claimed]
        BY <4>1, <4>4 DEF TabRow
      <4>7. Known(t, q, claimed)
        BY <3>1, <3>4, <4>6
      <4> QED BY <2>1, <3>2, <4>5, <4>7, KnownKeeps
    <3>5. CASE ~s.op.resumes
      <4>1. PICK q : q = Failed(s)
        OBVIOUS
      <4>2. q \in TabRow /\ TabFits(q)'
        BY <3>3, <4>1, FailedRow
      <4>3. Known(t, q, claimed)
        BY <3>1, <3>5, <4>1
      <4> QED BY <2>1, <3>2, <4>2, <4>3, KnownKeeps
    <3> QED BY <3>4, <3>5
  <2>5. CASE i # s.op.intent /\ claimed = 0
    <3>1. EndsWith(t, "replaced", "recovering") /\ UNCHANGED tabFaults
      BY <1>6, <2>1, <2>2, <2>5 DEF Recovered
    <3>2. ToldFits("replaced", b)'
      BY DEF ToldFits
    <3>3. b = gtab[t].op.bytes
      BY <1>2, <1>3
    <3> QED BY <2>1, <3>1, <3>2, <3>3, ClientPays, EndsWithKeeps
  <2>6. CASE \/ i = s.op.intent /\ claimed = 0
             \/ i # s.op.intent /\ claimed # 0
    <3>1. b # 0
      BY GachaClientConstants
    <3>2. EndsFailed(t) /\ UNCHANGED tabFaults
      BY <1>6, <2>1, <2>2, <2>6, <3>1 DEF Recovered, Authority
    <3> QED BY <2>1, <3>2, ClientPays, EndsFailedKeeps
  <2> QED BY <2>3, <2>4, <2>5, <2>6
<1>7. \/ EndsFailed(t) /\ UNCHANGED <<order, tabFaults>>
      \/ \E c \in CreatedOrders : order' = c[1] /\ Recovered(t, gtab[t], gtab[t].op.bytes, c)
  BY Zenon DEF RecoverSignature, Recovered
<1>8. \/ EndsFailed(t) /\ UNCHANGED <<order, tabFaults>>
      \/ \E c \in CreatedOrders : order' = c[1] /\ Recovered(t, s, b, c)
  BY <1>2, <1>3, <1>7
<1> QED BY <1>5, <1>6, <1>8

LEMMA BroadcastKeeps ==
  ASSUME ClientInv, NEW t \in Tabs, Broadcast(t)
  PROVE  ClientInv'
<1>1. UNCHANGED order /\ PayFits
  BY ClientPays DEF Broadcast
<1>2. PICK s \in TabRow : /\ s = gtab[t] /\ TabFits(s) /\ (PaysOn => TabFits(s)') /\ s.op \in ClientOpRow
                          /\ s.op.intent \in Orders /\ Signed(s.op.bytes) /\ bytes[s.op.bytes].intent = s.op.intent
                          /\ order[s.op.intent].bytes = s.op.bytes
  BY TabRowOf DEF Broadcast, At, ClientOpFits
<1>3. PICK b \in SignedBytes : b = s.op.bytes /\ bytes[b].state # "none" /\ order[bytes[b].intent].bytes = b
  BY <1>2 DEF Signed
<1>4. UNCHANGED bytes \/ bytes' = [bytes EXCEPT ![b].state = IF @ = "signed" THEN "sent" ELSE @]
  BY <1>2, <1>3 DEF Broadcast
<1>5. PaysOn
  BY <1>1, <1>3, <1>4, PayRests, BroadcastPays
<1>6. CASE EndsFailed(t) /\ UNCHANGED tabFaults
  BY <1>5, <1>6, ClientPays, EndsFailedKeeps
<1>7. CASE Known(t, Goes(s, "track"), b)
  <2>1. Signed(b)'
    BY <1>3, <1>5 DEF PaysOn, Grows, Signed
  <2>2. PICK op : op = [s.op EXCEPT !.pc = "track"]
    OBVIOUS
  <2>3. op \in ClientOpRow /\ op.pc = "track" /\ op.intent = s.op.intent /\ op.bytes = b
    BY <1>2, <1>3, <2>2 DEF ClientOpRow
  <2>4. ClientOpFits(op)'
    BY <1>2, <2>1, <2>3 DEF ClientOpFits
  <2>5. PICK q : q = [s EXCEPT !.op = op]
    OBVIOUS
  <2>6. q \in TabRow /\ TabFits(q)'
    BY <1>2, <1>5, <2>3, <2>4, <2>5, OpRow
  <2>7. Known(t, q, b)
    BY <1>7, <2>2, <2>5 DEF Goes
  <2> QED BY <1>5, <2>1, <2>6, <2>7, KnownKeeps
<1> QED BY <1>2, <1>3, <1>6, <1>7 DEF Broadcast

LEMMA TrackKeeps ==
  ASSUME ClientInv, NEW t \in Tabs, Track(t)
  PROVE  ClientInv'
<1>1. UNCHANGED <<order, bytes>> /\ PaysOn /\ KeepsRecord /\ tabFaults' \in Nat
  BY ClientPays DEF Track, KeepsRecord
<1>2. PICK s \in TabRow : /\ s = gtab[t] /\ TabFits(s)' /\ s.op \in ClientOpRow
                          /\ s.op.intent \in Orders /\ Signed(s.op.bytes)
  BY <1>1, TabRowOf DEF Track, At, ClientOpFits
<1>3. PICK op \in ClientOpRow : op = gtab[t].op /\ op.intent \in Orders /\ Signed(op.bytes) /\ Signed(op.bytes)'
  BY <1>1, <1>2 DEF Signed
<1>4. CASE TabBecomes(t, Goes(gtab[t], "verify"))
  BY <1>1, <1>3, <1>4, GoesKeeps
<1>5. CASE bytes[op.bytes].state = "error" /\ TabBecomes(t, Goes(gtab[t], "verifyFailed"))
  <2>1. bytes'[op.bytes].state = "error"
    BY <1>1, <1>5
  <2> QED BY <1>1, <1>3, <1>5, <2>1, GoesKeeps
<1>6. CASE TabBecomes(t, Failed(gtab[t]))
  BY <1>1, <1>6, EndsFailedKeeps DEF EndsFailed
<1> QED BY <1>3, <1>4, <1>5, <1>6 DEF Track

LEMMA VerifiedPays ==
  ASSUME PayFits, NEW i \in Orders, NEW b \in SignedBytes, Verifiable(i, b),
         order' = [order EXCEPT ![i].status = "VERIFIED"], UNCHANGED bytes
  PROVE  PaysOn /\ order'[i].status = "VERIFIED" /\ order'[i].bytes = b
<1>1. order[i].bytes = b /\ b # 0 /\ order[i].status \in {"PENDING", "VERIFIED"} /\ bytes[b].state = "landed"
  BY GachaClientConstants DEF Verifiable, PayFits, ClaimsFit
<1>2. PaysOn /\ order'[i].status = "VERIFIED"
  BY <1>1, StatusPays DEF OrderStatuses
<1> QED BY <1>1, <1>2 DEF PaysOn, Grows

LEMMA RejectedPays ==
  ASSUME PayFits, NEW i \in Orders, NEW b \in SignedBytes, ExecutionFailed(i, b),
         order' = [order EXCEPT ![i].status = "FAILED"], UNCHANGED bytes
  PROVE  PaysOn
<1>1. order[i].status = "PENDING"
  BY DEF ExecutionFailed
<1> QED BY <1>1, StatusPays DEF OrderStatuses

LEMMA VerifyPaymentKeeps ==
  ASSUME ClientInv, NEW t \in Tabs, VerifyPayment(t)
  PROVE  ClientInv'
<1>1. UNCHANGED bytes /\ tabFaults' \in Nat /\ PayFits
  BY ClientPays DEF VerifyPayment
<1>2. PICK s \in TabRow : /\ s = gtab[t] /\ s.op \in ClientOpRow
                          /\ s.op.intent \in Orders /\ Signed(s.op.bytes)
                          /\ (s.op.pc = "verifyFailed" => bytes[s.op.bytes].state = "error")
  BY TabRowOf DEF VerifyPayment, At, ClientOpFits
<1>3. PICK i \in Orders, b \in SignedBytes : i = gtab[t].op.intent /\ b = gtab[t].op.bytes
  BY <1>2 DEF Signed
<1>4. Signed(b)'
  BY <1>1, <1>2, <1>3 DEF Signed
<1>5. CASE /\ Verifiable(i, b) /\ order' = [order EXCEPT ![i].status = "VERIFIED"]
           /\ TabBecomes(t, Goes(gtab[t], "rip")) /\ KeepsRecord
  <2>1. PaysOn /\ order'[i].status = "VERIFIED" /\ order'[i].bytes = b
    BY <1>1, <1>5, VerifiedPays
  <2>2. PICK op \in ClientOpRow : op = gtab[t].op /\ op.intent = i /\ op.bytes = b
    BY <1>2, <1>3
  <2> QED BY <1>1, <1>4, <1>5, <2>1, <2>2, GoesKeeps
<1>6. CASE /\ ExecutionFailed(i, b) /\ order' = [order EXCEPT ![i].status = "FAILED"]
           /\ IF At(t, "verifyFailed") THEN EndsWith(t, "failedOnChain", "recovering") ELSE EndsFailed(t)
  <2>1. PaysOn
    BY <1>1, <1>6, RejectedPays
  <2>2. CASE EndsFailed(t)
    BY <1>1, <2>1, <2>2, EndsFailedKeeps
  <2>3. CASE At(t, "verifyFailed") /\ EndsWith(t, "failedOnChain", "recovering")
    <3>1. bytes'[b].state = "error"
      BY <1>1, <1>2, <1>3, <2>3 DEF At
    <3>2. ToldFits("failedOnChain", b)'
      BY <1>4, <3>1 DEF ToldFits
    <3> QED BY <1>1, <1>3, <2>1, <2>3, <3>2, EndsWithKeeps
  <2> QED BY <1>6, <2>2, <2>3
<1>7. CASE /\ EndsFailed(t)
           /\ \/ UNCHANGED order
              \/ Verifiable(i, b) /\ order' = [order EXCEPT ![i].status = "VERIFIED"]
              \/ ExecutionFailed(i, b) /\ order' = [order EXCEPT ![i].status = "FAILED"]
  <2>1. PaysOn
    BY <1>1, <1>7, PayRests, VerifiedPays, RejectedPays
  <2> QED BY <1>1, <1>7, <2>1, EndsFailedKeeps
<1> QED BY <1>3, <1>5, <1>6, <1>7 DEF VerifyPayment

LEMMA CreateRipKeeps ==
  ASSUME ClientInv, NEW t \in Tabs, CreateRip(t)
  PROVE  ClientInv'
<1>1. UNCHANGED bytes /\ tabFaults' \in Nat /\ PayFits
  BY ClientPays DEF CreateRip
<1>2. PICK s \in TabRow : /\ s = gtab[t] /\ s.op.intent \in Orders /\ Signed(s.op.bytes)
                          /\ order[s.op.intent].bytes = s.op.bytes
                          /\ order[s.op.intent].status \in {"VERIFIED", "CONSUMED"}
  BY TabRowOf DEF CreateRip, At, ClientOpFits
<1>3. PICK i \in Orders, b \in SignedBytes : i = gtab[t].op.intent /\ b = gtab[t].op.bytes
  BY <1>2 DEF Signed
<1>4. order[i].bytes = b /\ bytes[b].state = "landed" /\ bytes[b].intent = i /\ b # 0
  BY <1>1, <1>2, <1>3 DEF PayFits, ClaimsFit
<1>5. CASE order' = [order EXCEPT ![i].status = "CONSUMED"]
  <2>1. PaysOn /\ order'[i].status = "CONSUMED"
    BY <1>1, <1>4, <1>5, StatusPays DEF OrderStatuses
  <2>2. CASE EndsFailed(t)
    BY <1>1, <2>1, <2>2, EndsFailedKeeps
  <2>3. CASE EndsWith(t, "ripped", "idle")
    <3>1. bytes'[b].state = "landed" /\ order'[bytes'[b].intent].status = "CONSUMED" /\ Signed(b)'
      BY <1>1, <1>4, <2>1 DEF Signed
    <3>2. ToldFits("ripped", b)'
      BY <3>1 DEF ToldFits
    <3> QED BY <1>1, <1>3, <2>1, <2>3, <3>2, EndsWithKeeps
  <2> QED BY <1>3, <1>5, <2>2, <2>3 DEF CreateRip
<1>6. CASE UNCHANGED order /\ EndsFailed(t)
  BY <1>1, <1>6, PayRests, EndsFailedKeeps
<1> QED BY <1>3, <1>5, <1>6 DEF CreateRip

LEMMA ResumedKeeps ==
  ASSUME ClientInv, PaysOn, KeepsRecord, tabFaults' \in Nat, NEW t \in Tabs,
         NEW op \in ClientOpRow, ClientOpFits(op)',
         TabBecomes(t, [gtab[t] EXCEPT !.op = op, !.phase = "working"])
  PROVE  ClientInv'
<1>1. PICK s \in TabRow : s = gtab[t] /\ TabFits(s)'
  BY TabRowOf
<1>2. PICK p : p = [s EXCEPT !.phase = "working"]
  OBVIOUS
<1>3. p \in TabRow /\ TabFits(p)'
  BY <1>1, <1>2, PhaseRow
<1>4. PICK q : q = [p EXCEPT !.op = op]
  OBVIOUS
<1>5. TabBecomes(t, q)
  BY <1>1, <1>2, <1>4 DEF TabRow
<1> QED BY <1>3, <1>4, <1>5, OpRow, RecordRests, TabIsWritten

LEMMA HandleResumeKeeps ==
  ASSUME ClientInv, NEW t \in Tabs, HandleResume(t)
  PROVE  ClientInv'
<1>1. UNCHANGED bytes /\ PaysOn /\ KeepsRecord /\ tabFaults' \in Nat
  BY ClientPays DEF HandleResume, KeepsRecord
<1>2. PICK s \in TabRow : s = gtab[t] /\ TabFits(s) /\ TabFits(s)'
  BY <1>1, TabRowOf
<1>3. PICK r \in RecoveryRow : r = s.recovery /\ RecordFits(r) /\ RecordFits(r)'
  BY <1>2 DEF TabRow, TabFits
<1>4. CASE r.status = "signed-claim-pending" /\ TabBecomes(t, ReconcileSigned(s, r.intent, r.bytes))
  <2>1. r.intent \in Orders /\ Signed(r.bytes)' /\ bytes'[r.bytes].intent = r.intent
    BY <1>3, <1>4 DEF RecordFits
  <2>2. PICK op : op = [pc |-> "claim", resumes |-> TRUE, intent |-> r.intent, bytes |-> r.bytes]
    OBVIOUS
  <2>3. op \in ClientOpRow /\ op.pc = "claim" /\ op.intent = r.intent /\ op.bytes = r.bytes
    BY <2>2 DEF ClientOpRow, RecoveryRow
  <2>4. ClientOpFits(op)'
    BY <2>1, <2>3 DEF ClientOpFits
  <2>5. TabBecomes(t, [gtab[t] EXCEPT !.op = op, !.phase = "working"])
    BY <1>2, <1>4, <2>2 DEF ReconcileSigned
  <2> QED BY <1>1, <2>3, <2>4, <2>5, ResumedKeeps
<1>5. ASSUME NEW i \in Orders, NEW b \in SignedBytes, Signed(b)', TabBecomes(t, ResumeRip(s, i, b))
      PROVE  ClientInv'
  <2>1. PICK op : op = [pc |-> "track", resumes |-> TRUE, intent |-> i, bytes |-> b]
    OBVIOUS
  <2>2. op \in ClientOpRow /\ op.pc = "track" /\ op.intent = i /\ op.bytes = b
    BY <2>1 DEF ClientOpRow
  <2>3. ClientOpFits(op)'
    BY <1>5, <2>2 DEF ClientOpFits
  <2>4. TabBecomes(t, [gtab[t] EXCEPT !.op = op, !.phase = "working"])
    BY <1>2, <1>5, <2>1 DEF ResumeRip
  <2> QED BY <1>1, <2>2, <2>3, <2>4, ResumedKeeps
<1>6. CASE r.status = "signature-known" /\ TabBecomes(t, ResumeRip(s, r.intent, r.bytes))
  <2>1. r.intent \in Orders /\ r.bytes \in SignedBytes /\ Signed(r.bytes)'
    BY <1>3, <1>6 DEF RecordFits, Signed
  <2> QED BY <1>5, <1>6, <2>1
<1>7. CASE s.prepared /\ s.signature # 0 /\ TabBecomes(t, ResumeRip(s, s.intent, s.signature))
  <2>1. s.intent \in Orders /\ s.signature \in SignedBytes /\ Signed(s.signature)'
    BY <1>2, <1>7 DEF TabFits, Signed
  <2> QED BY <1>5, <1>7, <2>1
<1>8. CASE s.prepared /\ TabBecomes(t, [s EXCEPT !.op = [ClientIdle EXCEPT !.pc = "refresh", !.intent = s.intent]])
  <2>1. s.intent \in Orders
    BY <1>2, <1>8 DEF TabFits
  <2>2. PICK op : op = [ClientIdle EXCEPT !.pc = "refresh", !.intent = s.intent]
    OBVIOUS
  <2>3. op \in ClientOpRow /\ op.pc = "refresh" /\ op.intent = s.intent
    BY <2>1, <2>2, IdleOps DEF ClientOpRow, ClientIdle
  <2>4. ClientOpFits(op)'
    BY <2>1, <2>3 DEF ClientOpFits
  <2>5. TabBecomes(t, [gtab[t] EXCEPT !.op = op])
    BY <1>2, <1>8, <2>2
  <2> QED BY <1>1, <2>3, <2>4, <2>5, OpKeeps
<1> QED BY <1>2, <1>3, <1>4, <1>6, <1>7, <1>8 DEF HandleResume

LEMMA RefreshPreparedKeeps ==
  ASSUME ClientInv, NEW t \in Tabs, RefreshPrepared(t)
  PROVE  ClientInv'
<1>1. PaysOn /\ KeepsRecord /\ tabFaults' \in Nat
  BY ClientPays DEF RefreshPrepared, KeepsRecord
<1>2. CASE TabBecomes(t, [gtab[t] EXCEPT !.op = ClientIdle])
  BY <1>1, <1>2, IdleOps, OpKeeps
<1>3. CASE TabBecomes(t, [gtab[t] EXCEPT !.op = ClientIdle, !.phase = "idle"])
  <2>1. PICK s \in TabRow : s = gtab[t] /\ TabFits(s)'
    BY <1>1, TabRowOf
  <2>2. PICK p : p = [s EXCEPT !.phase = "idle"]
    OBVIOUS
  <2>3. p \in TabRow /\ TabFits(p)'
    BY <2>1, <2>2, PhaseRow
  <2>4. PICK q : q = [p EXCEPT !.op = ClientIdle]
    OBVIOUS
  <2>5. TabBecomes(t, q)
    BY <1>3, <2>1, <2>2, <2>4 DEF TabRow
  <2> QED BY <1>1, <2>3, <2>4, <2>5, IdleOps, OpRow, RecordRests, TabIsWritten
<1> QED BY <1>2, <1>3 DEF RefreshPrepared

LEMMA HandleResetKeeps ==
  ASSUME ClientInv, NEW t \in Tabs, HandleReset(t)
  PROVE  ClientInv'
<1>1. PaysOn /\ KeepsRecord /\ tabFaults' \in Nat /\ TabBecomes(t, FreshTab)
  BY ClientPays DEF HandleReset, KeepsRecord
<1> QED BY <1>1, FreshTabFits, RecordRests, TabIsWritten

\* A step of no tab.
LEMMA TabsRest ==
  ASSUME ClientInv, PaysOn, UNCHANGED <<gtab, record, event, tabFaults>>
  PROVE  ClientInv'
<1>1. ASSUME NEW t \in Tabs PROVE TabFits(gtab[t])'
  <2>1. PICK s \in TabRow : s = gtab[t] /\ TabFits(s)'
    BY TabRowOf
  <2> QED BY <2>1 DEF TabFits
<1>2. RecordFits(record)'
  BY RecordRests DEF KeepsRecord
<1>3. TabsFit'
  BY <1>1, <1>2 DEF TabsFit
<1> QED BY <1>3 DEF ClientInv, ClientTypes, PaysOn, PayFits

LEMMA ClientStarts ==
  ASSUME ClientInit
  PROVE  ClientInv
<1>1. /\ ClientIdle \in ClientOpRow /\ ClientIdle.pc = "idle" /\ ClientOpFits(ClientIdle)
      /\ NoRecord \in RecoveryRow /\ NoRecord.status = "empty" /\ RecordFits(NoRecord)
  BY DEF ClientIdle, ClientOpRow, ClientOpFits, NoRecord, RecoveryRow, RecordFits
<1>2. PayTypes
  BY DEF ClientInit, PayTypes, OrderRow, OrderStatuses, TxRow, SendStates
<1>3. ClaimsFit
  BY DEF ClientInit, ClaimsFit
<1>4. record \in RecoveryRow /\ RecordFits(record)
  <2>1. CASE record = NoRecord
    BY <1>1, <2>1
  <2>2. CASE record = [NoRecord EXCEPT !.status = "invalid"]
    <3>1. PICK r : r = [NoRecord EXCEPT !.status = "invalid"]
      OBVIOUS
    <3>2. r \in RecoveryRow /\ r.status = "invalid"
      BY <3>1 DEF NoRecord, RecoveryRow
    <3>3. RecordFits(r)
      BY <3>2 DEF RecordFits
    <3> QED BY <2>2, <3>1, <3>2, <3>3
  <2> QED BY <2>1, <2>2 DEF ClientInit
<1>5. PICK s : s = [FreshTab EXCEPT !.invalid = record.status = "invalid"]
  OBVIOUS
<1>6. s \in TabRow /\ TabFits(s)
  <2>1. PICK invalid \in BOOLEAN : invalid = (record.status = "invalid")
    BY Zenon
  <2>2. s = [FreshTab EXCEPT !.invalid = invalid]
    BY <1>5, <2>1, Zenon
  <2>3. /\ s \in TabRow /\ s.op = ClientIdle /\ s.recovery = NoRecord /\ s.ref = NoRecord /\ s.signature = 0
        /\ s.prepared = FALSE /\ s.told = "none"
    BY <1>1, <2>1, <2>2 DEF FreshTab, TabRow
  <2>4. TabFits(s)
    BY <1>1, <2>3 DEF TabFits, ToldFits
  <2> QED BY <2>3, <2>4
<1>7. gtab = [t \in Tabs |-> s] /\ event \in [Tabs -> BOOLEAN] /\ tabFaults \in Nat
  BY <1>5 DEF ClientInit
<1>8. gtab \in [Tabs -> TabRow] /\ TabsFit
  BY <1>4, <1>6, <1>7 DEF TabsFit
<1> QED BY <1>2, <1>3, <1>4, <1>7, <1>8 DEF ClientInv, ClientTypes

\* What the tabs, the stored record and the API's rows know fits together.
THEOREM ClientInvariant == ClientSpec => []ClientInv
<1>1. ASSUME ClientInv, [ClientStep]_clientVars PROVE ClientInv'
  <2>1. ASSUME NEW t \in Tabs, TabStep(t) PROVE ClientInv'
    <3>1. CASE HydrateRecovery(t) \/ ReloadTab(t)
      BY <1>1, <3>1, HydrateRecoveryKeeps, ReloadTabKeeps
    <3>2. CASE HandlePrepare(t) \/ IntentAnswers(t) \/ TransactionAnswers(t)
      BY <1>1, <3>2, HandlePrepareKeeps, IntentAnswersKeeps, TransactionAnswersKeeps
    <3>3. CASE HandleConfirm(t) \/ LockBroadcast(t) \/ WalletSigns(t) \/ ClaimSignatureOf(t) \/ RecoverSignature(t)
      BY <1>1, <3>3, HandleConfirmKeeps, LockBroadcastKeeps, WalletSignsKeeps, ClaimSignatureOfKeeps,
         RecoverSignatureKeeps
    <3>4. CASE Broadcast(t) \/ Track(t) \/ VerifyPayment(t) \/ CreateRip(t)
      BY <1>1, <3>4, BroadcastKeeps, TrackKeeps, VerifyPaymentKeeps, CreateRipKeeps
    <3>5. CASE HandleResume(t) \/ RefreshPrepared(t) \/ HandleReset(t)
      BY <1>1, <3>5, HandleResumeKeeps, RefreshPreparedKeeps, HandleResetKeeps
    <3> QED BY <2>1, <3>1, <3>2, <3>3, <3>4, <3>5 DEF TabStep
  <2>2. ASSUME NEW b \in SignedBytes, TransactionEnds(b) PROVE ClientInv'
    <3>1. UNCHANGED <<gtab, record, event, tabFaults>>
      BY <2>2 DEF TransactionEnds
    <3> QED BY <1>1, <2>2, <3>1, ClientPays, TransactionEndsPays, TabsRest
  <2>3. CASE UNCHANGED clientVars
    <3>1. UNCHANGED <<gtab, record, event, tabFaults>> /\ UNCHANGED <<order, bytes>>
      BY <2>3 DEF clientVars
    <3> QED BY <1>1, <3>1, ClientPays, TabsRest
  <2> QED BY <1>1, <2>1, <2>2, <2>3 DEF ClientStep
<1>2. ClientInit => ClientInv
  BY ClientStarts
<1> QED BY <1>1, <1>2, PTL DEF ClientSpec

\* Only the transaction the API has claimed for an intent reaches the chain, so two tabs
\* never pay twice; nothing was charged when a page says so, and a shown rip was paid for.
THEOREM ClientsAreSafe == ClientSpec => []GachaClientIsSafe
<1>1. ClientInv => GachaClientIsSafe
  <2> SUFFICES ASSUME ClientInv PROVE GachaClientIsSafe
    OBVIOUS
  <2>1. ASSUME NEW b \in SignedBytes, Arrived(b) PROVE order[bytes[b].intent].bytes = b
    BY <2>1 DEF ClientInv, ClaimsFit, Arrived
  <2>2. ASSUME NEW t \in Tabs
        PROVE  /\ gtab[t].told \in {"declined", "failedOnChain"} /\ gtab[t].of # 0 => ~Arrived(gtab[t].of)
               /\ gtab[t].told = "ripped" => /\ bytes[gtab[t].of].state = "landed"
                                             /\ order[bytes[gtab[t].of].intent].status = "CONSUMED"
    <3>1. ToldFits(gtab[t].told, gtab[t].of)
      BY DEF ClientInv, TabsFit, TabFits
    <3> QED BY <3>1 DEF ToldFits, Arrived
  <2> QED BY <2>1, <2>2 DEF GachaClientIsSafe
<1> QED BY <1>1, ClientInvariant, PTL

=============================================================================
