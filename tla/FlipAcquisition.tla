--------------------------- MODULE FlipAcquisition ---------------------------
(***************************************************************************)
(* The acquisition of a selected flip asset: a durable plan of a purchase  *)
(* and a transfer, executed by whichever call holds the lease against a    *)
(* marketplace that may answer late, ambiguously or not at all             *)
(* (flip/flip-acquisition.service.ts, .policy.ts, .provider.ts), with the  *)
(* triggers that make finality immutable.                                  *)
(*                                                                         *)
(* A call of resumeFixtureAcquisition is a worker; it may die between any  *)
(* two of its transactions and its lease may run out while it waits.       *)
(***************************************************************************)
EXTENDS FlipSession

CONSTANTS
  Workers, Nobody,
  MaxPlanVersion      \* bound: a plan is claimed up to this version

ASSUME FlipAcquisitionConstants == Nobody \notin Workers /\ MaxPlanVersion \in Nat

VARIABLES
  acq,        \* acq[s]: the FlipAcquisition row and its two operations
  worker,     \* worker[w]: one resume call
  trade,     \* trade[s][i]: what the marketplace did with operation i (external)
  retained    \* sessions whose bought asset is ledgered as house inventory

acqVars == <<acq, worker, trade, retained>>

TradeOperations == 1..2      \* 1 PURCHASE, 2 TRANSFER
LifecycleKind == <<"record-purchase", "record-transfer">>
OperationKey == <<"flip-acquisition:1:purchase", "flip-acquisition:2:transfer">>
ReferenceOf(i) == i     \* the provider reference is derived from the request key

NoPlan == [status |-> "NONE", version |-> 0, owner |-> Nobody, expired |-> FALSE, branch |-> FALSE,
           count |-> 0, sessionVersion |-> 0,
           op |-> [i \in TradeOperations |-> [status |-> "NONE", mode |-> "NONE", known |-> FALSE]]]
WorkerIdle == [pc |-> "idle", session |-> 0, version |-> 0, op |-> 0, known |-> FALSE]

Retryable(s) == \E i \in TradeOperations : acq[s].op[i].mode = "RETRYABLE"
UnderReviewedRecovery(s) == acq[s].status = "RECOVERY_REQUIRED" /\ Retryable(s)
Held(w) == acq[worker[w].session].owner = w

GotoWorker(w, pc) == worker' = [worker EXCEPT ![w].pc = pc]
EndWorker(w) == worker' = [worker EXCEPT ![w] = WorkerIdle]
SetPlan(s, plan) == acq' = [acq EXCEPT ![s] = [plan EXCEPT !.version = acq[s].version + 1]]

\* releaseLease: only the owner's, and never of an acquired plan.
Released(w) ==
  LET s == worker[w].session IN
  IF Held(w) /\ acq[s].status # "ACQUIRED"
  THEN SetPlan(s, [acq[s] EXCEPT !.owner = Nobody, !.expired = FALSE])
  ELSE UNCHANGED acq

(***************************************************************************)
(* ensurePlan: the session is read first, the plan is created after.       *)
(***************************************************************************)
PlannableStatuses == {"SELECTION_RECORDED", "PURCHASE_RECORDED", "TRANSFER_RECORDED",
                      "RECOVERY_REQUIRED", "RECOVERED"}

ReadPlan(w, s) ==
  /\ worker[w].pc = "idle"
  /\ flip[s].status \in PlannableStatuses /\ flip[s].ordinal # 0 /\ proof[s].final
  /\ \/ /\ acq[s].status = "NONE" /\ flip[s].status = "SELECTION_RECORDED"
        /\ worker' = [worker EXCEPT ![w] =
             [WorkerIdle EXCEPT !.pc = "create", !.session = s, !.version = flip[s].version]]
     \/ /\ acq[s].status \in {"PENDING", "RECOVERY_REQUIRED"}
        /\ flip[s].status = "RECOVERED" => UnderReviewedRecovery(s)
        /\ worker' = [worker EXCEPT ![w] =
             [WorkerIdle EXCEPT !.pc = IF UnderReviewedRecovery(s) THEN "reviewed" ELSE "claim",
                                !.session = s, !.version = acq[s].version]]
  /\ UNCHANGED <<flipVars, acq, trade, retained>>

\* validate_flip_acquisition_plan checks the session again under its lock.
CreatePlan(w) ==
  LET s == worker[w].session
      plan == [NoPlan EXCEPT !.status = "PENDING", !.version = 1, !.sessionVersion = worker[w].version,
                 !.op = [i \in TradeOperations |-> [status |-> "PREPARED", mode |-> "NONE", known |-> FALSE]]]
  IN
  /\ worker[w].pc = "create"
  /\ \/ acq[s].status = "NONE" /\ flip[s].status # "SELECTION_RECORDED" /\ EndWorker(w) /\ UNCHANGED acq
     \/ /\ acq[s].status = "NONE" /\ flip[s].status = "SELECTION_RECORDED"
        /\ acq' = [acq EXCEPT ![s] = plan]
        /\ worker' = [worker EXCEPT ![w].pc = "claim", ![w].version = 1]
     \/ /\ acq[s].status # "NONE"
        /\ worker' = [worker EXCEPT ![w].pc = "claim", ![w].version = acq[s].version]
        /\ UNCHANGED acq
  /\ UNCHANGED <<flipVars, trade, retained>>

(***************************************************************************)
(* resumeFixtureAcquisition.                                               *)
(***************************************************************************)
ClaimLease(w) ==
  LET s == worker[w].session IN
  /\ worker[w].pc = "claim" /\ acq[s].version <= MaxPlanVersion
  /\ IF /\ acq[s].version = worker[w].version
        /\ acq[s].status \in {"PENDING", "RECOVERY_REQUIRED"}
        /\ acq[s].owner = Nobody \/ acq[s].expired
     THEN /\ SetPlan(s, [acq[s] EXCEPT !.owner = w, !.expired = FALSE])
          /\ GotoWorker(w, "leased")
     ELSE GotoWorker(w, "snapshot") /\ UNCHANGED acq
  /\ UNCHANGED <<flipVars, trade, retained>>

CheckLease(w) ==
  LET s == worker[w].session IN
  /\ worker[w].pc = "leased"
  /\ \/ ~Held(w) /\ GotoWorker(w, "snapshot") /\ UNCHANGED acq
     \/ Held(w) /\ Retryable(s) /\ Released(w) /\ GotoWorker(w, "snapshot")
     \/ /\ Held(w) /\ ~Retryable(s)
        /\ worker' = [worker EXCEPT ![w].pc = "operation", ![w].op = 1]
        /\ UNCHANGED acq
  /\ UNCHANGED <<flipVars, trade, retained>>

\* snapshotDurableAcquisition
Snapshot(w) ==
  /\ worker[w].pc = "snapshot"
  /\ IF UnderReviewedRecovery(worker[w].session) THEN GotoWorker(w, "reviewed") ELSE EndWorker(w)
  /\ UNCHANGED <<flipVars, acq, trade, retained>>

\* One round of the loop: the operation is read again, and the provider is asked about it
\* before anything is executed.  It answers only for a reference it is given.
ReadOperation(w) ==
  LET s == worker[w].session
      o == acq[s].op[worker[w].op] IN
  /\ worker[w].pc = "operation"
  /\ CASE o.status = "FINALIZED" -> GotoWorker(w, "lifecycle") /\ UNCHANGED acq
       [] o.status # "FINALIZED" /\ o.known /\ trade[s][worker[w].op] = "applied" ->
            GotoWorker(w, "finalize") /\ UNCHANGED acq
       [] o.mode = "RECONCILE_ONLY" /\ ~(o.known /\ trade[s][worker[w].op] = "applied") ->
            worker' = [worker EXCEPT ![w].pc = "ambiguous", ![w].known = o.known] /\ UNCHANGED acq
       [] o.mode = "RETRYABLE" -> Released(w) /\ EndWorker(w)
       [] OTHER -> GotoWorker(w, "execute") /\ UNCHANGED acq
  /\ UNCHANGED <<flipVars, trade, retained>>

\* Mutant: every provider failure is taken for one that changed nothing.
ErrorIsAlwaysDefinite(answer) == "reviewed-tx"

\* Only FlipAcquisitionDefinitelyNotAppliedError ends in a reviewed recovery.
AfterError(answer) == IF answer = "not-applied" THEN "reviewed-tx" ELSE "ambiguous"

\* provider.execute, keyed by providerRequestKey: the first request decides, a repeated one
\* gets the same result.  A lost answer may leave the request on its way.
Execute(w) ==
  LET s == worker[w].session
      i == worker[w].op
      Answer(done, pc, known) == /\ trade' = [trade EXCEPT ![s][i] = done]
                                 /\ worker' = [worker EXCEPT ![w].pc = pc, ![w].known = known]
  IN
  /\ worker[w].pc = "execute"
  /\ \/ trade[s][i] \in {"none", "sent", "applied"} /\ Answer("applied", "finalize", TRUE)
     \/ trade[s][i] \in {"none", "sent", "rejected"}
          /\ Answer("rejected", AfterError("not-applied"), FALSE)
     \/ \E known \in BOOLEAN, done \in {"sent", "applied"} :
          /\ trade[s][i] \in {"none", "sent", done}
          /\ known => done = "applied"
          /\ Answer(done, AfterError("lost"), known)
  /\ UNCHANGED <<flipVars, acq, retained>>

\* A request on its way arrives.
MarketDecides(s) ==
  /\ \E i \in TradeOperations, done \in {"applied", "rejected"} :
       trade[s][i] = "sent" /\ trade' = [trade EXCEPT ![s][i] = done]
  /\ UNCHANGED <<flipVars, acq, worker, retained>>

\* A result is written once.
FirstReport(s, i) == acq[s].op[i].status # "FINALIZED"

\* finalizeOperation does not ask for the lease: a result is kept whoever reports it.
FinalizeOperation(w) ==
  LET s == worker[w].session
      i == worker[w].op IN
  /\ worker[w].pc = "finalize"
  /\ IF FirstReport(s, i)
     THEN SetPlan(s, [acq[s] EXCEPT !.op[i] = [status |-> "FINALIZED", mode |-> "NONE", known |-> TRUE],
                                    !.status = "PENDING", !.branch = FALSE, !.count = @ + 1])
     ELSE UNCHANGED acq
  /\ GotoWorker(w, "lifecycle")
  /\ UNCHANGED <<flipVars, trade, retained>>

\* ensureLifecycleTransition: the operation key makes it a replay once recorded, and the
\* version of the plan ties it to the session the plan was made for.
LifecycleTransition(w) ==
  LET s == worker[w].session
      i == worker[w].op
      r == FlipRequest(LifecycleKind[i], <<flip[s].ordinal, ReferenceOf(i)>>, OperationKey[i])
      next == IF i = 1 THEN [worker[w] EXCEPT !.pc = "operation", !.op = 2]
              ELSE [worker[w] EXCEPT !.pc = "acquire"]
      onPlan == flip[s].version = acq[s].sessionVersion + i - 1
  IN
  /\ worker[w].pc = "lifecycle"
  /\ \/ onPlan /\ FlipTransition(s, r) /\ worker' = [worker EXCEPT ![w] = next]
     \/ /\ Logged(s, OperationKey[i])
        /\ worker' = [worker EXCEPT ![w] = next] /\ UNCHANGED <<flip, flipLog>>
     \/ /\ ~Logged(s, OperationKey[i]) /\ ~(onPlan /\ CanFlipTransition(s, r))
        /\ GotoWorker(w, "release") /\ UNCHANGED <<flip, flipLog>>
  /\ UNCHANGED <<proof, flipTier, health, flipCall, flipTime, acq, trade, retained>>

\* recordReviewedRecovery: one transaction, which needs the lease.  It throws, and leaves
\* the operation as it was, when the operation or the lease has moved on, and also when
\* no reviewed branch has the failure code or the asset has another ledger source.
RecordReviewedRecovery(w) ==
  LET s == worker[w].session
      i == worker[w].op IN
  /\ worker[w].pc = "reviewed-tx"
  /\ \/ /\ acq[s].op[i].status # "FINALIZED" /\ Held(w)
        /\ SetPlan(s, [acq[s] EXCEPT
             !.op[i] = [@ EXCEPT !.status = "RECOVERY_REQUIRED", !.mode = "RETRYABLE"],
             !.owner = Nobody, !.expired = FALSE, !.branch = TRUE, !.status = "RECOVERY_REQUIRED"])
        /\ retained' = IF i = 2 /\ acq[s].op[1].status = "FINALIZED"
                       THEN retained \cup {s} ELSE retained
        /\ GotoWorker(w, "reviewed")
     \/ GotoWorker(w, "release") /\ UNCHANGED <<acq, retained>>
  /\ UNCHANGED <<flipVars, trade>>

\* ensureReviewedRecoveryTransition
ReviewedRecoveryTransition(w) ==
  LET s == worker[w].session
      r == FlipRequest("request-recovery", 0, "flip-acquisition-recovery")
      durable == UnderReviewedRecovery(s) /\ acq[s].branch
  IN
  /\ worker[w].pc = "reviewed"
  /\ \/ durable /\ FlipTransition(s, r) /\ EndWorker(w)
     \/ /\ durable /\ Logged(s, r.key)
        /\ EndWorker(w) /\ UNCHANGED <<flip, flipLog>>
     \/ /\ ~durable \/ (~Logged(s, r.key) /\ ~CanFlipTransition(s, r))
        /\ GotoWorker(w, "release") /\ UNCHANGED <<flip, flipLog>>
  /\ UNCHANGED <<proof, flipTier, health, flipCall, flipTime, acq, trade, retained>>

\* recordAmbiguous: the operation and the lease in one transaction.
RecordAmbiguous(w) ==
  LET s == worker[w].session
      i == worker[w].op IN
  /\ worker[w].pc = "ambiguous"
  /\ IF acq[s].op[i].status # "FINALIZED" /\ Held(w)
     THEN /\ SetPlan(s, [acq[s] EXCEPT
               !.op[i] = [status |-> "RECOVERY_REQUIRED", mode |-> "RECONCILE_ONLY", known |-> worker[w].known],
               !.owner = Nobody, !.expired = FALSE, !.branch = FALSE, !.status = "RECOVERY_REQUIRED"])
          /\ EndWorker(w)
     ELSE GotoWorker(w, "release") /\ UNCHANGED acq
  /\ UNCHANGED <<flipVars, trade, retained>>

\* finalizeAcquisition
FinalizeAcquisition(w) ==
  LET s == worker[w].session IN
  /\ worker[w].pc = "acquire"
  /\ \/ acq[s].status = "ACQUIRED" /\ EndWorker(w) /\ UNCHANGED acq
     \/ /\ acq[s].status # "ACQUIRED" /\ acq[s].count = 2 /\ Held(w)
        /\ \A i \in TradeOperations : acq[s].op[i].status = "FINALIZED"
        /\ SetPlan(s, [acq[s] EXCEPT !.status = "ACQUIRED", !.owner = Nobody, !.branch = FALSE,
                                     !.expired = FALSE])
        /\ EndWorker(w)
     \/ /\ acq[s].status # "ACQUIRED" /\ ~(acq[s].count = 2 /\ Held(w))
        /\ GotoWorker(w, "release") /\ UNCHANGED acq
  /\ UNCHANGED <<flipVars, trade, retained>>

\* The catch of resumeFixtureAcquisition.
ReleaseLease(w) ==
  /\ worker[w].pc = "release"
  /\ Released(w)
  /\ EndWorker(w)
  /\ UNCHANGED <<flipVars, trade, retained>>

WorkerDies(w) ==
  /\ worker[w].pc # "idle"
  /\ EndWorker(w)
  /\ UNCHANGED <<flipVars, acq, trade, retained>>

\* ACQUISITION_LEASE_MS have passed since the claim.
LeaseExpires(s) ==
  /\ acq[s].owner # Nobody /\ ~acq[s].expired
  /\ acq' = [acq EXCEPT ![s].expired = TRUE]
  /\ UNCHANGED <<flipVars, worker, trade, retained>>

\* mark-reveal-ready, which validate_flip_acquisition_transition ties to an acquired plan.
MarkRevealReady(s) ==
  /\ acq[s].status = "ACQUIRED" /\ acq[s].count = 2
  /\ FlipTransition(s, FlipRequest("mark-reveal-ready", <<flip[s].purchase, flip[s].transfer>>, "reveal"))
  /\ UNCHANGED <<proof, flipTier, health, flipCall, flipTime, acqVars>>

WorkerStep(w) ==
  \/ \E s \in Sessions : ReadPlan(w, s)
  \/ CreatePlan(w) \/ ClaimLease(w) \/ CheckLease(w) \/ Snapshot(w) \/ ReadOperation(w)
  \/ Execute(w) \/ FinalizeOperation(w) \/ LifecycleTransition(w) \/ RecordReviewedRecovery(w)
  \/ ReviewedRecoveryTransition(w) \/ RecordAmbiguous(w) \/ FinalizeAcquisition(w)
  \/ ReleaseLease(w) \/ WorkerDies(w)
AcquisitionStep ==
  \/ \E w \in Workers : WorkerStep(w)
  \/ \E s \in Sessions : MarketDecides(s) \/ LeaseExpires(s) \/ MarkRevealReady(s)

AcquisitionInit ==
  /\ acq = [s \in Sessions |-> NoPlan]
  /\ worker = [w \in Workers |-> WorkerIdle]
  /\ trade = [s \in Sessions |-> [i \in TradeOperations |-> "none"]]
  /\ retained = {}

AcquisitionTypeOK ==
  /\ \A s \in Sessions :
       /\ acq[s].count \in 0..2 /\ acq[s].owner \in Workers \cup {Nobody}
       /\ acq[s].count = Cardinality({i \in TradeOperations : acq[s].op[i].status = "FINALIZED"})
       /\ \A i \in TradeOperations : trade[s][i] \in {"none", "sent", "applied", "rejected"}
  /\ retained \subseteq Sessions

(***************************************************************************)
(* Property.                                                               *)
(***************************************************************************)
\* Whatever the marketplace answers, two workers race and leases run out, the rows say
\* where the asset is: a milestone or an acquired plan means the marketplace applied it, no
\* transfer is asked for before the purchase is in the session's ledger, a failure is
\* handed to a reviewed branch only if nothing was applied, and an asset is house
\* inventory exactly when it was bought and its transfer certainly did not happen.
FlipAssetIsAccounted ==
  \A s \in Sessions :
    /\ flip[s].purchase # 0 => trade[s][1] = "applied"
    /\ flip[s].transfer # 0 => trade[s][2] = "applied"
    /\ trade[s][2] # "none" => flip[s].purchase # 0
    /\ acq[s].status = "ACQUIRED" => flip[s].transfer # 0
    /\ \A i \in TradeOperations : acq[s].op[i].mode = "RETRYABLE" => trade[s][i] = "rejected"
    /\ s \in retained <=> acq[s].op[2].mode = "RETRYABLE"
    /\ s \in retained => trade[s][1] = "applied" /\ flip[s].transfer = 0
=============================================================================
