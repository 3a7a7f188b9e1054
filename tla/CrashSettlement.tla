---------------------------- MODULE CrashSettlement ----------------------------
(***************************************************************************)
(* The settlement of an ended crash round: a durable plan of side effects, *)
(* one group for each asset of the round, executed in order by whichever   *)
(* call holds the lease (crash/crash-settlement.service.ts, .policy.ts,    *)
(* .provider.ts), with the checks and triggers of the settlement tables.   *)
(*                                                                         *)
(* A call of resumeFixtureSettlement is a settler: it may die between two  *)
(* of its transactions and its lease may run out while it waits for the    *)
(* provider, which remembers what it did by request key and answers for    *)
(* any key it is asked about.                                              *)
(***************************************************************************)
EXTENDS CrashRound

CONSTANTS
  Settlers, NoSettler,
  Liquidates,             \* whether bustDisposition of the policy is 'liquidate'
  MaxSettleVersion        \* bound: a settlement is claimed up to this version

ASSUME CrashSettlementConstants ==
  NoSettler \notin Settlers /\ Liquidates \in BOOLEAN /\ MaxSettleVersion \in Nat

VARIABLES
  settle,      \* settle[r]: the CrashSettlement row and its operations
  settler,     \* settler[w]: one resume call
  effect,      \* effect[r][i]: what the provider did with operation i (external)
  forfeited    \* forfeited[r]: assets of the round recorded as house inventory

settleVars == <<settle, settler, effect, forfeited>>

NoSettlement == [status |-> "NONE", version |-> 0, owner |-> NoSettler, expired |-> FALSE,
                 count |-> 0, ops |-> <<>>]
SettlerIdle == [pc |-> "idle", round |-> 0, op |-> 0, mode |-> "NONE", signed |-> FALSE]

\* The plan's last operation has no number beyond this.
MaxOperations == 4 * Len(CrashStages) + 1

(***************************************************************************)
(* settlementPlan.                                                         *)
(***************************************************************************)
\* terminalKind
IsBust(r) == round[r].status \in {"BUSTED", "DEFAULTED"}

\* verifiedPromisedAssets: every outcome of the ledger has its custody intent.
PromisedAssets(r) == {crashLog[r][i].asset : i \in DOMAIN crashLog[r]} \ {0}
AssetsVerified(r) == PromisedAssets(r) = intents[r]

\* planOperations: kinds of the operations of one asset, and the payment of the pot.
AssetOperations(r) ==
  <<"PURCHASE", "OPEN", "TRANSFER">> \o IF IsBust(r) /\ Liquidates THEN <<"LIQUIDATE">> ELSE <<>>
PlanOperations(r) ==
  LET per == Len(AssetOperations(r))
      assets == Cardinality(PromisedAssets(r))
      Prepared(kind, stage) == [kind |-> kind, stage |-> stage, status |-> "PREPARED", mode |-> "NONE",
                                signed |-> FALSE]
  IN  [i \in 1..(per * assets) |-> Prepared(AssetOperations(r)[((i - 1) % per) + 1], ((i - 1) \div per) + 1)]
        \o IF ~IsBust(r) /\ round[r].pot > 0 THEN <<Prepared("TRANSFER", 0)>> ELSE <<>>

(***************************************************************************)
(* resumeFixtureSettlement.                                                *)
(***************************************************************************)
OwnsLease(w) == settle[settler[w].round].owner = w
Finalized(r, i) == settle[r].ops[i].status = "FINALIZED"
GotoSettler(w, pc) == settler' = [settler EXCEPT ![w].pc = pc]
EndSettler(w) == settler' = [settler EXCEPT ![w] = SettlerIdle]
SetSettlement(r, row) == settle' = [settle EXCEPT ![r] = [row EXCEPT !.version = settle[r].version + 1]]

\* releaseLease
SettlementReleased(w) ==
  LET r == settler[w].round IN
  IF OwnsLease(w) /\ settle[r].status # "SETTLED"
  THEN SetSettlement(r, [settle[r] EXCEPT !.owner = NoSettler, !.expired = FALSE])
  ELSE UNCHANGED settle

\* ensurePlan: the plan follows from the ledger, so a concurrent one is the same.
EnsurePlan(w, r) ==
  /\ settler[w].pc = "idle" /\ round[r].status \in CrashEnded /\ AssetsVerified(r)
  /\ settle[r].status # "SETTLED"
  /\ settle[r].status = "NONE" => exposure[r].status = "RELEASED"
  /\ settle' = [settle EXCEPT ![r] =
       IF @.status = "NONE" THEN [NoSettlement EXCEPT !.status = "PENDING", !.version = 1,
                                                      !.ops = PlanOperations(r)]
       ELSE @]
  /\ round' = IF settle[r].status = "NONE" THEN [round EXCEPT ![r].settlement = "PENDING"] ELSE round
  /\ settler' = [settler EXCEPT ![w] = [SettlerIdle EXCEPT !.pc = "claim", !.round = r]]
  /\ UNCHANGED <<crashLog, intents, exposure, houseRoom, crashRoll, crashCall, crashTime, effect, forfeited>>

\* The claim looks at the status and the lease alone.
ClaimSettlement(w) ==
  LET r == settler[w].round IN
  /\ settler[w].pc = "claim" /\ settle[r].version <= MaxSettleVersion
  /\ IF settle[r].status # "SETTLED" /\ (settle[r].owner = NoSettler \/ settle[r].expired)
     THEN /\ SetSettlement(r, [settle[r] EXCEPT !.owner = w, !.expired = FALSE])
          /\ settler' = [settler EXCEPT ![w].pc = "operation", ![w].op = 1]
     ELSE EndSettler(w) /\ UNCHANGED settle
  /\ UNCHANGED <<crashVars, effect, forfeited>>

\* A recovering operation is executed again only when it certainly did nothing.
AfterReconcile(o) == IF o.mode = "RECONCILE_ONLY" THEN "recover" ELSE "execute"

\* One round of the loop: read the operation again, then ask the provider, whose
\* reconcile may also throw; the lease is released then.
ReadSettlementOperation(w) ==
  LET r == settler[w].round
      i == settler[w].op
      o == settle[r].ops[i] IN
  /\ settler[w].pc = "operation"
  /\ \/ settler' = [settler EXCEPT ![w] =
          CASE i > Len(settle[r].ops) -> [@ EXCEPT !.pc = "settle"]
            [] i <= Len(settle[r].ops) /\ o.status = "FINALIZED" -> [@ EXCEPT !.op = i + 1]
            [] i <= Len(settle[r].ops) /\ o.status # "FINALIZED" /\ effect[r][i] = "applied" ->
                 [@ EXCEPT !.pc = "finalize"]
            [] OTHER -> [@ EXCEPT !.pc = AfterReconcile(o), !.mode = "RECONCILE_ONLY", !.signed = FALSE]]
     \/ i <= Len(settle[r].ops) /\ o.status # "FINALIZED" /\ GotoSettler(w, "release")
  /\ UNCHANGED <<crashVars, settle, effect, forfeited>>

\* provider.execute: it answers, says for certain that nothing happened, or is not heard;
\* then it may have acted, and a request on its way may still arrive.
ExecuteSettlement(w) ==
  LET r == settler[w].round
      i == settler[w].op
      Answer(done, pc, mode, signed) ==
        /\ effect' = [effect EXCEPT ![r][i] = done]
        /\ settler' = [settler EXCEPT ![w].pc = pc, ![w].mode = mode, ![w].signed = signed]
  IN
  /\ settler[w].pc = "execute"
  /\ \/ Answer("applied", "finalize", "NONE", TRUE)
     \/ effect[r][i] = "none" /\ Answer("none", "recover", "RETRYABLE", FALSE)
     \/ \E signed \in BOOLEAN :
          \E done \in {"sent", "applied"} :
            /\ effect[r][i] = "applied" => done = "applied"
            /\ Answer(done, "recover", "RECONCILE_ONLY", signed)
  /\ UNCHANGED <<crashVars, settle, forfeited>>

EffectArrives(r) ==
  /\ \E i \in 1..MaxOperations :
       effect[r][i] = "sent" /\ effect' = [effect EXCEPT ![r][i] = "applied"]
  /\ UNCHANGED <<crashVars, settle, settler, forfeited>>

\* finalizeOperation: kept whoever reports it.
FinalizeSettlementOperation(w) ==
  LET r == settler[w].round
      i == settler[w].op IN
  /\ settler[w].pc = "finalize"
  /\ IF Finalized(r, i) THEN UNCHANGED settle
     ELSE SetSettlement(r, [settle[r] EXCEPT
            !.ops[i] = [@ EXCEPT !.status = "FINALIZED", !.mode = "NONE", !.signed = TRUE],
            !.status = "PENDING", !.count = @ + 1])
  /\ settler' = [settler EXCEPT ![w].pc = "operation", ![w].op = i + 1]
  /\ UNCHANGED <<crashVars, effect, forfeited>>

\* Mutant: the loop goes on with the next operation.
RecoveryGoesOn(w) == [settler[w] EXCEPT !.pc = "operation", !.op = @ + 1]

\* A recovery ends the call, so nothing planned later is asked for.
AfterRecovery(w) == SettlerIdle

\* recordRecovery: the operation without the lease, the settlement with it, the round in
\* any case; the check on the round undoes it all once the round is settled.  A signature
\* is never replaced.
RecordRecovery(w) ==
  LET r == settler[w].round
      i == settler[w].op
      o == settle[r].ops[i]
      recovered == [settle[r] EXCEPT !.ops[i] =
        IF o.status = "FINALIZED" THEN o
        ELSE [o EXCEPT !.status = "RECOVERY_REQUIRED", !.mode = settler[w].mode,
                       !.signed = @ \/ settler[w].signed]]
  IN
  /\ settler[w].pc = "recover"
  /\ IF round[r].settlement = "SETTLED" THEN UNCHANGED <<settle, round>>
     ELSE /\ IF OwnsLease(w)
             THEN SetSettlement(r, [recovered EXCEPT !.owner = NoSettler, !.expired = FALSE,
                                                     !.status = "RECOVERY_REQUIRED"])
             ELSE settle' = [settle EXCEPT ![r] = recovered]
          /\ round' = [round EXCEPT ![r].settlement = "RECOVERY_REQUIRED"]
  /\ settler' = [settler EXCEPT ![w] = AfterRecovery(w)]
  /\ UNCHANGED <<crashLog, intents, exposure, houseRoom, crashRoll, crashCall, crashTime, effect, forfeited>>

\* recordBustInventory: the assets of the operations that sent one to the inventory.
BustInventory(r) ==
  IF IsBust(r) THEN {settle[r].ops[i].stage : i \in {j \in DOMAIN settle[r].ops :
                       settle[r].ops[j].kind = "TRANSFER" /\ settle[r].ops[j].stage # 0}}
  ELSE {}

\* finalizeSettlement: one SERIALIZABLE transaction over settlement, inventory and round.
FinalizeSettlement(w) ==
  LET r == settler[w].round
      complete == /\ OwnsLease(w) /\ \A i \in DOMAIN settle[r].ops : Finalized(r, i)
                  /\ exposure[r].status = "RELEASED" /\ round[r].settlement # "SETTLED" IN
  /\ settler[w].pc = "settle"
  /\ \/ settle[r].status = "SETTLED" /\ EndSettler(w) /\ UNCHANGED <<settle, round, forfeited>>
     \/ /\ settle[r].status # "SETTLED" /\ complete
        /\ SetSettlement(r, [settle[r] EXCEPT !.status = "SETTLED", !.owner = NoSettler, !.expired = FALSE,
                                              !.count = Len(settle[r].ops)])
        /\ forfeited' = [forfeited EXCEPT ![r] = @ \cup BustInventory(r)]
        /\ round' = [round EXCEPT ![r].settlement = "SETTLED"]
        /\ EndSettler(w)
     \/ /\ settle[r].status # "SETTLED" /\ ~complete
        /\ GotoSettler(w, "release") /\ UNCHANGED <<settle, round, forfeited>>
  /\ UNCHANGED <<crashLog, intents, exposure, houseRoom, crashRoll, crashCall, crashTime, effect>>

ReleaseSettlement(w) ==
  /\ settler[w].pc = "release"
  /\ SettlementReleased(w)
  /\ EndSettler(w)
  /\ UNCHANGED <<crashVars, effect, forfeited>>

SettlerDies(w) ==
  /\ settler[w].pc # "idle"
  /\ EndSettler(w)
  /\ UNCHANGED <<crashVars, settle, effect, forfeited>>

\* SETTLEMENT_LEASE_MS have passed since the claim.
SettlementLeaseExpires(r) ==
  /\ settle[r].owner # NoSettler /\ ~settle[r].expired
  /\ settle' = [settle EXCEPT ![r].expired = TRUE]
  /\ UNCHANGED <<crashVars, settler, effect, forfeited>>

\* Calls of a player, and reconcilePendingFixtureSettlements for the plans that exist.
CrashSettlementStep(R) ==
  \/ \E w \in Settlers :
       \/ \E r \in R : EnsurePlan(w, r)
       \/ ClaimSettlement(w) \/ ReadSettlementOperation(w) \/ ExecuteSettlement(w)
       \/ FinalizeSettlementOperation(w) \/ RecordRecovery(w) \/ FinalizeSettlement(w)
       \/ ReleaseSettlement(w) \/ SettlerDies(w)
  \/ \E r \in R : EffectArrives(r) \/ SettlementLeaseExpires(r)

CrashSettlementInit ==
  /\ settle = [r \in Rounds |-> NoSettlement]
  /\ settler = [w \in Settlers |-> SettlerIdle]
  /\ effect = [r \in Rounds |-> [i \in 1..MaxOperations |-> "none"]]
  /\ forfeited = [r \in Rounds |-> {}]

CrashSettlementTypeOK ==
  \A r \in Rounds :
    /\ settle[r].owner \in Settlers \cup {NoSettler}
    /\ settle[r].count = Cardinality({i \in DOMAIN settle[r].ops : Finalized(r, i)})
    /\ forfeited[r] \subseteq 1..Len(CrashStages)

(***************************************************************************)
(* Property.                                                               *)
(***************************************************************************)
\* Whoever settles, dies or is late, the rows say what happened to a round's assets: a
\* finalized operation was carried out; no operation is asked of the provider before the
\* ones planned ahead of it are final; and a settlement, its round and the house inventory
\* become final together, with every asset of a bust and none of a cash-out.
CrashSettlementIsBacked ==
  \A r \in Rounds :
    /\ \A i \in DOMAIN settle[r].ops :
         /\ Finalized(r, i) => effect[r][i] = "applied"
         /\ effect[r][i] # "none" => \A j \in 1..(i - 1) : Finalized(r, j)
    /\ (settle[r].status = "SETTLED") = (round[r].settlement = "SETTLED")
    /\ settle[r].status = "SETTLED" =>
         /\ settle[r].count = Len(settle[r].ops)
         /\ forfeited[r] = IF IsBust(r) THEN intents[r] ELSE {}
    /\ settle[r].status # "SETTLED" => forfeited[r] = {}
=============================================================================
