------------------------------ MODULE CrashHistory ------------------------------
(***************************************************************************)
(* The private receipt of a crash round and the page that shows it         *)
(* (crash/crash-history.service.ts, the verification in                    *)
(* crash-settlement.service.ts, games/crash-history-client.ts).            *)
(*                                                                         *)
(* A receipt reads the round first and its intents and settlement later.   *)
(* The ledger only grows, so the round as it was read is the round of some *)
(* earlier version v.  Failure codes, hashes and timestamps are left out.  *)
(***************************************************************************)
EXTENDS CrashSettlement

(***************************************************************************)
(* findFixtureSettlement.                                                  *)
(***************************************************************************)
\* assertOperationEvidence
OperationEvidence(o) ==
  \/ o.status = "FINALIZED" /\ o.mode = "NONE" /\ o.signed
  \/ o.status = "PREPARED" /\ o.mode = "NONE" /\ ~o.signed
  \/ o.status = "RECOVERY_REQUIRED" /\ (o.mode = "RECONCILE_ONLY" \/ (o.mode = "RETRYABLE" /\ ~o.signed))

\* verifiedPublicRecoveryReason
Recovering(r) == {i \in DOMAIN settle[r].ops : settle[r].ops[i].status = "RECOVERY_REQUIRED"}
RecoveryIsUnambiguous(r) ==
  Cardinality(Recovering(r)) = IF settle[r].status = "RECOVERY_REQUIRED" THEN 1 ELSE 0

\* assertVerifiedSettlement
SettlementVerified(r) ==
  LET ops == settle[r].ops
      plan == PlanOperations(r) IN
  /\ AssetsVerified(r) /\ Len(ops) = Len(plan)
  /\ \A i \in DOMAIN ops : ops[i].kind = plan[i].kind /\ ops[i].stage = plan[i].stage /\ OperationEvidence(ops[i])
  /\ settle[r].count = Cardinality({i \in DOMAIN ops : Finalized(r, i)})
  /\ round[r].settlement = settle[r].status
  /\ RecoveryIsUnambiguous(r)
  /\ settle[r].status = "SETTLED" => settle[r].count = Len(ops)
FindFixtureSettlement(r) ==
  IF settle[r].status = "NONE" THEN round[r].status = "ACTIVE" ELSE SettlementVerified(r)

(***************************************************************************)
(* getReceipt.                                                             *)
(***************************************************************************)
\* Mutant: the settlement that is missing from an ended round, or has begun on one that
\* was still active when it was read, is not looked at.
MetadataIgnoresSettlement(r, v) == TRUE

\* assertReceiptMetadata
ReceiptMetadata(r, v) == (crashLog[r][v].status # "ACTIVE") = (settle[r].status # "NONE")

\* assertReceiptCustodyEvidence: one prepared intent for each outcome of the ledger.
ReceiptCustodyEvidence(r, v) == {crashLog[r][i].asset : i \in 1..v} \ {0} = intents[r]

ReceiptAvailable(r, v) ==
  FindFixtureSettlement(r) /\ ReceiptMetadata(r, v) /\ ReceiptCustodyEvidence(r, v)

SettlementStatus(r, v) ==
  IF settle[r].status # "NONE" THEN settle[r].status
  ELSE IF crashLog[r][v].status = "ACTIVE" THEN "NOT_REQUIRED" ELSE "PENDING"

ResolutionStatus(r, v) ==
  LET status == crashLog[r][v].status
      settlement == SettlementStatus(r, v)
      first == CHOOSE i \in Recovering(r) : \A j \in Recovering(r) : i <= j IN
  CASE status = "ACTIVE" -> "active"
    [] status # "ACTIVE" /\ settlement = "PENDING" -> "recovering"
    [] status # "ACTIVE" /\ settlement = "RECOVERY_REQUIRED" ->
         IF Recovering(r) = {} THEN "recovering"
         ELSE [RECONCILE_ONLY |-> "disputed", RETRYABLE |-> "failed"][settle[r].ops[first].mode]
    [] status = "BUSTED" /\ settlement = "SETTLED" -> "bust"
    [] status = "DEFAULTED" /\ settlement = "SETTLED" -> "timed-out"
    [] OTHER -> "cash-out"

SafeNextAction(r, v) ==
  IF crashLog[r][v].status = "ACTIVE" THEN "choose-action"
  ELSE [PENDING |-> "wait-for-settlement", RECOVERY_REQUIRED |-> "retry-settlement",
        SETTLED |-> "review-receipt"][SettlementStatus(r, v)]

\* custodyState: intents are PREPARED, so only their number counts.
CustodyState(r, v) ==
  IF intents[r] # {} \/ SettlementStatus(r, v) = "SETTLED" THEN "prepared" ELSE "not-started"

\* transitionEvent, custodyEvent and settlementEvent: one event for each row.
ReceiptEvents(r, v) ==
  {<<"transition", crashLog[r][i].kind, i>> : i \in 1..v}
    \cup {<<"custody", "PREPARED", s>> : s \in intents[r]}
    \cup {<<"settlement", settle[r].ops[i].status, i>> : i \in DOMAIN settle[r].ops}

\* isResolution of the page.
ClientAcceptsResolution(value, status, settlement) ==
  CASE value = "active" -> status = "ACTIVE" /\ settlement = "NOT_REQUIRED"
    [] value = "recovering" -> status # "ACTIVE" /\ settlement \in {"PENDING", "RECOVERY_REQUIRED"}
    [] value \in {"disputed", "failed"} -> status # "ACTIVE" /\ settlement = "RECOVERY_REQUIRED"
    [] value = "bust" -> status = "BUSTED" /\ settlement = "SETTLED"
    [] value = "timed-out" -> status = "DEFAULTED" /\ settlement = "SETTLED"
    [] value = "cash-out" -> status \in {"CASHED_OUT", "COMPLETED"} /\ settlement = "SETTLED"
    [] OTHER -> FALSE

(***************************************************************************)
(* Properties.                                                             *)
(***************************************************************************)
\* Whatever settles, dies or is late between the two reads, a receipt that is served is
\* understood by the page and tells what happened to the money: an active round has moved
\* none, even if the receipt is stale; a resolved one has had every operation of its plan
\* carried out, with an event each; and the operation a disputed or failed one waits for is
\* the first that is not final.
CrashReceiptIsBacked ==
  \A r \in Rounds : \A v \in DOMAIN crashLog[r] :
    LET value == ResolutionStatus(r, v)
        done == {i \in DOMAIN settle[r].ops : effect[r][i] = "applied"} IN
    ReceiptAvailable(r, v) =>
      /\ ClientAcceptsResolution(value, crashLog[r][v].status, SettlementStatus(r, v))
      /\ value = "active" =>
           /\ \A i \in 1..MaxOperations : effect[r][i] = "none"
           /\ SafeNextAction(r, v) = "choose-action"
      /\ value \in {"bust", "timed-out", "cash-out"} =>
           /\ done = DOMAIN settle[r].ops
           /\ \A i \in done : <<"settlement", "FINALIZED", i>> \in ReceiptEvents(r, v)
           /\ Cardinality({e \in ReceiptEvents(r, v) : e[1] = "custody"}) * 3 <= Cardinality(done)
           /\ CustodyState(r, v) = "prepared"
      /\ value \in {"disputed", "failed"} =>
           \A i \in Recovering(r), j \in DOMAIN settle[r].ops : j < i => Finalized(r, j)

\* The receipt of a round can be read as soon as its settlement is planned, in recovery
\* and after it: the tests of the history service show one for every status.
PlannedSettlementIsReadable ==
  \A r \in Rounds : settle[r].status # "NONE" => ReceiptAvailable(r, Len(crashLog[r]))
=============================================================================
